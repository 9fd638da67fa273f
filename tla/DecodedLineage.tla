--------------------------- MODULE DecodedLineage ---------------------------
(***************************************************************************)
(* What a decoder may conclude from a coherent copy of the shared words of *)
(* ScopedLineage.                                                          *)
(***************************************************************************)
EXTENDS ScopedLineage, LineageDecoder

LineageSnapshot == [ledger |-> ledger, rows |-> rows, ops |-> ops, clock |-> contents,
                    scopes |-> scopeLog, active |-> active]

\* A borrow that decodes as complete was filled, from the entry of its renderer
\* to the last event of its operation, while no reset or reconcile ran inside
\* its scope and no other instrumented boundary was crossed.
CompleteIsUndisturbed == \A b \in disturbed : ~Complete(LineageSnapshot, b)

\* The issued-and-active word counts exactly the routines that have begun and
\* not ended: the count never runs ahead of, or behind, the stock code.
ActiveCountsScopes ==
    ~scopeLog.fault =>
        active = Cardinality({s \in Scopers : scoper[s].at # "idle"})

\* No store of any hook takes back a fault or a published record.
HistoryIsFinal ==
    [][/\ Extends(ledger, ledger') /\ Extends(rows, rows') /\ Extends(ops, ops')
       /\ scopeLog.fault => scopeLog'.fault
       /\ contents = FAULT => contents' = FAULT]_lineageVars

\* The scopes quieten down for good, unless their word has faulted.
ScopesDrain == <>[](scopeLog.fault \/ ScopeQuiet(LineageSnapshot))
=============================================================================
