--------------------------- MODULE LineageDecoder ---------------------------
(***************************************************************************)
(* The offline decoders of a copied native-scope snapshot: the lineage and *)
(* row journals, the contents revision, the operation journal, the         *)
(* renderer's frontier and the native scopes, each a layer that may only   *)
(* narrow what the one below accepted.  Pure operators over a snapshot s   *)
(* with the fields ledger, rows, ops (journals), clock, scopes and active. *)
(***************************************************************************)
EXTENDS Journal, SequencesExt, FiniteSets

ExpectedKinds == <<"FILL_BEGIN", "FILL_RETURN", "POST_TARGET", "BIND_BEGIN",
                   "BIND_RETURN", "NORMAL_END">>

\* How far the revision has moved past its start at each expected event.
ExpectedSteps == <<0, 1, 1, 2, 3, 3>>

\* Who may be whose parent.
ParentKinds == [BORROW |-> {"RENDER", "INITIAL"}, QUERY |-> {"BORROW"},
                PRODUCER |-> {"QUERY"}]

ReceiptOK(log, i) ==
    LET r == log[i] IN
    IF r.kind \in {"RENDER", "INITIAL"}
    THEN r.origin = i /\ r.parent = 0
    ELSE /\ r.parent \in 1 .. i - 1
         /\ log[r.parent].kind \in ParentKinds[r.kind]
         /\ r.origin = log[r.parent].origin

\* Stamps lie on the right kinds, mirror each other and are not from the future.
StampsOK(s) ==
    LET log == s.ledger.log IN
    /\ s.clock # FAULT
    /\ \A i \in DOMAIN log :
          /\ (log[i].revision # 0) => log[i].kind = "PRODUCER"
          /\ (log[i].entry # 0) => log[i].kind = "RENDER"
          /\ log[i].revision <= s.clock /\ log[i].entry <= s.clock
          /\ log[i].kind = "PRODUCER" => log[log[i].origin].entry <= log[i].revision
    /\ \A e \in Range(s.rows.log) : e.revision = log[e.producer].revision

\* Every operation event names a borrow, and no later revision than the clock.
EventsOK(s) ==
    \A e \in Range(s.ops.log) :
        /\ e.revision <= s.clock
        /\ e.borrow \in DOMAIN s.ledger.log
        /\ s.ledger.log[e.borrow].kind = "BORROW"
        /\ s.ledger.log[s.ledger.log[e.borrow].origin].entry <= e.revision

\* decode raises on anything else.
Decodable(s) ==
    /\ Readable(s.ledger) /\ Readable(s.rows) /\ Readable(s.ops)
    /\ \A i \in DOMAIN s.ledger.log : ReceiptOK(s.ledger.log, i)
    /\ StampsOK(s)
    /\ EventsOK(s)

\* The records at the given places, in the order of the journal.  Not by
\* SelectSeq, whose recursion nothing can be proved about.
InOrder(log, places) ==
    [n \in 1 .. Cardinality(places) |->
        log[CHOOSE i \in places : Cardinality(places \cap 1 .. i) = n]]

EventsOf(s, p) == InOrder(s.rows.log, {i \in DOMAIN s.rows.log : s.rows.log[i].producer = p})

\* The rows of a producer, then SQL done, statement reset and its end.
WindowComplete(s, p) ==
    LET es == EventsOf(s, p)
        n  == Len(es) - 3
    IN  /\ n >= 0
        /\ \A i \in 1 .. n : /\ es[i].kind = "ROW"
                             /\ es[i].ordinal = i - 1
                             /\ es[i].count = i
        /\ <<es[n + 1].kind, es[n + 2].kind, es[n + 3].kind>>
              = <<"TERMINAL", "RESET", "END">>
        /\ \A i \in n + 1 .. n + 3 :
              es[i].ok /\ es[i].ordinal = n /\ es[i].count = n

OperationOf(s, b) == InOrder(s.ops.log, {i \in DOMAIN s.ops.log : s.ops.log[i].borrow = b})

ChildrenOf(s, kind, parents) ==
    {i \in DOMAIN s.ledger.log :
        s.ledger.log[i].kind = kind /\ s.ledger.log[i].parent \in parents}

(* Mutant: the revision of the events is not looked at. *)
OperationCompleteTimelessly(s, b) ==
    LET es == OperationOf(s, b)
        qs == ChildrenOf(s, "QUERY", {b})
        ps == ChildrenOf(s, "PRODUCER", qs)
    IN  /\ [i \in DOMAIN es |-> es[i].kind] = ExpectedKinds
        /\ \A e \in Range(es) : e.ok
        /\ Cardinality(qs) = 1 /\ Cardinality(ps) = 1
        /\ \A p \in ps : WindowComplete(s, p)

\* The callbacks of one borrow in their order, around one complete window,
\* with no step of the revision that is not theirs.
OperationComplete(s, b) ==
    LET es  == OperationOf(s, b)
        qs  == ChildrenOf(s, "QUERY", {b})
        ps  == ChildrenOf(s, "PRODUCER", qs)
    IN  /\ [i \in DOMAIN es |-> es[i].kind] = ExpectedKinds
        /\ \A e \in Range(es) : e.ok
        /\ \A i \in DOMAIN es : es[i].revision = es[1].revision + ExpectedSteps[i]
        /\ Cardinality(qs) = 1 /\ Cardinality(ps) = 1
        /\ \A p \in ps : /\ WindowComplete(s, p)
                         /\ s.ledger.log[p].revision = es[1].revision + 1

\* The operation began in the revision its renderer entered with.
FrontierMatches(s, b) ==
    LET origin == s.ledger.log[s.ledger.log[b].origin] IN
    /\ origin.kind = "RENDER"
    /\ origin.entry > 0
    /\ origin.entry = OperationOf(s, b)[1].revision

\* No scope is open, closing or unpublished, and the count agrees.
ScopeQuiet(s) ==
    s.active = 0 /\ \A c \in Range(s.scopes.log) : c.status = "CLOSED"

\* What the uppermost decoder calls a complete observation of borrow b.
Complete(s, b) ==
    /\ Decodable(s)
    /\ ~s.scopes.fault
    /\ b \in DOMAIN s.ledger.log /\ s.ledger.log[b].kind = "BORROW"
    /\ OperationComplete(s, b)
    /\ FrontierMatches(s, b)
    /\ ScopeQuiet(s)
=============================================================================
