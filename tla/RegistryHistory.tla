-------------------------- MODULE RegistryHistory --------------------------
(***************************************************************************)
(* The three append-only tables of the native registry observation, seen   *)
(* as values: the history of births and retirements, the receipts of       *)
(* registrations and the bindings of receipts to paint owners.  All three  *)
(* are written only by a thread that holds the registry mutex.  A row      *)
(* carries, besides the words of the code, the incarnation of the native   *)
(* node it describes ("inc"), which no word of the code tells.             *)
(***************************************************************************)
EXTENDS Integers, Sequences, FiniteSets

CONSTANTS HistoryCapacity,   \* rows of the history (lifecycle_capacity)
          Capacity           \* rows of the receipts and of the bindings (capacity)

ASSUME HistoryAssumption == HistoryCapacity \in Nat \ {0} /\ Capacity \in Nat \ {0}

EmptyHistory == [log |-> <<>>, fault |-> FALSE]

\* The rows of a node that no retirement has been observed for.
Outstanding(h, node) ==
  {i \in DOMAIN h.log : h.log[i].node = node /\ h.log[i].state = "NO_RETIREMENT_OBSERVED"}

Latched(h) == [h EXCEPT !.fault = TRUE]

\* A birth at the address of an outstanding row, and a birth beyond the last
\* row, end the history: its fault is never cleared.
ObserveBirth(h, event) ==
  IF h.fault THEN h
  ELSE IF Outstanding(h, event.node) # {} \/ Len(h.log) = HistoryCapacity THEN Latched(h)
  ELSE [h EXCEPT !.log = Append(@, [node |-> event.node, engine |-> event.engine,
                                    inc |-> event.inc, retired |-> 0,
                                    state |-> "NO_RETIREMENT_OBSERVED"])]

\* A retirement needs the one outstanding row of its node, with its engine.
ObserveRetirement(h, event) ==
  LET rows == Outstanding(h, event.node)
      row  == CHOOSE i \in rows : TRUE
  IN  IF h.fault THEN h
      ELSE IF Cardinality(rows) # 1 \/ h.log[row].engine # event.engine THEN Latched(h)
      ELSE [h EXCEPT !.log[row] = [@ EXCEPT !.state = "RETIREMENT_SELECTED",
                                            !.retired = event.inc]]

\* The token that the commit of a birth hands out; zero when nothing was written.
Token(before, after) == IF Len(after.log) > Len(before.log) THEN Len(after.log) ELSE 0

NoBindings == [log |-> <<>>, quarantine |-> FALSE]

\* The issuer is asked only by a receipt that gets a row, and only for a
\* receipt later than the last bound one.
LastReceipt(b) == IF b.log = <<>> THEN 0 ELSE b.log[Len(b.log)].receipt
Issues(b, receipt) ==
  receipt <= Capacity /\ receipt > LastReceipt(b) /\ ~b.quarantine /\ Len(b.log) < Capacity

Bind(b, event, receipt, owner) ==
  [b EXCEPT !.log = Append(@, [node |-> event.node, engine |-> event.engine,
                               inc |-> event.inc, owner |-> owner, receipt |-> receipt])]
Quarantine(b) == [b EXCEPT !.quarantine = TRUE]

\* A full receipt journal drops the receipt in silence.
Receive(r, event) == IF Len(r) < Capacity THEN Append(r, event.inc) ELSE r
=============================================================================
