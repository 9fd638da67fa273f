------------------------- MODULE PaintRetirement_proofs -------------------------
(****************************************************************************)
(* The emitted queue's safety for any threads, capacities and ticket limit. *)
(* No step of the argument uses the mutex beyond the atomicity of a body:   *)
(* what the threads carry outside it only ever becomes truer.               *)
(****************************************************************************)
EXTENDS PaintRefinement, FiniteSetTheorems, TLAPS

(* A retired owner that nothing refers to any more.                         *)
Gone(o) == o \in DOMAIN retired /\ retired[o] /\ ~Referenced(o)

(* The serial is in front of all tickets, and a row behind its owner.       *)
Ordered ==
    /\ \A o \in DOMAIN retired : o <= serial
    /\ \A n \in DOMAIN rows : n <= serial /\ rows[n] \in DOMAIN retired /\ rows[n] < n

(* The claim is marked once its owner is retired, and the head of the list  *)
(* as long as no removal of it ended in a fault.                            *)
ClaimHolds ==
    /\ active = 0 => ~cancelled /\ activeOwner = 0
    /\ active # 0 => /\ active <= serial
                     /\ activeOwner \in DOMAIN retired
                     /\ retired[activeOwner] => cancelled
                     /\ ~fault => Head(active) /\ rows[active] = activeOwner

(* Retirement leaves no row but the claimed one, unless it ended in a fault.*)
Purged == ~fault => \A n \in DOMAIN rows : retired[rows[n]] => n = active

(* What a thread is about to tell is true until it has told it.             *)
RepliesHold ==
    \A t \in Threads :
        /\ reply[t].about = "drained" => Gone(reply[t].ticket)
        /\ reply[t].about = "claim" => reply[t].ticket # 0
        /\ pc[t] # "release" => reply[t] = Silent
        /\ pc[t] = "latch" => failed

DrainedGone == \A o \in drained : Gone(o)

IInv ==
    /\ TypeOK
    /\ Ordered
    /\ ClaimHolds
    /\ Purged
    /\ RepliesHold
    /\ DrainedGone
    /\ FaultsHaveCause
    /\ LostClaimsAreFaults

-------------------------------------------------------------------------------

(* Subsets of the issued tickets are finite and their sizes compare.        *)
LEMMA TicketSets ==
    ASSUME NEW T \in SUBSET Tickets, NEW S \in SUBSET T
    PROVE  /\ IsFiniteSet(T) /\ IsFiniteSet(S)
           /\ Cardinality(T) \in Nat /\ Cardinality(S) \in Nat
           /\ Cardinality(S) <= Cardinality(T)
<1>1. IsFiniteSet(Tickets)
  <2>1. 1 \in Int /\ TicketLimit \in Int
    BY TicketAssumption
  <2> QED
    BY <2>1, FS_Interval DEF Tickets
<1>2. IsFiniteSet(T)
  BY <1>1, FS_Subset
<1> QED
  BY <1>2, FS_Subset, FS_CardinalityType

(* A table that is not full has room for one more ticket.                   *)
LEMMA TicketAdded ==
    ASSUME NEW T \in SUBSET Tickets, NEW t, NEW n \in Nat,
           Cardinality(T) <= n, Cardinality(T) # n
    PROVE  Cardinality(T \cup {t}) <= n
<1>1. IsFiniteSet(T) /\ Cardinality(T) \in Nat
  BY TicketSets
<1>2. Cardinality(T \cup {t}) = IF t \in T THEN Cardinality(T) ELSE Cardinality(T) + 1
  BY <1>1, FS_AddElement
<1> QED
  BY <1>1, <1>2

(* The checks an entry makes of its own words never fire, and those of the  *)
(* list fire only after a fault.                                            *)
LEMMA ChecksPass ==
    ASSUME IInv
    PROVE  /\ Consistent
           /\ ListFits
           /\ ~fault => ActiveBound /\ ListSound
           /\ ~fault /\ active = 0 => Claimable
<1> USE DEF IInv, TypeOK, WordsOK
<1>1. ListFits
  BY DEF ListFits
<1>2. \A n \in DOMAIN rows : Selected(n)
  BY DEF Selected, Ordered
<1>3. Consistent
  BY TicketAssumption DEF Consistent, Ordered, ClaimHolds
<1>4. ~fault => ActiveBound
  BY <1>2 DEF ActiveBound, ClaimHolds, Head
<1>5. ~fault /\ active = 0 => Claimable
  BY <1>1, <1>2 DEF Claimable, Head, Purged, Tickets
<1> QED
  BY <1>1, <1>2, <1>3, <1>4, <1>5 DEF ListSound

(* A use of the list that faults has a cause: the list, or an earlier fault.*)
LEMMA FaultCaused ==
    ASSUME IInv, NEW t \in Threads, NEW sound \in BOOLEAN, ~fault => sound,
           ListFaults(t, sound)
    PROVE  Fault(t) /\ failed' = TRUE
BY DEF ListFaults, IInv, TypeOK, HistoryOK, FaultsHaveCause

LEMMA InitInvariant == Init => IInv
<1> SUFFICES ASSUME Init PROVE IInv
  OBVIOUS
<1>1. /\ DOMAIN retired = {} /\ DOMAIN rows = {} /\ DOMAIN outcome = {}
      /\ Cardinality({}) = 0
  BY FS_EmptySet DEF Init
<1>2. WordsOK
  <2>1. retired \in [DOMAIN retired -> BOOLEAN] /\ rows \in [DOMAIN rows -> Tickets]
    BY DEF Init
  <2>2. Cardinality(DOMAIN retired) <= OwnerCapacity /\ Cardinality(DOMAIN rows) <= Capacity
    BY <1>1, CapacityAssumption
  <2>3. /\ serial \in 0 .. TicketLimit /\ active \in 0 .. TicketLimit
        /\ activeOwner \in 0 .. TicketLimit
    BY TicketAssumption DEF Init
  <2> QED
    BY <1>1, <2>1, <2>2, <2>3 DEF Init, WordsOK
<1>3. CallsOK
  BY TicketAssumption DEF Init, CallsOK, Silent, Replies
<1>4. HistoryOK
  BY <1>1 DEF Init, HistoryOK
<1>5. Ordered /\ ClaimHolds /\ Purged /\ DrainedGone /\ FaultsHaveCause /\ LostClaimsAreFaults
  BY <1>1 DEF Init, Ordered, ClaimHolds, Purged, DrainedGone, FaultsHaveCause, LostClaimsAreFaults
<1>6. RepliesHold
  BY DEF Init, RepliesHold, Silent
<1> QED
  BY <1>2, <1>3, <1>4, <1>5, <1>6 DEF IInv, TypeOK
-------------------------------------------------------------------------------

(* What keeps a retired owner unreferenced.                                 *)
LEMMA GoneStays ==
    ASSUME NEW o, Gone(o),
           DOMAIN retired \subseteq DOMAIN retired',
           \A p \in DOMAIN retired : retired[p] => retired'[p],
           \A n \in DOMAIN rows' : rows'[n] = o => n \in DOMAIN rows /\ rows[n] = o,
           activeOwner' = o => activeOwner = o
    PROVE  Gone(o)'
BY DEF Gone, Referenced

(* A body that keeps the words in order and answers with what is true keeps *)
(* the invariant.                                                           *)
LEMMA BodyStep ==
    ASSUME IInv, NEW t \in Threads, Holds(t),
           NEW r \in Replies, reply' = [reply EXCEPT ![t] = r],
           r.about = "drained" => Gone(r.ticket)',
           r.about = "claim" => r.ticket # 0,
           WordsOK', Ordered', ClaimHolds', Purged',
           \A o : Gone(o) => Gone(o)',
           DOMAIN outcome' \subseteq Tickets, outcome' \in [DOMAIN outcome' -> 1 .. 3],
           failed' \in BOOLEAN, fault => fault', fault' => failed', failed => failed',
           active' \in {0, active} \/ r = [about |-> "claim", ticket |-> active']
    PROVE  IInv'
<1> USE DEF IInv, TypeOK, Holds, history
<1>1. CallsOK'
  BY DEF CallsOK
<1>2. HistoryOK'
  BY DEF HistoryOK
<1>3. \A s \in Threads : reply'[s] = IF s = t THEN r ELSE reply[s]
  BY DEF CallsOK
<1>4. \A s \in Threads : pc'[s] = IF s = t THEN "release" ELSE pc[s]
  BY DEF CallsOK
<1>5. RepliesHold'
  BY <1>3, <1>4 DEF RepliesHold
<1>6. DrainedGone'
  BY DEF DrainedGone
<1>7. reply[t] = Silent
  BY DEF RepliesHold
<1>8. LostClaimsAreFaults'
  <2>1. CASE r = [about |-> "claim", ticket |-> active']
    BY <1>3, <2>1 DEF LostClaimsAreFaults, Told
  <2>2. CASE active' = active
    BY <1>3, <1>4, <1>7, <2>2 DEF LostClaimsAreFaults, Told, Silent
  <2>3. CASE active' = 0
    BY <2>3 DEF LostClaimsAreFaults
  <2> QED
    BY <2>1, <2>2, <2>3
<1> QED
  BY <1>1, <1>2, <1>5, <1>6, <1>8 DEF FaultsHaveCause

LEMMA SilentReply == Silent \in Replies /\ Silent.about = "nothing"
BY TicketAssumption DEF Silent, Replies

(* Rows may leave the list.                                                 *)
LEMMA RowsLeave ==
    ASSUME IInv, NEW K, rows' = Without(rows, K)
    PROVE  /\ rows' \in [DOMAIN rows' -> Tickets]
           /\ DOMAIN rows' \subseteq Tickets
           /\ Cardinality(DOMAIN rows') <= Capacity
           /\ DOMAIN rows' = DOMAIN rows \ K
           /\ \A n \in DOMAIN rows' : rows'[n] = rows[n]
<1> USE DEF IInv, TypeOK, WordsOK
<1>1. /\ DOMAIN rows' = DOMAIN rows \ K
      /\ rows' \in [DOMAIN rows' -> Tickets]
      /\ \A n \in DOMAIN rows \ K : rows'[n] = rows[n]
  <2>1. rows \in [DOMAIN rows -> Tickets]
    OBVIOUS
  <2> QED
    BY <2>1 DEF Without
<1>2. /\ Cardinality(DOMAIN rows') <= Cardinality(DOMAIN rows)
      /\ Cardinality(DOMAIN rows') \in Nat /\ Cardinality(DOMAIN rows) \in Nat
  BY <1>1, TicketSets
<1> QED
  BY <1>1, <1>2, CapacityAssumption

LEMMA NoneLeave ==
    ASSUME IInv
    PROVE  rows = Without(rows, {})
BY DEF IInv, TypeOK, WordsOK, Without

(* Every fault exit with a cause: owners may have been retired, rows        *)
(* removed, a ticket burnt, and a row put under it for a living owner.      *)
LEMMA FaultStep ==
    ASSUME IInv, NEW t \in Threads, Holds(t), Fault(t), failed' = TRUE,
           rows' \in [DOMAIN rows' -> Tickets],
           DOMAIN rows' \subseteq Tickets,
           Cardinality(DOMAIN rows') <= Capacity,
           \A n \in DOMAIN rows' :
              \/ n \in DOMAIN rows /\ rows'[n] = rows[n]
              \/ /\ n = serial + 1 /\ serial' = serial + 1
                 /\ rows'[n] \in DOMAIN retired /\ ~retired[rows'[n]],
           serial' \in {serial, serial + 1}, serial' <= TicketLimit,
           DOMAIN retired' = DOMAIN retired,
           retired' \in [DOMAIN retired -> BOOLEAN],
           \A p \in DOMAIN retired : retired[p] => retired'[p]
    PROVE  IInv'
<1> USE DEF IInv
<1>1. /\ fault' = TRUE
      /\ cancelled' = (cancelled \/ active # 0)
      /\ reply' = [reply EXCEPT ![t] = Silent]
      /\ UNCHANGED <<closed, active, activeOwner, outcome>>
  BY DEF Fault
<1>2. WordsOK'
  <2>1. serial' \in 0 .. TicketLimit
    BY TicketAssumption DEF TypeOK, WordsOK
  <2> QED
    BY <1>1, <2>1 DEF TypeOK, WordsOK
<1>3. Ordered'
  <2>1. serial \in Nat /\ serial <= serial'
    BY TicketAssumption DEF TypeOK, WordsOK
  <2>2. \A o \in DOMAIN retired : o \in Nat /\ o <= serial
    BY DEF TypeOK, WordsOK, Tickets, Ordered
  <2>3. \A o \in DOMAIN retired' : o <= serial'
    BY <2>1, <2>2
  <2>4. ASSUME NEW n \in DOMAIN rows'
        PROVE  n <= serial' /\ rows'[n] \in DOMAIN retired' /\ rows'[n] < n
    <3>1. CASE n \in DOMAIN rows /\ rows'[n] = rows[n]
      <4>1. n \in Nat /\ n <= serial /\ rows[n] \in DOMAIN retired /\ rows[n] < n
        BY <3>1 DEF TypeOK, WordsOK, Tickets, Ordered
      <4> QED
        BY <2>1, <3>1, <4>1
    <3>2. CASE n = serial + 1 /\ serial' = serial + 1 /\ rows'[n] \in DOMAIN retired
      <4>1. rows'[n] \in Nat /\ rows'[n] <= serial
        BY <2>2, <3>2
      <4> QED
        BY <2>1, <3>2, <4>1
    <3> QED
      BY <3>1, <3>2
  <2> QED
    BY <2>3, <2>4 DEF Ordered
<1>4. ClaimHolds'
  <2>1. CASE active = 0
    BY <1>1, <2>1 DEF ClaimHolds
  <2>2. CASE active # 0
    <3>1. active \in Nat /\ serial \in Nat /\ active <= serial
      BY <2>2, TicketAssumption DEF ClaimHolds, TypeOK, WordsOK
    <3>2. active' <= serial'
      BY <1>1, <3>1
    <3> QED
      BY <1>1, <2>2, <3>2 DEF ClaimHolds
  <2> QED
    BY <2>1, <2>2
<1>5. Purged'
  BY <1>1 DEF Purged
<1>6. \A o : Gone(o) => Gone(o)'
  <2>1. ASSUME NEW o, Gone(o), NEW n \in DOMAIN rows', rows'[n] = o
        PROVE  n \in DOMAIN rows /\ rows[n] = o
    BY <2>1 DEF Gone
  <2> QED
    BY <1>1, <2>1, GoneStays
<1> QED
  BY <1>1, <1>2, <1>3, <1>4, <1>5, <1>6, SilentReply, BodyStep DEF TypeOK, HistoryOK

(* A fault exit that touches no table.                                      *)
LEMMA PlainFault ==
    ASSUME IInv, NEW t \in Threads, Holds(t), Fault(t), failed' = TRUE,
           UNCHANGED <<retired, rows>>,
           serial' \in {serial, serial + 1}, serial' <= TicketLimit
    PROVE  IInv'
BY FaultStep DEF IInv, TypeOK, WordsOK

(* A body that touches none of the words.                                   *)
LEMMA QuietBody ==
    ASSUME IInv, NEW t \in Threads, Holds(t), UNCHANGED <<words, failed, outcome>>,
           NEW r \in Replies, reply' = [reply EXCEPT ![t] = r],
           r.about = "drained" => Gone(r.ticket),
           r.about = "claim" => r.ticket # 0
    PROVE  IInv'
<1> USE DEF IInv, TypeOK, words
<1>1. WordsOK' /\ Ordered' /\ ClaimHolds' /\ Purged'
  BY DEF WordsOK, Ordered, ClaimHolds, Head, Purged
<1>2. \A o : Gone(o) => Gone(o)'
  BY DEF Gone, Referenced
<1> QED
  BY <1>1, <1>2, BodyStep DEF HistoryOK, FaultsHaveCause

LEMMA DeniedKeeps ==
    ASSUME IInv, NEW t \in Threads, Denied(t)
    PROVE  IInv'
<1>1. Consistent
  BY ChecksPass
<1>2. UNCHANGED <<words, failed, outcome>>
  BY <1>1 DEF Denied, words, IInv, TypeOK, WordsOK
<1> QED
  BY <1>2, SilentReply, QuietBody DEF Denied

(* A ticket that minting hands out is new.                                  *)
LEMMA NextTicket ==
    ASSUME IInv, serial # TicketLimit
    PROVE  /\ serial + 1 \in Tickets /\ serial + 1 \in 0 .. TicketLimit
           /\ \A o \in DOMAIN retired : o <= serial + 1 /\ o # serial + 1 /\ o < serial + 1
           /\ \A n \in DOMAIN rows : n <= serial + 1 /\ n # serial + 1
           /\ active # serial + 1 /\ activeOwner # serial + 1
<1> USE TicketAssumption DEF IInv, TypeOK, WordsOK, Tickets
<1>1. serial + 1 \in 1 .. TicketLimit /\ serial + 1 \in 0 .. TicketLimit
  OBVIOUS
<1>2. \A o \in DOMAIN retired : o <= serial + 1 /\ o # serial + 1 /\ o < serial + 1
  BY DEF Ordered
<1>3. \A n \in DOMAIN rows : n <= serial + 1 /\ n # serial + 1
  BY DEF Ordered
<1>4. active # 0 => active <= serial /\ activeOwner \in DOMAIN retired
  BY DEF ClaimHolds
<1> QED
  BY <1>1, <1>2, <1>3, <1>4 DEF ClaimHolds

(* What a row does to the list it is appended to.                           *)
LEMMA RowJoins ==
    ASSUME IInv, serial # TicketLimit, ~Full(rows, Capacity),
           NEW o \in DOMAIN retired, rows' = With(rows, serial + 1, o)
    PROVE  /\ DOMAIN rows' = DOMAIN rows \cup {serial + 1}
           /\ rows' \in [DOMAIN rows' -> Tickets]
           /\ rows'[serial + 1] = o
           /\ \A m \in DOMAIN rows : rows'[m] = rows[m]
           /\ Cardinality(DOMAIN rows') <= Capacity
<1> DEFINE n == serial + 1
<1>1. o \in Tickets /\ n \notin DOMAIN rows
  BY NextTicket DEF IInv, TypeOK, WordsOK
<1>2. rows' = With(rows, n, o)
  OBVIOUS
<1> HIDE DEF n
<1>3. rows \in [DOMAIN rows -> Tickets]
  BY DEF IInv, TypeOK, WordsOK
<1>4. /\ DOMAIN With(rows, n, o) = DOMAIN rows \cup {n}
      /\ With(rows, n, o) \in [DOMAIN With(rows, n, o) -> Tickets]
      /\ With(rows, n, o)[n] = o
      /\ \A m \in DOMAIN rows \ {n} : With(rows, n, o)[m] = rows[m]
  BY <1>1, <1>3 DEF With
<1>5. Cardinality(DOMAIN rows \cup {n}) <= Capacity
  <2>1. DOMAIN rows \in SUBSET Tickets /\ Cardinality(DOMAIN rows) <= Capacity
    BY DEF IInv, TypeOK, WordsOK
  <2> QED
    BY <2>1, TicketAdded, CapacityAssumption DEF Full
<1>6. /\ DOMAIN rows' = DOMAIN rows \cup {n}
      /\ rows' \in [DOMAIN rows' -> Tickets]
      /\ rows'[n] = o
      /\ \A m \in DOMAIN rows : rows'[m] = rows[m]
      /\ Cardinality(DOMAIN rows') <= Capacity
  BY <1>1, <1>2, <1>4, <1>5
<1> QED
  BY <1>6 DEF n

LEMMA ExhaustedKeeps ==
    ASSUME IInv, NEW t \in Threads, Holds(t), Exhausted(t)
    PROVE  IInv'
<1>1. Fault(t) /\ failed' = TRUE /\ UNCHANGED <<retired, rows, serial>>
  BY DEF Exhausted, ListFaults, IInv, TypeOK, HistoryOK
<1>2. serial' \in {serial, serial + 1} /\ serial' <= TicketLimit
  BY <1>1, TicketAssumption DEF IInv, TypeOK, WordsOK
<1> QED
  BY <1>1, <1>2, PlainFault

LEMMA OpenOwnerKeeps ==
    ASSUME IInv, NEW t \in Threads, OpenOwner(t)
    PROVE  IInv'
<1> DEFINE o == serial + 1
<1>1. Holds(t) /\ ~Full(retired, OwnerCapacity)
  BY DEF OpenOwner, Body
<1>2. CASE Exhausted(t)
  BY <1>1, <1>2, ExhaustedKeeps
<1>3. CASE serial # TicketLimit /\ ~Exhausted(t)
  <2>1. /\ serial' = o
        /\ retired' = With(retired, o, FALSE)
        /\ reply' = [reply EXCEPT ![t] = Silent]
        /\ UNCHANGED <<rows, active, activeOwner, cancelled, closed, outcome, fault, failed>>
    BY <1>3 DEF OpenOwner, Served
  <2>2. /\ o \in Tickets /\ o \in 0 .. TicketLimit
        /\ \A p \in DOMAIN retired : p <= o /\ p # o
        /\ \A n \in DOMAIN rows : n <= o
    BY <1>3, NextTicket
  <2>3. /\ DOMAIN retired' = DOMAIN retired \cup {o}
        /\ retired' \in [DOMAIN retired' -> BOOLEAN]
        /\ retired'[o] = FALSE
        /\ \A p \in DOMAIN retired : retired'[p] = retired[p]
    <3> HIDE DEF o
    <3>1. retired \in [DOMAIN retired -> BOOLEAN] /\ o \notin DOMAIN retired
      BY <2>2 DEF IInv, TypeOK, WordsOK
    <3>2. /\ DOMAIN With(retired, o, FALSE) = DOMAIN retired \cup {o}
          /\ With(retired, o, FALSE) \in [DOMAIN With(retired, o, FALSE) -> BOOLEAN]
          /\ With(retired, o, FALSE)[o] = FALSE
          /\ \A p \in DOMAIN retired \ {o} : With(retired, o, FALSE)[p] = retired[p]
      BY <3>1 DEF With
    <3> QED
      BY <2>1, <3>1, <3>2
  <2>4. Cardinality(DOMAIN retired \cup {o}) <= OwnerCapacity
    <3>1. DOMAIN retired \in SUBSET Tickets /\ Cardinality(DOMAIN retired) <= OwnerCapacity
      BY DEF IInv, TypeOK, WordsOK
    <3> QED
      BY <1>1, <3>1, TicketAdded, CapacityAssumption DEF Full
  <2> HIDE DEF o
  <2>5. WordsOK'
    BY <2>1, <2>2, <2>3, <2>4 DEF IInv, TypeOK, WordsOK
  <2>6. Ordered'
    <3>1. o <= o
      BY <2>2 DEF Tickets
    <3> QED
      BY <2>1, <2>2, <2>3, <3>1 DEF IInv, Ordered
  <2>7. ClaimHolds'
    <3>1. active # 0 => active <= serial'
      <4>1. active \in Nat /\ serial \in Nat /\ serial <= serial'
        BY <2>1, TicketAssumption DEF IInv, TypeOK, WordsOK, o
      <4> QED
        BY <2>1, <2>2, <4>1 DEF IInv, ClaimHolds
    <3> QED
      BY <2>1, <2>3, <3>1 DEF IInv, ClaimHolds, Head
  <2>8. Purged'
    BY <2>1, <2>3 DEF IInv, Ordered, Purged
  <2>9. \A p : Gone(p) => Gone(p)'
    BY <2>1, <2>3 DEF Gone, Referenced
  <2> QED
    BY <1>1, <2>1, <2>5, <2>6, <2>7, <2>8, <2>9, SilentReply, BodyStep
       DEF IInv, TypeOK, HistoryOK, FaultsHaveCause
<1> QED
  BY <1>2, <1>3 DEF OpenOwner

LEMMA PublishKeeps ==
    ASSUME IInv, NEW t \in Threads, NEW o \in DOMAIN retired, Publish(t, o)
    PROVE  IInv'
<1> DEFINE n == serial + 1
<1>1. Holds(t) /\ UNCHANGED retired /\ ~retired[o] /\ ~fault
  BY DEF Publish, Body, Admits, Live
<1>2. CASE ListFaults(t, ListFits) /\ UNCHANGED <<rows, serial>>
  <2>1. Fault(t) /\ failed' = TRUE
    BY <1>2, ChecksPass, FaultCaused DEF ListFits
  <2>2. serial' \in {serial, serial + 1} /\ serial' <= TicketLimit
    BY <1>2, TicketAssumption DEF IInv, TypeOK, WordsOK
  <2> QED
    BY <1>1, <1>2, <2>1, <2>2, PlainFault
<1>3. CASE Exhausted(t)
  BY <1>1, <1>3, ExhaustedKeeps
<1>4. CASE /\ ~Full(rows, Capacity) /\ serial # TicketLimit /\ serial' = n
           /\ ListFaults(t, TRUE)
           /\ rows' \in {rows, With(rows, n, o)}
  <2>1. Fault(t) /\ failed' = TRUE
    BY <1>4, FaultCaused
  <2>2. serial' \in {serial, serial + 1} /\ serial' <= TicketLimit
    BY <1>4, TicketAssumption DEF IInv, TypeOK, WordsOK
  <2>3. CASE rows' = rows
    BY <1>1, <2>1, <2>2, <2>3, PlainFault
  <2>4. CASE rows' = With(rows, n, o)
    <3>1. /\ DOMAIN rows' = DOMAIN rows \cup {n}
          /\ rows' \in [DOMAIN rows' -> Tickets]
          /\ rows'[n] = o
          /\ \A m \in DOMAIN rows : rows'[m] = rows[m]
          /\ Cardinality(DOMAIN rows') <= Capacity
      BY <1>4, <2>4, RowJoins
    <3>2. DOMAIN rows' \subseteq Tickets
      BY <1>4, <3>1, NextTicket DEF IInv, TypeOK, WordsOK
    <3>3. /\ DOMAIN retired' = DOMAIN retired /\ retired' \in [DOMAIN retired -> BOOLEAN]
          /\ \A p \in DOMAIN retired : retired[p] => retired'[p]
      BY <1>1 DEF IInv, TypeOK, WordsOK
    <3>4. \A m \in DOMAIN rows' :
            \/ m \in DOMAIN rows /\ rows'[m] = rows[m]
            \/ /\ m = serial + 1 /\ serial' = serial + 1
               /\ rows'[m] \in DOMAIN retired /\ ~retired[rows'[m]]
      BY <1>1, <1>4, <3>1
    <3> QED
      BY <1>1, <2>1, <2>2, <3>1, <3>2, <3>3, <3>4, FaultStep
  <2> QED
    BY <1>4, <2>3, <2>4
<1>5. CASE /\ ~Full(rows, Capacity) /\ serial # TicketLimit /\ serial' = n
           /\ rows' = With(rows, n, o)
           /\ reply' = [reply EXCEPT ![t] = Silent]
           /\ Served
           /\ UNCHANGED <<active, activeOwner, cancelled, closed, outcome>>
  <2>1. /\ n \in Tickets /\ n \in 0 .. TicketLimit
        /\ \A p \in DOMAIN retired : p <= n /\ p < n
        /\ \A m \in DOMAIN rows : m <= n /\ m # n
        /\ active # n
    BY <1>5, NextTicket
  <2>3. /\ DOMAIN rows' = DOMAIN rows \cup {n}
        /\ rows' \in [DOMAIN rows' -> Tickets]
        /\ rows'[n] = o
        /\ \A m \in DOMAIN rows : rows'[m] = rows[m]
        /\ Cardinality(DOMAIN rows') <= Capacity
    BY <1>5, RowJoins
  <2> HIDE DEF n
  <2>5. WordsOK'
    BY <1>1, <1>5, <2>1, <2>3 DEF Served, IInv, TypeOK, WordsOK
  <2>6. Ordered'
    <3>1. n <= n
      BY <2>1 DEF Tickets
    <3> QED
      BY <1>1, <1>5, <2>1, <2>3, <3>1 DEF IInv, Ordered
  <2>7. ClaimHolds'
    <3>1. CASE active = 0
      BY <1>5, <3>1 DEF IInv, ClaimHolds
    <3>2. CASE active # 0
      <4>1. Head(active) /\ rows[active] = activeOwner
        BY <1>1, <3>2 DEF IInv, ClaimHolds
      <4>2. Head(active)' /\ rows'[active] = activeOwner
        BY <1>5, <2>1, <2>3, <4>1 DEF Head
      <4>3. active' <= serial'
        BY <1>5, <2>1, <4>1 DEF Head
      <4> QED
        BY <1>1, <1>5, <3>2, <4>2, <4>3 DEF IInv, ClaimHolds
    <3> QED
      BY <3>1, <3>2
  <2>8. Purged'
    BY <1>1, <1>5, <2>3 DEF IInv, Purged, Served
  <2>9. \A p : Gone(p) => Gone(p)'
    BY <1>1, <1>5, <2>3 DEF Gone, Referenced
  <2> QED
    BY <1>1, <1>5, <2>5, <2>6, <2>7, <2>8, <2>9, SilentReply, BodyStep
       DEF Served, IInv, TypeOK, HistoryOK, FaultsHaveCause
<1> QED
  BY <1>2, <1>3, <1>4, <1>5 DEF Publish

LEMMA ClaimKeeps ==
    ASSUME IInv, NEW t \in Threads, Claim(t)
    PROVE  IInv'
<1>1. Holds(t) /\ ~fault /\ active = 0 /\ UNCHANGED <<retired, rows, serial>>
  BY DEF Claim, Body, Live
<1>2. CASE ListFaults(t, Claimable)
  <2>1. Fault(t) /\ failed' = TRUE
    BY <1>1, <1>2, ChecksPass, FaultCaused DEF Claimable
  <2>2. serial' \in {serial, serial + 1} /\ serial' <= TicketLimit
    BY <1>1, TicketAssumption DEF IInv, TypeOK, WordsOK
  <2> QED
    BY <1>1, <2>1, <2>2, PlainFault
<1>3. ASSUME NEW n \in DOMAIN rows, Head(n), active' = n, activeOwner' = rows[n],
             cancelled' = FALSE, Says(t, "claim", n), Served,
             UNCHANGED <<closed, outcome>>
      PROVE  IInv'
  <2> DEFINE r == [about |-> "claim", ticket |-> n]
  <2>1. n \in Tickets /\ n # 0 /\ n \in 0 .. TicketLimit /\ rows[n] \in Tickets
        /\ rows[n] \in 0 .. TicketLimit
    BY TicketAssumption DEF IInv, TypeOK, WordsOK, Tickets
  <2>2. r \in Replies
    BY <2>1 DEF Replies
  <2>3. WordsOK'
    BY <1>1, <1>3, <2>1 DEF IInv, TypeOK, WordsOK, Served
  <2>4. ~retired[rows[n]]
    BY <1>1, <2>1 DEF IInv, Purged
  <2>5. Ordered' /\ ClaimHolds' /\ Purged'
    BY <1>1, <1>3, <2>1, <2>4 DEF IInv, Ordered, ClaimHolds, Head, Purged, Served
  <2>6. \A o : Gone(o) => Gone(o)'
    BY <1>1, <1>3, <2>4 DEF Gone, Referenced
  <2>7. reply' = [reply EXCEPT ![t] = r] /\ r.about = "claim" /\ r.ticket = n
        /\ r = [about |-> "claim", ticket |-> active']
    BY <1>3 DEF Says
  <2> HIDE DEF r
  <2> QED
    BY <1>1, <1>3, <2>1, <2>2, <2>3, <2>5, <2>6, <2>7, BodyStep
       DEF Served, IInv, TypeOK, HistoryOK, FaultsHaveCause
<1> QED
  BY <1>2, <1>3 DEF Claim

LEMMA CompleteKeeps ==
    ASSUME IInv, NEW t \in Threads, NEW succeeded \in BOOLEAN, Complete(t, succeeded)
    PROVE  IInv'
<1>1. Holds(t) /\ active # 0 /\ UNCHANGED <<retired, serial>>
  BY DEF Complete, Body
<1>2. CASE /\ ListFaults(t, ListFits /\ ActiveBound)
           /\ rows' \in {rows, Without(rows, {active})}
  <2>1. Fault(t) /\ failed' = TRUE
    BY <1>2, ChecksPass, FaultCaused
  <2>2. serial' \in {serial, serial + 1} /\ serial' <= TicketLimit
    BY <1>1, TicketAssumption DEF IInv, TypeOK, WordsOK
  <2>3. CASE rows' = rows
    BY <1>1, <2>1, <2>2, <2>3, PlainFault
  <2>4. CASE rows' = Without(rows, {active})
    <3>1. /\ DOMAIN retired' = DOMAIN retired /\ retired' \in [DOMAIN retired -> BOOLEAN]
          /\ \A p \in DOMAIN retired : retired[p] => retired'[p]
      BY <1>1 DEF IInv, TypeOK, WordsOK
    <3> QED
      BY <1>1, <2>1, <2>2, <2>4, <3>1, RowsLeave, FaultStep
  <2> QED
    BY <1>2, <2>3, <2>4
<1>3. CASE /\ rows' = Without(rows, {active})
           /\ outcome' = With(outcome, active, Verdict(succeeded))
           /\ active' = 0 /\ activeOwner' = 0 /\ cancelled' = FALSE
           /\ reply' = [reply EXCEPT ![t] = Silent]
           /\ Served
           /\ UNCHANGED closed
  <2>1. rows \in [DOMAIN rows -> Tickets]
    BY DEF IInv, TypeOK, WordsOK
  <2>2. /\ DOMAIN rows' = DOMAIN rows \ {active}
        /\ rows' \in [DOMAIN rows' -> Tickets]
        /\ \A n \in DOMAIN rows' : rows'[n] = rows[n]
    BY <1>3, <2>1 DEF Without
  <2>3. Cardinality(DOMAIN rows') <= Capacity
    <3>1. /\ Cardinality(DOMAIN rows') <= Cardinality(DOMAIN rows)
          /\ Cardinality(DOMAIN rows') \in Nat /\ Cardinality(DOMAIN rows) \in Nat
          /\ Cardinality(DOMAIN rows) <= Capacity
      BY <2>2, TicketSets DEF IInv, TypeOK, WordsOK
    <3> QED
      BY <3>1, CapacityAssumption
  <2>4. WordsOK'
    <3>1. active' \in 0 .. TicketLimit /\ activeOwner' \in 0 .. TicketLimit
      BY <1>3, TicketAssumption
    <3>2. DOMAIN rows' \subseteq Tickets
      BY <2>2 DEF IInv, TypeOK, WordsOK
    <3>3. /\ retired' \in [DOMAIN retired' -> BOOLEAN] /\ DOMAIN retired' \subseteq Tickets
          /\ Cardinality(DOMAIN retired') <= OwnerCapacity
          /\ serial' \in 0 .. TicketLimit
          /\ cancelled' \in BOOLEAN /\ fault' \in BOOLEAN /\ closed' \in BOOLEAN
      BY <1>1, <1>3 DEF IInv, TypeOK, WordsOK, Served
    <3> QED
      BY <2>2, <2>3, <3>1, <3>2, <3>3 DEF WordsOK
  <2>5. Ordered'
    BY <1>1, <2>2 DEF IInv, Ordered
  <2>6. ClaimHolds'
    BY <1>3 DEF ClaimHolds
  <2>7. Purged'
    BY <1>1, <1>3, <2>2 DEF IInv, Purged, Served
  <2>8. \A o : Gone(o) => Gone(o)'
    <3>1. \A o \in DOMAIN retired : o # 0
      BY DEF IInv, TypeOK, WordsOK, Tickets
    <3> QED
      BY <1>1, <1>3, <2>2, <3>1 DEF Gone, Referenced
  <2>9. DOMAIN outcome' \subseteq Tickets /\ outcome' \in [DOMAIN outcome' -> 1 .. 3]
    <3>1. Verdict(succeeded) \in 1 .. 3
      BY DEF Verdict
    <3>2. active \in Tickets
      BY <1>1, TicketAssumption DEF IInv, TypeOK, WordsOK, Tickets
    <3>3. outcome \in [DOMAIN outcome -> 1 .. 3] /\ DOMAIN outcome \subseteq Tickets
      BY DEF IInv, TypeOK, HistoryOK
    <3> QED
      BY <1>3, <3>1, <3>2, <3>3 DEF With
  <2> QED
    BY <1>1, <1>3, <2>4, <2>5, <2>6, <2>7, <2>8, <2>9, SilentReply, BodyStep
       DEF Served, IInv, TypeOK, HistoryOK, FaultsHaveCause
<1> QED
  BY <1>2, <1>3 DEF Complete

LEMMA RetireKeeps ==
    ASSUME IInv, NEW t \in Threads, NEW o \in DOMAIN retired, Retire(t, o)
    PROVE  IInv'
<1>1. /\ Holds(t)
      /\ retired' = [retired EXCEPT ![o] = TRUE]
      /\ UNCHANGED serial
  BY DEF Retire, Body
<1>2. /\ DOMAIN retired' = DOMAIN retired
      /\ retired' \in [DOMAIN retired -> BOOLEAN]
      /\ \A p \in DOMAIN retired : retired[p] => retired'[p]
      /\ \A p \in DOMAIN retired \ {o} : retired'[p] = retired[p]
      /\ o # 0 /\ active \notin Removable(o)
  BY <1>1 DEF IInv, TypeOK, WordsOK, Tickets, Removable
<1>3. serial' \in {serial, serial + 1} /\ serial' <= TicketLimit
  BY <1>1, TicketAssumption DEF IInv, TypeOK, WordsOK
<1>4. ASSUME ~fault, NEW stop, rows' = Without(rows, {n \in Removable(o) : n < stop}),
             ListFaults(t, ListSound)
      PROVE  IInv'
  <2>1. Fault(t) /\ failed' = TRUE
    BY <1>4, ChecksPass, FaultCaused DEF ListSound
  <2> QED
    BY <1>1, <1>2, <1>3, <1>4, <2>1, RowsLeave, FaultStep
<1>5. ASSUME fault => UNCHANGED rows, ~fault => rows' = Without(rows, Removable(o)),
             cancelled' = (cancelled \/ activeOwner = o),
             reply' = [reply EXCEPT ![t] = Silent], Served,
             UNCHANGED <<active, activeOwner, closed, outcome>>
      PROVE  IInv'
  <2> DEFINE K == IF fault THEN {} ELSE Removable(o)
  <2>1. rows' = Without(rows, K) /\ active \notin K
    BY <1>2, <1>5, NoneLeave
  <2>2. /\ rows' \in [DOMAIN rows' -> Tickets]
        /\ DOMAIN rows' \subseteq Tickets
        /\ Cardinality(DOMAIN rows') <= Capacity
        /\ DOMAIN rows' = DOMAIN rows \ K
        /\ \A n \in DOMAIN rows' : rows'[n] = rows[n]
    <3> HIDE DEF K
    <3> QED
      BY <2>1, RowsLeave
  <2>3. WordsOK'
    BY <1>1, <1>2, <1>5, <2>2 DEF IInv, TypeOK, WordsOK, Served
  <2>4. Ordered'
    BY <1>1, <1>2, <2>2 DEF IInv, Ordered
  <2>5. ClaimHolds'
    <3>1. CASE active = 0
      BY <1>2, <1>5, <3>1 DEF IInv, ClaimHolds
    <3>2. CASE active # 0
      <4>1. /\ active <= serial /\ activeOwner \in DOMAIN retired
            /\ retired[activeOwner] => cancelled
            /\ ~fault => Head(active) /\ rows[active] = activeOwner
        BY <3>2 DEF IInv, ClaimHolds
      <4>2. ~fault => Head(active)' /\ rows'[active] = activeOwner
        BY <1>5, <2>1, <2>2, <4>1 DEF Head
      <4>3. retired'[activeOwner] => cancelled'
        BY <1>2, <1>5, <4>1
      <4> QED
        BY <1>1, <1>2, <1>5, <3>2, <4>1, <4>2, <4>3 DEF ClaimHolds, Served
    <3> QED
      BY <3>1, <3>2
  <2>6. Purged'
    <3>1. ASSUME ~fault, NEW n \in DOMAIN rows', retired'[rows'[n]] PROVE n = active
      <4>1. n \in DOMAIN rows /\ n \notin Removable(o) /\ rows'[n] = rows[n]
            /\ rows[n] \in DOMAIN retired
        BY <2>2, <3>1 DEF IInv, Ordered
      <4>2. CASE rows[n] = o
        BY <4>1, <4>2 DEF Removable
      <4>3. CASE rows[n] # o
        BY <1>2, <3>1, <4>1, <4>3 DEF IInv, Purged
      <4> QED
        BY <4>2, <4>3
    <3> QED
      BY <1>5, <3>1 DEF Purged, Served
  <2>7. \A p : Gone(p) => Gone(p)'
    BY <1>2, <1>5, <2>2, GoneStays
  <2> QED
    BY <1>1, <1>5, <2>3, <2>4, <2>5, <2>6, <2>7, SilentReply, BodyStep
       DEF Served, IInv, TypeOK, HistoryOK, FaultsHaveCause
<1> QED
  BY <1>4, <1>5 DEF Retire

LEMMA DrainedKeeps ==
    ASSUME IInv, NEW t \in Threads, NEW o \in DOMAIN retired, Drained(t, o)
    PROVE  IInv'
<1>1. Holds(t) /\ retired[o] /\ ~fault /\ UNCHANGED <<retired, rows, serial>>
  BY DEF Drained, Body
<1>2. CASE ListFaults(t, ListSound)
  <2>1. Fault(t) /\ failed' = TRUE
    BY <1>1, <1>2, ChecksPass, FaultCaused DEF ListSound
  <2>2. serial' \in {serial, serial + 1} /\ serial' <= TicketLimit
    BY <1>1, TicketAssumption DEF IInv, TypeOK, WordsOK
  <2> QED
    BY <1>1, <2>1, <2>2, PlainFault
<1>3. CASE /\ ~Referenced(o) /\ Says(t, "drained", o) /\ Served
           /\ UNCHANGED <<active, activeOwner, cancelled, closed, outcome>>
  <2> DEFINE r == [about |-> "drained", ticket |-> o]
  <2>1. r \in Replies
    BY DEF Replies, IInv, TypeOK, WordsOK, Tickets
  <2>2. reply' = [reply EXCEPT ![t] = r] /\ r.about = "drained" /\ Gone(r.ticket)
    BY <1>1, <1>3 DEF Says, Gone
  <2>3. UNCHANGED <<words, failed, outcome>>
    BY <1>1, <1>3 DEF words, Served
  <2> HIDE DEF r
  <2> QED
    BY <1>1, <2>1, <2>2, <2>3, QuietBody
<1> QED
  BY <1>2, <1>3 DEF Drained

LEMMA WithdrawKeeps ==
    ASSUME IInv, NEW t \in Threads, NEW closing \in BOOLEAN, Withdraw(t, closing)
    PROVE  IInv'
<1> DEFINE r == [about |-> IF active = 0 THEN "nothing" ELSE "claim", ticket |-> active]
<1>1. /\ Holds(t) /\ Served
      /\ closed' \in BOOLEAN
      /\ cancelled' = (active # 0)
      /\ reply' = [reply EXCEPT ![t] = r]
      /\ UNCHANGED <<retired, rows, serial, active, activeOwner, outcome>>
  BY DEF Withdraw, Body, Says, IInv, TypeOK, WordsOK
<1>2. r \in Replies /\ r.about # "drained" /\ (r.about = "claim" => r.ticket # 0)
  BY DEF Replies, IInv, TypeOK, WordsOK
<1>3. WordsOK'
  BY <1>1 DEF IInv, TypeOK, WordsOK, Served
<1>4. Ordered' /\ ClaimHolds' /\ Purged'
  BY <1>1 DEF IInv, Ordered, ClaimHolds, Head, Purged, Served
<1>5. \A o : Gone(o) => Gone(o)'
  BY <1>1 DEF Gone, Referenced
<1> HIDE DEF r
<1> QED
  BY <1>1, <1>2, <1>3, <1>4, <1>5, BodyStep
     DEF Served, IInv, TypeOK, HistoryOK, FaultsHaveCause

-------------------------------------------------------------------------------

(* A step outside the bodies changes no word but FAULT and tells what was   *)
(* true all along.                                                          *)
LEMMA OutsideStep ==
    ASSUME IInv, NEW t \in Threads,
           UNCHANGED <<retired, rows, serial, active, activeOwner, cancelled, closed, outcome>>,
           fault' \in {fault, TRUE}, failed' \in {failed, TRUE}, fault' => failed',
           CallsOK',
           reply' \in {reply, [reply EXCEPT ![t] = Silent]},
           \A s \in Threads : pc'[s] # "release" => reply'[s] = Silent,
           \A s \in Threads : pc'[s] = "latch" => failed',
           known' \in {known, known \cup Told(t, "claim")},
           drained' \in {drained, drained \cup Told(t, "drained")},
           LostClaimsAreFaults'
    PROVE  IInv'
<1> USE DEF IInv, TypeOK
<1>1. WordsOK' /\ Ordered' /\ ClaimHolds' /\ Purged'
  BY DEF WordsOK, Ordered, ClaimHolds, Head, Purged
<1>2. \A o : Gone(o) => Gone(o)'
  BY DEF Gone, Referenced
<1>3. /\ Told(t, "claim") \subseteq Tickets
      /\ \A o \in Told(t, "drained") : Gone(o)
  BY DEF Told, RepliesHold, CallsOK, Replies, Tickets
<1>4. \A o \in Told(t, "drained") : o \in Tickets
  BY <1>3 DEF Gone, WordsOK
<1>5. HistoryOK'
  BY <1>3, <1>4 DEF HistoryOK
<1>6. \A s \in Threads : reply'[s] \in {reply[s], Silent}
  BY DEF CallsOK
<1>7. RepliesHold'
  BY <1>2, <1>6, SilentReply DEF RepliesHold
<1>8. DrainedGone'
  BY <1>2, <1>3 DEF DrainedGone
<1> QED
  BY <1>1, <1>5, <1>7, <1>8 DEF FaultsHaveCause

LEMMA ReleaseKeeps ==
    ASSUME IInv, NEW t \in Threads, Release(t)
    PROVE  IInv'
<1> USE DEF IInv, TypeOK, Release, words
<1>1. \A s \in Threads : /\ reply'[s] = IF s = t THEN Silent ELSE reply[s]
                         /\ pc'[s] = IF s = t THEN "outside" ELSE pc[s]
  BY DEF CallsOK
<1>2. CallsOK'
  BY SilentReply DEF CallsOK
<1>3. LostClaimsAreFaults'
  <2>1. ASSUME NEW s \in Threads, active \in Told(s, "claim"), s # t
        PROVE  active \in Told(s, "claim")'
    BY <1>1, <2>1 DEF Told
  <2>2. ASSUME NEW s \in Threads, pc[s] = "latch" PROVE pc'[s] = "latch"
    BY <1>1, <2>2
  <2> QED
    BY <2>1, <2>2 DEF LostClaimsAreFaults
<1>4. \A s \in Threads : pc'[s] # "release" => reply'[s] = Silent
  BY <1>1 DEF RepliesHold
<1>5. \A s \in Threads : pc'[s] = "latch" => failed'
  BY <1>1 DEF RepliesHold
<1> QED
  BY <1>2, <1>3, <1>4, <1>5, OutsideStep DEF FaultsHaveCause

LEMMA ReleaseFailsKeeps ==
    ASSUME IInv, NEW t \in Threads, ReleaseFails(t)
    PROVE  IInv'
<1> USE DEF IInv, TypeOK, ReleaseFails, words, history
<1>1. \A s \in Threads :
        /\ reply'[s] = IF s = t THEN Silent ELSE reply[s]
        /\ pc'[s] = IF s = t THEN (IF checked THEN "outside" ELSE "latch") ELSE pc[s]
  BY DEF CallsOK
<1>2. CallsOK'
  BY SilentReply DEF CallsOK
<1>3. LostClaimsAreFaults'
  BY <1>1 DEF LostClaimsAreFaults
<1>4. \A s \in Threads : pc'[s] # "release" => reply'[s] = Silent
  BY <1>1 DEF RepliesHold
<1>5. \A s \in Threads : pc'[s] = "latch" => failed'
  BY <1>1 DEF RepliesHold
<1> QED
  BY <1>2, <1>3, <1>4, <1>5, OutsideStep DEF FaultsHaveCause

(* Only a thread whose release failed has the late store to make.           *)
LEMMA LatchKeeps ==
    ASSUME IInv, NEW t \in Threads, Latch(t)
    PROVE  IInv'
<1> USE DEF IInv, TypeOK, Latch, Latched, history
<1>1. \A s \in Threads : pc'[s] = IF s = t THEN "outside" ELSE pc[s]
  BY DEF CallsOK
<1>2. CallsOK' /\ failed
  BY DEF CallsOK, RepliesHold
<1>3. LostClaimsAreFaults'
  BY DEF LostClaimsAreFaults
<1>4. \A s \in Threads : pc'[s] # "release" => reply'[s] = Silent
  BY <1>1 DEF RepliesHold
<1>5. \A s \in Threads : pc'[s] = "latch" => failed'
  BY <1>1 DEF RepliesHold
<1> QED
  BY <1>2, <1>3, <1>4, <1>5, OutsideStep

LEMMA AcquireFailsKeeps ==
    ASSUME IInv, NEW t \in Threads, AcquireFails(t)
    PROVE  IInv'
<1> USE DEF IInv, TypeOK, AcquireFails, words, history
<1>1. CallsOK'
  BY DEF CallsOK
<1>2. LostClaimsAreFaults'
  BY DEF LostClaimsAreFaults, Told
<1>3. \A s \in Threads : pc'[s] # "release" => reply'[s] = Silent
  BY DEF RepliesHold
<1>4. \A s \in Threads : pc'[s] = "latch" => failed'
  BY DEF RepliesHold
<1> QED
  BY <1>1, <1>2, <1>3, <1>4, OutsideStep DEF FaultsHaveCause

-------------------------------------------------------------------------------

(* Every action of every thread preserves the invariant.                    *)
LEMMA StepInvariant == IInv /\ [Next]_vars => IInv'
<1> SUFFICES ASSUME IInv, [Next]_vars PROVE IInv'
  OBVIOUS
<1>1. CASE UNCHANGED vars
  BY <1>1 DEF vars, words, history, IInv, TypeOK, WordsOK, CallsOK, HistoryOK, Ordered,
     ClaimHolds, Head, Purged, RepliesHold, DrainedGone, Gone, Referenced, FaultsHaveCause,
     LostClaimsAreFaults, Told
<1>2. CASE Next
  BY <1>2, DeniedKeeps, OpenOwnerKeeps, PublishKeeps, RetireKeeps, DrainedKeeps, ClaimKeeps,
     CompleteKeeps, WithdrawKeeps, ReleaseKeeps, ReleaseFailsKeeps, LatchKeeps,
     AcquireFailsKeeps
     DEF Next
<1> QED
  BY <1>1, <1>2

THEOREM QueueInvariant == Spec => []IInv
BY InitInvariant, StepInvariant, PTL DEF Spec

(* Tickets, tables and claims stay in range across every failure.           *)
THEOREM QueueTypeCorrect == Spec => []TypeOK
<1>1. IInv => TypeOK
  BY DEF IInv
<1> QED
  BY <1>1, QueueInvariant, PTL

(* FAULT has a cause outside the queue: its own checks never fire.          *)
THEOREM FaultsHaveCauseHolds == Spec => []FaultsHaveCause
<1>1. IInv => FaultsHaveCause
  BY DEF IInv
<1> QED
  BY <1>1, QueueInvariant, PTL

(* A generation that was reported as drained stays drained.                 *)
THEOREM DrainedStaysDrained == Spec => []DrainedForGood
<1>1. IInv => DrainedForGood
  BY DEF IInv, DrainedGone, DrainedForGood, Gone
<1> QED
  BY <1>1, QueueInvariant, PTL

(* A lost claim shows in FAULT unless the build leaves it to its caller.    *)
THEOREM LostClaimsShow == Spec => []LostClaimsAreFaults
<1>1. IInv => LostClaimsAreFaults
  BY DEF IInv
<1> QED
  BY <1>1, QueueInvariant, PTL

(* Work of a retired owner or a withdrawn queue is never reported as done:  *)
(* complete reads no owner, but the claim of a retired one is marked.       *)
THEOREM OutcomesAreEarnedHolds == Spec => OutcomesAreEarned
<1>1. ASSUME IInv, [Next]_vars, UNCHANGED vars \/ ~\E t \in Threads, b \in BOOLEAN : Complete(t, b)
      PROVE  outcome' = outcome
  BY <1>1 DEF Next, vars, Denied, OpenOwner, Exhausted, ListFaults, Fault, Publish, Retire,
     Drained, Claim, Withdraw, Release, ReleaseFails, Latch, AcquireFails
<1>2. ASSUME IInv, NEW t \in Threads, NEW b \in BOOLEAN, Complete(t, b),
             NEW n \in DOMAIN outcome', n \notin DOMAIN outcome, outcome'[n] # 3
      PROVE  ~retired[rows[n]] /\ ~closed /\ ~fault
  <2>1. outcome' = With(outcome, active, Verdict(b)) /\ active # 0
    BY <1>2 DEF Complete, ListFaults, Fault
  <2>2. n = active /\ outcome'[n] = Verdict(b)
    BY <1>2, <2>1 DEF With
  <2>3. ~cancelled /\ ~closed /\ ~fault
    BY <1>2, <2>2 DEF Verdict
  <2> QED
    BY <1>2, <2>1, <2>2, <2>3 DEF IInv, ClaimHolds
<1>3. IInv /\ [Next]_vars =>
        [\A n \in DOMAIN outcome' \ DOMAIN outcome :
            outcome'[n] # 3 => ~retired[rows[n]] /\ ~closed /\ ~fault]_vars
  BY <1>1, <1>2
<1> QED
  BY <1>3, QueueInvariant, PTL DEF Spec, OutcomesAreEarned

-------------------------------------------------------------------------------
(* What one owner sees of the queue.                                        *)

LEMMA ContractStutters ==
    ASSUME UNCHANGED <<retired, rows, serial, active, activeOwner, fault>>
    PROVE  UNCHANGED Contract!paint
BY DEF Contract!paint, WatchedRows, WatchedClaim, WatchedRetired

(* Every fault exit is a Break: what it did half shows as far as it went.   *)
LEMMA FaultBreaks ==
    ASSUME IInv, NEW t \in Threads, Fault(t),
           serial' \in {serial, serial + 1}, serial' <= TicketLimit,
           DOMAIN retired' = DOMAIN retired,
           retired' \in [DOMAIN retired -> BOOLEAN],
           \A p \in DOMAIN retired : retired[p] => retired'[p],
           \A n \in DOMAIN rows' : n = serial' \/ (n \in DOMAIN rows /\ rows'[n] = rows[n])
    PROVE  Contract!PaintNext
<1>1. fault' = TRUE /\ UNCHANGED <<active, activeOwner>>
  BY DEF Fault
<1>2. WatchedClaim' = WatchedClaim
  BY <1>1 DEF WatchedClaim
<1>3. WatchedRetired' \in {WatchedRetired, TRUE}
  BY DEF WatchedRetired, IInv, TypeOK, WordsOK
<1>4. serial' \in serial .. TicketLimit
  BY TicketAssumption DEF IInv, TypeOK, WordsOK
<1>5. WatchedRows' \in SUBSET (WatchedRows \cup {serial'})
  BY DEF WatchedRows
<1> QED
  BY <1>1, <1>2, <1>3, <1>4, <1>5 DEF Contract!PaintNext, Contract!Break

LEMMA OneTicketOn ==
    ASSUME IInv
    PROVE  /\ serial <= TicketLimit
           /\ serial # TicketLimit => serial + 1 \in serial + 1 .. TicketLimit
           /\ DOMAIN retired = DOMAIN retired /\ retired \in [DOMAIN retired -> BOOLEAN]
BY TicketAssumption DEF IInv, TypeOK, WordsOK

LEMMA DeniedStutters ==
    ASSUME IInv, NEW t \in Threads, Denied(t)
    PROVE  UNCHANGED Contract!paint
<1>1. Consistent /\ fault \in BOOLEAN
  BY ChecksPass DEF IInv, TypeOK, WordsOK
<1> QED
  BY <1>1, ContractStutters DEF Denied

(* Another owner's ticket; and that of the watched one, before it is used.  *)
LEMMA OpenOwnerMints ==
    ASSUME IInv, NEW t \in Threads, OpenOwner(t)
    PROVE  Contract!PaintNext
<1>1. CASE Exhausted(t)
  BY <1>1, OneTicketOn, FaultBreaks DEF Exhausted, ListFaults
<1>2. CASE ~Exhausted(t)
  <2>1. /\ serial # TicketLimit /\ serial' = serial + 1
        /\ retired' = With(retired, serial + 1, FALSE)
        /\ UNCHANGED <<rows, active, activeOwner, fault>>
    BY <1>2 DEF OpenOwner, Served
  <2>2. serial + 1 \notin DOMAIN retired
    BY <2>1, NextTicket
  <2>3. WatchedRetired' = WatchedRetired
    BY <2>1, <2>2 DEF WatchedRetired, With
  <2>4. WatchedRows' = WatchedRows /\ WatchedClaim' = WatchedClaim
    BY <2>1 DEF WatchedRows, WatchedClaim
  <2>5. Contract!Mint
    BY <2>1, <2>3, <2>4, OneTicketOn DEF Contract!Mint
  <2> QED
    BY <2>5 DEF Contract!PaintNext
<1> QED
  BY <1>1, <1>2

LEMMA PublishAdmits ==
    ASSUME IInv, NEW t \in Threads, NEW o \in DOMAIN retired, Publish(t, o)
    PROVE  Contract!PaintNext
<1> DEFINE n == serial + 1
<1>1. UNCHANGED retired /\ ~retired[o] /\ ~fault
  BY DEF Publish, Admits, Live
<1>2. CASE ListFaults(t, ListFits) /\ UNCHANGED <<rows, serial>>
  BY <1>1, <1>2, OneTicketOn, FaultBreaks DEF ListFaults
<1>3. CASE Exhausted(t)
  BY <1>3, OneTicketOn, FaultBreaks DEF Exhausted, ListFaults
<1>4. CASE /\ ~Full(rows, Capacity) /\ serial # TicketLimit /\ serial' = n
           /\ ListFaults(t, TRUE)
           /\ rows' \in {rows, With(rows, n, o)}
  <2>1. serial' \in {serial, serial + 1} /\ serial' <= TicketLimit
    BY <1>4, NextTicket DEF Tickets
  <2>2. \A m \in DOMAIN rows' : m = serial' \/ (m \in DOMAIN rows /\ rows'[m] = rows[m])
    BY <1>4 DEF With
  <2> QED
    BY <1>1, <1>4, <2>1, <2>2, OneTicketOn, FaultBreaks DEF ListFaults
<1>5. CASE /\ ~Full(rows, Capacity) /\ serial # TicketLimit /\ serial' = n
           /\ rows' = With(rows, n, o)
           /\ Served
           /\ UNCHANGED <<active, activeOwner>>
  <2>1. /\ DOMAIN rows' = DOMAIN rows \cup {n} /\ rows'[n] = o
        /\ \A m \in DOMAIN rows : rows'[m] = rows[m]
    BY <1>5, RowJoins
  <2>2. n \notin DOMAIN rows /\ n \in 1 .. TicketLimit
    BY <1>5, NextTicket DEF Tickets
  <2> HIDE DEF n
  <2>3. UNCHANGED <<WatchedClaim, WatchedRetired, fault>>
    BY <1>1, <1>5 DEF WatchedClaim, WatchedRetired, Served
  <2>4. serial' \in serial + 1 .. TicketLimit
    BY <1>5, OneTicketOn DEF n
  <2>5. CASE o = Watched
    <3>1. WatchedRows' = WatchedRows \cup {n} /\ ~WatchedRetired
      BY <1>1, <2>1, <2>2, <2>5 DEF WatchedRows, WatchedRetired
    <3>2. Contract!Admit(n)
      BY <1>1, <1>5, <2>3, <2>4, <3>1 DEF Contract!Admit
    <3> QED
      BY <2>2, <3>2 DEF Contract!PaintNext
  <2>6. CASE o # Watched
    <3>1. WatchedRows' = WatchedRows
      BY <2>1, <2>2, <2>6 DEF WatchedRows
    <3>2. Contract!Mint
      BY <2>3, <2>4, <3>1 DEF Contract!Mint
    <3> QED
      BY <3>2 DEF Contract!PaintNext
  <2> QED
    BY <2>5, <2>6
<1> QED
  BY <1>2, <1>3, <1>4, <1>5 DEF Publish

LEMMA ClaimClaims ==
    ASSUME IInv, NEW t \in Threads, Claim(t)
    PROVE  [Contract!PaintNext]_Contract!paint
<1>1. /\ ~fault /\ active = 0 /\ activeOwner = 0
      /\ UNCHANGED <<retired, rows, serial>>
  BY DEF Claim, Live, IInv, ClaimHolds
<1>2. CASE ListFaults(t, Claimable)
  BY <1>1, <1>2, OneTicketOn, FaultBreaks DEF ListFaults
<1>3. ASSUME NEW n \in DOMAIN rows, Head(n), Claimable, active' = n,
             activeOwner' = rows[n], Served
      PROVE  [Contract!PaintNext]_Contract!paint
  <2>1. /\ ~retired[rows[n]] /\ n \in 1 .. TicketLimit
        /\ WatchedClaim = 0 /\ UNCHANGED <<WatchedRows, WatchedRetired, serial, fault>>
    BY <1>1, <1>3, WatchedAssumption
       DEF Claimable, IInv, TypeOK, WordsOK, Tickets, WatchedClaim, WatchedRows,
           WatchedRetired, Served
  <2>2. CASE rows[n] = Watched
    <3>1. n \in WatchedRows /\ ~WatchedRetired /\ WatchedClaim' = n
      BY <1>3, <2>1, <2>2 DEF WatchedRows, WatchedRetired, WatchedClaim
    <3>2. Contract!Claim(n)
      BY <1>1, <2>1, <3>1 DEF Contract!Claim
    <3> QED
      BY <2>1, <3>2 DEF Contract!PaintNext
  <2>3. CASE rows[n] # Watched
    <3>1. WatchedClaim' = WatchedClaim
      BY <1>3, <2>1, <2>3 DEF WatchedClaim
    <3> QED
      BY <2>1, <3>1 DEF Contract!paint
  <2> QED
    BY <2>2, <2>3
<1> QED
  BY <1>2, <1>3 DEF Claim

LEMMA CompleteSettles ==
    ASSUME IInv, NEW t \in Threads, NEW succeeded \in BOOLEAN, Complete(t, succeeded)
    PROVE  [Contract!PaintNext]_Contract!paint
<1>1. active # 0 /\ UNCHANGED <<retired, serial>>
  BY DEF Complete
<1>2. CASE /\ ListFaults(t, ListFits /\ ActiveBound)
           /\ rows' \in {rows, Without(rows, {active})}
  <2>1. \A m \in DOMAIN rows' : m \in DOMAIN rows /\ rows'[m] = rows[m]
    BY <1>2 DEF Without
  <2> QED
    BY <1>1, <1>2, <2>1, OneTicketOn, FaultBreaks DEF ListFaults
<1>3. CASE /\ ActiveBound
           /\ rows' = Without(rows, {active})
           /\ active' = 0 /\ activeOwner' = 0
           /\ Served
  <2>1. /\ active \in DOMAIN rows /\ rows[active] = activeOwner
        /\ active \in 1 .. TicketLimit
        /\ UNCHANGED <<WatchedRetired, serial, fault>>
        /\ WatchedClaim' = 0
    BY <1>1, <1>3 DEF ActiveBound, Head, IInv, TypeOK, WordsOK, Tickets, WatchedRetired,
       WatchedClaim, Served
  <2>2. WatchedRows' = WatchedRows \ {active}
    BY <1>3 DEF WatchedRows, Without
  <2>3. CASE activeOwner = Watched
    <3>1. WatchedClaim = active /\ active \in WatchedRows
      BY <2>1, <2>3 DEF WatchedClaim, WatchedRows
    <3>2. Contract!Settle(active)
      BY <2>1, <2>2, <3>1 DEF Contract!Settle
    <3> QED
      BY <2>1, <3>2 DEF Contract!PaintNext
  <2>4. CASE activeOwner # Watched
    <3>1. WatchedClaim = 0 /\ active \notin WatchedRows
      BY <2>1, <2>4 DEF WatchedClaim, WatchedRows
    <3> QED
      BY <2>1, <2>2, <3>1 DEF Contract!paint
  <2> QED
    BY <2>3, <2>4
<1> QED
  BY <1>2, <1>3 DEF Complete

LEMMA RetireRetires ==
    ASSUME IInv, NEW t \in Threads, NEW o \in DOMAIN retired, Retire(t, o)
    PROVE  [Contract!PaintNext]_Contract!paint
<1>1. /\ retired' = [retired EXCEPT ![o] = TRUE] /\ UNCHANGED serial
      /\ DOMAIN retired' = DOMAIN retired
      /\ retired' \in [DOMAIN retired -> BOOLEAN]
      /\ \A p \in DOMAIN retired : retired[p] => retired'[p]
  BY DEF Retire, IInv, TypeOK, WordsOK
<1>2. ASSUME NEW stop, rows' = Without(rows, {n \in Removable(o) : n < stop}),
             ListFaults(t, ListSound)
      PROVE  Contract!PaintNext
  <2>1. \A m \in DOMAIN rows' : m \in DOMAIN rows /\ rows'[m] = rows[m]
    BY <1>2 DEF Without
  <2> QED
    BY <1>1, <1>2, <2>1, OneTicketOn, FaultBreaks DEF ListFaults
<1>3. ASSUME fault => UNCHANGED rows,
             ~fault => ListSound /\ rows' = Without(rows, Removable(o)),
             Served, UNCHANGED <<active, activeOwner>>
      PROVE  [Contract!PaintNext]_Contract!paint
  <2>1. UNCHANGED <<WatchedClaim, serial, fault>>
    BY <1>1, <1>3 DEF WatchedClaim, Served
  <2>2. CASE o # Watched
    <3>1. UNCHANGED WatchedRetired
      BY <1>1, <2>2 DEF WatchedRetired
    <3>2. UNCHANGED WatchedRows
      BY <1>3, <2>2 DEF WatchedRows, Without, Removable, IInv, TypeOK, WordsOK
    <3> QED
      BY <2>1, <3>1, <3>2 DEF Contract!paint
  <2>3. CASE o = Watched /\ fault
    <3>1. UNCHANGED WatchedRows /\ WatchedRetired' = TRUE /\ fault' = TRUE
      BY <1>1, <1>3, <2>3 DEF WatchedRows, WatchedRetired, Served, IInv, TypeOK, WordsOK
    <3>2. serial' \in serial .. TicketLimit
      BY <1>1, TicketAssumption DEF IInv, TypeOK, WordsOK
    <3>3. Contract!Break
      BY <2>1, <3>1, <3>2 DEF Contract!Break
    <3> QED
      BY <3>3 DEF Contract!PaintNext
  <2>4. CASE o = Watched /\ ~fault
    <3>1. WatchedRetired' = TRUE
      BY <1>1, <2>4 DEF WatchedRetired
    <3>2. active # 0 => active \in DOMAIN rows /\ rows[active] = activeOwner
      BY <2>4 DEF IInv, ClaimHolds, Head
    <3>3. \A n \in DOMAIN rows : n # 0
      BY DEF IInv, TypeOK, WordsOK, Tickets
    <3>4. WatchedRows' = {n \in WatchedRows : n = active}
      BY <1>3, <2>4 DEF WatchedRows, Without, Removable
    <3>5. WatchedRows' = WatchedRows \cap {WatchedClaim}
      BY <3>2, <3>3, <3>4 DEF WatchedRows, WatchedClaim
    <3>6. Contract!Retire
      BY <2>1, <2>4, <3>1, <3>5 DEF Contract!Retire
    <3> QED
      BY <3>6 DEF Contract!PaintNext
  <2> QED
    BY <2>2, <2>3, <2>4
<1> QED
  BY <1>2, <1>3 DEF Retire

(* drained, cancel and close touch nothing an owner sees, unless they fault.*)
LEMMA ReadersStutter ==
    ASSUME IInv, NEW t \in Threads,
           \/ \E o \in DOMAIN retired : Drained(t, o)
           \/ \E closing \in BOOLEAN : Withdraw(t, closing)
    PROVE  [Contract!PaintNext]_Contract!paint
<1>1. CASE \E closing \in BOOLEAN : Withdraw(t, closing)
  BY <1>1, ContractStutters DEF Withdraw, Served
<1>2. ASSUME NEW o \in DOMAIN retired, Drained(t, o)
      PROVE  [Contract!PaintNext]_Contract!paint
  <2>1. UNCHANGED <<retired, rows, serial>>
    BY <1>2 DEF Drained
  <2>2. CASE ListFaults(t, ListSound)
    BY <2>1, <2>2, OneTicketOn, FaultBreaks DEF ListFaults
  <2>3. CASE Served /\ UNCHANGED <<active, activeOwner>>
    BY <2>1, <2>3, ContractStutters DEF Served
  <2> QED
    BY <1>2, <2>2, <2>3 DEF Drained
<1> QED
  BY <1>1, <1>2

(* Outside the bodies only the late latch is seen.                          *)
LEMMA LatchBreaks ==
    ASSUME IInv, NEW t \in Threads,
           Release(t) \/ ReleaseFails(t) \/ Latch(t) \/ AcquireFails(t)
    PROVE  [Contract!PaintNext]_Contract!paint
<1>1. CASE Release(t) \/ ReleaseFails(t) \/ AcquireFails(t)
  BY <1>1, ContractStutters DEF Release, ReleaseFails, AcquireFails, words
<1>2. CASE Latch(t)
  <2>1. fault' = TRUE /\ UNCHANGED <<retired, rows, serial, active, activeOwner>>
    BY <1>2 DEF Latch, Latched
  <2>2. UNCHANGED <<WatchedRows, WatchedClaim, WatchedRetired>>
    BY <2>1 DEF WatchedRows, WatchedClaim, WatchedRetired
  <2>3. serial' \in serial .. TicketLimit
    BY <2>1, TicketAssumption DEF IInv, TypeOK, WordsOK
  <2>4. Contract!Break
    BY <2>1, <2>2, <2>3 DEF Contract!Break
  <2> QED
    BY <2>4 DEF Contract!PaintNext
<1> QED
  BY <1>1, <1>2

(* The emitted queue is to every owner what its ledger takes it for.        *)
THEOREM QueueImplementsContract == Spec => ImplementsContract
<1>1. Init => Contract!NewPaint
  BY WatchedAssumption
     DEF Init, Contract!NewPaint, WatchedRows, WatchedClaim, WatchedRetired
<1>2. IInv /\ [Next]_vars => [Contract!PaintNext]_Contract!paint
  <2> SUFFICES ASSUME IInv, [Next]_vars PROVE [Contract!PaintNext]_Contract!paint
    OBVIOUS
  <2>1. CASE UNCHANGED vars
    BY <2>1, ContractStutters DEF vars, words
  <2>2. ASSUME NEW t \in Threads, NEW o \in DOMAIN retired,
               Publish(t, o) \/ Retire(t, o) \/ Drained(t, o)
        PROVE  [Contract!PaintNext]_Contract!paint
    BY <2>2, PublishAdmits, RetireRetires, ReadersStutter
  <2>3. ASSUME NEW t \in Threads,
               \/ Denied(t) \/ OpenOwner(t) \/ Claim(t)
               \/ \E succeeded \in BOOLEAN : Complete(t, succeeded)
               \/ \E closing \in BOOLEAN : Withdraw(t, closing)
               \/ Release(t) \/ ReleaseFails(t) \/ Latch(t) \/ AcquireFails(t)
        PROVE  [Contract!PaintNext]_Contract!paint
    BY <2>3, DeniedStutters, OpenOwnerMints, ClaimClaims, CompleteSettles, ReadersStutter,
       LatchBreaks
  <2> QED
    BY <2>1, <2>2, <2>3 DEF Next
<1> QED
  BY <1>1, <1>2, QueueInvariant, PTL DEF Spec, ImplementsContract, Contract!PaintSpec
=============================================================================
