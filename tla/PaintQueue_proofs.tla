-------------------------- MODULE PaintQueue_proofs --------------------------
(****************************************************************************)
(* The paint queue's safety for any names, capacity and ticket limit. The   *)
(* three invariants of the TLC run support one another: a claim stays the   *)
(* head because _cancel spares it, it is marked exactly when its owner is   *)
(* retired, and so nothing of a revoked owner can be claimed or completed.  *)
(* The second part shows that the queue keeps PaintContract to each owner.  *)
(****************************************************************************)
EXTENDS PaintQueue, FiniteSetTheorems, TLAPS

(* What was claimed is in front of all that is pending.                     *)
ClaimedFirst == \A d \in claimed, e \in DOMAIN entries : d <= e

IInv ==
    /\ TypeOK
    /\ HeadRetained
    /\ RevokedWorkLeaves
    /\ LeavesOnce
    /\ ClaimedFirst

(* Subsets of the issued tickets are finite and their sizes compare.        *)
LEMMA TicketSets ==
    ASSUME NEW n \in Nat, NEW T \in SUBSET (1 .. n), NEW S \in SUBSET T
    PROVE  /\ IsFiniteSet(T) /\ IsFiniteSet(S)
           /\ Cardinality(T) \in Nat /\ Cardinality(S) \in Nat
           /\ Cardinality(S) <= Cardinality(T)
<1>1. IsFiniteSet(1 .. n)
  BY FS_Interval, 1 \in Int, n \in Int
<1>2. IsFiniteSet(T)
  BY <1>1, FS_Subset
<1> QED
  BY <1>2, FS_Subset, FS_CardinalityType

(* One more element adds at most one to the size.                           *)
LEMMA TicketAdded ==
    ASSUME NEW n \in Nat, NEW T \in SUBSET (1 .. n), NEW t
    PROVE  Cardinality(T \cup {t}) <= Cardinality(T) + 1
<1>1. IsFiniteSet(T) /\ Cardinality(T) \in Nat
  BY TicketSets
<1>2. Cardinality(T \cup {t}) = IF t \in T THEN Cardinality(T) ELSE Cardinality(T) + 1
  BY <1>1, FS_AddElement
<1> QED
  BY <1>1, <1>2

(* The queue starts empty.                                                  *)
LEMMA InitInvariant == Init => IInv
<1> SUFFICES ASSUME Init PROVE IInv
  OBVIOUS
<1>1. Cardinality({}) = 0
  BY FS_EmptySet
<1>2. DOMAIN owners = {} /\ DOMAIN entries = {} /\ DOMAIN outcome = {} /\ Retained = {}
  BY DEF Init, Retained
<1>3. Cardinality(DOMAIN owners) <= Capacity /\ Cardinality(DOMAIN entries) <= Capacity
  BY <1>1, <1>2, CapacityAssumption
<1>4. TypeOK
  <2>1. /\ serial \in 0 .. Limit
        /\ error \in Reasons
        /\ closed \in BOOLEAN
    <3>1. serial \in 0 .. Limit
      BY LimitAssumption DEF Init
    <3>2. error \in Reasons /\ closed \in BOOLEAN
      BY DEF Init, Reasons
    <3> QED
      BY <3>1, <3>2
  <2>2. active \in SUBSET Active /\ claimed = {} /\ using = {}
    BY DEF Init
  <2> QED
    BY <1>2, <1>3, <2>1, <2>2 DEF TypeOK
<1>5. HeadRetained /\ RevokedWorkLeaves /\ LeavesOnce /\ ClaimedFirst
  BY <1>2 DEF Init, HeadRetained, RevokedWorkLeaves, LeavesOnce, ClaimedFirst
<1> QED
  BY <1>4, <1>5 DEF IInv

(* _cancel, in whichever method it runs: the method may close or fail the   *)
(* queue only if it selects every owner.                                    *)
LEMMA CancelInvariant ==
    ASSUME IInv, NEW S, S \subseteq DOMAIN owners, Cancel(S),
           UNCHANGED <<serial, claimed, using>>,
           error' \in Reasons, closed' \in BOOLEAN,
           ~Open' => S = DOMAIN owners \/ ~Open
    PROVE  IInv'
<1> USE DEF IInv, Cancel
<1>1. /\ DOMAIN owners' = DOMAIN owners
      /\ \A t \in DOMAIN owners :
            /\ owners'[t] \in Owner
            /\ owners'[t].retired <=> owners[t].retired \/ t \in S
  BY DEF TypeOK, Owner
<1>2. /\ DOMAIN entries' = DOMAIN entries \ Dropped(S)
      /\ \A e \in DOMAIN entries' : entries'[e] = entries[e]
  BY DEF Without
<1>3. /\ \A b \in active' : \E a \in active :
            /\ b.entry = a.entry /\ b.owner = a.owner /\ b \in Active
            /\ b.cancelled <=> a.cancelled \/ a.owner \in S
      /\ \A a \in active : \E b \in active' :
            /\ b.entry = a.entry /\ b.owner = a.owner
            /\ b.cancelled <=> a.cancelled \/ a.owner \in S
  <2> DEFINE Mark(a) == [a EXCEPT !.cancelled = @ \/ a.owner \in S]
  <2>1. active' = {Mark(a) : a \in active}
    OBVIOUS
  <2>2. ASSUME NEW a \in active
        PROVE  /\ Mark(a).entry = a.entry /\ Mark(a).owner = a.owner
               /\ Mark(a).cancelled <=> a.cancelled \/ a.owner \in S
               /\ Mark(a) \in Active
    <3>1. a \in Active
      BY DEF TypeOK
    <3>2. Mark(a) \in Active
      BY <3>1 DEF Active
    <3> QED
      BY <3>1, <3>2 DEF Active
  <2> HIDE DEF Mark
  <2> QED
    BY <2>1, <2>2
<1>4. Retained' = Retained
  <2>1. ASSUME NEW b \in active' PROVE b.entry \in Retained
    BY <1>3 DEF Retained
  <2>2. ASSUME NEW a \in active PROVE \E b \in active' : b.entry = a.entry
    BY <1>3
  <2>3. Retained' = {b.entry : b \in active'}
    BY DEF Retained
  <2>4. Retained = {a.entry : a \in active}
    BY DEF Retained
  <2> HIDE DEF Cancel
  <2> QED
    BY <2>1, <2>2, <2>3, <2>4
<1>5. Dropped(S) \subseteq DOMAIN entries /\ Dropped(S) \cap Retained = {}
  BY DEF Dropped
<1>6. /\ DOMAIN outcome' = DOMAIN outcome \cup Dropped(S)
      /\ \A e \in DOMAIN outcome' :
            outcome'[e] = IF e \in Dropped(S) THEN "cancelled" ELSE outcome[e]
  OBVIOUS
<1>7. TypeOK'
  <2>1. Cardinality(DOMAIN entries') <= Capacity
    <3>1. serial \in Nat /\ DOMAIN entries \in SUBSET (1 .. serial)
      BY LimitAssumption DEF TypeOK
    <3>2. DOMAIN entries' \in SUBSET DOMAIN entries
      BY <1>2
    <3>3. Cardinality(DOMAIN entries') <= Cardinality(DOMAIN entries)
          /\ Cardinality(DOMAIN entries') \in Nat /\ Cardinality(DOMAIN entries) \in Nat
      BY <3>1, <3>2, TicketSets
    <3> QED
      BY <3>3, CapacityAssumption DEF TypeOK
  <2>2. active' \in SUBSET Active
    BY <1>3
  <2>3. DOMAIN outcome' \subseteq 1 .. serial' /\ \A e \in DOMAIN outcome' : outcome'[e] \in Outcomes
    BY <1>5, <1>6 DEF TypeOK, Outcomes
  <2> QED
    BY <1>1, <1>2, <2>1, <2>2, <2>3 DEF TypeOK
<1>8. HeadRetained'
  <2>1. ASSUME NEW b \in active'
        PROVE  /\ Head(b.entry)'
               /\ entries'[b.entry] = b.owner
               /\ Registered(b.owner)'
    <3>1. PICK a \in active : b.entry = a.entry /\ b.owner = a.owner
      BY <1>3
    <3>2. a.entry \in DOMAIN entries'
      BY <1>2, <1>5 DEF HeadRetained, Head, Retained
    <3> QED
      BY <1>1, <1>2, <3>1, <3>2 DEF HeadRetained, Head, Registered
  <2>2. \A b, c \in active' : b = c
    BY DEF HeadRetained
  <2> QED
    BY <1>4, <2>1, <2>2 DEF HeadRetained
<1>9. RevokedWorkLeaves'
  <2>1. ASSUME NEW e \in DOMAIN entries' PROVE Registered(entries[e])'
    BY <1>1, <1>2 DEF RevokedWorkLeaves, Registered
  <2>2. ASSUME NEW e \in DOMAIN entries', owners'[entries'[e]].retired \/ ~Open'
        PROVE  \E b \in active' : b.entry = e /\ b.cancelled
    <3>1. e \in DOMAIN entries /\ e \notin Dropped(S) /\ entries'[e] = entries[e]
      BY <1>2
    <3>2. entries[e] \in DOMAIN owners
      BY <3>1 DEF RevokedWorkLeaves, Registered
    <3>3. CASE entries[e] \in S
      <4>1. PICK a \in active : a.entry = e
        BY <3>1, <3>3 DEF Dropped, Retained
      <4>2. a.owner \in S
        BY <3>3, <4>1 DEF HeadRetained
      <4> QED
        BY <1>3, <4>1, <4>2
    <3>4. CASE entries[e] \notin S
      <4>1. owners[entries[e]].retired \/ ~Open
        BY <1>1, <2>2, <3>1, <3>2, <3>4
      <4>2. PICK a \in active : a.entry = e /\ a.cancelled
        BY <3>1, <4>1 DEF RevokedWorkLeaves
      <4> QED
        BY <1>3, <4>2
    <3> QED
      BY <3>3, <3>4
  <2>3. ASSUME NEW b \in active' PROVE b.cancelled <=> owners'[b.owner].retired
    <3>1. PICK a \in active : b.owner = a.owner /\ (b.cancelled <=> a.cancelled \/ a.owner \in S)
      BY <1>3
    <3>2. a.owner \in DOMAIN owners /\ (a.cancelled <=> owners[a.owner].retired)
      BY DEF HeadRetained, RevokedWorkLeaves, Registered
    <3> QED
      BY <1>1, <3>1, <3>2
  <2> QED
    BY <1>2, <2>1, <2>2, <2>3 DEF RevokedWorkLeaves, Registered
<1>10. LeavesOnce'
  BY <1>2, <1>4, <1>5, <1>6 DEF LeavesOnce
<1>11. ClaimedFirst'
  BY <1>2 DEF ClaimedFirst
<1> QED
  BY <1>7, <1>8, <1>9, <1>10, <1>11

(* open_owner adds an owner to a table that is not full.                    *)
LEMMA OpenOwnerInvariant ==
    ASSUME IInv, NEW n \in Names, OpenOwner(n) PROVE IInv'
<1>1. CASE Exhaust
  <2>1. Cancel(DOMAIN owners) /\ UNCHANGED <<serial, closed, claimed, using>>
        /\ error' \in Reasons
    BY <1>1 DEF Exhaust, Terminal, IInv, TypeOK, Reasons
  <2> QED
    BY <2>1, CancelInvariant DEF IInv, TypeOK
<1>2. CASE ~Exhaust
  <2>1. /\ Open
        /\ Cardinality(DOMAIN owners) # Capacity
        /\ serial # Limit
        /\ serial' = serial + 1
        /\ owners' = With(owners, serial', [name |-> n, retired |-> FALSE])
        /\ UNCHANGED <<entries, active, error, closed, claimed, using, outcome>>
    BY <1>2 DEF OpenOwner, Full
  <2> DEFINE t == serial + 1
  <2>2. /\ DOMAIN owners' = DOMAIN owners \cup {t}
        /\ owners'[t] = [name |-> n, retired |-> FALSE]
        /\ \A o \in DOMAIN owners : owners'[o] = owners[o]
        /\ t \notin DOMAIN owners
        /\ t \in Tickets /\ t \in 0 .. Limit
    BY <2>1, LimitAssumption DEF With, IInv, TypeOK, Tickets
  <2>3. Cardinality(DOMAIN owners') <= Capacity
    <3>1. serial \in Nat /\ DOMAIN owners \in SUBSET (1 .. serial)
      BY LimitAssumption DEF IInv, TypeOK
    <3>2. Cardinality(DOMAIN owners \cup {t}) <= Cardinality(DOMAIN owners) + 1
      BY <3>1, TicketAdded
    <3>3. Cardinality(DOMAIN owners \cup {t}) \in Nat /\ Cardinality(DOMAIN owners) \in Nat
      <4>1. DOMAIN owners \cup {t} \in SUBSET (1 .. t) /\ t \in Nat
        BY <3>1
      <4> QED
        BY <3>1, <4>1, TicketSets
    <3> QED
      BY <2>1, <2>2, <3>2, <3>3, CapacityAssumption DEF IInv, TypeOK
  <2>4. TypeOK'
    <3>1. [name |-> n, retired |-> FALSE] \in Owner
      BY DEF Owner
    <3>2. \A o \in DOMAIN owners' : owners'[o] \in Owner
      BY <2>2, <3>1 DEF IInv, TypeOK
    <3>3. \A T \in SUBSET (1 .. serial) : T \in SUBSET (1 .. t)
      BY LimitAssumption DEF IInv, TypeOK
    <3>4. DOMAIN owners' \subseteq 1 .. serial' /\ serial' \in 0 .. Limit
      BY <2>1, <2>2, <3>3, LimitAssumption DEF IInv, TypeOK
    <3> QED
      BY <2>1, <2>3, <3>2, <3>3, <3>4 DEF IInv, TypeOK
  <2>5. Retained' = Retained
    BY <2>1 DEF Retained
  <2>6. HeadRetained'
    BY <2>1, <2>2, <2>5 DEF IInv, HeadRetained, Head, Registered
  <2>7. RevokedWorkLeaves'
    BY <2>1, <2>2, ZenonT(30) DEF IInv, HeadRetained, RevokedWorkLeaves, Registered, Open
  <2>8. LeavesOnce' /\ ClaimedFirst'
    BY <2>1, <2>5 DEF IInv, LeavesOnce, ClaimedFirst
  <2> QED
    BY <2>4, <2>6, <2>7, <2>8 DEF IInv
<1> QED
  BY <1>1, <1>2

(* enqueue appends an entry of a live owner behind all others.              *)
LEMMA EnqueueInvariant ==
    ASSUME IInv, NEW o, Enqueue(o) PROVE IInv'
<1>1. CASE Exhaust
  <2>1. Cancel(DOMAIN owners) /\ UNCHANGED <<serial, closed, claimed, using>>
        /\ error' \in Reasons
    BY <1>1 DEF Exhaust, Terminal, IInv, TypeOK, Reasons
  <2> QED
    BY <2>1, CancelInvariant DEF IInv, TypeOK
<1>2. CASE ~Exhaust
  <2>1. /\ Open /\ Registered(o) /\ ~owners[o].retired
        /\ Cardinality(DOMAIN entries) # Capacity
        /\ serial # Limit
        /\ serial' = serial + 1
        /\ entries' = With(entries, serial', o)
        /\ UNCHANGED <<owners, active, error, closed, claimed, using, outcome>>
    BY <1>2 DEF Enqueue, Full
  <2> DEFINE t == serial + 1
  <2>2. /\ DOMAIN entries' = DOMAIN entries \cup {t}
        /\ entries'[t] = o /\ o \in Tickets
        /\ \A e \in DOMAIN entries : entries'[e] = entries[e]
        /\ t \notin DOMAIN entries
        /\ t \in Tickets /\ t \in 0 .. Limit
    BY <2>1, LimitAssumption DEF With, IInv, TypeOK, Tickets, Registered
  <2>3. Cardinality(DOMAIN entries') <= Capacity
    <3>1. serial \in Nat /\ DOMAIN entries \in SUBSET (1 .. serial)
      BY LimitAssumption DEF IInv, TypeOK
    <3>2. Cardinality(DOMAIN entries \cup {t}) <= Cardinality(DOMAIN entries) + 1
      BY <3>1, TicketAdded
    <3>3. Cardinality(DOMAIN entries \cup {t}) \in Nat /\ Cardinality(DOMAIN entries) \in Nat
      <4>1. DOMAIN entries \cup {t} \in SUBSET (1 .. t) /\ t \in Nat
        BY <3>1
      <4> QED
        BY <3>1, <4>1, TicketSets
    <3> QED
      BY <2>1, <2>2, <3>2, <3>3, CapacityAssumption DEF IInv, TypeOK
  <2>4. TypeOK'
    BY <2>1, <2>2, <2>3, LimitAssumption DEF IInv, TypeOK
  <2>5. Retained' = Retained
    BY <2>1 DEF Retained
  <2>6. HeadRetained'
    BY <2>1, <2>2, <2>5, LimitAssumption DEF IInv, TypeOK, HeadRetained, Head, Registered
  <2>7. RevokedWorkLeaves'
    BY <2>1, <2>2 DEF IInv, RevokedWorkLeaves, Registered, Open
  <2>8. LeavesOnce' /\ ClaimedFirst'
    BY <2>1, <2>2, <2>5, LimitAssumption DEF IInv, TypeOK, LeavesOnce, ClaimedFirst
  <2> QED
    BY <2>4, <2>6, <2>7, <2>8 DEF IInv
<1> QED
  BY <1>1, <1>2

(* claim hands out the head when no claim is out.                           *)
LEMMA ClaimInvariant ==
    ASSUME IInv, NEW e \in DOMAIN entries, Claim(e) PROVE IInv'
<1> DEFINE a == [entry |-> e, owner |-> entries[e], cancelled |-> FALSE]
<1>1. /\ Open /\ active = {} /\ Head(e) /\ active' = {a}
      /\ claimed' = claimed \cup {e} /\ using' = using \cup {e}
      /\ UNCHANGED <<owners, entries, serial, error, closed, outcome>>
  BY DEF Claim
<1>2. Retained = {} /\ Retained' = {e}
  BY <1>1 DEF Retained
<1>3. entries[e] \in DOMAIN owners /\ ~owners[entries[e]].retired
  BY <1>1 DEF IInv, RevokedWorkLeaves, Registered
<1>4. a \in Active
  BY LimitAssumption DEF IInv, TypeOK, Active, Tickets
<1>5. TypeOK'
  BY <1>1, <1>4 DEF IInv, TypeOK
<1>6. HeadRetained'
  BY <1>1, <1>2, <1>3 DEF IInv, HeadRetained, Head, Registered
<1>7. RevokedWorkLeaves'
  BY <1>1, <1>3 DEF IInv, RevokedWorkLeaves, Registered, Open
<1>8. LeavesOnce' /\ ClaimedFirst'
  BY <1>1, <1>2 DEF IInv, LeavesOnce, ClaimedFirst, Head
<1> QED
  BY <1>5, <1>6, <1>7, <1>8 DEF IInv

(* complete takes the claimed head out, with one outcome.                   *)
LEMMA CompleteInvariant ==
    ASSUME IInv, NEW c \in claimed, NEW succeeded \in BOOLEAN, Complete(c, succeeded)
    PROVE  IInv'
<1>1. PICK a \in active :
        /\ c = a.entry
        /\ entries' = Without(entries, {a.entry})
        /\ active' = {}
        /\ using' = using \ {c}
        /\ outcome' = With(outcome, a.entry, Verdict(a, succeeded))
        /\ UNCHANGED <<owners, serial, error, closed, claimed>>
  BY DEF Complete
<1>2. active = {a} /\ a \in Active /\ c \in DOMAIN entries
  BY <1>1 DEF IInv, HeadRetained, TypeOK, Head
<1>3. Retained = {c} /\ Retained' = {}
  BY <1>1, <1>2 DEF Retained
<1>4. /\ DOMAIN entries' = DOMAIN entries \ {c}
      /\ \A e \in DOMAIN entries' : entries'[e] = entries[e]
  BY <1>1 DEF Without
<1>5. /\ DOMAIN outcome' = DOMAIN outcome \cup {c}
      /\ \A e \in DOMAIN outcome \ {c} : outcome'[e] = outcome[e]
      /\ outcome'[c] \in Outcomes
  BY <1>1, <1>2 DEF With, Verdict, Outcomes, Active
<1>6. Cardinality(DOMAIN entries') <= Capacity
  <2>1. serial \in Nat /\ DOMAIN entries \in SUBSET (1 .. serial)
    BY LimitAssumption DEF IInv, TypeOK
  <2>2. DOMAIN entries' \in SUBSET DOMAIN entries
    BY <1>4
  <2>3. Cardinality(DOMAIN entries') <= Cardinality(DOMAIN entries)
        /\ Cardinality(DOMAIN entries') \in Nat /\ Cardinality(DOMAIN entries) \in Nat
    BY <2>1, <2>2, TicketSets
  <2> QED
    BY <2>3, CapacityAssumption DEF IInv, TypeOK
<1>7. TypeOK'
  BY <1>1, <1>2, <1>4, <1>5, <1>6 DEF IInv, TypeOK
<1>8. HeadRetained'
  BY <1>1, <1>3 DEF IInv, HeadRetained
<1>9. RevokedWorkLeaves'
  <2>1. \A e \in DOMAIN entries' : Registered(entries[e])' /\ ~owners[entries[e]].retired /\ Open
    BY <1>2, <1>4, <1>1 DEF IInv, RevokedWorkLeaves, Registered
  <2> QED
    BY <1>1, <1>4, <2>1 DEF RevokedWorkLeaves, Registered, Open
<1>10. LeavesOnce' /\ ClaimedFirst'
  BY <1>1, <1>3, <1>4, <1>5 DEF IInv, LeavesOnce, ClaimedFirst
<1> QED
  BY <1>7, <1>8, <1>9, <1>10 DEF IInv

(* release_owner drops an owner nothing refers to any more.                 *)
LEMMA ReleaseInvariant ==
    ASSUME IInv, NEW o, ReleaseOwner(o) PROVE IInv'
<1>1. /\ Registered(o)
      /\ \A e \in DOMAIN entries : entries[e] # o
      /\ \A a \in active : a.owner # o
      /\ owners' = Without(owners, {o})
      /\ UNCHANGED <<entries, active, serial, error, closed, claimed, using, outcome>>
  BY DEF ReleaseOwner
<1>2. /\ DOMAIN owners' = DOMAIN owners \ {o}
      /\ \A t \in DOMAIN owners' : owners'[t] = owners[t]
  BY <1>1 DEF Without
<1>3. Cardinality(DOMAIN owners') <= Capacity
  <2>1. serial \in Nat /\ DOMAIN owners \in SUBSET (1 .. serial)
    BY LimitAssumption DEF IInv, TypeOK
  <2>2. DOMAIN owners' \in SUBSET DOMAIN owners
    BY <1>2
  <2>3. Cardinality(DOMAIN owners') <= Cardinality(DOMAIN owners)
        /\ Cardinality(DOMAIN owners') \in Nat /\ Cardinality(DOMAIN owners) \in Nat
    BY <2>1, <2>2, TicketSets
  <2> QED
    BY <2>3, CapacityAssumption DEF IInv, TypeOK
<1>4. TypeOK'
  BY <1>1, <1>2, <1>3 DEF IInv, TypeOK
<1>5. Retained' = Retained
  BY <1>1 DEF Retained
<1>6. HeadRetained'
  BY <1>1, <1>2, <1>5 DEF IInv, HeadRetained, Head, Registered
<1>7. RevokedWorkLeaves'
  BY <1>1, <1>2 DEF IInv, HeadRetained, RevokedWorkLeaves, Registered, Open
<1>8. LeavesOnce' /\ ClaimedFirst'
  BY <1>1, <1>5 DEF IInv, LeavesOnce, ClaimedFirst
<1> QED
  BY <1>4, <1>6, <1>7, <1>8 DEF IInv

(* Every step keeps the invariant: one step per action.                     *)
LEMMA StepInvariant == IInv /\ [Next]_vars => IInv'
<1> SUFFICES ASSUME IInv, [Next]_vars PROVE IInv'
  OBVIOUS
<1>1. ASSUME UNCHANGED vars PROVE IInv'
  BY <1>1 DEF vars, IInv, TypeOK, HeadRetained, RevokedWorkLeaves, LeavesOnce,
              ClaimedFirst, Retained, Head, Registered, Open
<1>2. ASSUME NEW n \in Names, OpenOwner(n) PROVE IInv'
  BY <1>2, OpenOwnerInvariant
<1>3. ASSUME NEW n \in Names, Purge(n) PROVE IInv'
  BY <1>3, CancelInvariant DEF Purge, IInv, TypeOK, Open
<1>4. ASSUME NEW o \in 1 .. serial, Enqueue(o) PROVE IInv'
  BY <1>4, EnqueueInvariant
<1>5. ASSUME NEW o \in 1 .. serial, Retire(o) PROVE IInv'
  BY <1>5, CancelInvariant DEF Retire, Registered, IInv, TypeOK, Open
<1>6. ASSUME NEW o \in 1 .. serial, ReleaseOwner(o) PROVE IInv'
  BY <1>6, ReleaseInvariant
<1>7. ASSUME NEW e \in DOMAIN entries, Claim(e) PROVE IInv'
  BY <1>7, ClaimInvariant
<1>8. ASSUME NEW c \in claimed, NEW succeeded \in BOOLEAN, Complete(c, succeeded)
      PROVE  IInv'
  BY <1>8, CompleteInvariant
<1>9. ASSUME Close PROVE IInv'
  BY <1>9, CancelInvariant DEF Close, IInv, TypeOK
<1>10. ASSUME Uncertain PROVE IInv'
  <2>1. error' \in Reasons
    BY <1>10 DEF Uncertain, Terminal, IInv, TypeOK, Reasons
  <2> QED
    BY <1>10, <2>1, CancelInvariant DEF Uncertain, Terminal, IInv, TypeOK
<1> QED
  BY <1>1, <1>2, <1>3, <1>4, <1>5, <1>6, <1>7, <1>8, <1>9, <1>10 DEF Next

(* The inductive invariant holds in every reachable state.                  *)
THEOREM QueueInvariant == Spec => []IInv
BY InitInvariant, StepInvariant, PTL DEF Spec

(* Both tables stay within capacity and no ticket wraps.                    *)
THEOREM QueueTypeCorrect == Spec => []TypeOK
<1>1. IInv => TypeOK
  BY DEF IInv
<1> QED
  BY <1>1, QueueInvariant, PTL

(* The head a consumer works on stays in place with its owner.              *)
THEOREM HeadRetainedHolds == Spec => []HeadRetained
<1>1. IInv => HeadRetained
  BY DEF IInv
<1> QED
  BY <1>1, QueueInvariant, PTL

(* Nothing of a revoked owner is left to be claimed.                        *)
THEOREM RevokedWorkLeavesHolds == Spec => []RevokedWorkLeaves
<1>1. IInv => RevokedWorkLeaves
  BY DEF IInv
<1> QED
  BY <1>1, QueueInvariant, PTL

(* An entry is pending or has exactly one outcome, earned by a claim.       *)
THEOREM LeavesOnceHolds == Spec => []LeavesOnce
<1>1. IInv => LeavesOnce
  BY DEF IInv
<1> QED
  BY <1>1, QueueInvariant, PTL

(* Requests are handed out in the order they were enqueued.                 *)
THEOREM ClaimsAreInOrder == Spec => ClaimsInOrder
<1>1. IInv /\ [Next]_vars => [\A e \in claimed' \ claimed : \A d \in claimed : d < e]_vars
  <2> SUFFICES ASSUME IInv, Next, NEW e \in claimed' \ claimed, NEW d \in claimed
               PROVE  d < e
    OBVIOUS
  <2>1. Claim(e)
    BY DEF Next, OpenOwner, Purge, Enqueue, Retire, ReleaseOwner, Claim, Complete,
       Close, Uncertain, Exhaust
  <2>2. e \in DOMAIN entries /\ d <= e /\ d # e
    BY <2>1 DEF Claim, Head, IInv, ClaimedFirst
  <2> QED
    BY <2>2, LimitAssumption DEF IInv, TypeOK
<1> QED
  BY <1>1, QueueInvariant, PTL DEF Spec, ClaimsInOrder

(* _cancel adds outcomes only for the entries it drops.                     *)
LEMMA CancelOutcomes ==
    ASSUME IInv, NEW S, Cancel(S)
    PROVE  /\ \A e \in DOMAIN outcome : outcome'[e] = outcome[e]
           /\ \A e \in DOMAIN outcome' \ DOMAIN outcome : outcome'[e] = "cancelled"
<1>1. Dropped(S) \cap DOMAIN outcome = {}
  BY DEF IInv, LeavesOnce, Dropped
<1> QED
  BY <1>1 DEF Cancel

(* Outcomes are final, and "completed" is only reported for live owners.    *)
THEOREM OutcomesAreEarnedHolds == Spec => OutcomesAreEarned
<1> DEFINE Earned ==
      /\ \A e \in DOMAIN outcome : outcome'[e] = outcome[e]
      /\ \A e \in DOMAIN outcome' \ DOMAIN outcome :
           outcome'[e] = "completed" => Open /\ ~owners[entries[e]].retired
<1>1. IInv /\ [Next]_vars => [Earned]_vars
  <2> SUFFICES ASSUME IInv, Next PROVE Earned
    OBVIOUS
  <2>1. ASSUME UNCHANGED outcome PROVE Earned
    BY <2>1
  <2>2. ASSUME NEW S, Cancel(S) PROVE Earned
    BY <2>2, CancelOutcomes
  <2>3. ASSUME NEW c \in claimed, NEW succeeded \in BOOLEAN, Complete(c, succeeded)
        PROVE  Earned
    <3>1. PICK a \in active :
            /\ c = a.entry
            /\ outcome' = With(outcome, a.entry, Verdict(a, succeeded))
      BY <2>3 DEF Complete
    <3>2. /\ c \in DOMAIN entries /\ c \notin DOMAIN outcome
          /\ entries[c] = a.owner
          /\ \A b \in active : b = a
      BY <3>1 DEF IInv, HeadRetained, Head, LeavesOnce
    <3>3. a.cancelled \in BOOLEAN
      BY DEF IInv, TypeOK, Active
    <3>4. /\ DOMAIN outcome' = DOMAIN outcome \cup {c}
          /\ \A e \in DOMAIN outcome : outcome'[e] = outcome[e]
          /\ outcome'[c] = "completed" => ~a.cancelled
      BY <3>1, <3>2, <3>3 DEF With, Verdict
    <3>5. ~a.cancelled => Open /\ ~owners[a.owner].retired
      BY <3>2 DEF IInv, RevokedWorkLeaves
    <3> QED
      BY <3>2, <3>4, <3>5
  <2>4. CASE \E n \in Names : OpenOwner(n) \/ Purge(n)
    BY <2>1, <2>2, <2>4 DEF OpenOwner, Purge, Exhaust, Terminal
  <2>5. CASE \E o \in 1 .. serial : Enqueue(o) \/ Retire(o) \/ ReleaseOwner(o)
    BY <2>1, <2>2, <2>5 DEF Enqueue, Retire, ReleaseOwner, Exhaust, Terminal
  <2>6. CASE \E e \in DOMAIN entries : Claim(e)
    BY <2>1, <2>6 DEF Claim
  <2>7. CASE Close \/ Uncertain
    BY <2>2, <2>7 DEF Close, Uncertain, Terminal
  <2> QED
    BY <2>3, <2>4, <2>5, <2>6, <2>7 DEF Next
<1> QED
  BY <1>1, QueueInvariant, PTL DEF Spec, OutcomesAreEarned
-------------------------------------------------------------------------------
(* What the queue is to one of its owners: the contract that the native     *)
(* queue keeps too, and that the retained-operations ledger counts on. The  *)
(* theorem holds for every value of Watched, a ticket that was never issued *)
(* or that is no owner's included.                                          *)
CONSTANT
    Watched         \* the owner ticket whose generation is looked at

WatchedRows == {e \in DOMAIN entries : entries[e] = Watched}

WatchedClaims == {a \in active : a.owner = Watched}
WatchedClaim == IF WatchedClaims = {} THEN 0 ELSE (CHOOSE a \in WatchedClaims : TRUE).entry

(* The tombstone outlives the owner's record: a ticket that was issued and  *)
(* is neither an owner's nor an entry's was a released owner's.             *)
Issued == DOMAIN owners \cup DOMAIN entries \cup DOMAIN outcome
WatchedRetired ==
    \/ Registered(Watched) /\ owners[Watched].retired
    \/ Watched \in (1 .. serial) \ Issued

Contract == INSTANCE PaintContract WITH
    TicketLimit <- Limit,
    rows <- WatchedRows,
    claim <- WatchedClaim,
    retired <- WatchedRetired,
    broken <- error # "none"

(* Owners and entries draw from one counter and never share a ticket.       *)
TicketsApart == DOMAIN owners \cap (DOMAIN entries \cup DOMAIN outcome) = {}

(* A table whose key set grows by the next ticket, or shrinks, or passes    *)
(* its keys on to the outcomes, keeps the tickets apart.                    *)
LEMMA ApartStep == IInv /\ TicketsApart /\ [Next]_vars => TicketsApart'
<1> SUFFICES ASSUME IInv, TicketsApart, [Next]_vars PROVE TicketsApart'
  OBVIOUS
<1>0. /\ serial + 1 \notin DOMAIN owners
      /\ serial + 1 \notin DOMAIN entries \cup DOMAIN outcome
  BY LimitAssumption DEF IInv, TypeOK
<1>1. ASSUME UNCHANGED <<owners, entries, outcome>> PROVE TicketsApart'
  BY <1>1 DEF TicketsApart
<1>2. ASSUME NEW S, Cancel(S) PROVE TicketsApart'
  <2>1. /\ DOMAIN owners' = DOMAIN owners
        /\ DOMAIN entries' \subseteq DOMAIN entries
        /\ DOMAIN outcome' = DOMAIN outcome \cup Dropped(S)
        /\ Dropped(S) \subseteq DOMAIN entries
    BY <1>2 DEF Cancel, Without, Dropped
  <2> QED
    BY <2>1 DEF TicketsApart
<1>3. ASSUME NEW n \in Names, OpenOwner(n) PROVE TicketsApart'
  <2>1. CASE Exhaust
    BY <1>2, <2>1 DEF Exhaust, Terminal
  <2>2. CASE ~Exhaust
    <3>1. DOMAIN owners' = DOMAIN owners \cup {serial + 1} /\ UNCHANGED <<entries, outcome>>
      BY <1>3, <2>2 DEF OpenOwner, With
    <3> QED
      BY <1>0, <3>1 DEF TicketsApart
  <2> QED
    BY <2>1, <2>2
<1>4. ASSUME NEW o \in 1 .. serial, Enqueue(o) PROVE TicketsApart'
  <2>1. CASE Exhaust
    BY <1>2, <2>1 DEF Exhaust, Terminal
  <2>2. CASE ~Exhaust
    <3>1. DOMAIN entries' = DOMAIN entries \cup {serial + 1} /\ UNCHANGED <<owners, outcome>>
      BY <1>4, <2>2 DEF Enqueue, With
    <3> QED
      BY <1>0, <3>1 DEF TicketsApart
  <2> QED
    BY <2>1, <2>2
<1>5. ASSUME NEW o \in 1 .. serial, ReleaseOwner(o) PROVE TicketsApart'
  <2>1. DOMAIN owners' = DOMAIN owners \ {o} /\ UNCHANGED <<entries, outcome>>
    BY <1>5 DEF ReleaseOwner, Without
  <2> QED
    BY <2>1 DEF TicketsApart
<1>6. ASSUME NEW c \in claimed, NEW succeeded \in BOOLEAN, Complete(c, succeeded)
      PROVE  TicketsApart'
  <2>1. /\ c \in DOMAIN entries
        /\ DOMAIN entries' = DOMAIN entries \ {c}
        /\ DOMAIN outcome' = DOMAIN outcome \cup {c}
        /\ UNCHANGED owners
    BY <1>6 DEF Complete, With, Without, IInv, HeadRetained, Head
  <2> QED
    BY <2>1 DEF TicketsApart
<1>7. ASSUME NEW n \in Names, Purge(n) PROVE TicketsApart'
  BY <1>2, <1>7 DEF Purge
<1>8. ASSUME NEW o \in 1 .. serial, Retire(o) PROVE TicketsApart'
  BY <1>2, <1>8 DEF Retire
<1>9. ASSUME NEW e \in DOMAIN entries, Claim(e) PROVE TicketsApart'
  BY <1>1, <1>9 DEF Claim
<1>10. ASSUME Close \/ Uncertain PROVE TicketsApart'
  BY <1>2, <1>10 DEF Close, Uncertain, Terminal
<1>11. ASSUME UNCHANGED vars PROVE TicketsApart'
  BY <1>1, <1>11 DEF vars
<1> QED
  BY <1>3, <1>4, <1>5, <1>6, <1>7, <1>8, <1>9, <1>10, <1>11 DEF Next

(* No owner's ticket is an entry's, pending or gone.                        *)
THEOREM TicketsStayApart == Spec => []TicketsApart
<1>1. Init => TicketsApart
  BY DEF Init, TicketsApart
<1> QED
  BY <1>1, ApartStep, QueueInvariant, PTL DEF Spec

(* The claim as the owner sees it: the one that is out, if it is the owner's.*)
LEMMA ClaimSeen ==
    ASSUME IInv
    PROVE  /\ active = {} => WatchedClaim = 0
           /\ \A a \in active :
                /\ active = {a} /\ Retained = {a.entry} /\ a \in Active
                /\ a.entry \in DOMAIN entries /\ entries[a.entry] = a.owner
                /\ WatchedClaim = IF a.owner = Watched THEN a.entry ELSE 0
<1>1. active = {} => WatchedClaim = 0
  BY DEF WatchedClaim, WatchedClaims
<1>2. ASSUME NEW a \in active
      PROVE  /\ active = {a} /\ Retained = {a.entry} /\ a \in Active
             /\ a.entry \in DOMAIN entries /\ entries[a.entry] = a.owner
             /\ WatchedClaim = IF a.owner = Watched THEN a.entry ELSE 0
  <2>1. /\ active = {a} /\ a \in Active
        /\ a.entry \in DOMAIN entries /\ entries[a.entry] = a.owner
    BY DEF IInv, TypeOK, HeadRetained, Head
  <2>2. Retained = {a.entry}
    BY <2>1 DEF Retained
  <2>3. CASE a.owner = Watched
    <3>1. WatchedClaims = {a}
      BY <2>1, <2>3 DEF WatchedClaims
    <3> QED
      BY <2>1, <2>2, <2>3, <3>1 DEF WatchedClaim
  <2>4. CASE a.owner # Watched
    <3>1. WatchedClaims = {}
      BY <2>1, <2>4 DEF WatchedClaims
    <3> QED
      BY <2>1, <2>2, <2>4, <3>1 DEF WatchedClaim
  <2> QED
    BY <2>1, <2>2, <2>3, <2>4
<1> QED
  BY <1>1, <1>2

(* _cancel, seen by the owner: its tombstone is set exactly if it is        *)
(* selected, and then its claimed row alone is left.                        *)
LEMMA CancelSeen ==
    ASSUME IInv, IInv', NEW S, S \subseteq DOMAIN owners, Cancel(S), serial' = serial
    PROVE  /\ WatchedClaim' = WatchedClaim
           /\ Watched \in S => WatchedRetired' /\ WatchedRows' = WatchedRows \cap {WatchedClaim}
           /\ Watched \notin S => WatchedRetired' = WatchedRetired /\ WatchedRows' = WatchedRows
<1>1. /\ DOMAIN owners' = DOMAIN owners
      /\ \A t \in DOMAIN owners :
            owners'[t] = IF t \in S THEN [owners[t] EXCEPT !.retired = TRUE] ELSE owners[t]
  BY DEF Cancel
<1>2. /\ DOMAIN entries' = DOMAIN entries \ Dropped(S)
      /\ \A e \in DOMAIN entries' : entries'[e] = entries[e]
      /\ DOMAIN outcome' = DOMAIN outcome \cup Dropped(S)
      /\ Dropped(S) \subseteq DOMAIN entries
  BY DEF Cancel, Without, Dropped
<1>3. Issued' = Issued
  BY <1>1, <1>2 DEF Issued
<1>4. WatchedClaim' = WatchedClaim
  <2>1. CASE active = {}
    <3>1. active' = {}
      BY <2>1 DEF Cancel
    <3>2. WatchedClaim' = 0
      BY <3>1 DEF WatchedClaim, WatchedClaims
    <3> QED
      BY <2>1, <3>2, ClaimSeen
  <2>2. ASSUME NEW a \in active PROVE WatchedClaim' = WatchedClaim
    <3> DEFINE b == [a EXCEPT !.cancelled = @ \/ a.owner \in S]
    <3>1. active = {a} /\ a \in Active
      BY ClaimSeen
    <3>2. active' = {b}
      BY <3>1 DEF Cancel
    <3>3. b.entry = a.entry /\ b.owner = a.owner
      BY <3>1 DEF Active
    <3> HIDE DEF b
    <3>4. WatchedClaims' = IF b.owner = Watched THEN {b} ELSE {}
      BY <3>2 DEF WatchedClaims
    <3>5. WatchedClaim' = IF b.owner = Watched THEN b.entry ELSE 0
      BY <3>4 DEF WatchedClaim
    <3> QED
      BY <3>3, <3>5, ClaimSeen
  <2> QED
    BY <2>1, <2>2
<1>5. ASSUME Watched \in S
      PROVE  WatchedRetired' /\ WatchedRows' = WatchedRows \cap {WatchedClaim}
  <2>1. Watched \in DOMAIN owners' /\ owners'[Watched].retired
    BY <1>1, <1>5 DEF IInv, TypeOK, Owner
  <2>2. WatchedRetired'
    BY <2>1 DEF WatchedRetired, Registered
  <2>3. WatchedRows' = WatchedRows \cap Retained
    BY <1>2, <1>5 DEF WatchedRows, Dropped
  <2>4. WatchedRows \cap Retained = WatchedRows \cap {WatchedClaim}
    <3>1. CASE active = {}
      <4>1. Retained = {} /\ WatchedClaim = 0
        BY <3>1, ClaimSeen DEF Retained
      <4>2. 0 \notin WatchedRows
        BY DEF WatchedRows, IInv, TypeOK
      <4> QED
        BY <4>1, <4>2
    <3>2. ASSUME NEW a \in active
          PROVE  WatchedRows \cap Retained = WatchedRows \cap {WatchedClaim}
      <4>1. /\ Retained = {a.entry} /\ entries[a.entry] = a.owner
            /\ WatchedClaim = IF a.owner = Watched THEN a.entry ELSE 0
        BY ClaimSeen
      <4>2. 0 \notin WatchedRows
        BY DEF WatchedRows, IInv, TypeOK
      <4>3. a.owner # Watched => a.entry \notin WatchedRows
        BY <4>1 DEF WatchedRows
      <4> QED
        BY <4>1, <4>2, <4>3
    <3> QED
      BY <3>1, <3>2
  <2> QED
    BY <2>2, <2>3, <2>4
<1>6. ASSUME Watched \notin S
      PROVE  WatchedRetired' = WatchedRetired /\ WatchedRows' = WatchedRows
  <2>1. WatchedRows' = WatchedRows
    BY <1>2, <1>6 DEF WatchedRows, Dropped
  <2>2. Registered(Watched)' <=> Registered(Watched)
    BY <1>1 DEF Registered
  <2>3. Registered(Watched) => owners'[Watched] = owners[Watched]
    BY <1>1, <1>6 DEF Registered
  <2>4. WatchedRetired' <=> WatchedRetired
    BY <1>3, <2>2, <2>3 DEF WatchedRetired
  <2>5. WatchedRetired \in BOOLEAN /\ WatchedRetired' \in BOOLEAN
    BY DEF WatchedRetired
  <2> QED
    BY <2>1, <2>4, <2>5
<1> QED
  BY <1>4, <1>5, <1>6

(* A method that cancels and leaves the fault alone retires the owner, if   *)
(* it selects it; of a failed queue the contract asks no more.              *)
LEMMA CancelImplements ==
    ASSUME IInv, IInv', NEW S, S \subseteq DOMAIN owners, Cancel(S),
           serial' = serial, error' = error
    PROVE  [Contract!PaintNext]_Contract!paint
<1>1. CASE Watched \notin S
  <2>1. UNCHANGED Contract!paint
    BY <1>1, CancelSeen DEF Contract!paint
  <2> QED
    BY <2>1
<1>2. CASE Watched \in S /\ error = "none"
  <2>1. WatchedRetired' = TRUE
    BY <1>2, CancelSeen DEF WatchedRetired
  <2>2. Contract!Retire
    BY <1>2, <2>1, CancelSeen DEF Contract!Retire
  <2> QED
    BY <2>2 DEF Contract!PaintNext
<1>3. CASE Watched \in S /\ error # "none"
  <2>1. WatchedRetired' = TRUE
    BY <1>3, CancelSeen DEF WatchedRetired
  <2>2. serial' \in serial .. Limit
    BY LimitAssumption DEF IInv, TypeOK
  <2>3. WatchedRows' \in SUBSET (WatchedRows \cup {serial'})
    BY <1>3, CancelSeen
  <2>4. (error # "none")' = TRUE
    BY <1>3
  <2>5. Contract!Break
    BY <2>1, <2>2, <2>3, <2>4, CancelSeen DEF Contract!Break
  <2> QED
    BY <2>5 DEF Contract!PaintNext
<1> QED
  BY <1>1, <1>2, <1>3

(* _terminal is the contract's failure.                                     *)
LEMMA TerminalImplements ==
    ASSUME IInv, IInv', NEW reason, reason # "none", Terminal(reason), serial' = serial
    PROVE  [Contract!PaintNext]_Contract!paint
<1>1. Cancel(DOMAIN owners) /\ error' # "none"
  BY DEF Terminal
<1>2. serial' \in serial .. Limit
  BY LimitAssumption DEF IInv, TypeOK
<1>3. WatchedRows' \in SUBSET (WatchedRows \cup {serial'})
  BY <1>1, CancelSeen
<1>4. WatchedRetired' \in {WatchedRetired, TRUE}
  <2>1. WatchedRetired' \in BOOLEAN
    BY DEF WatchedRetired
  <2> QED
    BY <1>1, <2>1, CancelSeen
<1>5. WatchedClaim' = WatchedClaim
  BY <1>1, CancelSeen
<1>6. (error # "none")' = TRUE
  BY <1>1
<1>7. Contract!Break
  BY <1>2, <1>3, <1>4, <1>5, <1>6 DEF Contract!Break
<1> QED
  BY <1>7 DEF Contract!PaintNext

(* open_owner: a ticket that is not a row's.                                *)
LEMMA OpenOwnerImplements ==
    ASSUME IInv, IInv', TicketsApart, NEW n \in Names, OpenOwner(n)
    PROVE  [Contract!PaintNext]_Contract!paint
<1>1. CASE Exhaust
  BY <1>1, TerminalImplements DEF Exhaust
<1>2. CASE ~Exhaust
  <2>1. /\ serial # Limit /\ serial' = serial + 1
        /\ owners' = With(owners, serial', [name |-> n, retired |-> FALSE])
        /\ UNCHANGED <<entries, active, error, outcome>>
    BY <1>2 DEF OpenOwner
  <2>2. /\ DOMAIN owners' = DOMAIN owners \cup {serial + 1}
        /\ owners'[serial + 1] = [name |-> n, retired |-> FALSE]
        /\ \A t \in DOMAIN owners : owners'[t] = owners[t]
    BY <2>1, LimitAssumption DEF With, IInv, TypeOK
  <2>3. /\ serial \in 0 .. Limit /\ serial + 1 \in serial + 1 .. Limit
        /\ serial + 1 \notin Issued
        /\ 1 .. serial + 1 = (1 .. serial) \cup {serial + 1}
        /\ serial + 1 \notin 1 .. serial
    BY <2>1, LimitAssumption DEF IInv, TypeOK, Issued
  <2>4. Issued' = Issued \cup {serial + 1}
    BY <2>1, <2>2 DEF Issued
  <2>5. (1 .. serial') \ Issued' = (1 .. serial) \ Issued
    BY <2>1, <2>3, <2>4
  <2>6. (Registered(Watched) /\ owners[Watched].retired)'
          <=> Registered(Watched) /\ owners[Watched].retired
    <3>1. CASE Watched = serial + 1
      <4>1. Watched \notin DOMAIN owners
        BY <2>3, <3>1 DEF Issued
      <4> QED
        BY <2>2, <3>1, <4>1 DEF Registered
    <3>2. CASE Watched # serial + 1
      BY <2>2, <3>2 DEF Registered
    <3> QED
      BY <3>1, <3>2
  <2>7. WatchedRetired' = WatchedRetired
    BY <2>5, <2>6 DEF WatchedRetired
  <2>8. UNCHANGED <<WatchedRows, WatchedClaim>>
    BY <2>1 DEF WatchedRows, WatchedClaim, WatchedClaims
  <2>9. Contract!Mint
    BY <2>1, <2>3, <2>7, <2>8 DEF Contract!Mint
  <2> QED
    BY <2>9 DEF Contract!PaintNext
<1> QED
  BY <1>1, <1>2

(* enqueue: a row of the owner that asked, which is not retired; to another *)
(* owner, a ticket that is gone.                                            *)
LEMMA EnqueueImplements ==
    ASSUME IInv, IInv', TicketsApart, NEW o \in 1 .. serial, Enqueue(o)
    PROVE  [Contract!PaintNext]_Contract!paint
<1>1. CASE Exhaust
  BY <1>1, TerminalImplements DEF Exhaust
<1>2. CASE ~Exhaust
  <2>1. /\ Open /\ Registered(o) /\ ~owners[o].retired
        /\ serial # Limit /\ serial' = serial + 1
        /\ entries' = With(entries, serial', o)
        /\ UNCHANGED <<owners, active, error, outcome>>
    BY <1>2 DEF Enqueue
  <2>2. /\ DOMAIN entries' = DOMAIN entries \cup {serial + 1}
        /\ entries'[serial + 1] = o
        /\ \A e \in DOMAIN entries : entries'[e] = entries[e]
        /\ serial + 1 \notin DOMAIN entries
    BY <2>1, LimitAssumption DEF With, IInv, TypeOK
  <2>3. /\ serial \in 0 .. Limit /\ serial + 1 \in serial + 1 .. Limit
        /\ serial + 1 \in 1 .. Limit
        /\ serial + 1 \notin Issued
        /\ 1 .. serial + 1 = (1 .. serial) \cup {serial + 1}
        /\ serial + 1 \notin 1 .. serial
    BY <2>1, LimitAssumption DEF IInv, TypeOK, Issued
  <2>4. Issued' = Issued \cup {serial + 1}
    BY <2>1, <2>2 DEF Issued
  <2>5. (1 .. serial') \ Issued' = (1 .. serial) \ Issued
    BY <2>1, <2>3, <2>4
  <2>6. WatchedRetired' = WatchedRetired
    BY <2>1, <2>5 DEF WatchedRetired, Registered
  <2>7. WatchedClaim' = WatchedClaim
    BY <2>1 DEF WatchedClaim, WatchedClaims
  <2>8. CASE o = Watched
    <3>1. WatchedRows' = WatchedRows \cup {serial + 1}
      BY <2>2, <2>8 DEF WatchedRows
    <3>2. ~WatchedRetired
      BY <2>1, <2>8 DEF WatchedRetired, Registered, Issued
    <3>3. Contract!Admit(serial + 1)
      BY <2>1, <2>3, <2>6, <2>7, <3>1, <3>2 DEF Contract!Admit, Open
    <3> QED
      BY <2>3, <3>3 DEF Contract!PaintNext
  <2>9. CASE o # Watched
    <3>1. WatchedRows' = WatchedRows
      BY <2>2, <2>9 DEF WatchedRows
    <3>2. Contract!Mint
      BY <2>1, <2>3, <2>6, <2>7, <3>1 DEF Contract!Mint
    <3> QED
      BY <3>2 DEF Contract!PaintNext
  <2> QED
    BY <2>8, <2>9
<1> QED
  BY <1>1, <1>2

(* claim: the owner's head, or a row of another owner.                      *)
LEMMA ClaimImplements ==
    ASSUME IInv, IInv', TicketsApart, NEW e \in DOMAIN entries, Claim(e)
    PROVE  [Contract!PaintNext]_Contract!paint
<1> DEFINE a == [entry |-> e, owner |-> entries[e], cancelled |-> FALSE]
<1>1. /\ Open /\ active = {} /\ active' = {a}
      /\ UNCHANGED <<owners, entries, serial, error, outcome>>
  BY DEF Claim
<1>2. WatchedClaim = 0
  BY <1>1, ClaimSeen
<1>3. UNCHANGED <<WatchedRows, WatchedRetired>>
  BY <1>1 DEF WatchedRows, WatchedRetired, Registered, Issued
<1>4. WatchedClaims' = IF entries[e] = Watched THEN {a} ELSE {}
  BY <1>1 DEF WatchedClaims
<1>5. CASE entries[e] = Watched
  <2>1. WatchedClaim' = e
    <3>1. WatchedClaims' = {a} /\ a.entry = e
      BY <1>4, <1>5
    <3> HIDE DEF a
    <3> QED
      BY <3>1 DEF WatchedClaim
  <2>2. Watched \in DOMAIN owners /\ ~owners[Watched].retired
    BY <1>1, <1>5 DEF IInv, RevokedWorkLeaves, Registered
  <2>3. ~WatchedRetired
    BY <2>2 DEF WatchedRetired, Registered, Issued
  <2>4. e \in WatchedRows /\ e \in 1 .. Limit
    BY <1>5, LimitAssumption DEF WatchedRows, IInv, TypeOK
  <2>5. Contract!Claim(e)
    BY <1>1, <1>2, <1>3, <2>1, <2>3, <2>4 DEF Contract!Claim, Open
  <2> QED
    BY <2>4, <2>5 DEF Contract!PaintNext
<1>6. CASE entries[e] # Watched
  <2>1. WatchedClaim' = 0
    BY <1>4, <1>6 DEF WatchedClaim
  <2>2. UNCHANGED Contract!paint
    BY <1>1, <1>2, <1>3, <2>1 DEF Contract!paint
  <2> QED
    BY <2>2
<1> QED
  BY <1>5, <1>6

(* complete: the owner's claimed row settles, or another's does.            *)
LEMMA CompleteImplements ==
    ASSUME IInv, IInv', TicketsApart, NEW c \in claimed, NEW succeeded \in BOOLEAN,
           Complete(c, succeeded)
    PROVE  [Contract!PaintNext]_Contract!paint
<1>1. PICK a \in active :
        /\ c = a.entry
        /\ entries' = Without(entries, {a.entry})
        /\ active' = {}
        /\ outcome' = With(outcome, a.entry, Verdict(a, succeeded))
        /\ UNCHANGED <<owners, serial, error>>
  BY DEF Complete
<1>2. /\ c \in DOMAIN entries /\ entries[c] = a.owner /\ a \in Active
      /\ WatchedClaim = IF a.owner = Watched THEN c ELSE 0
  BY <1>1, ClaimSeen
<1>3. /\ DOMAIN entries' = DOMAIN entries \ {c}
      /\ \A e \in DOMAIN entries' : entries'[e] = entries[e]
      /\ DOMAIN outcome' = DOMAIN outcome \cup {c}
  BY <1>1 DEF Without, With
<1>4. Issued' = Issued
  BY <1>1, <1>2, <1>3 DEF Issued
<1>5. WatchedRetired' = WatchedRetired
  BY <1>1, <1>4 DEF WatchedRetired, Registered
<1>6. WatchedClaim' = 0
  BY <1>1 DEF WatchedClaim, WatchedClaims
<1>7. WatchedRows' = WatchedRows \ {c}
  BY <1>3 DEF WatchedRows
<1>8. CASE a.owner = Watched
  <2>1. c \in WatchedRows /\ c \in 1 .. Limit
    BY <1>2, <1>8, LimitAssumption DEF WatchedRows, IInv, TypeOK
  <2>2. Contract!Settle(c)
    BY <1>1, <1>2, <1>5, <1>6, <1>7, <1>8, <2>1 DEF Contract!Settle
  <2> QED
    BY <2>1, <2>2 DEF Contract!PaintNext
<1>9. CASE a.owner # Watched
  <2>1. c \notin WatchedRows
    BY <1>2, <1>9 DEF WatchedRows
  <2>2. UNCHANGED Contract!paint
    BY <1>1, <1>2, <1>5, <1>6, <1>7, <1>9, <2>1 DEF Contract!paint
  <2> QED
    BY <2>2
<1> QED
  BY <1>8, <1>9

(* release_owner: the tombstone stays behind.                               *)
LEMMA ReleaseImplements ==
    ASSUME IInv, IInv', TicketsApart, NEW o \in 1 .. serial, ReleaseOwner(o)
    PROVE  [Contract!PaintNext]_Contract!paint
<1>1. /\ Registered(o) /\ owners[o].retired
      /\ owners' = Without(owners, {o})
      /\ UNCHANGED <<entries, active, serial, error, outcome>>
  BY DEF ReleaseOwner
<1>2. /\ DOMAIN owners' = DOMAIN owners \ {o}
      /\ \A t \in DOMAIN owners' : owners'[t] = owners[t]
  BY <1>1 DEF Without
<1>3. o \notin DOMAIN entries \cup DOMAIN outcome /\ o \in DOMAIN owners
  BY <1>1 DEF TicketsApart, Registered
<1>4. Issued' = Issued \ {o}
  BY <1>1, <1>2, <1>3 DEF Issued
<1>5. WatchedRetired' <=> WatchedRetired
  <2>1. CASE Watched = o
    BY <1>1, <1>4, <2>1 DEF WatchedRetired
  <2>2. CASE Watched # o
    <3>1. Registered(Watched)' <=> Registered(Watched)
      BY <1>2, <2>2 DEF Registered
    <3>2. Registered(Watched) => owners'[Watched] = owners[Watched]
      BY <1>2, <2>2 DEF Registered
    <3>3. Watched \in (1 .. serial') \ Issued' <=> Watched \in (1 .. serial) \ Issued
      BY <1>1, <1>4, <2>2
    <3> QED
      BY <3>1, <3>2, <3>3 DEF WatchedRetired
  <2> QED
    BY <2>1, <2>2
<1>6. WatchedRetired' = WatchedRetired
  BY <1>5 DEF WatchedRetired
<1>7. UNCHANGED <<WatchedRows, WatchedClaim>>
  BY <1>1 DEF WatchedRows, WatchedClaim, WatchedClaims
<1>8. UNCHANGED Contract!paint
  BY <1>1, <1>6, <1>7 DEF Contract!paint
<1> QED
  BY <1>8

(* Every step is one of the contract's or none of its business.             *)
LEMMA StepImplements ==
    IInv /\ IInv' /\ TicketsApart /\ [Next]_vars => [Contract!PaintNext]_Contract!paint
<1> SUFFICES ASSUME IInv, IInv', TicketsApart, [Next]_vars
             PROVE  [Contract!PaintNext]_Contract!paint
  OBVIOUS
<1>1. ASSUME UNCHANGED vars PROVE [Contract!PaintNext]_Contract!paint
  <2>1. UNCHANGED Contract!paint
    BY <1>1 DEF vars, Contract!paint, WatchedRows, WatchedClaim, WatchedClaims,
                WatchedRetired, Registered, Issued
  <2> QED
    BY <2>1
<1>2. ASSUME NEW n \in Names, OpenOwner(n) PROVE [Contract!PaintNext]_Contract!paint
  BY <1>2, OpenOwnerImplements
<1>3. ASSUME NEW n \in Names, Purge(n) PROVE [Contract!PaintNext]_Contract!paint
  BY <1>3, CancelImplements DEF Purge
<1>4. ASSUME NEW o \in 1 .. serial, Enqueue(o) PROVE [Contract!PaintNext]_Contract!paint
  BY <1>4, EnqueueImplements
<1>5. ASSUME NEW o \in 1 .. serial, Retire(o) PROVE [Contract!PaintNext]_Contract!paint
  BY <1>5, CancelImplements DEF Retire, Registered
<1>6. ASSUME NEW o \in 1 .. serial, ReleaseOwner(o) PROVE [Contract!PaintNext]_Contract!paint
  BY <1>6, ReleaseImplements
<1>7. ASSUME NEW e \in DOMAIN entries, Claim(e) PROVE [Contract!PaintNext]_Contract!paint
  BY <1>7, ClaimImplements
<1>8. ASSUME NEW c \in claimed, NEW succeeded \in BOOLEAN, Complete(c, succeeded)
      PROVE  [Contract!PaintNext]_Contract!paint
  BY <1>8, CompleteImplements
<1>9. ASSUME Close PROVE [Contract!PaintNext]_Contract!paint
  BY <1>9, CancelImplements DEF Close
<1>10. ASSUME Uncertain PROVE [Contract!PaintNext]_Contract!paint
  BY <1>10, TerminalImplements DEF Uncertain
<1> QED
  BY <1>1, <1>2, <1>3, <1>4, <1>5, <1>6, <1>7, <1>8, <1>9, <1>10 DEF Next

(* The host queue keeps, for each of its owners, the contract the native    *)
(* queue keeps: nothing is admitted or claimed after the retirement, even   *)
(* when the owner's record is gone; only an acknowledgement takes a claimed *)
(* row away; and an unclaimed one goes only by retirement or the fault.     *)
THEOREM QueueImplementsContract == Spec => Contract!PaintSpec
<1>1. Init => Contract!NewPaint
  <2> SUFFICES ASSUME Init PROVE Contract!NewPaint
    OBVIOUS
  <2>1. WatchedRows = {} /\ WatchedClaim = 0
    BY DEF Init, WatchedRows, WatchedClaim, WatchedClaims
  <2>2. WatchedRetired = FALSE
    BY DEF Init, WatchedRetired, Registered
  <2> QED
    BY <2>1, <2>2 DEF Init, Contract!NewPaint
<1>2. IInv /\ IInv' /\ TicketsApart /\ [Next]_vars => [Contract!PaintNext]_Contract!paint
  BY StepImplements
<1> QED
  BY <1>1, <1>2, QueueInvariant, TicketsStayApart, PTL DEF Spec, Contract!PaintSpec
=============================================================================
