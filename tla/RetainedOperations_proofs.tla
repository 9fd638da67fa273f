----------------------- MODULE RetainedOperations_proofs -----------------------
(****************************************************************************)
(* The ledger of retained operations for any number of threads, operations  *)
(* and tickets: TLAPS proofs that it faults only after a service failed,    *)
(* that a quiescent answer stays true, that every row of the paint queue is *)
(* accounted for, and that one cleanup intent is exported at most.          *)
(****************************************************************************)
EXTENDS RetainedOperations, FunctionTheorems, FiniteSetTheorems, SequenceTheorems, TLAPS

OperationStates == {"reserved", "queued", "extracted", "published", "acking", "done"}
LedgerRows == [state : OperationStates, nonce : Nat]

Labels == {"outside", "release", "dispatch", "rebind", "ack", "acked", "barrier",
           "retire", "drained", "export"}
Phases == {"outside", "dispatch", "ack", "barrier", "retire"}

TypeOK ==
    /\ rows \in SUBSET Nat /\ serial \in Nat /\ claim \in Nat
    /\ retired \in BOOLEAN /\ broken \in BOOLEAN
    /\ bound \in {"unbound", "open", "closed"}
    /\ fault \in BOOLEAN /\ intent \in BOOLEAN
    /\ ledger \in Seq(LedgerRows)
    /\ fifo \in Seq(Nat)
    /\ mutex \in Threads \cup {"free", "stuck"}
    /\ pc \in [Threads -> Labels]
    /\ next \in [Threads -> Phases]
    /\ token \in [Threads -> Nat]
    /\ nonce \in [Threads -> Nat]
    /\ preparing \in [Threads -> BOOLEAN]
    /\ failed \in BOOLEAN /\ quiet \in BOOLEAN /\ exported \in Nat

(* What a call is about is known from where it goes after its release.      *)
PhasesHold ==
    \A t \in Threads :
        /\ pc[t] = "outside" =>
               next[t] = "outside" /\ token[t] = 0 /\ nonce[t] = 0 /\ ~preparing[t]
        /\ pc[t] \in {"dispatch", "rebind"} => next[t] = "dispatch"
        /\ pc[t] \in {"ack", "acked"} => next[t] = "ack"
        /\ pc[t] = "barrier" => next[t] = "barrier"
        /\ pc[t] \in {"retire", "drained", "export"} => next[t] = "retire"

(* The words stay valid, whatever fails; no nonce is above the last ticket. *)
LedgerHolds ==
    /\ Valid
    /\ \A k \in DOMAIN ledger : ledger[k].nonce <= serial

(* Until a fault, the list holds every queued operation's token once.       *)
ListHolds ==
    ~fault =>
        /\ \A i \in DOMAIN fifo : fifo[i] \in DOMAIN ledger /\ ledger[fifo[i]].state = "queued"
        /\ \A i, j \in DOMAIN fifo : fifo[i] = fifo[j] => i = j

(* A thread between pop and rebind owns its extracted operation, and the    *)
(* nonce it brings back is nobody else's.                                   *)
ExtractionHolds ==
    /\ \A t \in Threads : next[t] = "dispatch" =>
        /\ token[t] \in DOMAIN ledger /\ ledger[token[t]].state = "extracted"
        /\ nonce[t] <= serial
        /\ nonce[t] # 0 => \A k \in DOMAIN ledger : ledger[k].nonce # nonce[t]
        /\ pc[t] # "rebind" => nonce[t] = 0
    /\ \A t, u \in Threads : next[t] = "dispatch" /\ next[u] = "dispatch" /\ t # u =>
        /\ token[t] # token[u]
        /\ nonce[t] # 0 => nonce[t] # nonce[u]

(* A thread between complete and its rebind owns the operation it completes,*)
(* whose row has left once the paint queue gave a terminal answer.          *)
CompletionHolds ==
    /\ \A t \in Threads : next[t] = "ack" =>
        /\ token[t] \in DOMAIN ledger
        /\ ledger[token[t]] = [state |-> "acking", nonce |-> nonce[t]]
        /\ pc[t] = "acked" /\ ~broken => nonce[t] \notin rows
    /\ \A t, u \in Threads : next[t] = "ack" /\ next[u] = "ack" /\ t # u =>
        token[t] # token[u]

(* A call that passed the ledger's own barrier finds it so for ever.        *)
BarrierHolds == \A t \in Threads : next[t] = "retire" => Quiescible

QuietHolds ==
    quiet => /\ Quiescible
             /\ retired
             /\ ~broken => rows = {} /\ claim = 0

(* One thread at most has the intent's attempt, and uses it up.             *)
IntentHolds ==
    /\ \A t \in Threads : preparing[t] => intent /\ exported = 0
    /\ \A t, u \in Threads : preparing[t] /\ preparing[u] => t = u
    /\ \A t \in Threads : pc[t] = "export" => preparing[t] /\ quiet
    /\ OneCleanupIntent

Known == {ledger[k].nonce : k \in DOMAIN ledger}

RowsHold ==
    ~broken =>
        /\ \A n \in rows : n # 0 /\ n <= serial
        /\ \A k \in DOMAIN ledger :
              ledger[k].nonce \in rows => ledger[k].state \in {"published", "acking"}

(* Each row without a known nonce is that of an extracted operation of its  *)
(* own: one whose thread brings the nonce back, or one that nobody answers. *)
Accounts(f) ==
    /\ f \in [rows \ Known -> Unanswered]
    /\ \A m, n \in rows \ Known : f[m] = f[n] => m = n
    /\ \A t \in Threads, n \in rows \ Known :
          next[t] = "dispatch" => (f[n] = token[t] <=> n = nonce[t])

RowsAccounted == ~broken => \E f : Accounts(f)

LInv ==
    /\ TypeOK
    /\ PhasesHold
    /\ LedgerHolds
    /\ ListHolds
    /\ ExtractionHolds
    /\ CompletionHolds
    /\ BarrierHolds
    /\ QuietHolds
    /\ IntentHolds
    /\ RowsHold
    /\ RowsAccounted
    /\ FaultsHaveCause
-------------------------------------------------------------------------------

(* The words of a call that has ended, or will end with its release.        *)
Leaves(t) ==
    \/ Returns(t)
    \/ /\ pc' = [pc EXCEPT ![t] = "release"]
       /\ next' = [next EXCEPT ![t] = "outside"]
       /\ Keeps

LEMMA LeavesGives ==
    ASSUME TypeOK, NEW t \in Threads, Leaves(t)
    PROVE  /\ pc' \in [Threads -> Labels] /\ next' \in [Threads -> Phases]
           /\ token' \in [Threads -> Nat] /\ nonce' \in [Threads -> Nat]
           /\ preparing' \in [Threads -> BOOLEAN]
           /\ pc'[t] \in {"outside", "release"} /\ next'[t] = "outside"
           /\ pc'[t] = "outside" => token'[t] = 0 /\ nonce'[t] = 0 /\ ~preparing'[t]
           /\ preparing'[t] => preparing[t]
           /\ \A u \in Threads : u # t =>
                 /\ pc'[u] = pc[u] /\ next'[u] = next[u] /\ token'[u] = token[u]
                 /\ nonce'[u] = nonce[u] /\ preparing'[u] = preparing[u]
<1>1. CASE Returns(t)
  BY <1>1 DEF TypeOK, Returns, Labels, Phases
<1>2. CASE /\ pc' = [pc EXCEPT ![t] = "release"]
           /\ next' = [next EXCEPT ![t] = "outside"]
           /\ Keeps
  BY <1>2 DEF TypeOK, Keeps, locals, Labels, Phases
<1> QED
  BY <1>1, <1>2 DEF Leaves

(* One thread's call goes on to the next step.                              *)
LEMMA GoesGives ==
    ASSUME TypeOK, NEW t \in Threads, NEW label \in Labels, Goes(t, label)
    PROVE  /\ pc' \in [Threads -> Labels] /\ pc'[t] = label
           /\ \A u \in Threads : u # t => pc'[u] = pc[u]
           /\ next' = next /\ token' = token /\ nonce' = nonce /\ preparing' = preparing
BY DEF TypeOK, Goes, locals

LEMMA AcquiresGives ==
    ASSUME TypeOK, NEW t \in Threads, NEW from, NEW to \in Phases, Acquires(t, from, to)
    PROVE  /\ pc' \in [Threads -> Labels] /\ next' \in [Threads -> Phases]
           /\ mutex' = t /\ pc[t] = from
           /\ pc'[t] = "release" /\ next'[t] = to
           /\ \A u \in Threads : u # t => pc'[u] = pc[u] /\ next'[u] = next[u]
BY DEF TypeOK, Acquires, Labels

LEMMA FaultsGives ==
    ASSUME TypeOK, NEW t \in Threads, NEW from, NEW sound \in BOOLEAN, Faults(t, from, sound)
    PROVE  /\ Leaves(t) /\ mutex' = t /\ pc[t] = from
           /\ fault' = TRUE /\ failed' \in BOOLEAN
           /\ failed \/ sound => failed'
           /\ UNCHANGED <<paint, bound, intent, quiet, exported>>
BY DEF TypeOK, Faults, Acquires, Leaves

-------------------------------------------------------------------------------
(* The rows of the ledger.                                                  *)

LEMMA LedgerShape ==
    ASSUME TypeOK
    PROVE  /\ Len(ledger) \in Nat /\ DOMAIN ledger = 1 .. Len(ledger)
           /\ \A k \in DOMAIN ledger :
                 /\ ledger[k] \in LedgerRows
                 /\ ledger[k] = [state |-> ledger[k].state, nonce |-> ledger[k].nonce]
                 /\ ledger[k].state \in OperationStates /\ ledger[k].nonce \in Nat
           /\ Len(fifo) \in Nat /\ DOMAIN fifo = 1 .. Len(fifo)
           /\ \A i \in DOMAIN fifo : fifo[i] \in Nat
<1>1. ledger \in Seq(LedgerRows) /\ fifo \in Seq(Nat)
  BY DEF TypeOK
<1>2. /\ Len(ledger) \in Nat /\ DOMAIN ledger = 1 .. Len(ledger)
      /\ Len(fifo) \in Nat /\ DOMAIN fifo = 1 .. Len(fifo)
  BY <1>1, LenProperties
<1>3. \A k \in DOMAIN ledger : ledger[k] \in LedgerRows
  BY <1>1, <1>2, ElementOfSeq
<1>4. \A i \in DOMAIN fifo : fifo[i] \in Nat
  BY <1>1, <1>2, ElementOfSeq
<1>5. \A r \in LedgerRows : /\ r = [state |-> r.state, nonce |-> r.nonce]
                            /\ r.state \in OperationStates /\ r.nonce \in Nat
  BY DEF LedgerRows
<1> QED
  BY <1>2, <1>3, <1>4, <1>5

LEMMA MovedGives ==
    ASSUME TypeOK, NEW k \in DOMAIN ledger, NEW state \in OperationStates
    PROVE  /\ Moved(k, state) \in Seq(LedgerRows)
           /\ Len(Moved(k, state)) = Len(ledger)
           /\ DOMAIN Moved(k, state) = DOMAIN ledger
           /\ Moved(k, state)[k] = [state |-> state, nonce |-> ledger[k].nonce]
           /\ \A l \in DOMAIN ledger : l # k => Moved(k, state)[l] = ledger[l]
<1>1. Moved(k, state) = [ledger EXCEPT ![k] = [state |-> state, nonce |-> ledger[k].nonce]]
  <2>1. \A r \in LedgerRows : [r EXCEPT !.state = state] = [state |-> state, nonce |-> r.nonce]
    BY DEF LedgerRows
  <2> QED
    BY <2>1, LedgerShape DEF Moved
<1>2. [state |-> state, nonce |-> ledger[k].nonce] \in LedgerRows
  BY LedgerShape DEF LedgerRows
<1> QED
  BY <1>1, <1>2, LedgerShape, ExceptSeq, LenProperties DEF TypeOK

LEMMA AnsweredGives ==
    ASSUME TypeOK, NEW k \in DOMAIN ledger, NEW n \in Nat
    PROVE  /\ Answered(k, n) \in Seq(LedgerRows)
           /\ Len(Answered(k, n)) = Len(ledger)
           /\ DOMAIN Answered(k, n) = DOMAIN ledger
           /\ n = 0 => Answered(k, n)[k] = [state |-> "done", nonce |-> ledger[k].nonce]
           /\ n # 0 => Answered(k, n)[k] = [state |-> "published", nonce |-> n]
           /\ \A l \in DOMAIN ledger : l # k => Answered(k, n)[l] = ledger[l]
<1> DEFINE row == IF n = 0 THEN [state |-> "done", nonce |-> ledger[k].nonce]
                           ELSE [state |-> "published", nonce |-> n]
<1>1. Answered(k, n) = [ledger EXCEPT ![k] = row]
  <2>1. \A r \in LedgerRows : [r EXCEPT !.state = "done"] = [state |-> "done", nonce |-> r.nonce]
    BY DEF LedgerRows
  <2> QED
    BY <2>1, LedgerShape DEF Answered
<1>2. row \in LedgerRows
  BY LedgerShape DEF LedgerRows, OperationStates
<1>3. /\ Answered(k, n) \in Seq(LedgerRows)
      /\ Len(Answered(k, n)) = Len(ledger)
      /\ DOMAIN Answered(k, n) = DOMAIN ledger
      /\ Answered(k, n)[k] = row
      /\ \A l \in DOMAIN ledger : l # k => Answered(k, n)[l] = ledger[l]
  <2> HIDE DEF row
  <2> QED BY <1>1, <1>2, LedgerShape, ExceptSeq, LenProperties DEF TypeOK
<1> QED
  BY <1>3

LEMMA AppendedGives ==
    ASSUME TypeOK, NEW state \in OperationStates
    PROVE  LET grown == Append(ledger, Row(state))
           IN  /\ grown \in Seq(LedgerRows)
               /\ Len(grown) = Len(ledger) + 1
               /\ DOMAIN grown = 1 .. Len(ledger) + 1
               /\ grown[Len(ledger) + 1] = [state |-> state, nonce |-> 0]
               /\ \A l \in DOMAIN ledger : grown[l] = ledger[l]
<1>1. Row(state) \in LedgerRows
  BY DEF Row, LedgerRows
<1> QED
  BY <1>1, AppendProperties, LenProperties, LedgerShape DEF TypeOK, Row

LEMMA ListedGives ==
    ASSUME TypeOK, NEW k \in Nat
    PROVE  LET grown == Append(fifo, k)
           IN  /\ grown \in Seq(Nat)
               /\ Len(grown) = Len(fifo) + 1
               /\ DOMAIN grown = 1 .. Len(fifo) + 1
               /\ grown[Len(fifo) + 1] = k
               /\ \A i \in DOMAIN fifo : grown[i] = fifo[i]
BY AppendProperties, LenProperties, LedgerShape DEF TypeOK

LEMMA TakenGives ==
    ASSUME TypeOK, fifo # <<>>
    PROVE  /\ 1 \in DOMAIN fifo /\ Head(fifo) = fifo[1] /\ Head(fifo) \in Nat
           /\ Tail(fifo) \in Seq(Nat)
           /\ Len(Tail(fifo)) = Len(fifo) - 1
           /\ DOMAIN Tail(fifo) = 1 .. Len(fifo) - 1
           /\ \A i \in 1 .. Len(fifo) - 1 : Tail(fifo)[i] = fifo[i + 1]
BY HeadTailProperties, EmptySeq, LenProperties, LedgerShape DEF TypeOK
-------------------------------------------------------------------------------
(* Steps that only take away: from the paint queue, and from the calls.     *)

PaintFades ==
    /\ serial' \in Nat /\ serial <= serial'
    /\ broken => broken'
    /\ retired => retired'
    /\ ~broken' => rows' \subseteq rows /\ (rows = {} /\ claim = 0 => claim' = 0)

CallsFade ==
    \A u \in Threads :
        /\ next'[u] \in {next[u], "outside"}
        /\ next'[u] # "outside" => token'[u] = token[u] /\ nonce'[u] = nonce[u]
        /\ preparing'[u] => preparing[u]
        /\ next'[u] = "dispatch" /\ pc'[u] # "rebind" => pc[u] # "rebind"
        /\ pc'[u] = "acked" => pc[u] = "acked" \/ nonce[u] \notin rows' \/ broken'
        /\ pc'[u] = "export" => pc[u] = "export" \/ quiet'
        /\ pc'[u] = "export" => preparing'[u]

(* What was accounted for stays so under a smaller set of rows.             *)
LEMMA AccountsRestrict ==
    ASSUME RowsAccounted, broken => broken',
           ~broken' => rows' \ Known' \subseteq rows \ Known,
           \A f : ~broken' /\ Accounts(f) =>
               \A n \in rows' \ Known' :
                   /\ f[n] \in Unanswered'
                   /\ \A u \in Threads :
                         next'[u] = "dispatch" => (f[n] = token'[u] <=> n = nonce'[u])
    PROVE  RowsAccounted'
<1> SUFFICES ASSUME ~broken'
             PROVE  \E f :
                      /\ f \in [rows' \ Known' -> Unanswered']
                      /\ \A m, n \in rows' \ Known' : f[m] = f[n] => m = n
                      /\ \A t \in Threads, n \in rows' \ Known' :
                            next'[t] = "dispatch" => (f[n] = token'[t] <=> n = nonce'[t])
  BY DEF RowsAccounted, Accounts
<1>1. PICK f : Accounts(f)
  BY DEF RowsAccounted
<1> DEFINE g == [n \in rows' \ Known' |-> f[n]]
<1>2. \A n \in rows' \ Known' : g[n] = f[n] /\ n \in rows \ Known
  OBVIOUS
<1>3. g \in [rows' \ Known' -> Unanswered']
  BY <1>1
<1>4. \A m, n \in rows' \ Known' : g[m] = g[n] => m = n
  BY <1>1, <1>2 DEF Accounts
<1>5. \A t \in Threads, n \in rows' \ Known' :
          next'[t] = "dispatch" => (g[n] = token'[t] <=> n = nonce'[t])
  BY <1>1, <1>2
<1> HIDE DEF g
<1> QED
  BY <1>3, <1>4, <1>5

(* The words hold when calls end and rows leave, whatever the thread does.  *)
LEMMA FadesKeep ==
    ASSUME LInv, PaintFades, CallsFade,
           UNCHANGED <<bound, ledger, fifo, intent>>, fault => fault'
    PROVE  /\ LedgerHolds' /\ ListHolds' /\ ExtractionHolds' /\ CompletionHolds'
           /\ BarrierHolds' /\ RowsHold' /\ RowsAccounted'
           /\ quiet' = quiet => QuietHolds'
<1> USE DEF LInv
<1>1. Known' = Known /\ Unanswered' = Unanswered
  BY DEF Known, Unanswered
<1>2. LedgerHolds'
  <2>1. Valid'
    BY DEF LedgerHolds, Valid, NoncesMatchStates, NoncesDiffer
  <2>2. \A k \in DOMAIN ledger : ledger[k].nonce <= serial'
    BY LedgerShape DEF LedgerHolds, PaintFades, TypeOK
  <2> QED BY <2>1, <2>2 DEF LedgerHolds
<1>3. ListHolds'
  BY DEF ListHolds
<1>4. ExtractionHolds'
  <2>1. \A t \in Threads : nonce[t] \in Nat /\ serial \in Nat
    BY DEF TypeOK
  <2> QED BY <2>1 DEF ExtractionHolds, CallsFade, PaintFades, PhasesHold
<1>5. CompletionHolds'
  BY DEF CompletionHolds, CallsFade, PaintFades, PhasesHold
<1>6. BarrierHolds'
  BY DEF BarrierHolds, CallsFade, Quiescible, Idle
<1>7. RowsHold'
  <2> SUFFICES ASSUME ~broken' PROVE RowsHold'
    BY DEF RowsHold
  <2>1. ~broken /\ rows' \subseteq rows
    BY DEF PaintFades, TypeOK
  <2>2. \A n \in rows' : n # 0 /\ n <= serial'
    BY <2>1 DEF RowsHold, PaintFades, TypeOK
  <2>3. \A k \in DOMAIN ledger' :
            ledger'[k].nonce \in rows' => ledger'[k].state \in {"published", "acking"}
    BY <2>1 DEF RowsHold
  <2> QED BY <2>2, <2>3 DEF RowsHold
<1>8. RowsAccounted'
  <2>1. ~broken' => rows' \ Known' \subseteq rows \ Known
    BY <1>1 DEF PaintFades
  <2>2. \A f : ~broken' /\ Accounts(f) =>
            \A n \in rows' \ Known' :
                /\ f[n] \in Unanswered'
                /\ \A u \in Threads :
                      next'[u] = "dispatch" => (f[n] = token'[u] <=> n = nonce'[u])
    BY <1>1, <2>1 DEF Accounts, CallsFade
  <2> QED BY <2>1, <2>2, AccountsRestrict DEF PaintFades
<1>9. quiet' = quiet => QuietHolds'
  BY DEF QuietHolds, PaintFades, Quiescible, Idle
<1> QED
  BY <1>2, <1>3, <1>4, <1>5, <1>6, <1>7, <1>8, <1>9

LEMMA IntentKeeps ==
    ASSUME LInv, CallsFade, UNCHANGED <<intent, exported>>, quiet => quiet'
    PROVE  IntentHolds'
BY DEF LInv, IntentHolds, CallsFade, OneCleanupIntent

LEMMA LeavesFades ==
    ASSUME LInv, NEW t \in Threads, Leaves(t)
    PROVE  CallsFade /\ PhasesHold'
<1> USE DEF LInv
<1>1. \A u \in Threads : u # t =>
          /\ pc'[u] = pc[u] /\ next'[u] = next[u] /\ token'[u] = token[u]
          /\ nonce'[u] = nonce[u] /\ preparing'[u] = preparing[u]
  BY LeavesGives
<1>2. /\ pc'[t] \in {"outside", "release"} /\ next'[t] = "outside"
      /\ pc'[t] = "outside" => token'[t] = 0 /\ nonce'[t] = 0 /\ ~preparing'[t]
      /\ preparing'[t] => preparing[t]
  BY LeavesGives
<1>3. CallsFade
  BY <1>1, <1>2 DEF CallsFade, IntentHolds
<1>4. PhasesHold'
  BY <1>1, <1>2 DEF PhasesHold
<1> QED
  BY <1>3, <1>4

(* A call goes on to a label of the phase it is in.                         *)
LEMMA GoesFades ==
    ASSUME LInv, NEW t \in Threads, NEW label \in Labels, Goes(t, label),
           label # "outside" /\ label # "export",
           label \in {"dispatch", "rebind"} => next[t] = "dispatch",
           label \in {"ack", "acked"} => next[t] = "ack",
           label = "barrier" => next[t] = "barrier",
           label \in {"retire", "drained"} => next[t] = "retire",
           next[t] = "dispatch" /\ label # "rebind" => pc[t] # "rebind",
           label = "acked" => nonce[t] \notin rows' \/ broken'
    PROVE  CallsFade /\ PhasesHold'
<1> USE DEF LInv
<1>1. /\ pc'[t] = label
      /\ \A u \in Threads : u # t => pc'[u] = pc[u]
      /\ next' = next /\ token' = token /\ nonce' = nonce /\ preparing' = preparing
  BY GoesGives
<1>2. CallsFade
  BY <1>1 DEF CallsFade, IntentHolds
<1>3. PhasesHold'
  BY <1>1 DEF PhasesHold
<1> QED
  BY <1>2, <1>3

(* What the steps of the paint queue that admit nothing do to its words.    *)
PaintTypes ==
    /\ rows' \in SUBSET Nat /\ serial' \in Nat /\ claim' \in Nat
    /\ retired' \in BOOLEAN /\ broken' \in BOOLEAN

LEMMA SameFades ==
    ASSUME TypeOK, UNCHANGED paint
    PROVE  PaintFades /\ PaintTypes
BY DEF TypeOK, paint, PaintFades, PaintTypes

LEMMA ClaimFades ==
    ASSUME TypeOK, NEW n \in Nat, Claim(n)
    PROVE  PaintFades /\ PaintTypes
BY DEF TypeOK, Claim, PaintFades, PaintTypes

LEMMA SettleFades ==
    ASSUME TypeOK, NEW n \in Nat, Settle(n)
    PROVE  PaintFades /\ PaintTypes /\ n \notin rows'
BY DEF TypeOK, Settle, PaintFades, PaintTypes

LEMMA RetireFades ==
    ASSUME TypeOK, Retire
    PROVE  PaintFades /\ PaintTypes /\ retired'
BY DEF TypeOK, Retire, PaintFades, PaintTypes

LEMMA BreakFades ==
    ASSUME TypeOK, Break
    PROVE  PaintFades /\ PaintTypes
<1>1. serial' \in Nat /\ serial <= serial'
  BY TicketsAssumption DEF TypeOK, Break
<1>2. broken' = TRUE /\ claim' = claim
  BY DEF Break
<1>3. retired' \in BOOLEAN /\ (retired => retired')
  <2>1. retired' = retired \/ retired' = TRUE
    BY DEF Break
  <2> QED BY <2>1, Zenon DEF TypeOK
<1>4. rows' \in SUBSET Nat
  BY <1>1 DEF TypeOK, Break
<1> QED
  BY <1>1, <1>2, <1>3, <1>4 DEF TypeOK, PaintFades, PaintTypes

LEMMA MintFades ==
    ASSUME TypeOK, Mint
    PROVE  PaintFades /\ PaintTypes
BY TicketsAssumption DEF TypeOK, Mint, PaintFades, PaintTypes

-------------------------------------------------------------------------------
(* The actions that only end calls, or only change the paint queue.         *)

LEMMA LeavingKeeps ==
    ASSUME LInv, NEW t \in Threads, Leaves(t), PaintFades, PaintTypes,
           UNCHANGED <<bound, ledger, fifo, intent, quiet, exported>>,
           fault => fault', fault' \in BOOLEAN, failed' \in BOOLEAN,
           mutex' \in Threads \cup {"free", "stuck"}, FaultsHaveCause'
    PROVE  LInv'
<1>1. CallsFade /\ PhasesHold'
  BY LeavesFades
<1>2. TypeOK'
  BY LeavesGives DEF TypeOK, LInv, PaintTypes
<1>3. IntentHolds'
  BY <1>1, IntentKeeps
<1> QED
  BY <1>1, <1>2, <1>3, FadesKeep DEF LInv

LEMMA RefusedKeeps ==
    ASSUME LInv, NEW t \in Threads, Refused(t)
    PROVE  LInv'
<1> USE DEF LInv
<1>1. Leaves(t) /\ mutex' = t
  BY DEF Refused, Acquires, Leaves
<1>2. fault' = fault
  BY DEF Refused, LedgerHolds, TypeOK
<1>3. UNCHANGED <<paint, bound, ledger, fifo, intent, failed, quiet, exported>>
  BY DEF Refused, history
<1> QED
  BY <1>1, <1>2, <1>3, SameFades, LeavingKeeps DEF TypeOK, FaultsHaveCause

LEMMA HeaderFaultsKeeps ==
    ASSUME LInv, NEW t \in Threads, HeaderFaults(t)
    PROVE  LInv'
<1> USE DEF LInv
<1>1. PICK from \in {"outside", "barrier"} :
          Faults(t, from, TRUE) /\ UNCHANGED <<ledger, fifo>>
  BY DEF HeaderFaults
<1>2. /\ Leaves(t) /\ mutex' = t /\ fault' = TRUE /\ failed' = TRUE
      /\ UNCHANGED <<paint, bound, intent, quiet, exported>>
  BY <1>1, FaultsGives
<1> QED
  BY <1>1, <1>2, SameFades, LeavingKeeps DEF FaultsHaveCause

LEMMA ReleaseKeeps ==
    ASSUME LInv, NEW t \in Threads, Release(t)
    PROVE  LInv'
<1> USE DEF LInv
<1>1. CASE next[t] = "outside"
  <2>1. Leaves(t)
    BY <1>1 DEF Release, Leaves
  <2> QED
    BY <2>1, SameFades, LeavingKeeps
    DEF Release, words, history, TypeOK, FaultsHaveCause
<1>2. CASE next[t] # "outside"
  <2>1. pc[t] = "release" /\ Goes(t, next[t]) /\ mutex' = "free"
        /\ UNCHANGED <<paint, words, history>>
    BY <1>2 DEF Release
  <2>2. next[t] \in Labels /\ next[t] # "export" /\ next[t] # "acked"
    BY DEF TypeOK, Phases, Labels
  <2>3. CallsFade /\ PhasesHold'
    BY <1>2, <2>1, <2>2, GoesFades DEF TypeOK, Phases
  <2>4. TypeOK'
    BY <2>1, <2>2, GoesGives DEF TypeOK, words, history, paint
  <2>5. IntentHolds' /\ FaultsHaveCause'
    BY <2>1, <2>3, IntentKeeps DEF words, history, FaultsHaveCause
  <2> QED
    BY <2>1, <2>3, <2>4, <2>5, SameFades, FadesKeep DEF words, history
<1> QED
  BY <1>1, <1>2

LEMMA ServiceFailsKeeps ==
    ASSUME LInv, NEW t \in Threads, ReleaseFails(t) \/ AcquireFails(t)
    PROVE  LInv'
<1> USE DEF LInv
<1>1. /\ Leaves(t) /\ mutex' \in {"free", "stuck"} /\ failed' = TRUE
      /\ UNCHANGED <<paint, words, quiet, exported>>
  BY DEF ReleaseFails, AcquireFails, Leaves
<1> QED
  BY <1>1, SameFades, LeavingKeeps DEF words, TypeOK, FaultsHaveCause

LEMMA PaintStepKeeps ==
    ASSUME LInv, PaintStep
    PROVE  LInv'
<1> USE DEF LInv
<1>1. PaintFades /\ PaintTypes
  BY TicketsAssumption, ClaimFades, RetireFades, BreakFades, MintFades DEF PaintStep
<1>2. UNCHANGED <<words, mutex, pc, next, locals, history>>
  BY DEF PaintStep
<1>3. CallsFade /\ PhasesHold'
  BY <1>2 DEF locals, CallsFade, PhasesHold, IntentHolds, history
<1>4. TypeOK'
  BY <1>1, <1>2 DEF TypeOK, words, locals, history, PaintTypes
<1>5. IntentHolds' /\ FaultsHaveCause'
  BY <1>2, <1>3, IntentKeeps DEF words, history, FaultsHaveCause
<1> QED
  BY <1>1, <1>2, <1>3, <1>4, <1>5, FadesKeep DEF words, history

LEMMA AcknowledgeKeeps ==
    ASSUME LInv, NEW t \in Threads, Acknowledge(t)
    PROVE  LInv'
<1> USE DEF LInv
<1>1. pc[t] = "ack" /\ next[t] = "ack" /\ nonce[t] \in Nat /\ UNCHANGED <<words, mutex, history>>
  BY DEF Acknowledge, PhasesHold, TypeOK
<1>2. CASE Settled(nonce[t]) /\ Goes(t, "acked")
  <2>1. PaintFades /\ PaintTypes /\ nonce[t] \notin rows'
    BY <1>1, <1>2, SettleFades DEF Settled
  <2>2. CallsFade /\ PhasesHold'
    BY <1>1, <1>2, <2>1, GoesFades DEF Labels
  <2>3. TypeOK'
    BY <1>1, <1>2, <2>1, GoesGives DEF TypeOK, words, history, PaintTypes, Labels
  <2>4. IntentHolds' /\ FaultsHaveCause'
    BY <1>1, <2>2, IntentKeeps DEF words, history, FaultsHaveCause
  <2> QED
    BY <1>1, <2>1, <2>2, <2>3, <2>4, FadesKeep DEF words, history
<1>3. CASE (UNCHANGED paint \/ Settle(nonce[t])) /\ Returns(t)
  <2>1. PaintFades /\ PaintTypes
    BY <1>1, <1>3, SettleFades, SameFades
  <2>2. Leaves(t)
    BY <1>3 DEF Leaves
  <2> QED
    BY <1>1, <2>1, <2>2, LeavingKeeps DEF words, history, TypeOK, FaultsHaveCause
<1> QED
  BY <1>2, <1>3 DEF Acknowledge

LEMMA CallRetireKeeps ==
    ASSUME LInv, NEW t \in Threads, CallRetire(t)
    PROVE  LInv'
<1> USE DEF LInv
<1>1. pc[t] = "retire" /\ next[t] = "retire" /\ UNCHANGED <<words, mutex, history>>
  BY DEF CallRetire, PhasesHold
<1>2. PaintFades /\ PaintTypes
  BY RetireFades, SameFades DEF CallRetire
<1>3. CASE Goes(t, "drained")
  <2>1. CallsFade /\ PhasesHold'
    BY <1>1, <1>3, GoesFades DEF Labels
  <2>2. TypeOK'
    BY <1>1, <1>2, <1>3, GoesGives DEF TypeOK, words, history, PaintTypes, Labels
  <2>3. IntentHolds' /\ FaultsHaveCause'
    BY <1>1, <2>1, IntentKeeps DEF words, history, FaultsHaveCause
  <2> QED
    BY <1>1, <1>2, <2>1, <2>2, <2>3, FadesKeep DEF words, history
<1>4. CASE Returns(t)
  <2>1. Leaves(t)
    BY <1>4 DEF Leaves
  <2> QED
    BY <1>1, <1>2, <2>1, LeavingKeeps DEF words, history, TypeOK, FaultsHaveCause
<1> QED
  BY <1>3, <1>4 DEF CallRetire

(* The answer of drained: what the barrier found still holds, and with the  *)
(* paint queue drained of a retired owner nothing can come back.            *)
LEMMA CallDrainedKeeps ==
    ASSUME LInv, NEW t \in Threads, CallDrained(t)
    PROVE  LInv'
<1> USE DEF LInv
<1>1. /\ pc[t] = "drained" /\ next[t] = "retire"
      /\ UNCHANGED <<paint, words, mutex, failed, exported>>
  BY DEF CallDrained, PhasesHold
<1>2. CASE UNCHANGED quiet /\ Returns(t)
  <2>1. Leaves(t)
    BY <1>2 DEF Leaves
  <2> QED
    BY <1>1, <1>2, <2>1, SameFades, LeavingKeeps DEF words, TypeOK, FaultsHaveCause
<1>3. CASE Drained /\ quiet' = TRUE
           /\ IF preparing[t] THEN Goes(t, "export") ELSE Returns(t)
  <2>1. QuietHolds'
    <3>1. Quiescible'
      BY <1>1 DEF BarrierHolds, Quiescible, Idle, words
    <3> QED
      BY <1>1, <1>3, <3>1 DEF QuietHolds, Drained, paint
  <2>2. CallsFade /\ PhasesHold' /\ TypeOK'
    <3>1. CASE preparing[t] /\ Goes(t, "export")
      <4>1. /\ pc'[t] = "export" /\ pc' \in [Threads -> Labels]
            /\ \A u \in Threads : u # t => pc'[u] = pc[u]
            /\ next' = next /\ token' = token /\ nonce' = nonce /\ preparing' = preparing
        BY <3>1, GoesGives DEF Labels
      <4>2. CallsFade
        BY <1>1, <1>3, <3>1, <4>1 DEF CallsFade, IntentHolds
      <4>3. PhasesHold'
        BY <1>1, <4>1 DEF PhasesHold
      <4>4. TypeOK'
        BY <1>1, <1>3, <4>1 DEF TypeOK, words, paint
      <4> QED BY <4>2, <4>3, <4>4
    <3>2. CASE Returns(t)
      <4>1. Leaves(t)
        BY <3>2 DEF Leaves
      <4>2. TypeOK'
        BY <1>1, <1>3, <4>1, LeavesGives DEF TypeOK, words, paint
      <4> QED BY <4>1, <4>2, LeavesFades
    <3> QED
      BY <1>3, <3>1, <3>2
  <2>3. IntentHolds' /\ FaultsHaveCause'
    BY <1>1, <1>3, <2>2, IntentKeeps DEF words, FaultsHaveCause
  <2> QED
    BY <1>1, <2>1, <2>2, <2>3, SameFades, FadesKeep DEF words
<1> QED
  BY <1>2, <1>3 DEF CallDrained

(* Only the thread that has the attempt exports, and forgets it.            *)
LEMMA ExportKeeps ==
    ASSUME LInv, NEW t \in Threads, Export(t)
    PROVE  LInv'
<1> USE DEF LInv
<1>1. /\ pc[t] = "export" /\ Returns(t) /\ exported' \in {exported, exported + 1}
      /\ UNCHANGED <<paint, words, mutex, failed, quiet>>
  BY DEF Export
<1>2. Leaves(t)
  BY <1>1 DEF Leaves
<1>3. CallsFade /\ PhasesHold'
  BY <1>2, LeavesFades
<1>4. TypeOK'
  BY <1>1, <1>2, LeavesGives DEF TypeOK, words, paint
<1>5. IntentHolds'
  <2>1. preparing[t] /\ intent /\ quiet /\ exported = 0
    BY <1>1 DEF IntentHolds
  <2>2. exported' \in {0, 1} /\ intent' /\ quiet'
    BY <1>1, <2>1 DEF words
  <2>3. \A u \in Threads : ~preparing'[u]
    BY <1>1, <2>1 DEF TypeOK, Returns, IntentHolds
  <2>4. \A u \in Threads : pc'[u] # "export"
    BY <1>1, <2>1, <2>3 DEF TypeOK, Returns, IntentHolds
  <2> QED BY <2>2, <2>3, <2>4 DEF IntentHolds, OneCleanupIntent
<1>6. FaultsHaveCause'
  BY <1>1 DEF words, FaultsHaveCause
<1> QED
  BY <1>1, <1>3, <1>4, <1>5, <1>6, SameFades, FadesKeep DEF words

-------------------------------------------------------------------------------
(* The actions that write to the ledger.                                    *)

(* A body that leaves the rest of the state alone: bind and close.          *)
LEMMA BoundKeeps ==
    ASSUME LInv, NEW t \in Threads, Bind(t) \/ Close(t)
    PROVE  LInv'
<1> USE DEF LInv
<1>1. /\ Leaves(t) /\ mutex' = t
      /\ UNCHANGED <<paint, fault, ledger, fifo, intent, history>>
  BY DEF Bind, Close, Body, Acquires, Leaves
<1>2. /\ bound' \in {"open", "closed"}
      /\ bound = "closed" => bound' = "closed"
  BY DEF Bind, Close
<1>3. CallsFade /\ PhasesHold'
  BY <1>1, LeavesFades
<1>4. TypeOK'
  BY <1>1, <1>2, LeavesGives DEF TypeOK, paint, history
<1>5. LedgerHolds'
  BY <1>1, <1>2 DEF LedgerHolds, Valid, NoncesMatchStates, NoncesDiffer, paint
<1>6. ListHolds'
  BY <1>1 DEF ListHolds
<1>7. ExtractionHolds'
  BY <1>1, <1>3 DEF ExtractionHolds, CallsFade, paint
<1>8. CompletionHolds'
  <2>1. \A u \in Threads : pc'[u] = "acked" => pc[u] = "acked"
    BY <1>1, LeavesGives
  <2> QED BY <1>1, <1>3, <2>1 DEF CompletionHolds, CallsFade, paint
<1>9. BarrierHolds' /\ QuietHolds'
  BY <1>1, <1>2, <1>3
  DEF BarrierHolds, QuietHolds, Quiescible, Idle, CallsFade, paint, history
<1>10. IntentHolds' /\ FaultsHaveCause'
  BY <1>1, <1>3, IntentKeeps DEF history, FaultsHaveCause
<1>11. RowsHold'
  BY <1>1 DEF RowsHold, paint
<1>12. RowsAccounted'
  <2>1. rows' = rows /\ broken' = broken /\ Known' = Known /\ Unanswered' = Unanswered
    BY <1>1 DEF paint, Known, Unanswered
  <2>2. \A f : ~broken' /\ Accounts(f) =>
            \A n \in rows' \ Known' :
                /\ f[n] \in Unanswered'
                /\ \A u \in Threads :
                      next'[u] = "dispatch" => (f[n] = token'[u] <=> n = nonce'[u])
    BY <2>1, <1>3 DEF Accounts, CallsFade
  <2> QED BY <2>1, <2>2, AccountsRestrict
<1> QED
  BY <1>3, <1>4, <1>5, <1>6, <1>7, <1>8, <1>9, <1>10, <1>11, <1>12

(* A new operation is nobody's yet, and has no nonce.                       *)
LEMMA NewOperationKeeps ==
    ASSUME LInv, NEW t \in Threads, NEW state \in {"queued", "reserved"}, Leaves(t),
           bound = "open", TokenLeft, Len(fifo) < Capacity,
           ledger' = Append(ledger, Row(state)),
           fifo' \in {fifo, Append(fifo, Len(ledger) + 1)},
           UNCHANGED <<paint, bound, intent, quiet, exported>>
    PROVE  /\ PhasesHold' /\ LedgerHolds' /\ ExtractionHolds' /\ CompletionHolds'
           /\ BarrierHolds' /\ QuietHolds' /\ IntentHolds' /\ RowsHold' /\ RowsAccounted'
           /\ ledger' \in Seq(LedgerRows) /\ fifo' \in Seq(Nat)
<1> USE DEF LInv
<1> DEFINE k == Len(ledger) + 1
<1>1. /\ ledger' \in Seq(LedgerRows) /\ Len(ledger') = k /\ DOMAIN ledger' = 1 .. k
      /\ ledger'[k] = [state |-> state, nonce |-> 0]
      /\ \A l \in DOMAIN ledger : ledger'[l] = ledger[l]
  BY AppendedGives DEF OperationStates
<1>2. Len(ledger) \in Nat /\ k \in Nat \ {0} /\ k \notin DOMAIN ledger
      /\ DOMAIN ledger' = DOMAIN ledger \cup {k} /\ DOMAIN ledger = 1 .. Len(ledger)
  BY <1>1, LedgerShape
<1>3. fifo' \in Seq(Nat) /\ Len(fifo') <= Capacity
  <2>1. Len(fifo) \in Nat /\ Len(fifo) + 1 <= Capacity /\ fifo \in Seq(Nat)
    BY OperationsAssumption, LedgerShape DEF TypeOK
  <2>2. Append(fifo, k) \in Seq(Nat) /\ Len(Append(fifo, k)) = Len(fifo) + 1
    BY <1>2, ListedGives
  <2> QED
    BY <2>1, <2>2 DEF LedgerHolds, Valid
<1>4. CallsFade /\ PhasesHold'
  BY LeavesFades
<1> HIDE DEF k
<1>5. \A l \in DOMAIN ledger' : l = k \/ (l \in DOMAIN ledger /\ ledger'[l] = ledger[l])
  BY <1>1, <1>2
<1>6. LedgerHolds'
  <2>1. Len(ledger') <= Operations
    BY <1>1, <1>2, OperationsAssumption DEF TokenLeft, k
  <2>2. NoncesMatchStates'
    BY <1>1, <1>5 DEF LedgerHolds, Valid, NoncesMatchStates
  <2>3. NoncesDiffer'
    BY <1>1, <1>5 DEF LedgerHolds, Valid, NoncesDiffer
  <2>4. \A l \in DOMAIN ledger' : ledger'[l].nonce <= serial'
    BY <1>1, <1>5 DEF LedgerHolds, TypeOK, paint
  <2> QED
    BY <1>3, <2>1, <2>2, <2>3, <2>4 DEF LedgerHolds, Valid
<1>7. ExtractionHolds'
  <2>1. \A u \in Threads : nonce[u] # 0 => ledger'[k].nonce # nonce[u]
    BY <1>1
  <2> QED
    BY <1>1, <1>2, <1>4, <1>5, <2>1 DEF ExtractionHolds, CallsFade, paint
<1>8. CompletionHolds'
  <2>1. \A u \in Threads : pc'[u] = "acked" => pc[u] = "acked"
    BY LeavesGives
  <2> QED
    BY <1>1, <1>2, <1>4, <1>5, <2>1 DEF CompletionHolds, CallsFade, paint
<1>9. BarrierHolds' /\ QuietHolds'
  BY <1>4 DEF BarrierHolds, QuietHolds, Quiescible, CallsFade
<1>10. IntentHolds'
  BY <1>4, IntentKeeps
<1>11. RowsHold'
  BY <1>1, <1>5 DEF RowsHold, paint
<1>12. RowsAccounted'
  <2> SUFFICES ASSUME ~broken' PROVE RowsAccounted'
    BY DEF RowsAccounted
  <2>1. rows' = rows /\ ~broken
    BY DEF paint
  <2>2. rows' \ Known' \subseteq rows \ Known
    BY <1>2, <1>5, <2>1 DEF Known
  <2>3. Unanswered \subseteq Unanswered'
    BY <1>1, <1>2 DEF Unanswered
  <2>4. \A f : Accounts(f) =>
            \A n \in rows' \ Known' :
                /\ f[n] \in Unanswered'
                /\ \A u \in Threads :
                      next'[u] = "dispatch" => (f[n] = token'[u] <=> n = nonce'[u])
    BY <2>2, <2>3, <1>4 DEF Accounts, CallsFade
  <2> QED BY <2>1, <2>2, <2>4, AccountsRestrict
<1> QED
  BY <1>1, <1>3, <1>4, <1>6, <1>7, <1>8, <1>9, <1>10, <1>11, <1>12

LEMMA EnqueueKeeps ==
    ASSUME LInv, NEW t \in Threads, Enqueue(t)
    PROVE  LInv'
<1> USE DEF LInv
<1> DEFINE k == Len(ledger) + 1
<1>1. bound = "open" /\ Len(fifo) < Capacity /\ TokenLeft
  BY DEF Enqueue
<1>2. CASE /\ Body(t, "outside", "outside")
           /\ ledger' = Append(ledger, Row("queued"))
           /\ fifo' = Append(fifo, k)
           /\ Keeps
           /\ UNCHANGED <<paint, bound, fault, intent, history>>
  <2>1. Leaves(t) /\ mutex' = t /\ ~fault
    BY <1>2 DEF Body, Acquires, Leaves
  <2>2. /\ PhasesHold' /\ LedgerHolds' /\ ExtractionHolds' /\ CompletionHolds'
        /\ BarrierHolds' /\ QuietHolds' /\ IntentHolds' /\ RowsHold' /\ RowsAccounted'
        /\ ledger' \in Seq(LedgerRows) /\ fifo' \in Seq(Nat)
    BY <1>1, <1>2, <2>1, NewOperationKeeps DEF history
  <2>3. TypeOK'
    BY <1>2, <2>1, <2>2, LeavesGives DEF TypeOK, paint, history
  <2>4. ListHolds'
    <3>1. Len(ledger) \in Nat /\ k \in Nat /\ k \notin DOMAIN ledger
      BY LedgerShape
    <3>2. /\ DOMAIN fifo' = 1 .. Len(fifo) + 1 /\ fifo'[Len(fifo) + 1] = k
          /\ \A i \in DOMAIN fifo : fifo'[i] = fifo[i]
          /\ DOMAIN fifo = 1 .. Len(fifo) /\ Len(fifo) \in Nat
      BY <1>2, <3>1, ListedGives, LedgerShape
    <3>3. /\ k \in DOMAIN ledger' /\ ledger'[k].state = "queued"
          /\ \A l \in DOMAIN ledger : l \in DOMAIN ledger' /\ ledger'[l] = ledger[l]
      BY <1>2, AppendedGives, LedgerShape DEF OperationStates
    <3> HIDE DEF k
    <3>4. \A i \in DOMAIN fifo' : i = Len(fifo) + 1 \/ (i \in DOMAIN fifo /\ fifo'[i] = fifo[i])
      BY <3>2
    <3>5. \A i \in DOMAIN fifo : fifo[i] \in DOMAIN ledger /\ ledger[fifo[i]].state = "queued"
      BY <2>1 DEF ListHolds
    <3>6. \A i \in DOMAIN fifo' : fifo'[i] \in DOMAIN ledger' /\ ledger'[fifo'[i]].state = "queued"
      BY <3>2, <3>3, <3>4, <3>5
    <3>7. \A i, j \in DOMAIN fifo' : fifo'[i] = fifo'[j] => i = j
      BY <2>1, <3>1, <3>2, <3>4, <3>5 DEF ListHolds
    <3> QED BY <3>6, <3>7 DEF ListHolds
  <2>5. FaultsHaveCause'
    BY <1>2 DEF history, FaultsHaveCause
  <2> QED BY <2>2, <2>3, <2>4, <2>5
<1>3. CASE /\ Valid /\ ~fault
           /\ Faults(t, "outside", TRUE)
           /\ ledger' = Append(ledger, Row("reserved"))
           /\ fifo' \in {fifo, Append(fifo, k)}
  <2>1. /\ Leaves(t) /\ mutex' = t /\ fault' = TRUE /\ failed' = TRUE
        /\ UNCHANGED <<paint, bound, intent, quiet, exported>>
    BY <1>3, FaultsGives
  <2>2. /\ PhasesHold' /\ LedgerHolds' /\ ExtractionHolds' /\ CompletionHolds'
        /\ BarrierHolds' /\ QuietHolds' /\ IntentHolds' /\ RowsHold' /\ RowsAccounted'
        /\ ledger' \in Seq(LedgerRows) /\ fifo' \in Seq(Nat)
    BY <1>1, <1>3, <2>1, NewOperationKeeps
  <2>3. TypeOK'
    BY <2>1, <2>2, LeavesGives DEF TypeOK, paint
  <2> QED BY <2>1, <2>2, <2>3 DEF ListHolds, FaultsHaveCause
<1> QED
  BY <1>2, <1>3 DEF Enqueue

(* An operation changes its state and keeps its nonce.                      *)
LEMMA MoveKeeps ==
    ASSUME LInv, NEW k \in DOMAIN ledger, NEW state \in OperationStates,
           ledger' = Moved(k, state),
           state \in {"published", "acking"} => ledger[k].nonce # 0,
           state \in {"reserved", "queued", "extracted"} => ledger[k].nonce = 0,
           bound # "unbound", Len(fifo') <= Capacity, UNCHANGED <<paint, bound>>
    PROVE  /\ ledger' \in Seq(LedgerRows) /\ DOMAIN ledger' = DOMAIN ledger
           /\ ledger'[k] = [state |-> state, nonce |-> ledger[k].nonce]
           /\ \A l \in DOMAIN ledger : l # k => ledger'[l] = ledger[l]
           /\ \A l \in DOMAIN ledger : ledger'[l].nonce = ledger[l].nonce
           /\ LedgerHolds' /\ Known' = Known
<1> USE DEF LInv
<1>1. /\ ledger' \in Seq(LedgerRows) /\ Len(ledger') = Len(ledger)
      /\ DOMAIN ledger' = DOMAIN ledger
      /\ ledger'[k] = [state |-> state, nonce |-> ledger[k].nonce]
      /\ \A l \in DOMAIN ledger : l # k => ledger'[l] = ledger[l]
  BY MovedGives
<1>2. \A l \in DOMAIN ledger : ledger'[l].nonce = ledger[l].nonce
  BY <1>1
<1>3. Known' = Known
  BY <1>1, <1>2 DEF Known
<1>4. NoncesMatchStates' /\ NoncesDiffer'
  BY <1>1, <1>2 DEF LedgerHolds, Valid, NoncesMatchStates, NoncesDiffer
<1>5. LedgerHolds'
  BY <1>1, <1>2, <1>4 DEF LedgerHolds, Valid, paint
<1> QED
  BY <1>1, <1>2, <1>3, <1>5

(* Taking the head away, of a list without a fault.                         *)
LEMMA TakingGives ==
    ASSUME LInv, fifo # <<>>, ~fault
    PROVE  /\ Head(fifo) \in DOMAIN ledger /\ ledger[Head(fifo)].state = "queued"
           /\ Tail(fifo) \in Seq(Nat) /\ Len(Tail(fifo)) <= Capacity
           /\ \A i \in DOMAIN Tail(fifo) :
                 /\ Tail(fifo)[i] \in DOMAIN ledger /\ Tail(fifo)[i] # Head(fifo)
                 /\ ledger[Tail(fifo)[i]].state = "queued"
           /\ \A i, j \in DOMAIN Tail(fifo) : Tail(fifo)[i] = Tail(fifo)[j] => i = j
<1> USE DEF LInv
<1>1. /\ 1 \in DOMAIN fifo /\ Head(fifo) = fifo[1]
      /\ Tail(fifo) \in Seq(Nat)
      /\ Len(Tail(fifo)) = Len(fifo) - 1
      /\ DOMAIN Tail(fifo) = 1 .. Len(fifo) - 1
      /\ \A i \in 1 .. Len(fifo) - 1 : Tail(fifo)[i] = fifo[i + 1]
      /\ Len(fifo) \in Nat /\ DOMAIN fifo = 1 .. Len(fifo)
  BY TakenGives, LedgerShape
<1>2. Len(Tail(fifo)) <= Capacity
  BY <1>1, OperationsAssumption DEF LedgerHolds, Valid
<1>3. /\ \A i \in DOMAIN fifo : fifo[i] \in DOMAIN ledger /\ ledger[fifo[i]].state = "queued"
      /\ \A i, j \in DOMAIN fifo : fifo[i] = fifo[j] => i = j
  BY DEF ListHolds
<1>4. \A i \in DOMAIN Tail(fifo) :
          i + 1 \in DOMAIN fifo /\ i + 1 # 1 /\ Tail(fifo)[i] = fifo[i + 1]
  BY <1>1
<1>5. \A i, j \in DOMAIN Tail(fifo) : i + 1 = j + 1 => i = j
  BY <1>1
<1> QED
  BY <1>1, <1>2, <1>3, <1>4, <1>5

LEMMA CompletedState ==
    ASSUME CompletionHolds, NEW u \in Threads, next[u] = "ack"
    PROVE  /\ token[u] \in DOMAIN ledger /\ ledger[token[u]].state = "acking"
           /\ ledger[token[u]].nonce = nonce[u]
<1> DEFINE row == [state |-> "acking", nonce |-> nonce[u]]
<1>1. token[u] \in DOMAIN ledger /\ ledger[token[u]] = row
  BY DEF CompletionHolds
<1>2. row.state = "acking" /\ row.nonce = nonce[u]
  OBVIOUS
<1> HIDE DEF row
<1> QED
  BY <1>1, <1>2

LEMMA PopFaultKeeps ==
    ASSUME LInv, NEW t \in Threads, fifo # <<>>, bound # "unbound", Valid, ~fault,
           Faults(t, "outside", HeadQueued), fifo' \in {fifo, Tail(fifo)}, UNCHANGED ledger
    PROVE  LInv'
<1> USE DEF LInv
<1>1. HeadQueued
  BY TakingGives DEF HeadQueued
<1>2. /\ Leaves(t) /\ mutex' = t /\ fault' = TRUE /\ failed' = TRUE
      /\ UNCHANGED <<paint, bound, intent, quiet, exported>>
  <2>1. Faults(t, "outside", TRUE)
    BY <1>1 DEF Faults
  <2> QED BY <2>1, FaultsGives
<1>3. fifo' \in Seq(Nat) /\ Len(fifo') <= Capacity
  BY TakingGives DEF TypeOK, LedgerHolds, Valid
<1>4. CallsFade /\ PhasesHold'
  BY <1>2, LeavesFades
<1>5. TypeOK'
  BY <1>2, <1>3, LeavesGives DEF TypeOK, paint
<1>6. LedgerHolds' /\ ListHolds' /\ FaultsHaveCause'
  BY <1>2, <1>3 DEF LedgerHolds, Valid, NoncesMatchStates, NoncesDiffer, ListHolds,
                    FaultsHaveCause, paint
<1>7. ExtractionHolds' /\ CompletionHolds'
  <2>1. \A u \in Threads : pc'[u] = "acked" => pc[u] = "acked"
    BY <1>2, LeavesGives
  <2> QED
    BY <1>2, <1>4, <2>1 DEF ExtractionHolds, CompletionHolds, CallsFade, paint
<1>8. BarrierHolds' /\ QuietHolds'
  <2>1. ~Quiescible
    BY DEF Quiescible, Idle
  <2> QED BY <1>2, <1>4, <2>1 DEF BarrierHolds, QuietHolds, CallsFade
<1>9. IntentHolds'
  BY <1>2, <1>4, IntentKeeps
<1>10. RowsHold'
  BY <1>2 DEF RowsHold, paint
<1>11. RowsAccounted'
  <2>1. rows' = rows /\ broken' = broken /\ Known' = Known /\ Unanswered' = Unanswered
    BY <1>2 DEF paint, Known, Unanswered
  <2>2. \A f : ~broken' /\ Accounts(f) =>
            \A n \in rows' \ Known' :
                /\ f[n] \in Unanswered'
                /\ \A u \in Threads :
                      next'[u] = "dispatch" => (f[n] = token'[u] <=> n = nonce'[u])
    BY <2>1, <1>4 DEF Accounts, CallsFade
  <2> QED BY <2>1, <2>2, AccountsRestrict
<1> QED
  BY <1>4, <1>5, <1>6, <1>7, <1>8, <1>9, <1>10, <1>11

(* pop_dispatch of an open ledger: the head becomes the thread's own.       *)
LEMMA PopExtractsKeeps ==
    ASSUME LInv, NEW t \in Threads, fifo # <<>>, bound = "open",
           Body(t, "outside", "dispatch"), fifo' = Tail(fifo),
           ledger' = Moved(Head(fifo), Extracted),
           token' = [token EXCEPT ![t] = Head(fifo)],
           UNCHANGED <<paint, bound, fault, intent, nonce, preparing, history>>
    PROVE  LInv'
<1> USE DEF LInv
<1> DEFINE k == Head(fifo)
<1>1. ~fault /\ Acquires(t, "outside", "dispatch")
  BY DEF Body
<1>2. /\ k \in DOMAIN ledger /\ ledger[k].state = "queued" /\ ledger[k].nonce = 0 /\ k \in Nat
      /\ fifo' \in Seq(Nat) /\ Len(fifo') <= Capacity
  BY <1>1, TakingGives, TakenGives DEF LedgerHolds, Valid, NoncesMatchStates
<1>3. \A i \in DOMAIN fifo' :
          fifo'[i] \in DOMAIN ledger /\ fifo'[i] # k /\ ledger[fifo'[i]].state = "queued"
  BY <1>1, TakingGives
<1>4. \A i, j \in DOMAIN fifo' : fifo'[i] = fifo'[j] => i = j
  BY <1>1, TakingGives
<1> HIDE DEF k
<1>5. /\ pc' \in [Threads -> Labels] /\ next' \in [Threads -> Phases]
      /\ mutex' = t /\ pc[t] = "outside" /\ pc'[t] = "release" /\ next'[t] = "dispatch"
      /\ \A u \in Threads : u # t => pc'[u] = pc[u] /\ next'[u] = next[u]
  BY <1>1, AcquiresGives DEF Phases
<1>6. /\ token' \in [Threads -> Nat] /\ token'[t] = k /\ nonce[t] = 0 /\ ~preparing[t]
      /\ next[t] = "outside" /\ \A u \in Threads : u # t => token'[u] = token[u]
  BY <1>2, <1>5 DEF TypeOK, PhasesHold, k
<1>7. /\ ledger' \in Seq(LedgerRows) /\ DOMAIN ledger' = DOMAIN ledger
      /\ ledger'[k] = [state |-> "extracted", nonce |-> 0]
      /\ \A l \in DOMAIN ledger : l # k => ledger'[l] = ledger[l]
      /\ \A l \in DOMAIN ledger : ledger'[l].nonce = ledger[l].nonce
      /\ LedgerHolds' /\ Known' = Known
  <2>1. "extracted" \in OperationStates /\ Extracted = "extracted"
    BY DEF OperationStates, Extracted
  <2> QED BY <1>2, <2>1, MoveKeeps DEF k
<1>8. TypeOK'
  BY <1>2, <1>5, <1>6, <1>7 DEF TypeOK, paint, history
<1>9. PhasesHold'
  BY <1>5, <1>6 DEF PhasesHold
<1>10. ListHolds'
  BY <1>3, <1>4, <1>7 DEF ListHolds
<1>11. ExtractionHolds'
  <2>1. \A u \in Threads : next[u] = "dispatch" => token[u] # k
    BY <1>2 DEF ExtractionHolds
  <2>2. \A u \in Threads : u # t /\ next[u] = "dispatch" => ledger'[token[u]] = ledger[token[u]]
    BY <1>7, <2>1 DEF ExtractionHolds
  <2>3. serial' = serial /\ nonce' = nonce /\ serial \in Nat
    BY DEF paint, TypeOK
  <2>4. ASSUME NEW u \in Threads, next'[u] = "dispatch"
        PROVE  /\ token'[u] \in DOMAIN ledger' /\ ledger'[token'[u]].state = "extracted"
               /\ nonce'[u] <= serial'
               /\ nonce'[u] # 0 => \A l \in DOMAIN ledger' : ledger'[l].nonce # nonce'[u]
               /\ pc'[u] # "rebind" => nonce'[u] = 0
    <3>1. CASE u = t
      BY <1>2, <1>5, <1>6, <1>7, <2>3, <3>1
    <3>2. CASE u # t
      <4>1. /\ next[u] = "dispatch" /\ token'[u] = token[u] /\ pc'[u] = pc[u]
            /\ ledger'[token[u]] = ledger[token[u]]
        BY <1>5, <1>6, <2>2, <2>4, <3>2
      <4> QED BY <1>7, <2>3, <4>1 DEF ExtractionHolds
    <3> QED BY <3>1, <3>2
  <2>5. \A u, v \in Threads : next'[u] = "dispatch" /\ next'[v] = "dispatch" /\ u # v =>
            /\ token'[u] # token'[v]
            /\ nonce'[u] # 0 => nonce'[u] # nonce'[v]
    BY <1>5, <1>6, <2>1, <2>3 DEF ExtractionHolds
  <2> QED BY <2>4, <2>5 DEF ExtractionHolds
<1>12. CompletionHolds'
  <2>1. \A u \in Threads : next'[u] = "ack" => u # t /\ token[u] # k
    BY <1>2, <1>5, CompletedState
  <2> QED BY <1>5, <1>6, <1>7, <2>1, SMTT(30) DEF CompletionHolds, paint
<1>13. BarrierHolds' /\ QuietHolds'
  BY <1>5 DEF BarrierHolds, QuietHolds, Quiescible, history
<1>14. IntentHolds'
  BY <1>5 DEF IntentHolds, OneCleanupIntent, history
<1>15. RowsHold'
  BY <1>2, <1>7 DEF RowsHold, paint
<1>16. RowsAccounted'
  <2> SUFFICES ASSUME ~broken' PROVE RowsAccounted'
    BY DEF RowsAccounted
  <2>1. rows' = rows /\ ~broken /\ \A n \in rows : n # 0
    BY DEF paint, RowsHold
  <2>2. Unanswered \subseteq Unanswered' /\ k \notin Unanswered
    BY <1>2, <1>7 DEF Unanswered
  <2>3. \A f : Accounts(f) =>
            \A n \in rows' \ Known' :
                /\ f[n] \in Unanswered'
                /\ \A u \in Threads :
                      next'[u] = "dispatch" => (f[n] = token'[u] <=> n = nonce'[u])
    BY <1>5, <1>6, <1>7, <2>1, <2>2 DEF Accounts
  <2> QED BY <1>7, <2>1, <2>3, AccountsRestrict
<1>17. FaultsHaveCause'
  BY DEF FaultsHaveCause, history
<1> QED
  BY <1>7, <1>8, <1>9, <1>10, <1>11, <1>12, <1>13, <1>14, <1>15, <1>16, <1>17

(* pop_dispatch of a closed ledger: the head is dropped, its operation over.*)
LEMMA PopDropsKeeps ==
    ASSUME LInv, NEW t \in Threads, fifo # <<>>, bound = "closed",
           Body(t, "outside", "outside"), fifo' = Tail(fifo),
           ledger' = Moved(Head(fifo), "done"), UNCHANGED token,
           UNCHANGED <<paint, bound, fault, intent, nonce, preparing, history>>
    PROVE  LInv'
<1> USE DEF LInv
<1> DEFINE k == Head(fifo)
<1>1. ~fault /\ Leaves(t) /\ mutex' = t
  BY DEF Body, Acquires, Leaves, Keeps, locals
<1>2. /\ k \in DOMAIN ledger /\ ledger[k].state = "queued" /\ ledger[k].nonce = 0
      /\ fifo' \in Seq(Nat) /\ Len(fifo') <= Capacity
  BY <1>1, TakingGives DEF LedgerHolds, Valid, NoncesMatchStates
<1>3. \A i \in DOMAIN fifo' :
          fifo'[i] \in DOMAIN ledger /\ fifo'[i] # k /\ ledger[fifo'[i]].state = "queued"
  BY <1>1, TakingGives
<1>4. \A i, j \in DOMAIN fifo' : fifo'[i] = fifo'[j] => i = j
  BY <1>1, TakingGives
<1>5. CallsFade /\ PhasesHold'
  BY <1>1, LeavesFades
<1> HIDE DEF k
<1>6. /\ ledger' \in Seq(LedgerRows) /\ DOMAIN ledger' = DOMAIN ledger
      /\ ledger'[k] = [state |-> "done", nonce |-> 0]
      /\ \A l \in DOMAIN ledger : l # k => ledger'[l] = ledger[l]
      /\ \A l \in DOMAIN ledger : ledger'[l].nonce = ledger[l].nonce
      /\ LedgerHolds' /\ Known' = Known
  BY <1>2, MoveKeeps DEF k, OperationStates
<1>7. TypeOK'
  BY <1>1, <1>2, <1>6, LeavesGives DEF TypeOK, paint, history
<1>8. ListHolds'
  BY <1>3, <1>4, <1>6 DEF ListHolds
<1>9. ExtractionHolds'
  <2>1. \A u \in Threads : next[u] = "dispatch" => ledger'[token[u]] = ledger[token[u]]
    BY <1>2, <1>6 DEF ExtractionHolds
  <2> QED BY <1>5, <1>6, <2>1 DEF ExtractionHolds, CallsFade, paint
<1>10. CompletionHolds'
  <2>1. \A u \in Threads : next[u] = "ack" => ledger'[token[u]] = ledger[token[u]]
    BY <1>2, <1>6, CompletedState
  <2>2. \A u \in Threads : pc'[u] = "acked" => pc[u] = "acked"
    BY <1>1, LeavesGives
  <2> QED BY <1>5, <1>6, <2>1, <2>2, SMTT(30) DEF CompletionHolds, CallsFade, paint
<1>11. BarrierHolds' /\ QuietHolds'
  <2>1. ~Quiescible
    BY DEF Quiescible, Idle
  <2> QED BY <1>5, <2>1 DEF BarrierHolds, QuietHolds, CallsFade, history
<1>12. IntentHolds'
  BY <1>5, IntentKeeps DEF history
<1>13. RowsHold'
  BY <1>2, <1>6 DEF RowsHold, paint
<1>14. RowsAccounted'
  <2> SUFFICES ASSUME ~broken' PROVE RowsAccounted'
    BY DEF RowsAccounted
  <2>1. rows' = rows /\ ~broken
    BY DEF paint
  <2>2. Unanswered \subseteq Unanswered'
    BY <1>2, <1>6 DEF Unanswered
  <2>3. \A f : Accounts(f) =>
            \A n \in rows' \ Known' :
                /\ f[n] \in Unanswered'
                /\ \A u \in Threads :
                      next'[u] = "dispatch" => (f[n] = token'[u] <=> n = nonce'[u])
    BY <1>5, <1>6, <2>1, <2>2 DEF Accounts, CallsFade
  <2> QED BY <1>6, <2>1, <2>3, AccountsRestrict
<1>15. FaultsHaveCause'
  BY DEF FaultsHaveCause, history
<1> QED
  BY <1>5, <1>6, <1>7, <1>8, <1>9, <1>10, <1>11, <1>12, <1>13, <1>14, <1>15

LEMMA PopKeeps ==
    ASSUME LInv, NEW t \in Threads, Pop(t)
    PROVE  LInv'
BY PopExtractsKeeps, PopDropsKeeps, PopFaultKeeps DEF Pop

(* A row under a new ticket is that of the operation the thread dispatches. *)
LEMMA AdmittedKeeps ==
    ASSUME LInv, NEW t \in Threads, pc[t] = "dispatch", NEW n \in Nat, Admit(n),
           UNCHANGED <<words, history>>,
           \A u \in Threads :
               /\ next'[u] = "dispatch" =>
                     /\ next[u] = "dispatch" /\ token'[u] = token[u]
                     /\ nonce'[u] = (IF u = t THEN n ELSE nonce[u])
                     /\ pc'[u] # "rebind" => u # t /\ pc[u] # "rebind"
               /\ next'[u] = "ack" =>
                     /\ next[u] = "ack" /\ token'[u] = token[u] /\ nonce'[u] = nonce[u]
                     /\ pc'[u] = "acked" => pc[u] = "acked"
               /\ next'[u] = "retire" => next[u] = "retire"
    PROVE  /\ PaintTypes /\ LedgerHolds' /\ ListHolds' /\ ExtractionHolds' /\ CompletionHolds'
           /\ BarrierHolds' /\ QuietHolds' /\ RowsHold' /\ RowsAccounted'
<1> USE DEF LInv
<1>1. /\ n > serial /\ n # 0 /\ serial' = n /\ rows' = rows \cup {n} /\ serial \in Nat
      /\ ~retired /\ ~broken /\ retired' = retired /\ broken' = broken /\ claim' = claim
  BY DEF Admit, TypeOK
<1>2. /\ next[t] = "dispatch" /\ nonce[t] = 0
      /\ token[t] \in DOMAIN ledger /\ ledger[token[t]].state = "extracted"
  BY DEF PhasesHold, ExtractionHolds
<1>3. /\ UNCHANGED <<bound, fault, ledger, fifo, intent, quiet>>
      /\ Known' = Known /\ Unanswered' = Unanswered
  BY DEF words, history, Known, Unanswered
<1>4. \A k \in DOMAIN ledger : ledger[k].nonce \in Nat /\ ledger[k].nonce < n
  BY <1>1, LedgerShape DEF LedgerHolds
<1>5. PaintTypes
  BY <1>1 DEF PaintTypes, TypeOK
<1>6. LedgerHolds'
  BY <1>1, <1>3, <1>4 DEF LedgerHolds, Valid, NoncesMatchStates, NoncesDiffer
<1>7. ListHolds'
  BY <1>3 DEF ListHolds
<1>8. \A u \in Threads : next[u] = "dispatch" => nonce[u] \in Nat /\ nonce[u] < n
  BY <1>1 DEF ExtractionHolds, TypeOK
<1>9. ExtractionHolds'
  <2>1. ASSUME NEW u \in Threads, next'[u] = "dispatch"
        PROVE  /\ token'[u] \in DOMAIN ledger' /\ ledger'[token'[u]].state = "extracted"
               /\ nonce'[u] <= serial'
               /\ nonce'[u] # 0 => \A k \in DOMAIN ledger' : ledger'[k].nonce # nonce'[u]
               /\ pc'[u] # "rebind" => nonce'[u] = 0
    <3>1. /\ next[u] = "dispatch" /\ token'[u] = token[u]
          /\ nonce'[u] = (IF u = t THEN n ELSE nonce[u])
          /\ pc'[u] # "rebind" => u # t /\ pc[u] # "rebind"
      BY <2>1
    <3>2. CASE u = t
      BY <1>1, <1>2, <1>3, <1>4, <3>1, <3>2
    <3>3. CASE u # t
      BY <1>1, <1>3, <1>8, <3>1, <3>3 DEF ExtractionHolds
    <3> QED BY <3>2, <3>3
  <2>2. ASSUME NEW u \in Threads, NEW v \in Threads,
               next'[u] = "dispatch", next'[v] = "dispatch", u # v
        PROVE  token'[u] # token'[v] /\ (nonce'[u] # 0 => nonce'[u] # nonce'[v])
    <3>1. /\ next[u] = "dispatch" /\ token'[u] = token[u]
          /\ nonce'[u] = (IF u = t THEN n ELSE nonce[u])
          /\ next[v] = "dispatch" /\ token'[v] = token[v]
          /\ nonce'[v] = (IF v = t THEN n ELSE nonce[v])
      BY <2>2
    <3> QED BY <1>1, <1>8, <2>2, <3>1 DEF ExtractionHolds
  <2> QED BY <2>1, <2>2 DEF ExtractionHolds
<1>10. CompletionHolds'
  <2>1. \A u \in Threads : next[u] = "ack" => nonce[u] # n
    BY <1>1, <1>4, CompletedState
  <2> QED BY <1>1, <1>3, <2>1 DEF CompletionHolds
<1>11. BarrierHolds' /\ QuietHolds'
  BY <1>1, <1>3 DEF BarrierHolds, QuietHolds, Quiescible, Idle
<1>12. RowsHold'
  <2>1. \A m \in rows' : m # 0 /\ m <= serial'
    BY <1>1 DEF RowsHold, TypeOK
  <2>2. \A k \in DOMAIN ledger : ledger[k].nonce \in rows' => ledger[k].nonce \in rows
    BY <1>1, <1>4
  <2> QED BY <1>1, <1>3, <2>1, <2>2 DEF RowsHold
<1>13. RowsAccounted'
  <2>1. PICK f : Accounts(f)
    BY <1>1 DEF RowsAccounted
  <2>2. n \notin Known /\ n \notin rows
    BY <1>1, <1>4 DEF Known, RowsHold, TypeOK
  <2> DEFINE unknown == rows' \ Known'
             g == [m \in unknown |-> IF m = n THEN token[t] ELSE f[m]]
  <2>3. unknown = (rows \ Known) \cup {n}
    BY <1>1, <1>3, <2>2
  <2>4. token[t] \in Unanswered /\ \A m \in rows \ Known : f[m] \in Unanswered
    BY <1>2, <2>1 DEF Unanswered, Accounts
  <2>5. \A m \in rows \ Known : m # n /\ f[m] # token[t]
    BY <1>1, <1>2, <2>1, <2>2 DEF Accounts, RowsHold
  <2>6. g \in [unknown -> Unanswered']
    BY <1>3, <2>3, <2>4
  <2>7. \A l, m \in unknown : g[l] = g[m] => l = m
    BY <2>1, <2>3, <2>5 DEF Accounts
  <2>8. ASSUME NEW u \in Threads, NEW m \in unknown, next'[u] = "dispatch"
        PROVE  g[m] = token'[u] <=> m = nonce'[u]
    <3>1. /\ next[u] = "dispatch" /\ token'[u] = token[u]
          /\ nonce'[u] = (IF u = t THEN n ELSE nonce[u])
      BY <2>8
    <3>2. CASE m = n
      BY <1>1, <1>2, <1>8, <3>1, <3>2 DEF ExtractionHolds
    <3>3. CASE m # n
      <4>1. m \in rows \ Known /\ g[m] = f[m]
        BY <2>3, <3>3
      <4>2. CASE u = t
        BY <2>5, <3>1, <3>3, <4>1, <4>2
      <4>3. CASE u # t
        BY <2>1, <3>1, <4>1, <4>3 DEF Accounts
      <4> QED BY <4>2, <4>3
    <3> QED BY <3>2, <3>3
  <2> HIDE DEF g
  <2> QED BY <2>6, <2>7, <2>8 DEF RowsAccounted, Accounts
<1> QED
  BY <1>5, <1>6, <1>7, <1>9, <1>10, <1>11, <1>12, <1>13

LEMMA DispatchKeeps ==
    ASSUME LInv, NEW t \in Threads, Dispatch(t)
    PROVE  LInv'
<1> USE DEF LInv
<1>1. /\ pc[t] = "dispatch" /\ next[t] = "dispatch" /\ UNCHANGED <<words, mutex, history>>
  BY DEF Dispatch, PhasesHold
<1>2. FaultsHaveCause'
  BY <1>1 DEF words, history, FaultsHaveCause
<1>3. ASSUME NEW n \in 1 .. TicketLimit, Admit(n), nonce' = [nonce EXCEPT ![t] = n],
             pc' = [pc EXCEPT ![t] = "rebind"], UNCHANGED <<next, token, preparing>>
      PROVE  LInv'
  <2>1. n \in Nat
    BY TicketsAssumption
  <2>2. /\ pc' \in [Threads -> Labels] /\ pc'[t] = "rebind"
        /\ nonce' \in [Threads -> Nat] /\ nonce'[t] = n
        /\ \A u \in Threads : u # t => pc'[u] = pc[u] /\ nonce'[u] = nonce[u]
    BY <1>3, <2>1 DEF TypeOK, Labels
  <2>3. /\ PaintTypes /\ LedgerHolds' /\ ListHolds' /\ ExtractionHolds' /\ CompletionHolds'
        /\ BarrierHolds' /\ QuietHolds' /\ RowsHold' /\ RowsAccounted'
    BY <1>1, <1>3, <2>1, <2>2, AdmittedKeeps
  <2>4. TypeOK'
    BY <1>1, <1>3, <2>2, <2>3 DEF TypeOK, words, history, PaintTypes
  <2>5. PhasesHold'
    BY <1>1, <1>3, <2>2 DEF PhasesHold
  <2>6. IntentHolds'
    BY <1>1, <1>3, <2>2 DEF IntentHolds, OneCleanupIntent, words, history
  <2> QED BY <1>2, <2>3, <2>4, <2>5, <2>6
<1>4. ASSUME NEW n \in 1 .. TicketLimit, Admit(n), Returns(t)
      PROVE  LInv'
  <2>1. n \in Nat
    BY TicketsAssumption
  <2>2. Leaves(t)
    BY <1>4 DEF Leaves
  <2>3. CallsFade /\ PhasesHold'
    BY <2>2, LeavesFades
  <2>4. /\ next'[t] = "outside"
        /\ \A u \in Threads : u # t =>
              /\ pc'[u] = pc[u] /\ next'[u] = next[u] /\ token'[u] = token[u]
              /\ nonce'[u] = nonce[u]
    BY <2>2, LeavesGives
  <2>5. /\ PaintTypes /\ LedgerHolds' /\ ListHolds' /\ ExtractionHolds' /\ CompletionHolds'
        /\ BarrierHolds' /\ QuietHolds' /\ RowsHold' /\ RowsAccounted'
    BY <1>1, <1>4, <2>1, <2>4, AdmittedKeeps
  <2>6. TypeOK'
    BY <1>1, <2>2, <2>5, LeavesGives DEF TypeOK, words, history, PaintTypes
  <2>7. IntentHolds'
    BY <1>1, <2>3, IntentKeeps DEF words, history
  <2> QED BY <1>2, <2>3, <2>5, <2>6, <2>7
<1>5. CASE UNCHANGED paint /\ Goes(t, "rebind")
  <2>1. CallsFade /\ PhasesHold'
    BY <1>1, <1>5, GoesFades DEF Labels
  <2>2. TypeOK'
    BY <1>1, <1>5, SameFades, GoesGives DEF TypeOK, words, history, PaintTypes, Labels
  <2>3. IntentHolds'
    BY <1>1, <2>1, IntentKeeps DEF words, history
  <2> QED BY <1>1, <1>2, <1>5, <2>1, <2>2, <2>3, SameFades, FadesKeep DEF words, history
<1>6. CASE UNCHANGED paint /\ Returns(t)
  <2>1. Leaves(t)
    BY <1>6 DEF Leaves
  <2> QED BY <1>1, <1>2, <1>6, <2>1, SameFades, LeavingKeeps DEF words, history, TypeOK
<1> QED
  BY <1>3, <1>4, <1>5, <1>6 DEF Dispatch

(* What pop_rebind finds is what its thread left: it cannot fault by itself.*)
LEMMA RebindFinds ==
    ASSUME LInv, NEW t \in Threads, pc[t] = "rebind"
    PROVE  /\ Rebindable(token[t], nonce[t])
           /\ token[t] \in DOMAIN ledger /\ nonce[t] \in Nat /\ next[t] = "dispatch"
           /\ ledger[token[t]].state = "extracted" /\ ledger[token[t]].nonce = 0
           /\ nonce[t] <= serial
           /\ nonce[t] # 0 => \A k \in DOMAIN ledger : ledger[k].nonce # nonce[t]
<1> USE DEF LInv
<1>1. next[t] = "dispatch" /\ nonce[t] \in Nat
  BY DEF PhasesHold, TypeOK
<1>2. /\ token[t] \in DOMAIN ledger /\ ledger[token[t]].state = "extracted"
      /\ nonce[t] <= serial
      /\ nonce[t] # 0 => \A k \in DOMAIN ledger : ledger[k].nonce # nonce[t]
  BY <1>1 DEF ExtractionHolds
<1>3. ledger[token[t]].nonce = 0
  BY <1>2 DEF LedgerHolds, Valid, NoncesMatchStates
<1> QED
  BY <1>1, <1>2, <1>3 DEF Rebindable

LEMMA AnswerKeeps ==
    ASSUME LInv, NEW t \in Threads, pc[t] = "rebind", Leaves(t),
           ledger' = Answered(token[t], nonce[t]), fault => fault',
           UNCHANGED <<paint, bound, fifo, intent, quiet, exported>>
    PROVE  /\ PhasesHold' /\ LedgerHolds' /\ ListHolds' /\ ExtractionHolds' /\ CompletionHolds'
           /\ BarrierHolds' /\ QuietHolds' /\ IntentHolds' /\ RowsHold' /\ RowsAccounted'
           /\ ledger' \in Seq(LedgerRows)
<1> USE DEF LInv
<1> DEFINE k == token[t]
           n == nonce[t]
<1>1. /\ k \in DOMAIN ledger /\ n \in Nat /\ next[t] = "dispatch"
      /\ ledger[k].state = "extracted" /\ ledger[k].nonce = 0 /\ n <= serial
      /\ n # 0 => \A l \in DOMAIN ledger : ledger[l].nonce # n
  BY RebindFinds
<1>2. /\ ledger' \in Seq(LedgerRows) /\ Len(ledger') = Len(ledger)
      /\ DOMAIN ledger' = DOMAIN ledger
      /\ n = 0 => ledger'[k] = [state |-> "done", nonce |-> 0]
      /\ n # 0 => ledger'[k] = [state |-> "published", nonce |-> n]
      /\ \A l \in DOMAIN ledger : l # k => ledger'[l] = ledger[l]
  BY <1>1, AnsweredGives
<1>3. CallsFade /\ PhasesHold'
  BY LeavesFades
<1>4. \A u \in Threads : next'[u] # "outside" => u # t
  BY LeavesGives
<1>5. \A u \in Threads : u # t /\ next[u] = "dispatch" =>
          token[u] # k /\ (n # 0 => nonce[u] # n)
  BY <1>1 DEF ExtractionHolds
<1>6. serial \in Nat
  BY DEF TypeOK
<1> HIDE DEF k, n
<1>7. ledger'[k].nonce = n /\ ledger'[k].state = (IF n = 0 THEN "done" ELSE "published")
  BY <1>2
<1>8. LedgerHolds'
  <2>1. NoncesMatchStates'
    <3>1. ASSUME NEW l \in DOMAIN ledger'
          PROVE  /\ ledger'[l].state \in {"published", "acking"} => ledger'[l].nonce # 0
                 /\ ledger'[l].state \in {"reserved", "queued", "extracted"} =>
                        ledger'[l].nonce = 0
      <4>1. CASE l = k
        BY <1>7, <4>1
      <4>2. CASE l # k
        BY <1>2, <4>2 DEF LedgerHolds, Valid, NoncesMatchStates
      <4> QED BY <4>1, <4>2
    <3> QED BY <3>1 DEF NoncesMatchStates
  <2>2. NoncesDiffer'
    BY <1>1, <1>2, <1>7 DEF LedgerHolds, Valid, NoncesDiffer
  <2>3. \A l \in DOMAIN ledger' : ledger'[l].nonce <= serial'
    BY <1>1, <1>2, <1>7 DEF LedgerHolds, paint
  <2>4. bound # "unbound"
    BY <1>1 DEF LedgerHolds, Valid
  <2> QED BY <1>2, <2>1, <2>2, <2>3, <2>4 DEF LedgerHolds, Valid
<1>9. ListHolds'
  BY <1>1, <1>2 DEF ListHolds
<1>10. ExtractionHolds'
  <2>1. ASSUME NEW u \in Threads, next'[u] = "dispatch"
        PROVE  /\ token'[u] \in DOMAIN ledger' /\ ledger'[token'[u]].state = "extracted"
               /\ nonce'[u] <= serial'
               /\ nonce'[u] # 0 => \A l \in DOMAIN ledger' : ledger'[l].nonce # nonce'[u]
               /\ pc'[u] # "rebind" => nonce'[u] = 0
    <3>1. /\ u # t /\ next[u] = "dispatch" /\ token'[u] = token[u] /\ nonce'[u] = nonce[u]
          /\ pc'[u] # "rebind" => pc[u] # "rebind"
      BY <1>3, <1>4, <2>1 DEF CallsFade
    <3>2. /\ token[u] \in DOMAIN ledger /\ ledger[token[u]].state = "extracted"
          /\ nonce[u] <= serial
          /\ nonce[u] # 0 => \A l \in DOMAIN ledger : ledger[l].nonce # nonce[u]
          /\ pc[u] # "rebind" => nonce[u] = 0
      BY <3>1 DEF ExtractionHolds
    <3>3. nonce[u] # 0 => \A l \in DOMAIN ledger' : ledger'[l].nonce # nonce[u]
      BY <1>1, <1>2, <1>5, <1>7, <3>1, <3>2
    <3> QED BY <1>2, <1>5, <3>1, <3>2, <3>3 DEF paint
  <2> QED BY <1>3, <2>1 DEF ExtractionHolds, CallsFade
<1>11. CompletionHolds'
  <2>1. \A u \in Threads : next[u] = "ack" => ledger'[token[u]] = ledger[token[u]]
    BY <1>1, <1>2, CompletedState
  <2>2. \A u \in Threads : pc'[u] = "acked" => pc[u] = "acked"
    BY LeavesGives
  <2> QED BY <1>2, <1>3, <2>1, <2>2 DEF CompletionHolds, CallsFade, paint
<1>12. BarrierHolds' /\ QuietHolds'
  <2>1. ~Quiescible
    BY <1>1 DEF Quiescible, Idle
  <2> QED BY <1>3, <2>1 DEF BarrierHolds, QuietHolds, CallsFade
<1>13. IntentHolds'
  BY <1>3, IntentKeeps
<1>14. RowsHold'
  <2> SUFFICES ASSUME ~broken' PROVE RowsHold'
    BY DEF RowsHold
  <2>1. ~broken /\ rows' = rows /\ serial' = serial /\ 0 \notin rows
    BY DEF paint, RowsHold
  <2>2. \A l \in DOMAIN ledger' :
            ledger'[l].nonce \in rows' => ledger'[l].state \in {"published", "acking"}
    BY <1>2, <1>7, <2>1 DEF RowsHold
  <2> QED BY <2>1, <2>2 DEF RowsHold
<1>15. RowsAccounted'
  <2> SUFFICES ASSUME ~broken' PROVE RowsAccounted'
    BY DEF RowsAccounted
  <2>1. ~broken /\ rows' = rows /\ 0 \notin rows
    BY DEF paint, RowsHold
  <2>2. n \in Known'
    BY <1>1, <1>2, <1>7 DEF Known
  <2>3. rows' \ Known' \subseteq rows \ Known
    BY <1>1, <1>2, <2>1 DEF Known
  <2>4. Unanswered \ {k} \subseteq Unanswered'
    BY <1>2 DEF Unanswered
  <2>5. \A f : Accounts(f) =>
            \A m \in rows' \ Known' :
                /\ f[m] \in Unanswered'
                /\ \A u \in Threads :
                      next'[u] = "dispatch" => (f[m] = token'[u] <=> m = nonce'[u])
    <3> SUFFICES ASSUME NEW f, Accounts(f), NEW m \in rows' \ Known'
                 PROVE  /\ f[m] \in Unanswered'
                        /\ \A u \in Threads :
                              next'[u] = "dispatch" => (f[m] = token'[u] <=> m = nonce'[u])
      OBVIOUS
    <3>1. m \in rows \ Known /\ m # n
      BY <2>2, <2>3
    <3>2. f[m] \in Unanswered /\ f[m] # k
      BY <1>1, <3>1 DEF Accounts, k, n
    <3>3. \A u \in Threads :
              next'[u] = "dispatch" => (f[m] = token'[u] <=> m = nonce'[u])
      BY <1>3, <3>1 DEF Accounts, CallsFade
    <3> QED BY <2>4, <3>2, <3>3
  <2> QED BY <2>1, <2>3, <2>5, AccountsRestrict
<1> QED
  BY <1>2, <1>3, <1>8, <1>9, <1>10, <1>11, <1>12, <1>13, <1>14, <1>15

LEMMA RebindKeeps ==
    ASSUME LInv, NEW t \in Threads, Rebind(t)
    PROVE  LInv'
<1> USE DEF LInv
<1> DEFINE k == token[t]
           n == nonce[t]
<1>1. CASE /\ Body(t, "rebind", "outside")
           /\ Rebindable(k, n)
           /\ ledger' = Answered(k, n)
           /\ Keeps
           /\ UNCHANGED <<paint, bound, fault, fifo, intent, history>>
  <2>1. Leaves(t) /\ mutex' = t /\ pc[t] = "rebind"
    BY <1>1 DEF Body, Acquires, Leaves
  <2>2. /\ PhasesHold' /\ LedgerHolds' /\ ListHolds' /\ ExtractionHolds' /\ CompletionHolds'
        /\ BarrierHolds' /\ QuietHolds' /\ IntentHolds' /\ RowsHold' /\ RowsAccounted'
        /\ ledger' \in Seq(LedgerRows)
    BY <1>1, <2>1, AnswerKeeps DEF history
  <2>3. TypeOK'
    BY <1>1, <2>1, <2>2, LeavesGives DEF TypeOK, paint, history
  <2>4. FaultsHaveCause'
    BY <1>1 DEF history, FaultsHaveCause
  <2> QED BY <2>2, <2>3, <2>4
<1>2. CASE /\ Valid /\ ~fault
           /\ Faults(t, "rebind", Rebindable(k, n))
           /\ ledger' \in {ledger, Answered(k, n)}
           /\ UNCHANGED fifo
  <2>1. pc[t] = "rebind"
    BY <1>2 DEF Faults, Acquires
  <2>2. Faults(t, "rebind", TRUE)
    BY <1>2, <2>1, RebindFinds DEF Faults
  <2>3. /\ Leaves(t) /\ mutex' = t /\ fault' = TRUE /\ failed' = TRUE
        /\ UNCHANGED <<paint, bound, intent, quiet, exported>>
    BY <2>2, FaultsGives
  <2>4. FaultsHaveCause'
    BY <2>3 DEF FaultsHaveCause
  <2>5. CASE ledger' = ledger
    BY <1>2, <2>3, <2>4, <2>5, SameFades, LeavingKeeps
  <2>6. CASE ledger' = Answered(k, n)
    <3>1. /\ PhasesHold' /\ LedgerHolds' /\ ListHolds' /\ ExtractionHolds'
          /\ CompletionHolds' /\ BarrierHolds' /\ QuietHolds' /\ IntentHolds'
          /\ RowsHold' /\ RowsAccounted' /\ ledger' \in Seq(LedgerRows)
      BY <1>2, <2>1, <2>3, <2>6, AnswerKeeps
    <3>2. TypeOK'
      BY <1>2, <2>3, <3>1, LeavesGives DEF TypeOK, paint
    <3> QED BY <2>4, <3>1, <3>2
  <2> QED BY <1>2, <2>5, <2>6
<1> QED
  BY <1>1, <1>2 DEF Rebind

(* A published operation becomes the thread's that completes it.            *)
LEMMA CompleteKeeps ==
    ASSUME LInv, NEW t \in Threads, NEW n \in Nat, Complete(t, n)
    PROVE  LInv'
<1> USE DEF LInv
<1>1. PICK k \in DOMAIN ledger :
          /\ Body(t, "outside", "ack")
          /\ bound # "unbound"
          /\ ledger[k] = [state |-> "published", nonce |-> n]
          /\ ledger' = Moved(k, "acking")
          /\ token' = [token EXCEPT ![t] = k]
          /\ nonce' = [nonce EXCEPT ![t] = n]
          /\ UNCHANGED <<paint, bound, fault, fifo, intent, preparing, history>>
  BY DEF Complete
<1>2. ~fault /\ Acquires(t, "outside", "ack") /\ k \in Nat
  BY <1>1, LedgerShape DEF Body
<1>3. ledger[k].state = "published" /\ ledger[k].nonce = n /\ n # 0
  <2>1. [state |-> "published", nonce |-> n].state = "published"
        /\ [state |-> "published", nonce |-> n].nonce = n
    OBVIOUS
  <2> QED BY <1>1, <2>1 DEF LedgerHolds, Valid, NoncesMatchStates
<1>4. /\ pc' \in [Threads -> Labels] /\ next' \in [Threads -> Phases]
      /\ mutex' = t /\ pc[t] = "outside" /\ pc'[t] = "release" /\ next'[t] = "ack"
      /\ \A u \in Threads : u # t => pc'[u] = pc[u] /\ next'[u] = next[u]
  BY <1>2, AcquiresGives DEF Phases
<1>5. /\ token' \in [Threads -> Nat] /\ token'[t] = k
      /\ nonce' \in [Threads -> Nat] /\ nonce'[t] = n
      /\ ~preparing[t] /\ next[t] = "outside"
      /\ \A u \in Threads : u # t => token'[u] = token[u] /\ nonce'[u] = nonce[u]
  BY <1>1, <1>2, <1>4 DEF TypeOK, PhasesHold
<1>6. /\ ledger' \in Seq(LedgerRows) /\ DOMAIN ledger' = DOMAIN ledger
      /\ ledger'[k] = [state |-> "acking", nonce |-> n]
      /\ \A l \in DOMAIN ledger : l # k => ledger'[l] = ledger[l]
      /\ \A l \in DOMAIN ledger : ledger'[l].nonce = ledger[l].nonce
      /\ LedgerHolds' /\ Known' = Known
  <2>1. "acking" \in OperationStates /\ Len(fifo') <= Capacity
    BY <1>1 DEF OperationStates, LedgerHolds, Valid
  <2> QED BY <1>1, <1>3, <2>1, MoveKeeps
<1>7. TypeOK'
  BY <1>1, <1>4, <1>5, <1>6 DEF TypeOK, paint, history
<1>8. PhasesHold'
  BY <1>1, <1>4, <1>5 DEF PhasesHold
<1>9. ListHolds'
  BY <1>1, <1>2, <1>3, <1>6 DEF ListHolds
<1>10. ExtractionHolds'
  <2>1. \A u \in Threads : next'[u] = "dispatch" => u # t /\ next[u] = "dispatch"
    BY <1>4
  <2>2. \A u \in Threads : next[u] = "dispatch" => ledger'[token[u]] = ledger[token[u]]
    BY <1>3, <1>6 DEF ExtractionHolds
  <2>3. serial' = serial
    BY <1>1 DEF paint
  <2>4. \A u \in Threads : next'[u] = "dispatch" =>
            /\ next[u] = "dispatch" /\ pc'[u] = pc[u] /\ token'[u] = token[u]
            /\ nonce'[u] = nonce[u] /\ ledger'[token[u]] = ledger[token[u]]
    BY <1>4, <1>5, <2>1, <2>2
  <2> QED BY <1>6, <2>3, <2>4 DEF ExtractionHolds
<1>11. CompletionHolds'
  <2>1. \A u \in Threads : next[u] = "ack" => token[u] # k
    BY <1>3, CompletedState
  <2>2. \A u \in Threads : u # t /\ next[u] = "ack" => ledger'[token[u]] = ledger[token[u]]
    BY <1>6, <2>1, CompletedState
  <2>3. rows' = rows /\ broken' = broken
    BY <1>1 DEF paint
  <2>4. \A u \in Threads : next'[u] = "ack" =>
            /\ token'[u] \in DOMAIN ledger'
            /\ ledger'[token'[u]] = [state |-> "acking", nonce |-> nonce'[u]]
            /\ pc'[u] = "acked" /\ ~broken' => nonce'[u] \notin rows'
    <3> SUFFICES ASSUME NEW u \in Threads, next'[u] = "ack"
                 PROVE  /\ token'[u] \in DOMAIN ledger'
                        /\ ledger'[token'[u]] = [state |-> "acking", nonce |-> nonce'[u]]
                        /\ pc'[u] = "acked" /\ ~broken' => nonce'[u] \notin rows'
      OBVIOUS
    <3>1. CASE u = t
      BY <1>4, <1>5, <1>6, <3>1
    <3>2. CASE u # t
      <4>1. /\ next[u] = "ack" /\ token'[u] = token[u] /\ nonce'[u] = nonce[u]
            /\ pc'[u] = pc[u] /\ ledger'[token[u]] = ledger[token[u]]
        BY <1>4, <1>5, <2>2, <3>2
      <4> QED BY <1>6, <2>3, <4>1 DEF CompletionHolds
    <3> QED BY <3>1, <3>2
  <2>5. \A u, v \in Threads : next'[u] = "ack" /\ next'[v] = "ack" /\ u # v =>
            token'[u] # token'[v]
    BY <1>4, <1>5, <2>1 DEF CompletionHolds
  <2> QED BY <2>4, <2>5 DEF CompletionHolds
<1>12. BarrierHolds' /\ QuietHolds'
  <2>1. ~Quiescible
    BY <1>3 DEF Quiescible, Idle
  <2> QED BY <1>1, <1>4, <2>1 DEF BarrierHolds, QuietHolds, history
<1>13. IntentHolds'
  BY <1>1, <1>4 DEF IntentHolds, OneCleanupIntent, history
<1>14. RowsHold'
  <2>1. \A l \in DOMAIN ledger : l # k => ledger'[l].state = ledger[l].state
    BY <1>6
  <2>2. ledger'[k].state = "acking"
    BY <1>6
  <2> QED BY <1>1, <1>6, <2>1, <2>2 DEF RowsHold, paint
<1>15. RowsAccounted'
  <2> SUFFICES ASSUME ~broken' PROVE RowsAccounted'
    BY DEF RowsAccounted
  <2>1. rows' = rows /\ ~broken
    BY <1>1 DEF paint
  <2>2. Unanswered \subseteq Unanswered'
    BY <1>3, <1>6 DEF Unanswered
  <2>3. \A f : Accounts(f) =>
            \A m \in rows' \ Known' :
                /\ f[m] \in Unanswered'
                /\ \A u \in Threads :
                      next'[u] = "dispatch" => (f[m] = token'[u] <=> m = nonce'[u])
    <3>1. \A u \in Threads : next'[u] = "dispatch" =>
              next[u] = "dispatch" /\ token'[u] = token[u] /\ nonce'[u] = nonce[u]
      BY <1>4, <1>5
    <3> QED BY <1>6, <2>1, <2>2, <3>1 DEF Accounts
  <2> QED BY <1>6, <2>1, <2>3, AccountsRestrict
<1>16. FaultsHaveCause'
  BY <1>1 DEF FaultsHaveCause, history
<1> QED
  BY <1>6, <1>7, <1>8, <1>9, <1>10, <1>11, <1>12, <1>13, <1>14, <1>15, <1>16

(* A settled operation is over: its row has left, or the queue is broken.   *)
LEMMA AcknowledgedKeeps ==
    ASSUME LInv, NEW t \in Threads, Acknowledged(t)
    PROVE  LInv'
<1> USE DEF LInv
<1> DEFINE k == token[t]
           sound == ledger[k] = [state |-> "acking", nonce |-> nonce[t]]
<1>1. pc[t] = "acked" /\ next[t] = "ack"
  BY DEF Acknowledged, Body, Faults, Acquires, PhasesHold
<1>2. /\ k \in DOMAIN ledger /\ sound /\ ledger[k].state = "acking"
      /\ ledger[k].nonce = nonce[t] /\ (~broken => nonce[t] \notin rows)
  BY <1>1, CompletedState DEF CompletionHolds
<1>3. CASE /\ Valid /\ ~fault
           /\ Faults(t, "acked", sound)
           /\ UNCHANGED <<ledger, fifo>>
  <2>1. Faults(t, "acked", TRUE)
    BY <1>2, <1>3 DEF Faults
  <2>2. /\ Leaves(t) /\ mutex' = t /\ fault' = TRUE /\ failed' = TRUE
        /\ UNCHANGED <<paint, bound, intent, quiet, exported>>
    BY <2>1, FaultsGives
  <2> QED BY <1>3, <2>2, SameFades, LeavingKeeps DEF FaultsHaveCause
<1>4. CASE /\ Body(t, "acked", "outside")
           /\ sound
           /\ ledger' = Moved(k, "done")
           /\ Keeps
           /\ UNCHANGED <<paint, bound, fault, fifo, intent, history>>
  <2>1. Leaves(t) /\ mutex' = t /\ ~fault
    BY <1>4 DEF Body, Acquires, Leaves
  <2>2. CallsFade /\ PhasesHold'
    BY <2>1, LeavesFades
  <2>3. \A u \in Threads : next'[u] # "outside" => u # t
    BY <2>1, LeavesGives
  <2>4. \A u \in Threads : u # t /\ next[u] = "ack" => token[u] # k
    BY <1>1 DEF CompletionHolds
  <2> HIDE DEF k, sound
  <2>5. /\ ledger' \in Seq(LedgerRows) /\ DOMAIN ledger' = DOMAIN ledger
        /\ ledger'[k] = [state |-> "done", nonce |-> ledger[k].nonce]
        /\ \A l \in DOMAIN ledger : l # k => ledger'[l] = ledger[l]
        /\ \A l \in DOMAIN ledger : ledger'[l].nonce = ledger[l].nonce
        /\ LedgerHolds' /\ Known' = Known
    <3>1. "done" \in OperationStates /\ Len(fifo') <= Capacity /\ bound # "unbound"
      BY <1>2, <1>4 DEF OperationStates, LedgerHolds, Valid
    <3> QED BY <1>2, <1>4, <3>1, MoveKeeps
  <2>6. TypeOK'
    BY <1>4, <2>1, <2>5, LeavesGives DEF TypeOK, paint, history
  <2>7. ListHolds'
    BY <1>2, <1>4, <2>5 DEF ListHolds
  <2>8. ExtractionHolds'
    <3>1. \A u \in Threads : next[u] = "dispatch" => ledger'[token[u]] = ledger[token[u]]
      BY <1>2, <2>5 DEF ExtractionHolds
    <3> QED BY <1>4, <2>2, <2>5, <3>1 DEF ExtractionHolds, CallsFade, paint
  <2>9. CompletionHolds'
    <3>1. \A u \in Threads : u # t /\ next[u] = "ack" => ledger'[token[u]] = ledger[token[u]]
      BY <2>4, <2>5, CompletedState
    <3>2. \A u \in Threads : pc'[u] = "acked" => pc[u] = "acked"
      BY <2>1, LeavesGives
    <3> QED
      BY <1>4, <2>2, <2>3, <2>5, <3>1, <3>2 DEF CompletionHolds, CallsFade, paint
  <2>10. BarrierHolds' /\ QuietHolds'
    <3>1. ~Quiescible
      BY <1>2 DEF Quiescible, Idle
    <3> QED BY <1>4, <2>2, <3>1 DEF BarrierHolds, QuietHolds, CallsFade, history
  <2>11. IntentHolds'
    BY <1>4, <2>2, IntentKeeps DEF history
  <2>12. RowsHold'
    BY <1>2, <1>4, <2>5 DEF RowsHold, paint
  <2>13. RowsAccounted'
    <3> SUFFICES ASSUME ~broken' PROVE RowsAccounted'
      BY DEF RowsAccounted
    <3>1. rows' = rows /\ ~broken
      BY <1>4 DEF paint
    <3>2. Unanswered \subseteq Unanswered'
      BY <1>2, <2>5 DEF Unanswered
    <3>3. \A f : Accounts(f) =>
              \A m \in rows' \ Known' :
                  /\ f[m] \in Unanswered'
                  /\ \A u \in Threads :
                        next'[u] = "dispatch" => (f[m] = token'[u] <=> m = nonce'[u])
      BY <2>2, <2>5, <3>1, <3>2 DEF Accounts, CallsFade
    <3> QED BY <2>5, <3>1, <3>3, AccountsRestrict
  <2>14. FaultsHaveCause'
    BY <1>4 DEF FaultsHaveCause, history
  <2> QED
    BY <2>2, <2>5, <2>6, <2>7, <2>8, <2>9, <2>10, <2>11, <2>12, <2>13, <2>14
<1> QED
  BY <1>3, <1>4 DEF Acknowledged

(* The ledger's own barrier, found quiet under M.                           *)
LEMMA BarrierKeeps ==
    ASSUME LInv, NEW t \in Threads, NEW to \in {"barrier", "retire"},
           NEW from \in {"outside", "barrier"},
           Body(t, from, to), Quiescible,
           \A u \in Threads : u # t => preparing'[u] = preparing[u],
           UNCHANGED <<paint, bound, fault, ledger, fifo, token, nonce, failed, quiet, exported>>
    PROVE  /\ PhasesHold' /\ LedgerHolds' /\ ListHolds' /\ ExtractionHolds' /\ CompletionHolds'
           /\ BarrierHolds' /\ QuietHolds' /\ RowsHold' /\ RowsAccounted' /\ FaultsHaveCause'
           /\ pc' \in [Threads -> Labels] /\ next' \in [Threads -> Phases] /\ mutex' = t
           /\ pc'[t] = "release" /\ \A u \in Threads : u # t => pc'[u] = pc[u]
<1> USE DEF LInv
<1>1. /\ pc' \in [Threads -> Labels] /\ next' \in [Threads -> Phases]
      /\ mutex' = t /\ pc[t] = from /\ pc'[t] = "release" /\ next'[t] = to
      /\ \A u \in Threads : u # t => pc'[u] = pc[u] /\ next'[u] = next[u]
  BY AcquiresGives DEF Body, Phases
<1>2. PhasesHold'
  BY <1>1 DEF PhasesHold
<1>3. LedgerHolds' /\ ListHolds'
  BY DEF LedgerHolds, Valid, NoncesMatchStates, NoncesDiffer, ListHolds, paint
<1>4. ExtractionHolds' /\ CompletionHolds'
  BY <1>1 DEF ExtractionHolds, CompletionHolds, paint
<1>5. BarrierHolds' /\ QuietHolds'
  BY DEF BarrierHolds, QuietHolds, Quiescible, Idle, paint
<1>6. RowsHold' /\ FaultsHaveCause'
  BY DEF RowsHold, FaultsHaveCause, paint
<1>7. RowsAccounted'
  <2>1. rows' = rows /\ broken' = broken /\ Known' = Known /\ Unanswered' = Unanswered
    BY DEF paint, Known, Unanswered
  <2>2. \A u \in Threads : next'[u] = "dispatch" => next[u] = "dispatch"
    BY <1>1
  <2>3. \A f : ~broken' /\ Accounts(f) =>
            \A n \in rows' \ Known' :
                /\ f[n] \in Unanswered'
                /\ \A u \in Threads :
                      next'[u] = "dispatch" => (f[n] = token'[u] <=> n = nonce'[u])
    BY <2>1, <2>2 DEF Accounts
  <2> QED BY <2>1, <2>3, AccountsRestrict
<1> QED
  BY <1>1, <1>2, <1>3, <1>4, <1>5, <1>6, <1>7

LEMMA QuiescentKeeps ==
    ASSUME LInv, NEW t \in Threads, Quiescent(t)
    PROVE  LInv'
<1> USE DEF LInv
<1>1. PICK from \in {"outside", "barrier"} :
          /\ Body(t, from, "retire") /\ Quiescible /\ Keeps
          /\ UNCHANGED <<paint, words, history>>
  BY DEF Quiescent
<1>2. UNCHANGED <<paint, bound, fault, ledger, fifo, intent, token, nonce, preparing,
                  failed, quiet, exported>>
  BY <1>1 DEF Keeps, words, locals, history
<1>3. /\ PhasesHold' /\ LedgerHolds' /\ ListHolds' /\ ExtractionHolds' /\ CompletionHolds'
      /\ BarrierHolds' /\ QuietHolds' /\ RowsHold' /\ RowsAccounted' /\ FaultsHaveCause'
      /\ pc' \in [Threads -> Labels] /\ next' \in [Threads -> Phases] /\ mutex' = t
      /\ pc'[t] = "release" /\ \A u \in Threads : u # t => pc'[u] = pc[u]
  BY <1>1, <1>2, BarrierKeeps
<1>4. TypeOK'
  BY <1>2, <1>3 DEF TypeOK, paint
<1>5. IntentHolds'
  BY <1>2, <1>3 DEF IntentHolds, OneCleanupIntent
<1> QED
  BY <1>3, <1>4, <1>5

(* The attempt is taken only where nobody has taken it.                     *)
LEMMA PrepareKeeps ==
    ASSUME LInv, NEW t \in Threads, PrepareCleanup(t)
    PROVE  LInv'
<1> USE DEF LInv
<1>1. /\ Body(t, "outside", "barrier") /\ Quiescible /\ ~intent /\ intent' = TRUE
      /\ preparing' = [preparing EXCEPT ![t] = TRUE]
      /\ UNCHANGED <<paint, bound, fault, ledger, fifo, token, nonce, failed, quiet, exported>>
  BY DEF PrepareCleanup, Reserved, history
<1>2. /\ PhasesHold' /\ LedgerHolds' /\ ListHolds' /\ ExtractionHolds' /\ CompletionHolds'
      /\ BarrierHolds' /\ QuietHolds' /\ RowsHold' /\ RowsAccounted' /\ FaultsHaveCause'
      /\ pc' \in [Threads -> Labels] /\ next' \in [Threads -> Phases] /\ mutex' = t
      /\ pc'[t] = "release" /\ \A u \in Threads : u # t => pc'[u] = pc[u]
  <2>1. \A u \in Threads : u # t => preparing'[u] = preparing[u]
    BY <1>1 DEF TypeOK
  <2> QED BY <1>1, <2>1, BarrierKeeps
<1>3. TypeOK'
  BY <1>1, <1>2 DEF TypeOK, paint
<1>4. IntentHolds'
  <2>1. exported = 0 /\ \A u \in Threads : ~preparing[u]
    BY <1>1 DEF IntentHolds, OneCleanupIntent, TypeOK
  <2>2. \A u \in Threads : preparing'[u] => u = t
    BY <1>1, <2>1 DEF TypeOK
  <2>3. \A u \in Threads : pc'[u] # "export"
    BY <1>2, <2>1 DEF IntentHolds
  <2> QED BY <1>1, <2>1, <2>2, <2>3 DEF IntentHolds, OneCleanupIntent
<1> QED
  BY <1>2, <1>3, <1>4

LEMMA StutterKeeps ==
    ASSUME LInv, UNCHANGED vars
    PROVE  LInv'
<1> USE DEF LInv
<1>1. UNCHANGED <<paint, words, mutex, pc, next, locals, history>>
  BY DEF vars
<1>2. CallsFade /\ PhasesHold'
  BY <1>1 DEF locals, CallsFade, PhasesHold, IntentHolds, history
<1>3. TypeOK'
  BY <1>1 DEF TypeOK, words, locals, history, paint
<1>4. IntentHolds' /\ FaultsHaveCause'
  BY <1>1, <1>2, IntentKeeps DEF words, history, FaultsHaveCause
<1> QED
  BY <1>1, <1>2, <1>3, <1>4, SameFades, FadesKeep DEF words, history

-------------------------------------------------------------------------------
(* The theorems.                                                            *)

LEMMA InitHolds == Init => LInv
<1> SUFFICES ASSUME Init PROVE LInv
  OBVIOUS
<1> USE DEF Init, NewPaint
<1>1. ledger \in Seq(LedgerRows) /\ fifo \in Seq(Nat) /\ Len(ledger) = 0 /\ Len(fifo) = 0
      /\ DOMAIN ledger = {} /\ DOMAIN fifo = {}
  BY EmptySeq
<1>2. TypeOK
  BY <1>1 DEF TypeOK, Labels, Phases
<1>3. LedgerHolds
  BY <1>1, OperationsAssumption DEF LedgerHolds, Valid, NoncesMatchStates, NoncesDiffer
<1>4. PhasesHold /\ ExtractionHolds /\ CompletionHolds /\ BarrierHolds /\ QuietHolds
  BY DEF PhasesHold, ExtractionHolds, CompletionHolds, BarrierHolds, QuietHolds
<1>5. ListHolds /\ IntentHolds /\ RowsHold /\ FaultsHaveCause
  BY <1>1 DEF ListHolds, IntentHolds, OneCleanupIntent, RowsHold, FaultsHaveCause
<1>6. RowsAccounted
  <2> DEFINE f == [n \in {} |-> 0]
  <2>1. f \in [{} -> Unanswered]
    OBVIOUS
  <2>2. rows \ Known = {}
    OBVIOUS
  <2>3. Accounts(f)
    BY <2>1, <2>2 DEF Accounts
  <2> QED BY <2>3 DEF RowsAccounted
<1> QED
  BY <1>2, <1>3, <1>4, <1>5, <1>6 DEF LInv

LEMMA NextKeeps == LInv /\ [Next]_vars => LInv'
<1> SUFFICES ASSUME LInv, [Next]_vars PROVE LInv'
  OBVIOUS
<1>1. ASSUME NEW t \in Threads, NEW n \in 1 .. TicketLimit, Complete(t, n) PROVE LInv'
  <2>1. n \in Nat
    BY TicketsAssumption
  <2> QED BY <1>1, <2>1, CompleteKeeps
<1> QED
  BY <1>1, RefusedKeeps, HeaderFaultsKeeps, ReleaseKeeps, ServiceFailsKeeps, BoundKeeps,
     EnqueueKeeps, PopKeeps, DispatchKeeps, RebindKeeps, AcknowledgeKeeps, AcknowledgedKeeps,
     QuiescentKeeps, PrepareKeeps, CallRetireKeeps, CallDrainedKeeps, ExportKeeps,
     PaintStepKeeps, StutterKeeps
  DEF Next

LEMMA LedgerInvariant == Spec => []LInv
<1> QED BY InitHolds, NextKeeps, PTL DEF Spec

(* Type correctness of the ledger, its threads and the rows of its owner.   *)
THEOREM TypeCorrect == Spec => []TypeOK
<1>1. LInv => TypeOK
  BY DEF LInv
<1> QED BY <1>1, LedgerInvariant, PTL

(* The latch of the ledger (FAULT) is only ever set after its mutex or its  *)
(* native list failed, never by what its own entries left in the rows.      *)
THEOREM FaultsAlwaysHaveCause == Spec => []FaultsHaveCause
<1>1. LInv => FaultsHaveCause
  BY DEF LInv
<1> QED BY <1>1, LedgerInvariant, PTL

(* A caller that was told quiescent is right for ever: the ledger is closed *)
(* and idle, the owner retired, and no call has an operation in its hands.  *)
THEOREM QuiescentStaysQuiet == Spec => []QuiescentIsQuiet
<1>1. LInv => QuiescentIsQuiet
  <2> SUFFICES ASSUME LInv, quiet PROVE QuiescentIsQuiet
    BY DEF QuiescentIsQuiet
  <2>1. Quiescible /\ retired /\ (~broken => rows = {} /\ claim = 0)
    BY DEF LInv, QuietHolds
  <2>2. \A t \in Threads : next[t] # "dispatch" /\ next[t] # "ack"
    BY <2>1, CompletedState DEF LInv, ExtractionHolds, Quiescible, Idle
  <2>3. \A t \in Threads : ~Busy(t)
    BY <2>2 DEF Busy, LInv, PhasesHold
  <2> QED BY <2>1, <2>3 DEF QuiescentIsQuiet, Quiescible
<1> QED BY <1>1, LedgerInvariant, PTL

(* However many threads prepare the cleanup, one intent is exported at most,*)
(* and only after the barrier and the paint queue had answered.             *)
THEOREM CleanupIntentIsUnique == Spec => []OneCleanupIntent
<1>1. LInv => OneCleanupIntent
  BY DEF LInv, IntentHolds
<1> QED BY <1>1, LedgerInvariant, PTL

(* Until the paint queue breaks, its rows of this owner whose nonce the     *)
(* ledger has not are at most as many as the operations that are extracted, *)
(* and the row of an operation that is over has left.                       *)
THEOREM PaintAlwaysAccounted == Spec => []PaintIsAccounted
<1>1. LInv => PaintIsAccounted
  <2> SUFFICES ASSUME LInv, ~broken
               PROVE  /\ Cardinality(rows \ Known) <= Cardinality(Unanswered)
                      /\ \A k \in DOMAIN ledger :
                            ledger[k].nonce \in rows => ledger[k].state \in {"published", "acking"}
    BY DEF PaintIsAccounted, Known
  <2>1. IsFiniteSet(Unanswered)
    <3>1. Len(ledger) \in Nat /\ DOMAIN ledger = 1 .. Len(ledger)
      BY LedgerShape DEF LInv
    <3>2. IsFiniteSet(DOMAIN ledger)
      BY <3>1, FS_Interval
    <3> QED BY <3>2, FS_Subset DEF Unanswered
  <2>2. PICK f : Accounts(f)
    BY DEF LInv, RowsAccounted
  <2>3. f \in Injection(rows \ Known, Unanswered)
    BY <2>2 DEF Accounts, Injection, IsInjective
  <2>4. Cardinality(rows \ Known) <= Cardinality(Unanswered)
    BY <2>1, <2>3, FS_Injection
  <2> QED BY <2>4 DEF LInv, RowsHold
<1> QED BY <1>1, LedgerInvariant, PTL
=============================================================================
