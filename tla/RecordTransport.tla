-------------------------- MODULE RecordTransport --------------------------
(***************************************************************************)
(* A record on its way from a capture to its consumer: the queue of birth   *)
(* captures, whose consumer compares the record with the history, and the  *)
(* queue of envelopes, whose consumer publishes them for their owner.  Both *)
(* keep a native list under a raw mutex T of their own; a behaviour follows *)
(* one of the two, chosen at the start.                                     *)
(*                                                                         *)
(* External: the native list, T and R, the checked publication that the     *)
(* carrier calls, and the callers.  A caller owns its record: it may copy   *)
(* it, and may present it again whatever it was told.                       *)
(***************************************************************************)
EXTENDS RegistryHistory, SequencesExt

CONSTANTS Threads, Nodes, NoOne,
          TransportCapacity,   \* slots of the list (transport_capacity)
          MaxAttempts,         \* bound: enqueues begun
          MaxTakes,            \* bound: extractions begun
          MaxCopies,           \* bound: copies of birth records
          MaxMishaps           \* bound: failing services, uncertain raw errors

ASSUME TransportAssumption == TransportCapacity \in Nat \ {0} /\ NoOne \notin Threads

VARIABLES kind,        \* which transport this behaviour follows
          history,     \* the births and retirements, behind R
          magic,       \* magic[s]: the first word of record s
          born,        \* born[s]: the birth that record s describes
          queue, fault, T, R,
          thread,      \* frame of each thread's invocation
          answers,     \* answers[i]: what the caller of attempt i was told
          delivered,   \* what consumers were given, in order
          lost,        \* attempts whose consumer was told a raw status
          denied,      \* envelopes removed, and answered as an empty list is
          quarantine,  \* what the carrier latched: a raw status, or none with it
          takes, mishaps

vars == <<kind, history, magic, born, queue, fault, T, R, thread, answers, delivered, lost,
          denied, quarantine, takes, mishaps>>

Idle == [at |-> "idle", call |-> "none", id |-> 0, src |-> 0, answer |-> "refused",
         removed |-> FALSE, state |-> "none"]

Init ==
  /\ kind \in {"birth", "deferred"}
  /\ history = EmptyHistory /\ magic = <<>> /\ born = <<>>
  /\ queue = <<>> /\ fault = FALSE /\ T = NoOne /\ R = NoOne
  /\ thread = [t \in Threads |-> Idle]
  /\ answers = <<>> /\ delivered = <<>> /\ lost = {} /\ denied = {} /\ quarantine = "none"
  /\ takes = 0 /\ mishaps = 0

Mishap == mishaps < MaxMishaps /\ mishaps' = mishaps + 1
Goes(t, k) == thread' = [thread EXCEPT ![t] = k]

\* preflight and frame: a source or a stack that overlaps what the fragment
\* owns is refused with no effect, and left out; nothing of the source is
\* looked at after its copy.
Begins(t, call, id, src) ==
  Goes(t, [Idle EXCEPT !.at = "lock", !.call = call, !.id = id, !.src = src])

\* restore: the frame is gone.
Ends(t) == Goes(t, Idle)

records == <<magic, born>>
carrier == <<denied, quarantine>>
registry == <<history, records, R>>
results == <<answers, delivered, lost, carrier>>

-----------------------------------------------------------------------------
(* The registry beside the transport: births, each with its capture, and     *)
(* retirements, booked by threads that hold R.                               *)

Birth(node) ==
  /\ R = NoOne /\ ~history.fault
  /\ history' = ObserveBirth(history, [node |-> node, engine |-> 1, inc |-> Len(history.log) + 1])
  /\ IF Token(history, history') # 0
     THEN magic' = Append(magic, "READY") /\ born' = Append(born, Token(history, history'))
     ELSE UNCHANGED records
  /\ UNCHANGED <<kind, queue, fault, T, R, thread, results, takes, mishaps>>

Retirement(node) ==
  /\ R = NoOne /\ Outstanding(history, node) # {}
  /\ history' = ObserveRetirement(history, [node |-> node, engine |-> 1, inc |-> 0])
  /\ UNCHANGED <<kind, records, queue, fault, T, R, thread, results, takes, mishaps>>

\* A copy is a record of its own.  An envelope's source stays as it is, and a
\* copy of it would add nothing to presenting it again.
Copy(s) ==
  /\ kind = "birth" /\ Len(born) - Len(history.log) < MaxCopies
  /\ magic' = Append(magic, magic[s]) /\ born' = Append(born, born[s])
  /\ UNCHANGED <<kind, history, queue, fault, T, R, thread, results, takes, mishaps>>

-----------------------------------------------------------------------------
(* enqueue: snapshot and schema, the source's magic, T, the list.            *)

\* Mutant: the source is spent when its row is in the list.
SpendOnSuccess(s, point) ==
  IF kind = "birth" /\ point = "accepted" THEN [magic EXCEPT ![s] = "CONSUMED"] ELSE magic

\* A birth record is consumed before the first raw call, an envelope's
\* source never.
Spend(s, point) ==
  IF kind = "birth" /\ point = "snapshot" THEN [magic EXCEPT ![s] = "CONSUMED"] ELSE magic

\* The schema refuses a spent record with no other effect.
BeginEnqueue(t, s) ==
  /\ thread[t].at = "idle" /\ Len(answers) < MaxAttempts
  /\ IF magic[s] = "READY"
     THEN /\ Begins(t, "enqueue", Len(answers) + 1, s)
          /\ magic' = Spend(s, "snapshot")
          /\ answers' = Append(answers, "pending")
     ELSE answers' = Append(answers, "refused") /\ UNCHANGED <<thread, magic>>
  /\ UNCHANGED <<kind, history, born, queue, fault, T, R, delivered, lost, carrier, takes,
                 mishaps>>

\* A full list refuses before the native append, which would grow it.
Enqueue(t) ==
  LET k == thread[t]
      row == [id |-> k.id, src |-> k.src]
  IN  /\ k.at = "held" /\ k.call = "enqueue"
      /\ \/ /\ fault \/ Len(queue) = TransportCapacity
            /\ Goes(t, [k EXCEPT !.at = "release"])
            /\ UNCHANGED <<queue, fault, mishaps>>
         \/ /\ ~fault /\ Len(queue) < TransportCapacity
            /\ queue' = Append(queue, row)
            /\ Goes(t, [k EXCEPT !.at = "release", !.answer = "accepted"])
            /\ UNCHANGED <<fault, mishaps>>
      /\ UNCHANGED <<kind, registry, T, results, takes>>

\* Mutant: a native append or removal that went wrong is only refused.
RefusedOnly == fault

\* Header, head, append and removal faults latch a word that nothing clears.
Faulted == TRUE

\* The native append answers another index or count: its row may be there.
AppendFails(t) ==
  LET k == thread[t]
  IN  /\ k.at = "held" /\ k.call = "enqueue" /\ ~fault /\ Len(queue) < TransportCapacity
      /\ Mishap /\ fault' = Faulted
      /\ queue' \in {queue, Append(queue, [id |-> k.id, src |-> k.src])}
      /\ Goes(t, [k EXCEPT !.at = "release"])
      /\ UNCHANGED <<kind, registry, T, results, takes>>

-----------------------------------------------------------------------------
(* take and pop_dispatch: T, the head's private copy, its removal.           *)

BeginTake(t) ==
  /\ thread[t].at = "idle" /\ takes < MaxTakes /\ takes' = takes + 1
  /\ Begins(t, "take", 0, 0)
  /\ UNCHANGED <<kind, registry, queue, fault, T, results, mishaps>>

Take(t) ==
  LET k == thread[t]
  IN  /\ k.at = "held" /\ k.call = "take"
      /\ IF fault \/ queue = <<>>
         THEN Goes(t, [k EXCEPT !.at = "release"]) /\ UNCHANGED queue
         ELSE /\ Goes(t, [k EXCEPT !.at = "release", !.removed = TRUE,
                                   !.id = Head(queue).id, !.src = Head(queue).src])
              /\ queue' = Tail(queue)
      /\ UNCHANGED <<kind, registry, fault, T, results, takes, mishaps>>

\* A head that fails its checks stays; a removal that fails may have removed it.
TakeFails(t) ==
  LET k == thread[t]
  IN  /\ k.at = "held" /\ k.call = "take" /\ ~fault /\ queue # <<>>
      /\ Mishap /\ fault' = Faulted
      /\ queue' \in {queue, Tail(queue)}
      /\ Goes(t, [k EXCEPT !.at = "release"])
      /\ UNCHANGED <<kind, registry, T, results, takes>>

-----------------------------------------------------------------------------
(* The raw services of T: a nonzero status says nothing about the owner.     *)

Told(k, answer) ==
  IF k.call = "enqueue" THEN [answers EXCEPT ![k.id] = answer] ELSE answers

\* Nothing but the private frame is touched after a raw error.
Uncertain(t) ==
  LET k == thread[t]
  IN  /\ Mishap /\ Ends(t)
      /\ answers' = Told(k, "raw")
      /\ lost' = IF k.removed THEN lost \union {k.id} ELSE lost

Acquire(t) ==
  /\ thread[t].at = "lock"
  /\ \/ /\ T = NoOne /\ T' = t /\ Goes(t, [thread[t] EXCEPT !.at = "held"])
        /\ UNCHANGED <<answers, lost, mishaps>>
     \/ Uncertain(t) /\ (T' = T \/ (T = NoOne /\ T' = t))
  /\ UNCHANGED <<kind, registry, queue, fault, delivered, carrier, takes>>

Release(t) ==
  LET k == thread[t]
  IN  /\ k.at = "release"
      /\ \/ /\ T' = NoOne
            /\ answers' = Told(k, k.answer)
            /\ magic' = IF k.answer = "accepted" THEN Spend(k.src, "accepted") ELSE magic
            /\ IF k.removed THEN Goes(t, [k EXCEPT !.at = "copy"]) ELSE Ends(t)
            /\ UNCHANGED <<lost, mishaps>>
         \/ Uncertain(t) /\ T' \in {T, NoOne} /\ UNCHANGED magic
      /\ UNCHANGED <<kind, history, born, R, queue, fault, delivered, carrier, takes>>

-----------------------------------------------------------------------------
(* The consumer of a birth record: the comparison with the history under R.  *)

AcquireRegistry(t) ==
  /\ kind = "birth" /\ thread[t].at = "copy"
  /\ \/ /\ R = NoOne /\ R' = t /\ Goes(t, [thread[t] EXCEPT !.at = "compare"])
        /\ UNCHANGED <<answers, lost, mishaps>>
     \/ Uncertain(t) /\ (R' = R \/ (R = NoOne /\ R' = t))
  /\ UNCHANGED <<kind, history, records, queue, fault, T, delivered, carrier, takes>>

\* A history with a fault, or rows that contradict each other, give nothing.
Compare(t) ==
  LET k == thread[t]
  IN  /\ k.at = "compare"
      /\ Goes(t, [k EXCEPT !.at = "export",
                           !.state = IF history.fault THEN "none"
                                     ELSE history.log[born[k.src]].state])
      /\ UNCHANGED <<kind, registry, queue, fault, T, results, takes, mishaps>>

Observation(k) ==
  IF k.state = "none" THEN <<>> ELSE <<[id |-> k.id, src |-> k.src, state |-> k.state]>>

Export(t) ==
  LET k == thread[t]
  IN  /\ k.at = "export"
      /\ \/ /\ R' = NoOne /\ Ends(t) /\ delivered' = delivered \o Observation(k)
            /\ UNCHANGED <<answers, lost, mishaps>>
         \/ Uncertain(t) /\ R' \in {R, NoOne} /\ UNCHANGED delivered
      /\ UNCHANGED <<kind, history, records, queue, fault, T, carrier, takes>>

-----------------------------------------------------------------------------
(* The consumer of an envelope: its private copy is spent, then given to the  *)
(* carrier once, which publishes it under R.  The pair that the carrier       *)
(* returns is the consumer's.                                                 *)

Published(k) == [id |-> k.id, src |-> k.src, state |-> "published"]

\* The checked publication took the payload.
Publishes(t) ==
  /\ R = NoOne /\ quarantine = "none"
  /\ Ends(t) /\ delivered' = Append(delivered, Published(thread[t]))
  /\ UNCHANGED <<R, answers, lost, carrier, mishaps>>

\* The pair (0,0), which an empty list gives as well: the envelope is gone.
Vanishes(t) == Ends(t) /\ denied' = denied \union {thread[t].id}

\* No row of that sequence, another owner or engine, or a publication that
\* refuses, as for a retired owner or a full paint queue; or a binding table
\* that contradicts itself, which latches the word without a status.
Denies(t) ==
  /\ R = NoOne /\ quarantine = "none" /\ Vanishes(t)
  /\ \/ UNCHANGED <<quarantine, mishaps>>
     \/ Mishap /\ quarantine' = "schema"
  /\ UNCHANGED <<R, answers, delivered, lost>>

\* The latched word gives the status that was kept with it, if one was.
MeetsQuarantine(t) ==
  /\ R = NoOne
  /\ \/ /\ quarantine = "raw" /\ Ends(t) /\ lost' = lost \union {thread[t].id}
        /\ UNCHANGED denied
     \/ quarantine = "schema" /\ Vanishes(t) /\ UNCHANGED lost
  /\ UNCHANGED <<R, answers, delivered, quarantine, mishaps>>

\* A raw status of the carrier's own lock, of its unlock, or of the checked
\* publication, which latches the word: the payload may have been taken.
CarrierFails(t) ==
  /\ Uncertain(t) /\ UNCHANGED denied
  /\ \/ /\ R' = R \/ (R = NoOne /\ R' = t)
        /\ UNCHANGED <<delivered, quarantine>>
     \/ /\ R = NoOne /\ R' \in {NoOne, t} /\ quarantine = "none"
        /\ \/ /\ delivered' \in {delivered, Append(delivered, Published(thread[t]))}
              /\ quarantine' \in {"none", "raw"}
           \/ UNCHANGED delivered /\ quarantine' = "schema"

Dispatch(t) ==
  /\ kind = "deferred" /\ thread[t].at = "copy"
  /\ Publishes(t) \/ Denies(t) \/ MeetsQuarantine(t) \/ CarrierFails(t)
  /\ UNCHANGED <<kind, history, records, queue, fault, T, takes>>

-----------------------------------------------------------------------------
Next ==
  \/ \E node \in Nodes : Birth(node) \/ Retirement(node)
  \/ \E s \in DOMAIN magic : Copy(s)
  \/ \E t \in Threads :
       \/ \E s \in DOMAIN magic : BeginEnqueue(t, s)
       \/ Enqueue(t) \/ AppendFails(t) \/ BeginTake(t) \/ Take(t) \/ TakeFails(t)
       \/ Acquire(t) \/ Release(t) \/ AcquireRegistry(t) \/ Compare(t) \/ Export(t)
       \/ Dispatch(t)

Spec == Init /\ [][Next]_vars

-----------------------------------------------------------------------------
\* No attempt is delivered twice, and of all the attempts with one birth record
\* one is delivered, whatever its owner does after a raw error: the record was
\* spent before anybody could know how the attempt ended.  A copy made before
\* that is another record, and an envelope that is presented again is another
\* attempt: both may arrive again.
DeliveredOnce ==
  \A i, j \in DOMAIN delivered :
    /\ delivered[i].id = delivered[j].id => i = j
    /\ kind = "birth" /\ delivered[i].src = delivered[j].src => i = j

\* A caller that was told zero keeps its record for itself: no consumer gets
\* it, even when the native append left its row behind.
RefusedIsNeverDelivered ==
  \A d \in Range(delivered) : answers[d.id] # "refused"

\* Where the row of an attempt is.
Present(i) ==
  \/ \E r \in Range(queue) \union Range(delivered) : r.id = i
  \/ \E t \in Threads : thread[t].call = "take" /\ thread[t].id = i

\* One loss is silent: an envelope that was accepted and removed, and that the
\* carrier then denied, is gone while its consumer was told what an empty list
\* tells.  Any other accepted row that is nowhere was reported, by a raw status
\* to its consumer or by one of the two words that are never cleared, the list's
\* and the history's; and no accepted birth is lost in silence.
OnlyDenialsAreSilent ==
  \A i \in DOMAIN answers :
    answers[i] = "accepted" /\ ~Present(i) /\ i \notin lost /\ ~fault /\ ~history.fault
      => kind = "deferred" /\ i \in denied
=============================================================================
