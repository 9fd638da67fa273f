------------------------ MODULE RecordTransport_proofs ------------------------
(****************************************************************************)
(* The two transports for any number of threads, records and attempts:      *)
(* TLAPS proofs that an attempt and a birth record reach one consumer at    *)
(* most, that a caller that was refused keeps its record, and that nothing  *)
(* accepted is lost in silence but what the carrier denies.                 *)
(****************************************************************************)
EXTENDS RecordTransport, FiniteSetTheorems, SequenceTheorems, TLAPS

BirthStates == {"NO_RETIREMENT_OBSERVED", "RETIREMENT_SELECTED"}
BirthRows == [node : Nodes, engine : {1}, inc : Nat, retired : Nat, state : BirthStates]
Histories == [log : Seq(BirthRows), fault : BOOLEAN]
Rows == [id : Nat, src : Nat]
Frames == [at : {"idle", "lock", "held", "release", "copy", "compare", "export"},
           call : {"none", "enqueue", "take"}, id : Nat, src : Nat,
           answer : {"refused", "accepted"}, removed : BOOLEAN,
           state : BirthStates \cup {"none"}]

Quarantines == {"none", "raw", "schema"}

TypeOK ==
  /\ kind \in {"birth", "deferred"}
  /\ history \in Histories
  /\ magic \in Seq({"READY", "CONSUMED"})
  /\ queue \in Seq(Rows) /\ fault \in BOOLEAN
  /\ T \in Threads \cup {NoOne} /\ R \in Threads \cup {NoOne}
  /\ thread \in [Threads -> Frames]
  /\ answers \in Seq({"pending", "accepted", "refused", "raw"})
  /\ delivered \in Seq([id : Nat, src : Nat, state : BirthStates \cup {"published"}])
  /\ born \in Seq(Nat)
  /\ lost \in SUBSET Nat /\ quarantine \in Quarantines
  /\ denied \in SUBSET Nat /\ (kind = "birth" => denied = {})
  /\ takes \in Nat /\ mishaps \in Nat

\* Every record describes a row of the history.
RecordsHold ==
  /\ Len(born) = Len(magic)
  /\ \A s \in DOMAIN born : born[s] \in 1 .. Len(history.log)

USE DEF records, carrier

\* What a frame holds is known from its call and from how far it has come.
Enqueues(k) == k.call = "enqueue"
Removed(k) == k.call = "take" /\ k.removed

FrameHolds(k) ==
  /\ k.at = "idle" <=> k.call = "none"
  /\ k.at = "idle" => k = Idle
  /\ k.at \in {"lock", "held"} => ~k.removed /\ k.answer = "refused"
  /\ k.at \in {"copy", "compare", "export"} => Removed(k)
  /\ k.call = "take" => k.answer = "refused" /\ (~k.removed => k.id = 0)
  /\ Enqueues(k) => ~k.removed /\ k.id \in DOMAIN answers /\ answers[k.id] = "pending"
  /\ k.at = "export" /\ k.state = "none" => history.fault

FramesHold ==
  /\ \A t \in Threads : FrameHolds(thread[t])
  /\ \A t, u \in Threads :
       Enqueues(thread[t]) /\ Enqueues(thread[u]) /\ thread[t].id = thread[u].id => t = u

\* An attempt whose row a consumer may see: nobody was told a refusal, and its
\* own call, if it is still under way, will answer that it was accepted.
Sound(i) ==
  /\ i \in DOMAIN answers /\ answers[i] # "refused"
  /\ \A t \in Threads : Enqueues(thread[t]) /\ thread[t].id = i =>
       thread[t].at = "release" /\ thread[t].answer = "accepted"

\* Until a fault, each row of the list is that of another sound attempt.
QueueHolds ==
  ~fault => /\ \A q \in DOMAIN queue : Sound(queue[q].id)
            /\ \A p, q \in DOMAIN queue : queue[p].id = queue[q].id => p = q

\* A consumer that removed a row is the only place it is in.
CopiesHold ==
  /\ \A t \in Threads : Removed(thread[t]) =>
       /\ Sound(thread[t].id)
       /\ ~fault => \A q \in DOMAIN queue : queue[q].id # thread[t].id
  /\ \A t, u \in Threads :
       Removed(thread[t]) /\ Removed(thread[u]) /\ thread[t].id = thread[u].id => t = u

\* So is a consumer that was given one.
DeliveriesHold ==
  /\ \A d \in DOMAIN delivered :
       /\ Sound(delivered[d].id)
       /\ ~fault => \A q \in DOMAIN queue : queue[q].id # delivered[d].id
       /\ \A t \in Threads : Removed(thread[t]) => thread[t].id # delivered[d].id
  /\ \A c, d \in DOMAIN delivered : delivered[c].id = delivered[d].id => c = d

\* The attempts that carry a record somewhere, each with its source.
Trace(x) == [id |-> x.id, src |-> x.src]
Carries(k) == Enqueues(k) \/ Removed(k)
Traces == {Trace(queue[q]) : q \in DOMAIN queue}
          \cup {Trace(delivered[d]) : d \in DOMAIN delivered}
          \cup {Trace(thread[t]) : t \in {u \in Threads : Carries(thread[u])}}

\* A birth record that is carried is spent, and one attempt carries it.
TracesHold ==
  /\ \A x \in Traces : x.src \in DOMAIN magic
  /\ kind = "birth" => /\ \A x \in Traces : magic[x.src] = "CONSUMED"
                       /\ \A x, y \in Traces : x.src = y.src => x.id = y.id

\* Where an accepted attempt may be, or what shows or allows its loss.
Somewhere(i) == Present(i) \/ i \in lost \/ i \in denied \/ fault \/ history.fault

\* An enqueue that will answer accepted is there already.
AcceptanceHolds ==
  \A t \in Threads :
    Enqueues(thread[t]) /\ thread[t].answer = "accepted" => Somewhere(thread[t].id)

TInv ==
  /\ TypeOK
  /\ RecordsHold
  /\ FramesHold
  /\ QueueHolds
  /\ CopiesHold
  /\ DeliveriesHold
  /\ TracesHold
  /\ AcceptanceHolds
  /\ OnlyDenialsAreSilent

-----------------------------------------------------------------------------
(* Sequences, the history, and one frame that changes.                       *)

LEMMA AppendGives ==
  ASSUME NEW S, NEW s \in Seq(S), NEW e \in S
  PROVE  /\ Append(s, e) \in Seq(S)
         /\ Len(Append(s, e)) = Len(s) + 1
         /\ DOMAIN s = 1 .. Len(s) /\ Len(s) \in Nat
         /\ DOMAIN Append(s, e) = 1 .. Len(s) + 1
         /\ \A i \in DOMAIN s : i \in DOMAIN Append(s, e) /\ Append(s, e)[i] = s[i]
         /\ Append(s, e)[Len(s) + 1] = e
         /\ \A i \in DOMAIN Append(s, e) : i \in DOMAIN s \/ i = Len(s) + 1
  BY AppendProperties, LenProperties

LEMMA TailGives ==
  ASSUME NEW S, NEW s \in Seq(S), s # <<>>
  PROVE  /\ Head(s) \in S /\ Head(s) = s[1] /\ 1 \in DOMAIN s
         /\ Tail(s) \in Seq(S)
         /\ \A i \in DOMAIN Tail(s) : i + 1 \in DOMAIN s /\ Tail(s)[i] = s[i + 1] /\ i \in Nat \ {0}
         /\ \A i \in DOMAIN s : i = 1 \/ (i - 1 \in DOMAIN Tail(s) /\ Tail(s)[i - 1] = s[i])
<1>1. Len(s) \in Nat /\ Len(s) # 0 /\ DOMAIN s = 1 .. Len(s)
  BY EmptySeq, LenProperties
<1>2. /\ Head(s) \in S /\ Tail(s) \in Seq(S) /\ Len(Tail(s)) = Len(s) - 1
      /\ \A i \in 1 .. Len(Tail(s)) : Tail(s)[i] = s[i + 1]
  BY HeadTailProperties
<1>3. DOMAIN Tail(s) = 1 .. Len(s) - 1
  BY <1>2, LenProperties
<1>4. Head(s) = s[1]
  BY <1>1
<1> QED
  BY <1>1, <1>2, <1>3, <1>4

LEMMA SetGives ==
  ASSUME NEW S, NEW s \in Seq(S), NEW i \in DOMAIN s, NEW e \in S
  PROVE  /\ [s EXCEPT ![i] = e] \in Seq(S)
         /\ Len([s EXCEPT ![i] = e]) = Len(s)
         /\ DOMAIN [s EXCEPT ![i] = e] = DOMAIN s
         /\ [s EXCEPT ![i] = e][i] = e
         /\ \A j \in DOMAIN s : j # i => [s EXCEPT ![i] = e][j] = s[j]
  BY ExceptSeq, LenProperties

LEMMA HistoryGives ==
  ASSUME NEW h \in Histories, NEW e \in [node : Nodes, engine : {1}, inc : Nat]
  PROVE  /\ ObserveBirth(h, e) \in Histories
         /\ h.fault => ObserveBirth(h, e).fault
         /\ \/ Len(ObserveBirth(h, e).log) = Len(h.log)
            \/ Len(ObserveBirth(h, e).log) = Len(h.log) + 1
         /\ ObserveRetirement(h, e) \in Histories
         /\ h.fault => ObserveRetirement(h, e).fault
         /\ Len(ObserveRetirement(h, e).log) = Len(h.log)
<1>1. h.log \in Seq(BirthRows) /\ h.fault \in BOOLEAN
  BY DEF Histories
<1>2. ASSUME NEW g \in Seq(BirthRows)
      PROVE  [h EXCEPT !.log = g] \in Histories /\ [h EXCEPT !.log = g].log = g
             /\ [h EXCEPT !.log = g].fault = h.fault
  BY DEF Histories
<1>3. Latched(h) \in Histories /\ Latched(h).log = h.log /\ Latched(h).fault
  BY DEF Histories, Latched
<1> DEFINE row == [node |-> e.node, engine |-> e.engine, inc |-> e.inc, retired |-> 0,
                   state |-> "NO_RETIREMENT_OBSERVED"]
<1>4. row \in BirthRows
  BY DEF BirthRows, BirthStates
<1>5. /\ Append(h.log, row) \in Seq(BirthRows)
      /\ Len(Append(h.log, row)) = Len(h.log) + 1
  BY <1>1, <1>4, AppendGives
<1>6. \/ ObserveBirth(h, e) = h
      \/ ObserveBirth(h, e) = Latched(h)
      \/ ObserveBirth(h, e) = [h EXCEPT !.log = Append(h.log, row)]
  BY DEF ObserveBirth
<1>7. /\ ObserveBirth(h, e) \in Histories
      /\ h.fault => ObserveBirth(h, e).fault
      /\ \/ Len(ObserveBirth(h, e).log) = Len(h.log)
         \/ Len(ObserveBirth(h, e).log) = Len(h.log) + 1
  <2> HIDE DEF row
  <2>1. CASE ObserveBirth(h, e) = h
    BY <2>1
  <2>2. CASE ObserveBirth(h, e) = Latched(h)
    BY <2>2, <1>3
  <2>3. CASE ObserveBirth(h, e) = [h EXCEPT !.log = Append(h.log, row)]
    BY <2>3, <1>5, <1>2
  <2> QED BY <1>6, <2>1, <2>2, <2>3
<1> DEFINE rows == Outstanding(h, e.node)
           n == CHOOSE i \in rows : TRUE
           gone == [h.log[n] EXCEPT !.state = "RETIREMENT_SELECTED", !.retired = e.inc]
<1>8. CASE h.fault \/ Cardinality(rows) # 1 \/ h.log[n].engine # e.engine
  <2>1. ObserveRetirement(h, e) \in {h, Latched(h)}
    BY <1>8 DEF ObserveRetirement
  <2> QED BY <1>7, <2>1, <1>3
<1>9. CASE ~(h.fault \/ Cardinality(rows) # 1 \/ h.log[n].engine # e.engine)
  <2>1. rows # {}
    BY <1>9, FS_EmptySet
  <2>2. n \in rows
    BY <2>1
  <2>3. n \in DOMAIN h.log
    BY <2>2 DEF Outstanding
  <2>4. h.log[n] \in BirthRows
    BY <2>3, <1>1, ElementOfSeq, LenProperties
  <2> HIDE DEF n
  <2>5. gone \in BirthRows
    BY <2>4 DEF BirthRows, BirthStates
  <2> HIDE DEF gone
  <2>6. /\ [h.log EXCEPT ![n] = gone] \in Seq(BirthRows)
        /\ Len([h.log EXCEPT ![n] = gone]) = Len(h.log)
    BY <2>3, <2>5, <1>1, SetGives
  <2>7. ObserveRetirement(h, e) = [h EXCEPT !.log = [h.log EXCEPT ![n] = gone]]
    BY <1>9 DEF ObserveRetirement, n, gone
  <2> QED BY <1>7, <2>6, <2>7, <1>2
<1> QED
  BY <1>8, <1>9

LEMMA GoesGives ==
  ASSUME thread \in [Threads -> Frames], NEW t \in Threads, NEW k \in Frames, Goes(t, k)
  PROVE  /\ thread' \in [Threads -> Frames]
         /\ thread'[t] = k
         /\ \A u \in Threads : u # t => thread'[u] = thread[u]
  BY DEF Goes

\* What an assignment to one word of a frame leaves alone.
Kept(k, l) == /\ l.call = k.call /\ l.id = k.id /\ l.src = k.src
              /\ l.answer = k.answer /\ l.removed = k.removed

LEMMA FrameGives ==
  ASSUME NEW k \in Frames
  PROVE  /\ \A x \in {"idle", "lock", "held", "release", "copy", "compare", "export"} :
              LET l == [k EXCEPT !.at = x]
              IN  l \in Frames /\ l.at = x /\ l.state = k.state /\ Kept(k, l)
         /\ LET l == [k EXCEPT !.at = "release", !.answer = "accepted"]
            IN  /\ l \in Frames /\ l.at = "release" /\ l.answer = "accepted" /\ l.state = k.state
                /\ l.call = k.call /\ l.id = k.id /\ l.src = k.src /\ l.removed = k.removed
         /\ \A i, s \in Nat :
              LET l == [k EXCEPT !.at = "release", !.removed = TRUE, !.id = i, !.src = s]
              IN  /\ l \in Frames /\ l.at = "release" /\ l.call = k.call /\ l.removed
                  /\ l.id = i /\ l.src = s /\ l.answer = k.answer /\ l.state = k.state
         /\ \A x \in BirthStates \cup {"none"} :
              LET l == [k EXCEPT !.at = "export", !.state = x]
              IN  l \in Frames /\ l.at = "export" /\ l.state = x /\ Kept(k, l)
  BY DEF Frames, Kept

LEMMA BeginGives ==
  ASSUME NEW call \in {"enqueue", "take"}, NEW i \in Nat, NEW s \in Nat
  PROVE  LET l == [Idle EXCEPT !.at = "lock", !.call = call, !.id = i, !.src = s]
         IN  /\ l \in Frames /\ l.at = "lock" /\ l.call = call /\ l.id = i /\ l.src = s
             /\ l.answer = "refused" /\ ~l.removed /\ l.state = "none"
  BY DEF Idle, Frames, BirthStates

LEMMA IdleGives ==
  /\ Idle \in Frames /\ Idle.at = "idle" /\ Idle.call = "none" /\ ~Idle.removed /\ Idle.id = 0
  /\ ~Enqueues(Idle) /\ ~Removed(Idle) /\ ~Carries(Idle)
  BY DEF Idle, Frames, BirthStates, Enqueues, Removed, Carries

-----------------------------------------------------------------------------
(* Type correctness.                                                         *)

LEMMA MishapType ==
  ASSUME mishaps \in Nat, Mishap
  PROVE  mishaps' \in Nat
  BY DEF Mishap

Answers == {"pending", "accepted", "refused", "raw"}

LEMMA ToldGives ==
  ASSUME TypeOK, FramesHold, NEW t \in Threads, NEW a \in Answers
  PROVE  /\ Told(thread[t], a) \in Seq(Answers)
         /\ DOMAIN Told(thread[t], a) = DOMAIN answers
         /\ \A i \in DOMAIN answers :
              Told(thread[t], a)[i] = IF Enqueues(thread[t]) /\ i = thread[t].id
                                      THEN a ELSE answers[i]
<1>1. answers \in Seq(Answers)
  BY DEF TypeOK, Answers
<1>2. CASE Enqueues(thread[t])
  <2>1. thread[t].id \in DOMAIN answers
    BY <1>2 DEF FramesHold, FrameHolds
  <2>2. Told(thread[t], a) = [answers EXCEPT ![thread[t].id] = a]
    BY <1>2 DEF Told, Enqueues
  <2>3. /\ [answers EXCEPT ![thread[t].id] = a] \in Seq(Answers)
        /\ DOMAIN [answers EXCEPT ![thread[t].id] = a] = DOMAIN answers
        /\ [answers EXCEPT ![thread[t].id] = a][thread[t].id] = a
        /\ \A j \in DOMAIN answers :
             j # thread[t].id => [answers EXCEPT ![thread[t].id] = a][j] = answers[j]
    BY <2>1, <1>1, SetGives
  <2> QED BY <2>2, <2>3, <1>2
<1>3. CASE ~Enqueues(thread[t])
  BY <1>3, <1>1 DEF Told, Enqueues
<1> QED BY <1>2, <1>3

LEMMA UncertainType ==
  ASSUME TypeOK, FramesHold, NEW t \in Threads, Uncertain(t)
  PROVE  /\ thread' \in [Threads -> Frames]
         /\ answers' \in Seq(Answers)
         /\ lost' \in SUBSET Nat /\ mishaps' \in Nat
<1>1. thread' \in [Threads -> Frames]
  BY IdleGives, GoesGives DEF TypeOK, Uncertain, Ends
<1>2. answers' \in Seq(Answers)
  BY ToldGives DEF Uncertain, Answers
<1>3. thread[t].id \in Nat
  BY DEF TypeOK, Frames
<1>4. lost' \in SUBSET Nat
  BY <1>3 DEF TypeOK, Uncertain
<1>5. mishaps' \in Nat
  BY MishapType DEF TypeOK, Uncertain
<1> QED BY <1>1, <1>2, <1>4, <1>5

\* What a frame carries is a record, and that of a birth in the history.
LEMMA SourceIsKnown ==
  ASSUME TypeOK, RecordsHold, TracesHold, NEW t \in Threads, Carries(thread[t])
  PROVE  thread[t].src \in DOMAIN magic
         /\ history.log[born[thread[t].src]] \in BirthRows
<1>1. Trace(thread[t]) \in Traces
  BY DEF Traces
<1>2. thread[t].src \in DOMAIN magic
  BY <1>1 DEF TracesHold, Trace
<1>3. /\ DOMAIN magic = 1 .. Len(magic) /\ DOMAIN born = 1 .. Len(born)
      /\ history.log \in Seq(BirthRows)
  BY LenProperties DEF TypeOK, Histories
<1>4. born[thread[t].src] \in 1 .. Len(history.log)
  BY <1>2, <1>3 DEF RecordsHold
<1> QED BY <1>2, <1>3, <1>4, ElementOfSeq

\* A record that is added, at the end of both sequences.
LEMMA RecordsGrow ==
  ASSUME magic \in Seq({"READY", "CONSUMED"}), born \in Seq(Nat), RecordsHold,
         NEW w \in {"READY", "CONSUMED"}, NEW b \in 1 .. Len(history'.log),
         Len(history.log) \in Nat, Len(history'.log) \in Nat,
         Len(history.log) <= Len(history'.log),
         magic' = Append(magic, w), born' = Append(born, b)
  PROVE  magic' \in Seq({"READY", "CONSUMED"}) /\ born' \in Seq(Nat) /\ RecordsHold'
<1>1. /\ Append(magic, w) \in Seq({"READY", "CONSUMED"})
      /\ Len(Append(magic, w)) = Len(magic) + 1
  BY AppendGives
<1>2. /\ Append(born, b) \in Seq(Nat) /\ Len(Append(born, b)) = Len(born) + 1
      /\ \A i \in DOMAIN born : Append(born, b)[i] = born[i]
      /\ Append(born, b)[Len(born) + 1] = b
      /\ \A i \in DOMAIN Append(born, b) : i \in DOMAIN born \/ i = Len(born) + 1
  BY AppendGives
<1>3. ASSUME NEW i \in DOMAIN born'
      PROVE  born'[i] \in 1 .. Len(history'.log)
  <2>1. CASE i \in DOMAIN born
    <3>1. born'[i] = born[i] /\ born[i] \in 1 .. Len(history.log)
      BY <1>2, <2>1 DEF RecordsHold
    <3> QED BY <3>1
  <2>2. CASE i = Len(born) + 1
    BY <1>2, <2>2
  <2> QED BY <1>2, <1>3, <2>1, <2>2
<1> QED BY <1>1, <1>2, <1>3 DEF RecordsHold

LEMMA SpendGives ==
  ASSUME TypeOK, NEW s \in Nat, NEW point \in {"snapshot", "accepted"},
         point = "snapshot" => s \in DOMAIN magic
  PROVE  /\ Spend(s, point) \in Seq({"READY", "CONSUMED"})
         /\ Len(Spend(s, point)) = Len(magic)
         /\ DOMAIN Spend(s, point) = DOMAIN magic
         /\ \A r \in DOMAIN magic : magic[r] = "CONSUMED" => Spend(s, point)[r] = "CONSUMED"
         /\ kind = "birth" /\ point = "snapshot" => Spend(s, point)[s] = "CONSUMED"
         /\ point = "accepted" => Spend(s, point) = magic
<1>1. magic \in Seq({"READY", "CONSUMED"})
  BY DEF TypeOK
<1>2. CASE kind = "birth" /\ point = "snapshot"
  <2>1. Spend(s, point) = [magic EXCEPT ![s] = "CONSUMED"]
    BY <1>2 DEF Spend
  <2>2. /\ [magic EXCEPT ![s] = "CONSUMED"] \in Seq({"READY", "CONSUMED"})
        /\ Len([magic EXCEPT ![s] = "CONSUMED"]) = Len(magic)
        /\ DOMAIN [magic EXCEPT ![s] = "CONSUMED"] = DOMAIN magic
        /\ [magic EXCEPT ![s] = "CONSUMED"][s] = "CONSUMED"
        /\ \A j \in DOMAIN magic : j # s => [magic EXCEPT ![s] = "CONSUMED"][j] = magic[j]
    BY <1>1, <1>2, SetGives
  <2> QED BY <2>1, <2>2, <1>2
<1>3. CASE ~(kind = "birth" /\ point = "snapshot")
  BY <1>1, <1>3 DEF Spend
<1> QED BY <1>2, <1>3

Deliveries == [id : Nat, src : Nat, state : BirthStates \cup {"published"}]

LEMMA ObservationGives ==
  ASSUME TypeOK, NEW t \in Threads
  PROVE  LET k == thread[t]
             d == [id |-> k.id, src |-> k.src, state |-> k.state]
         IN  /\ delivered \o Observation(k) \in Seq(Deliveries)
             /\ k.state = "none" => delivered \o Observation(k) = delivered
             /\ k.state # "none" => /\ d \in Deliveries
                                    /\ delivered \o Observation(k) = Append(delivered, d)
<1> DEFINE k == thread[t]
           d == [id |-> k.id, src |-> k.src, state |-> k.state]
<1>1. k \in Frames /\ delivered \in Seq(Deliveries)
  BY DEF TypeOK, Deliveries
<1>2. CASE k.state = "none"
  <2>1. Observation(k) = <<>>
    BY <1>2 DEF Observation
  <2>2. delivered \o <<>> = delivered
    BY <1>1, ConcatEmptySeq
  <2> QED BY <1>1, <1>2, <2>1, <2>2
<1>3. CASE k.state # "none"
  <2>1. Observation(k) = <<d>>
    BY <1>3 DEF Observation
  <2>2. d \in Deliveries
    BY <1>1, <1>3 DEF Frames, Deliveries
  <2> HIDE DEF d
  <2>3. delivered \o <<d>> = Append(delivered, d)
    BY <1>1, <2>2, AppendIsConcat
  <2>4. Append(delivered, d) \in Seq(Deliveries)
    BY <1>1, <2>2, AppendGives
  <2> QED BY <1>3, <2>1, <2>2, <2>3, <2>4 DEF d
<1> QED BY <1>2, <1>3

LEMMA TypeKeeps ==
  ASSUME TInv, [Next]_vars
  PROVE  TypeOK' /\ RecordsHold'
<1>h. TypeOK /\ RecordsHold /\ FramesHold /\ TracesHold
  BY DEF TInv
<1> USE <1>h DEF TypeOK
<1>f. ASSUME NEW t \in Threads PROVE thread[t] \in Frames
  OBVIOUS
<1>1. ASSUME NEW node \in Nodes, Birth(node)
      PROVE  TypeOK' /\ RecordsHold'
  <2> DEFINE e == [node |-> node, engine |-> 1, inc |-> Len(history.log) + 1]
  <2>1. e \in [node : Nodes, engine : {1}, inc : Nat]
    BY LenProperties DEF Histories
  <2>2. history' = ObserveBirth(history, e)
    BY <1>1 DEF Birth
  <2>3. /\ history' \in Histories
        /\ \/ Len(history'.log) = Len(history.log)
           \/ Len(history'.log) = Len(history.log) + 1
    BY <2>1, <2>2, HistoryGives
  <2>4. Len(history.log) \in Nat
    BY LenProperties DEF Histories
  <2>5. CASE Len(history'.log) = Len(history.log)
    <3>1. magic' = magic /\ born' = born
      BY <1>1, <2>4, <2>5 DEF Birth, Token
    <3> QED BY <3>1, <2>3, <2>4, <2>5, <1>1 DEF Birth, results, RecordsHold
  <2>6. CASE Len(history'.log) = Len(history.log) + 1
    <3>1. magic' = Append(magic, "READY") /\ born' = Append(born, Len(history'.log))
      BY <1>1, <2>4, <2>6 DEF Birth, Token
    <3> DEFINE b == Len(history'.log)
    <3>3. b \in 1 .. b /\ b \in Nat /\ Len(history.log) <= b
      BY <2>4, <2>6
    <3>4. magic \in Seq({"READY", "CONSUMED"}) /\ born \in Seq(Nat) /\ RecordsHold
      OBVIOUS
    <3>2. magic' \in Seq({"READY", "CONSUMED"}) /\ born' \in Seq(Nat) /\ RecordsHold'
      <4> HIDE <1>h DEF TypeOK
      <4> QED BY <3>1, <2>4, <3>3, <3>4, RecordsGrow
    <3> QED BY <3>2, <2>3, <1>1 DEF Birth, results
  <2> QED BY <2>3, <2>5, <2>6
<1>c. ASSUME NEW s \in DOMAIN magic, Copy(s)
      PROVE  TypeOK' /\ RecordsHold'
  <2>1. Len(history.log) \in Nat /\ history' = history
    BY <1>c, LenProperties DEF Histories, Copy
  <2>2. DOMAIN magic = DOMAIN born
    BY LenProperties DEF RecordsHold
  <2>3. born[s] \in 1 .. Len(history'.log)
    BY <2>1, <2>2 DEF RecordsHold
  <2>4. magic[s] \in {"READY", "CONSUMED"}
    BY ElementOfSeq, LenProperties
  <2>5. magic' = Append(magic, magic[s]) /\ born' = Append(born, born[s])
    BY <1>c DEF Copy
  <2>6. magic' \in Seq({"READY", "CONSUMED"}) /\ born' \in Seq(Nat) /\ RecordsHold'
    <3> DEFINE w == magic[s]
               b == born[s]
    <3>1. magic \in Seq({"READY", "CONSUMED"}) /\ born \in Seq(Nat) /\ RecordsHold
      OBVIOUS
    <3>2. Len(history'.log) \in Nat /\ Len(history.log) <= Len(history'.log)
      BY <2>1
    <3>3. w \in {"READY", "CONSUMED"} /\ b \in 1 .. Len(history'.log)
      BY <2>3, <2>4
    <3>4. magic' = Append(magic, w) /\ born' = Append(born, b)
      BY <2>5
    <3> HIDE <1>h DEF TypeOK, w, b
    <3> QED BY <2>1, <3>1, <3>2, <3>3, <3>4, RecordsGrow
  <2> QED BY <1>c, <2>1, <2>6 DEF Copy, results
<1>2. ASSUME NEW node \in Nodes, Retirement(node)
      PROVE  TypeOK' /\ RecordsHold'
  <2> DEFINE e == [node |-> node, engine |-> 1, inc |-> 0]
  <2>1. e \in [node : Nodes, engine : {1}, inc : Nat]
    OBVIOUS
  <2>2. history' = ObserveRetirement(history, e)
    BY <1>2 DEF Retirement
  <2>3. history' \in Histories /\ Len(history'.log) = Len(history.log)
    BY <2>1, <2>2, HistoryGives
  <2> QED BY <1>2, <2>3 DEF Retirement, results, RecordsHold
<1>3. ASSUME NEW t \in Threads, NEW s \in DOMAIN magic, BeginEnqueue(t, s)
      PROVE  TypeOK' /\ RecordsHold'
  <2>1. /\ Append(answers, "refused") \in Seq(Answers)
        /\ Append(answers, "pending") \in Seq(Answers)
        /\ Len(answers) + 1 \in Nat /\ s \in Nat
    BY AppendGives, LenProperties DEF Answers
  <2>2. CASE magic[s] = "READY"
    <3>1. Begins(t, "enqueue", Len(answers) + 1, s) /\ magic' = Spend(s, "snapshot")
          /\ answers' = Append(answers, "pending")
      BY <1>3, <2>2 DEF BeginEnqueue
    <3>2. [Idle EXCEPT !.at = "lock", !.call = "enqueue", !.id = Len(answers) + 1, !.src = s]
            \in Frames
      BY <2>1, BeginGives
    <3>4. thread' \in [Threads -> Frames]
      BY <3>1, <3>2, GoesGives DEF Begins
    <3>3. magic' \in Seq({"READY", "CONSUMED"}) /\ Len(magic') = Len(magic)
      BY <3>1, <2>1, SpendGives
    <3> QED BY <1>3, <3>1, <3>3, <3>4, <2>1 DEF BeginEnqueue, RecordsHold, Answers
  <2>3. CASE magic[s] # "READY"
    BY <1>3, <2>1, <2>3 DEF BeginEnqueue, RecordsHold, Answers
  <2> QED BY <2>2, <2>3
<1>4. ASSUME NEW t \in Threads
      PROVE  [id |-> thread[t].id, src |-> thread[t].src] \in Rows
             /\ Append(queue, [id |-> thread[t].id, src |-> thread[t].src]) \in Seq(Rows)
  <2>1. [id |-> thread[t].id, src |-> thread[t].src] \in Rows
    BY <1>f DEF Frames, Rows
  <2> QED BY <2>1, AppendGives
<1>5. ASSUME NEW t \in Threads, Enqueue(t)
      PROVE  TypeOK' /\ RecordsHold'
  <2>1. thread' \in [Threads -> Frames]
    BY <1>5, <1>f, FrameGives, GoesGives, ZenonT(40) DEF Enqueue
  <2>2. queue' \in Seq(Rows)
    BY <1>5, <1>4 DEF Enqueue
  <2> QED BY <1>5, <2>1, <2>2 DEF Enqueue, registry, results, RecordsHold
<1>6. ASSUME NEW t \in Threads, AppendFails(t)
      PROVE  TypeOK' /\ RecordsHold'
  <2>1. thread' \in [Threads -> Frames]
    BY <1>6, <1>f, FrameGives, GoesGives DEF AppendFails
  <2>2. queue' \in Seq(Rows) /\ mishaps' \in Nat
    BY <1>6, <1>4, MishapType DEF AppendFails
  <2> QED BY <1>6, <2>1, <2>2 DEF AppendFails, registry, results, RecordsHold, Faulted
<1>7. ASSUME NEW t \in Threads, BeginTake(t)
      PROVE  TypeOK' /\ RecordsHold'
  <2>2. [Idle EXCEPT !.at = "lock", !.call = "take", !.id = 0, !.src = 0] \in Frames
    BY BeginGives
  <2>1. thread' \in [Threads -> Frames]
    BY <1>7, <2>2, GoesGives DEF BeginTake, Begins
  <2> QED BY <1>7, <2>1 DEF BeginTake, registry, results, RecordsHold
<1>8. ASSUME NEW t \in Threads, Take(t)
      PROVE  TypeOK' /\ RecordsHold'
  <2>1. queue # <<>> => Head(queue) \in Rows /\ Tail(queue) \in Seq(Rows)
    BY TailGives
  <2>2. queue # <<>> => Head(queue).id \in Nat /\ Head(queue).src \in Nat
    BY <2>1 DEF Rows
  <2>3. thread' \in [Threads -> Frames]
    BY <1>8, <2>2, <1>f, FrameGives, GoesGives, ZenonT(40) DEF Take
  <2>4. queue' \in Seq(Rows)
    BY <1>8, <2>1 DEF Take
  <2> QED BY <1>8, <2>3, <2>4 DEF Take, registry, results, RecordsHold
<1>9. ASSUME NEW t \in Threads, TakeFails(t)
      PROVE  TypeOK' /\ RecordsHold'
  <2>1. Tail(queue) \in Seq(Rows)
    BY <1>9, TailGives DEF TakeFails
  <2>2. thread' \in [Threads -> Frames]
    BY <1>9, <1>f, FrameGives, GoesGives DEF TakeFails
  <2>3. queue' \in Seq(Rows) /\ mishaps' \in Nat
    BY <1>9, <2>1, MishapType DEF TakeFails
  <2> QED BY <1>9, <2>2, <2>3 DEF TakeFails, registry, results, RecordsHold, Faulted
<1>10. ASSUME NEW t \in Threads, Acquire(t)
       PROVE  TypeOK' /\ RecordsHold'
  <2>1. CASE Uncertain(t)
    <3>1. thread' \in [Threads -> Frames] /\ answers' \in Seq(Answers)
          /\ lost' \in SUBSET Nat /\ mishaps' \in Nat
      BY <2>1, UncertainType
    <3>2. T' \in Threads \cup {NoOne}
      BY <1>10, <2>1 DEF Acquire
    <3> QED BY <1>10, <2>1, <3>1, <3>2 DEF Acquire, registry, RecordsHold, Answers
  <2>2. CASE ~Uncertain(t)
    <3>1. thread' \in [Threads -> Frames]
      BY <1>10, <2>2, <1>f, FrameGives, GoesGives DEF Acquire
    <3> QED BY <1>10, <2>2, <3>1 DEF Acquire, registry, RecordsHold
  <2> QED BY <2>1, <2>2
<1>11. ASSUME NEW t \in Threads, Release(t)
       PROVE  TypeOK' /\ RecordsHold'
  <2>1. T' \in Threads \cup {NoOne}
    BY <1>11 DEF Release
  <2>2. CASE Uncertain(t) /\ UNCHANGED magic
    <3>1. thread' \in [Threads -> Frames] /\ answers' \in Seq(Answers)
          /\ lost' \in SUBSET Nat /\ mishaps' \in Nat
      BY <2>2, UncertainType
    <3> QED BY <1>11, <2>1, <2>2, <3>1 DEF Release, RecordsHold, Answers
  <2>3. CASE ~(Uncertain(t) /\ UNCHANGED magic)
    <3>1. answers' = Told(thread[t], thread[t].answer)
          /\ magic' = (IF thread[t].answer = "accepted" THEN Spend(thread[t].src, "accepted") ELSE magic)
          /\ UNCHANGED <<lost, mishaps>>
      BY <1>11, <2>3 DEF Release
    <3>2. thread' \in [Threads -> Frames]
      BY <1>11, <2>3, <1>f, FrameGives, IdleGives, GoesGives, ZenonT(40) DEF Release, Ends
    <3>3. answers' \in Seq(Answers)
      BY <3>1, <1>f, ToldGives DEF Frames, Answers
    <3>4. thread[t].src \in Nat
      BY <1>f DEF Frames
    <3>5. magic' = magic
      BY <3>1, <3>4, SpendGives
    <3> QED BY <1>11, <2>1, <3>1, <3>2, <3>3, <3>5 DEF Release, RecordsHold, Answers
  <2> QED BY <2>2, <2>3
<1>12. ASSUME NEW t \in Threads, AcquireRegistry(t)
       PROVE  TypeOK' /\ RecordsHold'
  <2>1. CASE Uncertain(t)
    <3>1. thread' \in [Threads -> Frames] /\ answers' \in Seq(Answers)
          /\ lost' \in SUBSET Nat /\ mishaps' \in Nat
      BY <2>1, UncertainType
    <3>2. R' \in Threads \cup {NoOne}
      BY <1>12, <2>1 DEF AcquireRegistry
    <3> QED BY <1>12, <2>1, <3>1, <3>2 DEF AcquireRegistry, RecordsHold, Answers
  <2>2. CASE ~Uncertain(t)
    <3>1. thread' \in [Threads -> Frames]
      BY <1>12, <2>2, <1>f, FrameGives, GoesGives DEF AcquireRegistry
    <3> QED BY <1>12, <2>2, <3>1 DEF AcquireRegistry, RecordsHold
  <2> QED BY <2>1, <2>2
<1>13. ASSUME NEW t \in Threads, Compare(t)
       PROVE  TypeOK' /\ RecordsHold'
  <2>1. Carries(thread[t])
    BY <1>13 DEF Compare, FramesHold, FrameHolds, Carries
  <2>2. history.log[born[thread[t].src]].state \in BirthStates
    BY <2>1, SourceIsKnown DEF BirthRows
  <2> DEFINE x == IF history.fault THEN "none" ELSE history.log[born[thread[t].src]].state
  <2>3. x \in BirthStates \cup {"none"}
    BY <2>2
  <2>4. Goes(t, [thread[t] EXCEPT !.at = "export", !.state = x])
    BY <1>13 DEF Compare
  <2> HIDE DEF x
  <2>5. thread' \in [Threads -> Frames]
    BY <2>3, <2>4, <1>f, FrameGives, GoesGives, ZenonT(40)
  <2> QED BY <1>13, <2>5 DEF Compare, registry, results, RecordsHold
<1>14. ASSUME NEW t \in Threads, Export(t)
       PROVE  TypeOK' /\ RecordsHold'
  <2>1. CASE Uncertain(t)
    <3>1. thread' \in [Threads -> Frames] /\ answers' \in Seq(Answers)
          /\ lost' \in SUBSET Nat /\ mishaps' \in Nat
      BY <2>1, UncertainType
    <3>2. R' \in Threads \cup {NoOne} /\ UNCHANGED delivered
      BY <1>14, <2>1 DEF Export, Uncertain, Mishap
    <3> QED BY <1>14, <2>1, <3>1, <3>2 DEF Export, RecordsHold, Answers
  <2>2. CASE ~Uncertain(t)
    <3>1. thread' \in [Threads -> Frames]
      BY <1>14, <2>2, IdleGives, GoesGives DEF Export, Ends
    <3>2. delivered' \in Seq(Deliveries)
      BY <1>14, <2>2, ObservationGives DEF Export
    <3> QED BY <1>14, <2>2, <3>1, <3>2 DEF Export, RecordsHold, Deliveries
  <2> QED BY <2>1, <2>2
<1>15. ASSUME NEW t \in Threads, Dispatch(t)
       PROVE  TypeOK' /\ RecordsHold'
  <2>1. UNCHANGED <<kind, history, magic, born, queue, fault, T, takes>> /\ kind = "deferred"
    BY <1>15 DEF Dispatch
  <2>2. Published(thread[t]) \in Deliveries /\ thread[t].id \in Nat
    BY <1>f DEF Deliveries, Frames, Published
  <2>3. Append(delivered, Published(thread[t])) \in Seq(Deliveries)
    BY <2>2, AppendGives DEF Deliveries
  <2>4. CASE Publishes(t) \/ Denies(t) \/ MeetsQuarantine(t)
    <3>1. thread' \in [Threads -> Frames]
      BY <2>4, IdleGives, GoesGives DEF Publishes, Denies, Vanishes, MeetsQuarantine, Ends
    <3>2. UNCHANGED <<R, answers>>
      BY <2>4 DEF Publishes, Denies, MeetsQuarantine
    <3>3. delivered' \in Seq(Deliveries) /\ lost' \in SUBSET Nat /\ denied' \in SUBSET Nat
      BY <2>2, <2>3, <2>4 DEF Publishes, Denies, Vanishes, MeetsQuarantine, Deliveries
    <3>4. quarantine' \in Quarantines /\ mishaps' \in Nat
      BY <2>4, MishapType DEF Publishes, Denies, MeetsQuarantine, Quarantines
    <3> QED BY <2>1, <3>1, <3>2, <3>3, <3>4 DEF RecordsHold, Deliveries
  <2>5. CASE CarrierFails(t)
    <3>1. thread' \in [Threads -> Frames] /\ answers' \in Seq(Answers)
          /\ lost' \in SUBSET Nat /\ mishaps' \in Nat
      BY <2>5, UncertainType DEF CarrierFails
    <3>2. /\ R' \in Threads \cup {NoOne} /\ quarantine' \in Quarantines /\ denied' = denied
          /\ delivered' \in Seq(Deliveries)
      BY <2>3, <2>5 DEF CarrierFails, Deliveries, Quarantines
    <3> QED BY <2>1, <3>1, <3>2 DEF RecordsHold, Deliveries, Answers
  <2> QED BY <1>15, <2>4, <2>5 DEF Dispatch
<1>16. ASSUME UNCHANGED vars
       PROVE  TypeOK' /\ RecordsHold'
  BY <1>16 DEF vars, RecordsHold
<1> QED
  BY <1>1, <1>c, <1>2, <1>3, <1>5, <1>6, <1>7, <1>8, <1>9, <1>10, <1>11, <1>12, <1>13, <1>14,
     <1>15, <1>16 DEF Next

-----------------------------------------------------------------------------
(* What keeps each part of the invariant.                                    *)

LEMMA SoundStays ==
  ASSUME \A i \in DOMAIN answers :
           /\ i \in DOMAIN answers'
           /\ answers'[i] = "refused" =>
                \/ answers[i] = "refused"
                \/ \E t \in Threads : Enqueues(thread[t]) /\ thread[t].id = i
                                      /\ thread[t].answer = "refused",
         \A t \in Threads : Enqueues(thread'[t]) =>
           \/ thread'[t].id \notin DOMAIN answers
           \/ /\ Enqueues(thread[t]) /\ thread'[t].id = thread[t].id
              /\ thread[t].at = "release" /\ thread[t].answer = "accepted" =>
                   thread'[t].at = "release" /\ thread'[t].answer = "accepted"
  PROVE  \A i : Sound(i) => Sound(i)'
<1> SUFFICES ASSUME NEW i, Sound(i) PROVE Sound(i)'
  OBVIOUS
<1>1. i \in DOMAIN answers'
  BY DEF Sound
<1>2. answers'[i] # "refused"
  BY DEF Sound
<1>3. ASSUME NEW t \in Threads, Enqueues(thread'[t]), thread'[t].id = i
      PROVE  thread'[t].at = "release" /\ thread'[t].answer = "accepted"
  BY <1>3 DEF Sound
<1> QED
  BY <1>1, <1>2, <1>3 DEF Sound, Enqueues

LEMMA PlacesStay ==
  ASSUME QueueHolds, CopiesHold, DeliveriesHold,
         \A i : Sound(i) => Sound(i)',
         fault => fault', ~fault' => queue' = queue, delivered' = delivered,
         \A t \in Threads :
           Removed(thread'[t]) => Removed(thread[t]) /\ thread'[t].id = thread[t].id
  PROVE  QueueHolds' /\ CopiesHold' /\ DeliveriesHold'
<1>1. QueueHolds'
  BY DEF QueueHolds
<1>2. CopiesHold'
  <2>1. ASSUME NEW t \in Threads, Removed(thread'[t])
        PROVE  /\ Sound(thread[t].id)'
               /\ ~fault' => \A q \in DOMAIN queue' : queue'[q].id # thread'[t].id
    <3>1. Removed(thread[t]) /\ thread'[t].id = thread[t].id
      BY <2>1
    <3> DEFINE i == thread[t].id
    <3>2. Sound(i) /\ (~fault => \A q \in DOMAIN queue : queue[q].id # i)
      BY <3>1 DEF CopiesHold
    <3>3. i' = i
      BY <3>1
    <3>4. Sound(thread[t].id)'
      BY <3>1, <3>2 DEF Sound
    <3> QED BY <3>1, <3>2, <3>4
  <2>2. ASSUME NEW t \in Threads, NEW u \in Threads,
               Removed(thread'[t]), Removed(thread'[u]), thread'[t].id = thread'[u].id
        PROVE  t = u
    BY <2>2 DEF CopiesHold
  <2> QED BY <2>1, <2>2 DEF CopiesHold, Removed
<1>3. DeliveriesHold'
  <2>1. ASSUME NEW d \in DOMAIN delivered
        PROVE  /\ Sound(delivered[d].id)'
               /\ ~fault' => \A q \in DOMAIN queue' : queue'[q].id # delivered[d].id
               /\ \A t \in Threads : Removed(thread'[t]) => thread'[t].id # delivered[d].id
    BY DEF DeliveriesHold
  <2>2. \A c, d \in DOMAIN delivered : delivered[c].id = delivered[d].id => c = d
    BY DEF DeliveriesHold
  <2> QED BY <2>1, <2>2 DEF DeliveriesHold, Removed
<1> QED BY <1>1, <1>2, <1>3

LEMMA TracesStay ==
  ASSUME TracesHold, Traces' \subseteq Traces, kind' = kind,
         \A s \in DOMAIN magic : /\ s \in DOMAIN magic'
                                 /\ magic[s] = "CONSUMED" => magic'[s] = "CONSUMED"
  PROVE  TracesHold'
<1>1. \A x \in Traces' : x \in Traces
  OBVIOUS
<1>2. \A x \in Traces' : x.src \in DOMAIN magic'
  BY <1>1 DEF TracesHold
<1>3. ASSUME kind = "birth"
      PROVE  /\ \A x \in Traces' : magic'[x.src] = "CONSUMED"
             /\ \A x, y \in Traces' : x.src = y.src => x.id = y.id
  BY <1>1, <1>3 DEF TracesHold
<1> QED BY <1>2, <1>3 DEF TracesHold

LEMMA TracesAre ==
  ASSUME NEW x
  PROVE  x \in Traces <=> \/ \E q \in DOMAIN queue : x = Trace(queue[q])
                          \/ \E d \in DOMAIN delivered : x = Trace(delivered[d])
                          \/ \E t \in Threads : Carries(thread[t]) /\ x = Trace(thread[t])
  BY DEF Traces

LEMMA SomewhereStays ==
  ASSUME TypeOK, FramesHold,
         fault => fault', history.fault => history'.fault, lost \subseteq lost',
         denied \subseteq denied',
         \A i, q : q \in DOMAIN queue /\ queue[q].id = i => Somewhere(i)',
         \A d \in DOMAIN delivered :
           d \in DOMAIN delivered' /\ delivered'[d].id = delivered[d].id,
         \A i, t : t \in Threads /\ Removed(thread[t]) /\ thread[t].id = i => Somewhere(i)'
  PROVE  \A i \in Nat \ {0} : Somewhere(i) => Somewhere(i)'
<1> SUFFICES ASSUME NEW i \in Nat \ {0}, Somewhere(i) PROVE Somewhere(i)'
  OBVIOUS
<1>1. CASE \E r \in Range(queue) : r.id = i
  <2>1. PICK q \in DOMAIN queue : queue[q].id = i
    BY <1>1 DEF Range
  <2> QED BY <2>1
<1>2. CASE \E r \in Range(delivered) : r.id = i
  <2>1. PICK d \in DOMAIN delivered : delivered[d].id = i
    BY <1>2 DEF Range
  <2>2. delivered'[d] \in Range(delivered') /\ delivered'[d].id = i
    BY <2>1 DEF Range
  <2> QED BY <2>2 DEF Somewhere, Present
<1>3. CASE \E t \in Threads : thread[t].call = "take" /\ thread[t].id = i
  <2>1. PICK t \in Threads : thread[t].call = "take" /\ thread[t].id = i
    BY <1>3
  <2>2. Removed(thread[t])
    BY <2>1 DEF FramesHold, FrameHolds, Removed
  <2> QED BY <2>1, <2>2
<1>4. CASE i \in lost \/ i \in denied \/ fault \/ history.fault
  BY <1>4 DEF Somewhere, Present
<1> QED BY <1>1, <1>2, <1>3, <1>4 DEF Somewhere, Present

LEMMA AccountsStay ==
  ASSUME TypeOK, TypeOK', FramesHold, AcceptanceHolds, OnlyDenialsAreSilent,
         \A i \in Nat \ {0} : Somewhere(i) => Somewhere(i)',
         \A i \in DOMAIN answers' : answers'[i] = "accepted" =>
           \/ i \in DOMAIN answers /\ answers[i] = "accepted"
           \/ \E t \in Threads : Enqueues(thread[t]) /\ thread[t].answer = "accepted"
                                 /\ thread[t].id = i,
         \A t \in Threads : Enqueues(thread'[t]) /\ thread'[t].answer = "accepted" =>
           \/ /\ Enqueues(thread[t]) /\ thread[t].answer = "accepted"
              /\ thread'[t].id = thread[t].id
           \/ Somewhere(thread[t].id)'
  PROVE  AcceptanceHolds' /\ OnlyDenialsAreSilent'
<1>1. \A i \in DOMAIN answers : i \in Nat \ {0}
  BY LenProperties DEF TypeOK
<1>2. ASSUME NEW t \in Threads, Enqueues(thread[t])
      PROVE  thread[t].id \in Nat \ {0}
  BY <1>1, <1>2 DEF FramesHold, FrameHolds
<1>3. AcceptanceHolds'
  <2>1. ASSUME NEW t \in Threads, Enqueues(thread'[t]), thread'[t].answer = "accepted"
        PROVE  Somewhere(thread[t].id)'
    BY <2>1, <1>2 DEF AcceptanceHolds
  <2> QED BY <2>1 DEF AcceptanceHolds, Enqueues
<1>4. ASSUME NEW i \in DOMAIN answers, answers[i] = "accepted"
      PROVE  Somewhere(i)
  BY <1>4 DEF OnlyDenialsAreSilent, Somewhere, Present
<1>5. ASSUME NEW i \in DOMAIN answers', answers'[i] = "accepted"
      PROVE  Somewhere(i)'
  <2>1. CASE i \in DOMAIN answers /\ answers[i] = "accepted"
    BY <2>1, <1>1, <1>4
  <2>2. CASE \E t \in Threads : Enqueues(thread[t]) /\ thread[t].answer = "accepted"
                                /\ thread[t].id = i
    BY <2>2, <1>2 DEF AcceptanceHolds
  <2> QED BY <1>5, <2>1, <2>2
<1>6. OnlyDenialsAreSilent'
  <2>1. kind' = "deferred" \/ denied' = {}
    BY DEF TypeOK
  <2> QED BY <1>5, <2>1 DEF OnlyDenialsAreSilent, Somewhere, Present
<1> QED BY <1>3, <1>6

LEMMA FramesStay ==
  ASSUME TypeOK, FramesHold, NEW t \in Threads,
         \A u \in Threads : u # t => thread'[u] = thread[u],
         history.fault => history'.fault,
         \A i \in DOMAIN answers : i \in DOMAIN answers',
         \A u \in Threads : u # t /\ Enqueues(thread[u]) =>
           answers'[thread[u].id] = answers[thread[u].id],
         FrameHolds(thread[t])',
         Enqueues(thread'[t]) => \/ Enqueues(thread[t]) /\ thread'[t].id = thread[t].id
                                 \/ thread'[t].id \notin DOMAIN answers
  PROVE  FramesHold'
<1>1. ASSUME NEW u \in Threads
      PROVE  FrameHolds(thread[u])'
  <2>1. CASE u = t
    BY <2>1
  <2>2. CASE u # t
    <3>1. thread'[u] = thread[u] /\ FrameHolds(thread[u])
      BY <2>2 DEF FramesHold
    <3>2. Enqueues(thread[u]) => answers'[thread[u].id] = answers[thread[u].id]
      BY <2>2
    <3> QED BY <3>1, <3>2 DEF FrameHolds, Enqueues, Removed
  <2> QED BY <2>1, <2>2
<1>2. ASSUME NEW u \in Threads, NEW v \in Threads, Enqueues(thread'[u]), Enqueues(thread'[v]),
             thread'[u].id = thread'[v].id
      PROVE  u = v
  <2>1. \A w \in Threads : Enqueues(thread[w]) => thread[w].id \in DOMAIN answers
    BY DEF FramesHold, FrameHolds
  <2>2. \A w, x \in Threads :
          Enqueues(thread[w]) /\ Enqueues(thread[x]) /\ thread[w].id = thread[x].id => w = x
    BY DEF FramesHold
  <2>3. CASE u = t /\ v # t
    BY <1>2, <2>1, <2>2, <2>3
  <2>4. CASE u # t /\ v = t
    BY <1>2, <2>1, <2>2, <2>4
  <2>5. CASE u # t /\ v # t
    BY <1>2, <2>2, <2>5
  <2> QED BY <2>3, <2>4, <2>5
<1> QED BY <1>1, <1>2 DEF FramesHold, Enqueues

\* A frame that moves on with what it carries, or carries nothing as before.
Follows(k, l) == Kept(k, l) \/ (~Carries(k) /\ ~Carries(l))

LEMMA KeptKeeps ==
  ASSUME TInv, TypeOK', RecordsHold',
         \A t \in Threads : /\ Follows(thread[t], thread'[t])
                            /\ FrameHolds(thread[t])'
                            /\ thread[t].at = "release" /\ thread[t].answer = "accepted"
                                 => thread'[t].at = "release",
         UNCHANGED <<kind, answers, delivered, lost, denied>>,
         fault => fault', ~fault' => queue' = queue,
         \A q \in DOMAIN queue' : Trace(queue'[q]) \in Traces,
         \A s \in DOMAIN magic : s \in DOMAIN magic' /\ magic'[s] = magic[s],
         history.fault => history'.fault
  PROVE  TInv'
<1>h. TypeOK /\ RecordsHold /\ FramesHold /\ QueueHolds /\ CopiesHold /\ DeliveriesHold
      /\ TracesHold /\ AcceptanceHolds /\ OnlyDenialsAreSilent
  BY DEF TInv
<1>1. ASSUME NEW t \in Threads
      PROVE  /\ Enqueues(thread'[t]) <=> Enqueues(thread[t])
             /\ Removed(thread'[t]) <=> Removed(thread[t])
             /\ Carries(thread'[t]) => Carries(thread[t])
             /\ Carries(thread[t]) => /\ thread'[t].id = thread[t].id
                                      /\ thread'[t].src = thread[t].src
                                      /\ thread'[t].answer = thread[t].answer
                                      /\ thread'[t].call = thread[t].call
  BY DEF Follows, Kept, Carries, Enqueues, Removed
<1>2. FramesHold'
  <2>1. \A t, u \in Threads : Enqueues(thread'[t]) /\ Enqueues(thread'[u])
                              /\ thread'[t].id = thread'[u].id => t = u
    BY <1>1, <1>h DEF FramesHold, Carries
  <2> QED BY <2>1 DEF FramesHold, Enqueues
<1>3. \A i : Sound(i) => Sound(i)'
  <2>1. \A t \in Threads : Enqueues(thread'[t]) =>
          /\ Enqueues(thread[t]) /\ thread'[t].id = thread[t].id
          /\ thread[t].at = "release" /\ thread[t].answer = "accepted" =>
               thread'[t].at = "release" /\ thread'[t].answer = "accepted"
    BY <1>1 DEF Carries
  <2> QED BY <2>1, SoundStays
<1>4. QueueHolds' /\ CopiesHold' /\ DeliveriesHold'
  <2>1. \A t \in Threads :
          Removed(thread'[t]) => Removed(thread[t]) /\ thread'[t].id = thread[t].id
    BY <1>1 DEF Carries
  <2> QED BY <2>1, <1>3, <1>h, PlacesStay
<1>5. TracesHold'
  <2>1. ASSUME NEW x \in Traces'
        PROVE  x \in Traces
    <3>1. \/ \E q \in DOMAIN queue' : x = Trace(queue'[q])
          \/ \E d \in DOMAIN delivered' : x = Trace(delivered'[d])
          \/ \E t \in Threads : Carries(thread'[t]) /\ x = Trace(thread'[t])
      BY <2>1 DEF Traces, Trace, Carries, Enqueues, Removed
    <3>2. CASE \E q \in DOMAIN queue' : x = Trace(queue'[q])
      BY <3>2
    <3>3. CASE \E d \in DOMAIN delivered' : x = Trace(delivered'[d])
      BY <3>3, TracesAre
    <3>4. CASE \E t \in Threads : Carries(thread'[t]) /\ x = Trace(thread'[t])
      <4>1. PICK t \in Threads : Carries(thread'[t]) /\ x = Trace(thread'[t])
        BY <3>4
      <4>2. Carries(thread[t]) /\ Trace(thread'[t]) = Trace(thread[t])
        BY <4>1, <1>1 DEF Trace
      <4> QED BY <4>1, <4>2, TracesAre
    <3> QED BY <3>1, <3>2, <3>3, <3>4
  <2> QED BY <2>1, <1>h, TracesStay
<1>6. \A i \in Nat \ {0} : Somewhere(i) => Somewhere(i)'
  <2>1. ASSUME NEW i, NEW q \in DOMAIN queue, queue[q].id = i
        PROVE  Somewhere(i)'
    <3>1. CASE fault'
      BY <3>1 DEF Somewhere, Present
    <3>2. CASE queue' = queue
      <4>1. queue[q] \in Range(queue')
        BY <3>2 DEF Range
      <4> QED BY <4>1, <2>1 DEF Somewhere, Present
    <3> QED BY <3>1, <3>2
  <2>2. ASSUME NEW i, NEW t \in Threads, Removed(thread[t]), thread[t].id = i
        PROVE  Somewhere(i)'
    <3>1. thread'[t].call = "take" /\ thread'[t].id = i
      BY <2>2, <1>1 DEF Carries, Removed
    <3> QED BY <3>1 DEF Somewhere, Present
  <2> QED BY <2>1, <2>2, <1>h, SomewhereStays
<1>7. AcceptanceHolds' /\ OnlyDenialsAreSilent'
  <2>1. \A t \in Threads : Enqueues(thread'[t]) /\ thread'[t].answer = "accepted" =>
          /\ Enqueues(thread[t]) /\ thread[t].answer = "accepted"
          /\ thread'[t].id = thread[t].id
    BY <1>1 DEF Carries
  <2> QED BY <2>1, <1>6, <1>h, AccountsStay
<1> QED
  BY <1>2, <1>4, <1>5, <1>7 DEF TInv

\* A call that ends gives up what it carried, unless that is somewhere else now.
LEMMA EndsKeeps ==
  ASSUME TInv, TypeOK', RecordsHold', NEW t \in Threads, NEW a \in Answers,
         thread'[t] = Idle, \A u \in Threads : u # t => thread'[u] = thread[u],
         a \in {"raw", thread[t].answer}, answers' = Told(thread[t], a),
         UNCHANGED <<kind, magic, history, queue, fault, delivered>>,
         lost \subseteq lost', denied \subseteq denied',
         Removed(thread[t]) => thread[t].id \in lost' \cup denied' \/ history.fault
  PROVE  TInv'
<1>h. TypeOK /\ RecordsHold /\ FramesHold /\ QueueHolds /\ CopiesHold /\ DeliveriesHold
      /\ TracesHold /\ AcceptanceHolds /\ OnlyDenialsAreSilent
  BY DEF TInv
<1>1. /\ DOMAIN answers' = DOMAIN answers
      /\ \A i \in DOMAIN answers :
           answers'[i] = IF Enqueues(thread[t]) /\ i = thread[t].id THEN a ELSE answers[i]
  BY <1>h, ToldGives
<1>2. ~Enqueues(thread'[t]) /\ ~Removed(thread'[t]) /\ ~Carries(thread'[t])
  BY IdleGives
<1>3. FramesHold'
  <2>1. ASSUME NEW u \in Threads, u # t, Enqueues(thread[u])
        PROVE  answers'[thread[u].id] = answers[thread[u].id]
    BY <2>1, <1>1, <1>h DEF FramesHold, FrameHolds
  <2>2. FrameHolds(thread[t])'
    BY <1>2, IdleGives DEF FrameHolds, Enqueues, Removed
  <2> QED BY <2>1, <2>2, <1>1, <1>2, <1>h, FramesStay
<1>4. \A i : Sound(i) => Sound(i)'
  <2>1. \A i \in DOMAIN answers : answers'[i] = "refused" =>
          \/ answers[i] = "refused"
          \/ Enqueues(thread[t]) /\ thread[t].id = i /\ thread[t].answer = "refused"
    BY <1>1
  <2>2. \A u \in Threads : Enqueues(thread'[u]) => thread'[u] = thread[u]
    BY <1>2
  <2> QED BY <2>1, <2>2, <1>1, SoundStays
<1>5. QueueHolds' /\ CopiesHold' /\ DeliveriesHold'
  <2>1. \A u \in Threads :
          Removed(thread'[u]) => Removed(thread[u]) /\ thread'[u].id = thread[u].id
    BY <1>2
  <2> QED BY <2>1, <1>4, <1>h, PlacesStay
<1>6. TracesHold'
  <2>1. ASSUME NEW x \in Traces'
        PROVE  x \in Traces
    <3>1. \/ \E q \in DOMAIN queue : x = Trace(queue[q])
          \/ \E d \in DOMAIN delivered : x = Trace(delivered[d])
          \/ \E u \in Threads : Carries(thread'[u]) /\ x = Trace(thread'[u])
      BY <2>1 DEF Traces, Trace, Carries, Enqueues, Removed
    <3>2. \A u \in Threads : Carries(thread'[u]) => thread'[u] = thread[u]
      BY <1>2
    <3> QED BY <3>1, <3>2, TracesAre
  <2> QED BY <2>1, <1>h, TracesStay
<1>7. \A i \in Nat \ {0} : Somewhere(i) => Somewhere(i)'
  <2>1. ASSUME NEW i, NEW q \in DOMAIN queue, queue[q].id = i
        PROVE  Somewhere(i)'
    <3>1. queue[q] \in Range(queue')
      BY DEF Range
    <3> QED BY <3>1, <2>1 DEF Somewhere, Present
  <2>2. ASSUME NEW i, NEW u \in Threads, Removed(thread[u]), thread[u].id = i
        PROVE  Somewhere(i)'
    <3>1. CASE u = t
      BY <2>2, <3>1 DEF Somewhere, Present
    <3>2. CASE u # t
      <4>1. thread'[u].call = "take" /\ thread'[u].id = i
        BY <2>2, <3>2 DEF Removed
      <4> QED BY <4>1 DEF Somewhere, Present
    <3> QED BY <3>1, <3>2
  <2> QED BY <2>1, <2>2, <1>h, SomewhereStays
<1>8. AcceptanceHolds' /\ OnlyDenialsAreSilent'
  <2>1. \A i \in DOMAIN answers' : answers'[i] = "accepted" =>
          \/ i \in DOMAIN answers /\ answers[i] = "accepted"
          \/ Enqueues(thread[t]) /\ thread[t].answer = "accepted" /\ thread[t].id = i
    BY <1>1
  <2>2. \A u \in Threads : Enqueues(thread'[u]) /\ thread'[u].answer = "accepted" =>
          /\ Enqueues(thread[u]) /\ thread[u].answer = "accepted"
          /\ thread'[u].id = thread[u].id
    BY <1>2
  <2> QED BY <2>1, <2>2, <1>7, <1>h, AccountsStay
<1> QED
  BY <1>3, <1>5, <1>6, <1>8 DEF TInv

\* A consumer hands on what it removed.
LEMMA DeliverKeeps ==
  ASSUME TInv, TypeOK', RecordsHold', NEW t \in Threads, Removed(thread[t]),
         thread'[t] = Idle, \A u \in Threads : u # t => thread'[u] = thread[u],
         NEW d \in Deliveries, Trace(d) = Trace(thread[t]),
         delivered' = Append(delivered, d),
         lost \subseteq lost', denied \subseteq denied',
         UNCHANGED <<kind, magic, history, queue, fault, answers>>
  PROVE  TInv'
<1>h. TypeOK /\ RecordsHold /\ FramesHold /\ QueueHolds /\ CopiesHold /\ DeliveriesHold
      /\ TracesHold /\ AcceptanceHolds /\ OnlyDenialsAreSilent
  BY DEF TInv
<1> DEFINE n == Len(delivered) + 1
<1>1. /\ n \in DOMAIN delivered' /\ delivered'[n] = d
      /\ \A i \in DOMAIN delivered : i \in DOMAIN delivered' /\ delivered'[i] = delivered[i]
      /\ \A i \in DOMAIN delivered' : i \in DOMAIN delivered \/ i = n
      /\ n \notin DOMAIN delivered
  <2>1. delivered \in Seq(Deliveries)
    BY <1>h DEF TypeOK, Deliveries
  <2> QED BY <2>1, AppendGives
<1> HIDE DEF n
<1>2. ~Enqueues(thread'[t]) /\ ~Removed(thread'[t]) /\ ~Carries(thread'[t])
  BY IdleGives
<1>3. d.id = thread[t].id /\ d.src = thread[t].src
  BY DEF Trace
<1>4. FramesHold'
  <2>1. FrameHolds(thread[t])'
    BY <1>2, IdleGives DEF FrameHolds, Enqueues, Removed
  <2> QED BY <2>1, <1>2, <1>h, FramesStay
<1>5. \A i : Sound(i) => Sound(i)'
  <2>1. \A u \in Threads : Enqueues(thread'[u]) => thread'[u] = thread[u]
    BY <1>2
  <2> QED BY <2>1, SoundStays
<1>6. QueueHolds'
  BY <1>5, <1>h DEF QueueHolds
<1>7. /\ Sound(d.id)
      /\ ~fault => \A q \in DOMAIN queue : queue[q].id # d.id
      /\ \A u \in Threads : Removed(thread[u]) /\ thread[u].id = d.id => u = t
      /\ \A i \in DOMAIN delivered : delivered[i].id # d.id
  BY <1>3, <1>h DEF CopiesHold, DeliveriesHold
<1>8. \A u \in Threads : Removed(thread'[u]) => u # t /\ Removed(thread[u])
                                                /\ thread'[u] = thread[u]
  BY <1>2
<1>9. CopiesHold'
  <2>1. ASSUME NEW u \in Threads, Removed(thread'[u])
        PROVE  /\ Sound(thread[u].id)'
               /\ ~fault => \A q \in DOMAIN queue : queue[q].id # thread'[u].id
    <3>1. Removed(thread[u]) /\ thread'[u] = thread[u]
      BY <2>1, <1>8
    <3>2. Sound(thread[u].id) /\ (~fault => \A q \in DOMAIN queue : queue[q].id # thread[u].id)
      BY <3>1, <1>h DEF CopiesHold
    <3>3. Sound(thread[u].id)'
      BY <3>1, <3>2, <1>5 DEF Sound
    <3> QED BY <3>1, <3>2, <3>3
  <2>2. ASSUME NEW u \in Threads, NEW v \in Threads, Removed(thread'[u]), Removed(thread'[v]),
               thread'[u].id = thread'[v].id
        PROVE  u = v
    BY <2>2, <1>8, <1>h DEF CopiesHold
  <2> QED BY <2>1, <2>2 DEF CopiesHold, Removed
<1>10. DeliveriesHold'
  <2>1. ASSUME NEW i \in DOMAIN delivered'
        PROVE  /\ Sound(delivered[i].id)'
               /\ ~fault => \A q \in DOMAIN queue : queue[q].id # delivered'[i].id
               /\ \A u \in Threads : Removed(thread'[u]) => thread'[u].id # delivered'[i].id
    <3>1. CASE i = n
      <4>1. delivered'[i] = d
        BY <3>1, <1>1
      <4>2. Sound(d.id)'
        BY <1>5, <1>7
      <4>3. Sound(delivered[i].id)'
        BY <4>1, <4>2 DEF Sound
      <4>4. \A u \in Threads : Removed(thread'[u]) => thread'[u].id # d.id
        BY <1>7, <1>8
      <4> QED BY <4>1, <4>3, <4>4, <1>7
    <3>2. CASE i # n
      <4>1. i \in DOMAIN delivered /\ delivered'[i] = delivered[i]
        BY <3>2, <1>1
      <4>2. /\ Sound(delivered[i].id)
            /\ ~fault => \A q \in DOMAIN queue : queue[q].id # delivered[i].id
            /\ \A u \in Threads : Removed(thread[u]) => thread[u].id # delivered[i].id
        BY <4>1, <1>h DEF DeliveriesHold
      <4>3. Sound(delivered[i].id)'
        BY <4>1, <4>2, <1>5 DEF Sound
      <4> QED BY <4>1, <4>2, <4>3, <1>8
    <3> QED BY <3>1, <3>2
  <2>2. ASSUME NEW c \in DOMAIN delivered', NEW i \in DOMAIN delivered',
               delivered'[c].id = delivered'[i].id
        PROVE  c = i
    BY <2>2, <1>1, <1>7, <1>h DEF DeliveriesHold
  <2> QED BY <2>1, <2>2 DEF DeliveriesHold, Removed
<1>11. TracesHold'
  <2>1. ASSUME NEW x \in Traces'
        PROVE  x \in Traces
    <3>1. \/ \E q \in DOMAIN queue : x = Trace(queue[q])
          \/ \E i \in DOMAIN delivered' : x = Trace(delivered'[i])
          \/ \E u \in Threads : Carries(thread'[u]) /\ x = Trace(thread'[u])
      BY <2>1 DEF Traces, Trace, Carries, Enqueues, Removed
    <3>2. \A u \in Threads : Carries(thread'[u]) => thread'[u] = thread[u]
      BY <1>2
    <3>3. CASE \E i \in DOMAIN delivered' : x = Trace(delivered'[i])
      <4>1. PICK i \in DOMAIN delivered' : x = Trace(delivered'[i])
        BY <3>3
      <4>2. CASE i = n
        BY <4>1, <4>2, <1>1, TracesAre DEF Carries
      <4>3. CASE i # n
        BY <4>1, <4>3, <1>1, TracesAre
      <4> QED BY <4>2, <4>3
    <3> QED BY <3>1, <3>2, <3>3, TracesAre
  <2> QED BY <2>1, <1>h, TracesStay
<1>12. \A i \in Nat \ {0} : Somewhere(i) => Somewhere(i)'
  <2>1. ASSUME NEW i, NEW q \in DOMAIN queue, queue[q].id = i
        PROVE  Somewhere(i)'
    <3>1. queue[q] \in Range(queue')
      BY DEF Range
    <3> QED BY <3>1, <2>1 DEF Somewhere, Present
  <2>2. ASSUME NEW i, NEW u \in Threads, Removed(thread[u]), thread[u].id = i
        PROVE  Somewhere(i)'
    <3>1. CASE u = t
      <4>1. d \in Range(delivered')
        BY <1>1 DEF Range
      <4> QED BY <4>1, <3>1, <2>2, <1>3 DEF Somewhere, Present
    <3>2. CASE u # t
      <4>1. thread'[u].call = "take" /\ thread'[u].id = i
        BY <2>2, <3>2 DEF Removed
      <4> QED BY <4>1 DEF Somewhere, Present
    <3> QED BY <3>1, <3>2
  <2>3. \A i \in DOMAIN delivered :
          i \in DOMAIN delivered' /\ delivered'[i].id = delivered[i].id
    BY <1>1
  <2> QED BY <2>1, <2>2, <2>3, <1>h, SomewhereStays
<1>13. AcceptanceHolds' /\ OnlyDenialsAreSilent'
  <2>1. \A u \in Threads : Enqueues(thread'[u]) /\ thread'[u].answer = "accepted" =>
          /\ Enqueues(thread[u]) /\ thread[u].answer = "accepted"
          /\ thread'[u].id = thread[u].id
    BY <1>2
  <2> QED BY <2>1, <1>12, <1>h, AccountsStay
<1> QED
  BY <1>4, <1>6, <1>9, <1>10, <1>11, <1>13 DEF TInv

\* The native append: the row is that of the calling attempt.
LEMMA AppendKeeps ==
  ASSUME TInv, TypeOK', RecordsHold', NEW t \in Threads, Enqueues(thread[t]),
         thread[t].at = "held", ~fault,
         thread'[t] = [thread[t] EXCEPT !.at = "release", !.answer = "accepted"],
         \A u \in Threads : u # t => thread'[u] = thread[u],
         queue' = Append(queue, Trace(thread[t])),
         UNCHANGED <<kind, magic, history, delivered, fault, answers, lost, denied>>
  PROVE  TInv'
<1>h. TypeOK /\ RecordsHold /\ FramesHold /\ QueueHolds /\ CopiesHold /\ DeliveriesHold
      /\ TracesHold /\ AcceptanceHolds /\ OnlyDenialsAreSilent
  BY DEF TInv
<1> DEFINE n == Len(queue) + 1
           r == Trace(thread[t])
<1>0. thread[t] \in Frames
  BY <1>h DEF TypeOK
<1>a. r \in Rows /\ r.id = thread[t].id /\ r.src = thread[t].src
  BY <1>0 DEF Frames, Rows, Trace
<1> HIDE DEF r
<1>1. /\ n \in DOMAIN queue' /\ queue'[n] = r
      /\ \A i \in DOMAIN queue : i \in DOMAIN queue' /\ queue'[i] = queue[i]
      /\ \A i \in DOMAIN queue' : i \in DOMAIN queue \/ i = n
      /\ n \notin DOMAIN queue
  <2>1. queue \in Seq(Rows)
    BY <1>h DEF TypeOK
  <2> QED BY <2>1, <1>a, AppendGives DEF r
<1> HIDE DEF n
<1>2. /\ thread'[t].at = "release" /\ thread'[t].answer = "accepted"
      /\ thread'[t].call = thread[t].call /\ thread'[t].id = thread[t].id
      /\ thread'[t].src = thread[t].src /\ thread'[t].removed = thread[t].removed
      /\ thread'[t].state = thread[t].state
      /\ Enqueues(thread'[t]) /\ ~Removed(thread'[t]) /\ ~Removed(thread[t])
  <2>1. /\ thread'[t].at = "release" /\ thread'[t].answer = "accepted"
        /\ thread'[t].call = thread[t].call /\ thread'[t].id = thread[t].id
        /\ thread'[t].src = thread[t].src /\ thread'[t].removed = thread[t].removed
        /\ thread'[t].state = thread[t].state
    BY <1>0 DEF Frames
  <2> QED BY <2>1 DEF Enqueues, Removed
<1>3. FramesHold'
  <2>1. FrameHolds(thread[t])
    BY <1>h DEF FramesHold
  <2>2. FrameHolds(thread[t])'
    BY <2>1, <1>2 DEF FrameHolds, Enqueues, Removed
  <2> QED BY <2>2, <1>2, <1>h, FramesStay
<1>4. \A i : Sound(i) => Sound(i)'
  <2>1. \A u \in Threads : Enqueues(thread'[u]) =>
          /\ Enqueues(thread[u]) /\ thread'[u].id = thread[u].id
          /\ thread[u].at = "release" /\ thread[u].answer = "accepted" =>
               thread'[u].at = "release" /\ thread'[u].answer = "accepted"
    BY <1>2
  <2> QED BY <2>1, SoundStays
\* The attempt itself was not sound before, and so it was nowhere.
<1>5. ~Sound(r.id)
  BY <1>a DEF Sound
<1>6. Sound(r.id)'
  <2>1. thread[t].id \in DOMAIN answers /\ answers[thread[t].id] = "pending"
    BY <1>h DEF FramesHold, FrameHolds
  <2>2. \A u \in Threads : Enqueues(thread'[u]) /\ thread'[u].id = thread[t].id => u = t
    BY <1>2, <1>h DEF FramesHold
  <2>3. \A u \in Threads : Enqueues(thread'[u]) /\ thread'[u].id = thread[t].id =>
          thread'[u].at = "release" /\ thread'[u].answer = "accepted"
    BY <2>2, <1>2
  <2>4. r' = r
    BY <1>2, <1>a DEF Trace, r
  <2> QED BY <2>1, <2>3, <2>4, <1>a DEF Sound, Enqueues
<1>7. \A q \in DOMAIN queue : Sound(queue[q].id) /\ queue[q].id # r.id
  BY <1>5, <1>h DEF QueueHolds
<1>8. QueueHolds'
  <2>1. ASSUME NEW q \in DOMAIN queue'
        PROVE  Sound(queue[q].id)'
    <3>1. CASE q = n
      <4>1. queue'[q] = r /\ r' = r
        BY <3>1, <1>1, <1>2, <1>a DEF r, Trace
      <4> QED BY <4>1, <1>6 DEF Sound
    <3>2. CASE q # n
      <4>1. q \in DOMAIN queue /\ queue'[q] = queue[q]
        BY <3>2, <1>1
      <4>2. Sound(queue[q].id)
        BY <4>1, <1>7
      <4> QED BY <4>1, <4>2, <1>4 DEF Sound
    <3> QED BY <3>1, <3>2
  <2>2. ASSUME NEW p \in DOMAIN queue', NEW q \in DOMAIN queue', queue'[p].id = queue'[q].id
        PROVE  p = q
    BY <2>2, <1>1, <1>7, <1>h DEF QueueHolds
  <2> QED BY <2>1, <2>2 DEF QueueHolds
<1>9. CopiesHold'
  <2>1. ASSUME NEW u \in Threads, Removed(thread'[u])
        PROVE  /\ Sound(thread[u].id)'
               /\ \A q \in DOMAIN queue' : queue'[q].id # thread'[u].id
    <3>1. u # t /\ Removed(thread[u]) /\ thread'[u] = thread[u]
      BY <2>1, <1>2
    <3>2. Sound(thread[u].id) /\ (\A q \in DOMAIN queue : queue[q].id # thread[u].id)
      BY <3>1, <1>h DEF CopiesHold
    <3>3. Sound(thread[u].id)'
      BY <3>1, <3>2, <1>4 DEF Sound
    <3>4. thread[u].id # r.id
      BY <3>2, <1>5
    <3> QED BY <3>1, <3>2, <3>3, <3>4, <1>1
  <2>2. \A u, v \in Threads : Removed(thread'[u]) /\ Removed(thread'[v])
                              /\ thread'[u].id = thread'[v].id => u = v
    BY <1>2, <1>h DEF CopiesHold
  <2> QED BY <2>1, <2>2 DEF CopiesHold, Removed
<1>10. DeliveriesHold'
  <2>1. ASSUME NEW d \in DOMAIN delivered
        PROVE  /\ Sound(delivered[d].id)'
               /\ \A q \in DOMAIN queue' : queue'[q].id # delivered[d].id
               /\ \A u \in Threads : Removed(thread'[u]) => thread'[u].id # delivered[d].id
    <3>1. /\ Sound(delivered[d].id)
          /\ \A q \in DOMAIN queue : queue[q].id # delivered[d].id
          /\ \A u \in Threads : Removed(thread[u]) => thread[u].id # delivered[d].id
      BY <1>h DEF DeliveriesHold
    <3>2. Sound(delivered[d].id)'
      BY <3>1, <1>4 DEF Sound
    <3>3. delivered[d].id # r.id
      BY <3>1, <1>5
    <3> QED BY <3>1, <3>2, <3>3, <1>1, <1>2
  <2>2. \A c, d \in DOMAIN delivered : delivered[c].id = delivered[d].id => c = d
    BY <1>h DEF DeliveriesHold
  <2> QED BY <2>1, <2>2 DEF DeliveriesHold, Removed
<1>11. TracesHold'
  <2>1. ASSUME NEW x \in Traces'
        PROVE  x \in Traces
    <3>1. \/ \E q \in DOMAIN queue' : x = Trace(queue'[q])
          \/ \E d \in DOMAIN delivered : x = Trace(delivered[d])
          \/ \E u \in Threads : Carries(thread'[u]) /\ x = Trace(thread'[u])
      BY <2>1 DEF Traces, Trace, Carries, Enqueues, Removed
    <3>2. Carries(thread[t]) /\ Trace(r) = Trace(thread[t])
      BY <1>a DEF Trace, Carries
    <3>3. CASE \E q \in DOMAIN queue' : x = Trace(queue'[q])
      <4>1. PICK q \in DOMAIN queue' : x = Trace(queue'[q])
        BY <3>3
      <4>2. CASE q = n
        BY <4>1, <4>2, <3>2, <1>1, TracesAre
      <4>3. CASE q # n
        BY <4>1, <4>3, <1>1, TracesAre
      <4> QED BY <4>2, <4>3
    <3>4. CASE \E u \in Threads : Carries(thread'[u]) /\ x = Trace(thread'[u])
      <4>1. PICK u \in Threads : Carries(thread'[u]) /\ x = Trace(thread'[u])
        BY <3>4
      <4>2. CASE u = t
        BY <4>1, <4>2, <3>2, <1>2, TracesAre DEF Trace
      <4>3. CASE u # t
        BY <4>1, <4>3, TracesAre
      <4> QED BY <4>2, <4>3
    <3> QED BY <3>1, <3>3, <3>4, TracesAre
  <2> QED BY <2>1, <1>h, TracesStay
<1>12. \A q \in DOMAIN queue' : queue'[q] \in Range(queue')
  BY DEF Range
<1>13. \A i \in Nat \ {0} : Somewhere(i) => Somewhere(i)'
  <2>1. ASSUME NEW i, NEW q \in DOMAIN queue, queue[q].id = i
        PROVE  Somewhere(i)'
    BY <2>1, <1>1, <1>12 DEF Somewhere, Present
  <2>2. ASSUME NEW i, NEW u \in Threads, Removed(thread[u]), thread[u].id = i
        PROVE  Somewhere(i)'
    <3>1. thread'[u].call = "take" /\ thread'[u].id = i
      BY <2>2, <1>2 DEF Removed
    <3> QED BY <3>1 DEF Somewhere, Present
  <2> QED BY <2>1, <2>2, <1>h, SomewhereStays
<1>14. AcceptanceHolds' /\ OnlyDenialsAreSilent'
  <2>1. Somewhere(thread[t].id)'
    BY <1>1, <1>2, <1>12, <1>a DEF Somewhere, Present
  <2>2. ASSUME NEW u \in Threads, Enqueues(thread'[u]), thread'[u].answer = "accepted"
        PROVE  \/ /\ Enqueues(thread[u]) /\ thread[u].answer = "accepted"
                  /\ thread'[u].id = thread[u].id
               \/ Somewhere(thread[u].id)'
    BY <2>1, <2>2
  <2> QED BY <2>2, <1>13, <1>h, AccountsStay
<1> QED
  BY <1>3, <1>8, <1>9, <1>10, <1>11, <1>14 DEF TInv

\* The head moves from the list into the consumer's frame.
LEMMA RemoveKeeps ==
  ASSUME TInv, TypeOK', RecordsHold', NEW t \in Threads,
         thread[t].call = "take", thread[t].at = "held", ~fault, queue # <<>>,
         thread'[t] = [thread[t] EXCEPT !.at = "release", !.removed = TRUE,
                                        !.id = Head(queue).id, !.src = Head(queue).src],
         \A u \in Threads : u # t => thread'[u] = thread[u],
         queue' = Tail(queue),
         UNCHANGED <<kind, magic, history, delivered, fault, answers, lost, denied>>
  PROVE  TInv'
<1>h. TypeOK /\ RecordsHold /\ FramesHold /\ QueueHolds /\ CopiesHold /\ DeliveriesHold
      /\ TracesHold /\ AcceptanceHolds /\ OnlyDenialsAreSilent
  BY DEF TInv
<1> DEFINE r == Head(queue)
<1>0. thread[t] \in Frames /\ FrameHolds(thread[t])
  BY <1>h DEF TypeOK, FramesHold
<1>1. /\ r \in Rows /\ r = queue[1] /\ 1 \in DOMAIN queue
      /\ \A i \in DOMAIN queue' : i + 1 \in DOMAIN queue /\ queue'[i] = queue[i + 1]
                                  /\ i \in Nat \ {0}
      /\ \A i \in DOMAIN queue : i = 1 \/ (i - 1 \in DOMAIN queue' /\ queue'[i - 1] = queue[i])
  BY <1>h, TailGives DEF TypeOK
<1>2. /\ thread'[t].at = "release" /\ thread'[t].answer = thread[t].answer
      /\ thread'[t].call = "take" /\ thread'[t].id = r.id
      /\ thread'[t].src = r.src /\ thread'[t].removed
      /\ thread'[t].state = thread[t].state
      /\ ~Enqueues(thread'[t]) /\ Removed(thread'[t])
      /\ ~Removed(thread[t]) /\ ~Enqueues(thread[t])
  <2>1. r.id \in Nat /\ r.src \in Nat
    BY <1>1 DEF Rows
  <2>2. ~thread[t].removed
    BY <1>0 DEF FrameHolds
  <2>3. thread'[t] = [thread[t] EXCEPT !.at = "release", !.removed = TRUE,
                                       !.id = r.id, !.src = r.src]
    OBVIOUS
  <2> HIDE DEF r
  <2>4. /\ thread'[t].at = "release" /\ thread'[t].answer = thread[t].answer
        /\ thread'[t].call = thread[t].call /\ thread'[t].id = r.id
        /\ thread'[t].src = r.src /\ thread'[t].removed
        /\ thread'[t].state = thread[t].state
    BY <2>3, <1>0 DEF Frames
  <2> QED BY <2>2, <2>4 DEF Enqueues, Removed
<1>3. Sound(r.id) /\ \A q \in DOMAIN queue : queue[q].id = r.id => q = 1
  BY <1>1, <1>h DEF QueueHolds
<1> HIDE DEF r
<1>4. FramesHold'
  <2>1. FrameHolds(thread[t])'
    BY <1>0, <1>2 DEF FrameHolds, Enqueues, Removed
  <2> QED BY <2>1, <1>2, <1>h, FramesStay
<1>5. \A i : Sound(i) => Sound(i)'
  <2>1. \A u \in Threads : Enqueues(thread'[u]) => thread'[u] = thread[u]
    BY <1>2
  <2> QED BY <2>1, SoundStays
<1>6. \A q \in DOMAIN queue' : /\ q + 1 \in DOMAIN queue /\ queue'[q] = queue[q + 1]
                               /\ queue'[q].id # r.id /\ Sound(queue[q + 1].id)
  BY <1>1, <1>3, <1>h DEF QueueHolds
<1>7. QueueHolds'
  <2>1. ASSUME NEW q \in DOMAIN queue'
        PROVE  Sound(queue[q].id)'
    BY <1>5, <1>6 DEF Sound
  <2>2. ASSUME NEW p \in DOMAIN queue', NEW q \in DOMAIN queue', queue'[p].id = queue'[q].id
        PROVE  p = q
    <3>1. p + 1 = q + 1
      BY <2>2, <1>6, <1>h DEF QueueHolds
    <3>2. p \in Nat /\ q \in Nat
      BY <1>1
    <3> QED BY <3>1, <3>2
  <2> QED BY <2>1, <2>2 DEF QueueHolds
<1>8. CopiesHold'
  <2>1. ASSUME NEW u \in Threads, Removed(thread'[u])
        PROVE  /\ Sound(thread[u].id)'
               /\ \A q \in DOMAIN queue' : queue'[q].id # thread'[u].id
    <3>1. CASE u = t
      <4>1. thread'[u].id = r.id /\ Sound(r.id)
        BY <3>1, <1>2, <1>3
      <4>2. Sound(thread[u].id)'
        BY <4>1, <1>5 DEF Sound
      <4> QED BY <4>1, <4>2, <1>6
    <3>2. CASE u # t
      <4>1. Removed(thread[u]) /\ thread'[u] = thread[u]
        BY <2>1, <3>2
      <4>2. Sound(thread[u].id) /\ \A q \in DOMAIN queue : queue[q].id # thread[u].id
        BY <4>1, <1>h DEF CopiesHold
      <4>3. Sound(thread[u].id)'
        BY <4>1, <4>2, <1>5 DEF Sound
      <4> QED BY <4>1, <4>2, <4>3, <1>6
    <3> QED BY <3>1, <3>2
  <2>2. ASSUME NEW u \in Threads, u # t, Removed(thread'[u])
        PROVE  thread'[u].id # r.id
    <3>1. Removed(thread[u]) /\ thread'[u] = thread[u]
      BY <2>2
    <3> QED BY <3>1, <1>1, <1>h DEF CopiesHold
  <2>4. \A u, v \in Threads : u # t /\ v # t /\ Removed(thread'[u]) /\ Removed(thread'[v])
                              /\ thread'[u].id = thread'[v].id => u = v
    BY <1>h DEF CopiesHold
  <2>3. \A u, v \in Threads : Removed(thread'[u]) /\ Removed(thread'[v])
                              /\ thread'[u].id = thread'[v].id => u = v
    <3> SUFFICES ASSUME NEW u \in Threads, NEW v \in Threads, Removed(thread'[u]),
                        Removed(thread'[v]), thread'[u].id = thread'[v].id, u # v
                 PROVE  FALSE
      OBVIOUS
    <3>1. CASE u # t /\ v # t
      BY <3>1, <2>4
    <3>2. CASE u = t
      BY <3>2, <2>2, <1>2
    <3>3. CASE v = t
      BY <3>3, <2>2, <1>2
    <3> QED BY <3>1, <3>2, <3>3
  <2> QED BY <2>1, <2>3 DEF CopiesHold, Removed
<1>9. DeliveriesHold'
  <2>1. ASSUME NEW d \in DOMAIN delivered
        PROVE  /\ Sound(delivered[d].id)'
               /\ \A q \in DOMAIN queue' : queue'[q].id # delivered[d].id
               /\ \A u \in Threads : Removed(thread'[u]) => thread'[u].id # delivered[d].id
    <3>1. /\ Sound(delivered[d].id)
          /\ \A q \in DOMAIN queue : queue[q].id # delivered[d].id
          /\ \A u \in Threads : Removed(thread[u]) => thread[u].id # delivered[d].id
      BY <1>h DEF DeliveriesHold
    <3>2. Sound(delivered[d].id)'
      BY <3>1, <1>5 DEF Sound
    <3>3. delivered[d].id # r.id
      BY <3>1, <1>1
    <3>4. \A q \in DOMAIN queue' : queue'[q].id # delivered[d].id
      BY <3>1, <1>6
    <3>5. ASSUME NEW u \in Threads, Removed(thread'[u])
          PROVE  thread'[u].id # delivered[d].id
      <4>1. CASE u = t
        BY <4>1, <3>3, <1>2
      <4>2. CASE u # t
        BY <4>2, <3>5, <3>1
      <4> QED BY <4>1, <4>2
    <3> QED BY <3>2, <3>4, <3>5
  <2>2. \A c, d \in DOMAIN delivered : delivered[c].id = delivered[d].id => c = d
    BY <1>h DEF DeliveriesHold
  <2> QED BY <2>1, <2>2 DEF DeliveriesHold, Removed
<1>10. TracesHold'
  <2>1. ASSUME NEW x \in Traces'
        PROVE  x \in Traces
    <3>1. \/ \E q \in DOMAIN queue' : x = Trace(queue'[q])
          \/ \E d \in DOMAIN delivered : x = Trace(delivered[d])
          \/ \E u \in Threads : Carries(thread'[u]) /\ x = Trace(thread'[u])
      BY <2>1 DEF Traces, Trace, Carries, Enqueues, Removed
    <3>2. CASE \E q \in DOMAIN queue' : x = Trace(queue'[q])
      BY <3>2, <1>6, TracesAre
    <3>3. CASE \E u \in Threads : Carries(thread'[u]) /\ x = Trace(thread'[u])
      <4>1. PICK u \in Threads : Carries(thread'[u]) /\ x = Trace(thread'[u])
        BY <3>3
      <4>2. CASE u = t
        <5>1. x = Trace(queue[1])
          BY <4>1, <4>2, <1>1, <1>2 DEF Trace
        <5> QED BY <5>1, <1>1, TracesAre
      <4>3. CASE u # t
        BY <4>1, <4>3, TracesAre
      <4> QED BY <4>2, <4>3
    <3> QED BY <3>1, <3>2, <3>3, TracesAre
  <2> QED BY <2>1, <1>h, TracesStay
<1>11. \A i \in Nat \ {0} : Somewhere(i) => Somewhere(i)'
  <2>1. ASSUME NEW i, NEW q \in DOMAIN queue, queue[q].id = i
        PROVE  Somewhere(i)'
    <3>1. CASE q = 1
      <4>1. thread'[t].call = "take" /\ thread'[t].id = i
        BY <2>1, <3>1, <1>1, <1>2
      <4> QED BY <4>1 DEF Somewhere, Present
    <3>2. CASE q # 1
      <4>1. q - 1 \in DOMAIN queue' /\ queue'[q - 1].id = i
        BY <2>1, <3>2, <1>1
      <4>2. queue'[q - 1] \in Range(queue')
        BY <4>1 DEF Range
      <4> QED BY <4>1, <4>2 DEF Somewhere, Present
    <3> QED BY <3>1, <3>2
  <2>2. ASSUME NEW i, NEW u \in Threads, Removed(thread[u]), thread[u].id = i
        PROVE  Somewhere(i)'
    <3>1. thread'[u].call = "take" /\ thread'[u].id = i
      BY <2>2, <1>2 DEF Removed
    <3> QED BY <3>1 DEF Somewhere, Present
  <2> QED BY <2>1, <2>2, <1>h, SomewhereStays
<1>12. AcceptanceHolds' /\ OnlyDenialsAreSilent'
  <2>1. \A u \in Threads : Enqueues(thread'[u]) /\ thread'[u].answer = "accepted" =>
          /\ Enqueues(thread[u]) /\ thread[u].answer = "accepted"
          /\ thread'[u].id = thread[u].id
    BY <1>2
  <2> QED BY <2>1, <1>11, <1>h, AccountsStay
<1> QED
  BY <1>4, <1>7, <1>8, <1>9, <1>10, <1>12 DEF TInv

\* An attempt that is new is nowhere.
LEMMA BeginEnqueueKeeps ==
  ASSUME TInv, TypeOK', RecordsHold', NEW t \in Threads, NEW s \in DOMAIN magic,
         BeginEnqueue(t, s)
  PROVE  TInv'
<1>h. TypeOK /\ RecordsHold /\ FramesHold /\ QueueHolds /\ CopiesHold /\ DeliveriesHold
      /\ TracesHold /\ AcceptanceHolds /\ OnlyDenialsAreSilent
  BY DEF TInv
<1> DEFINE n == Len(answers) + 1
<1>u. UNCHANGED <<kind, history, queue, fault, delivered, lost, denied>>
  BY DEF BeginEnqueue, results
<1>1. PICK a \in {"pending", "refused"} : answers' = Append(answers, a)
  BY DEF BeginEnqueue
<1>2. /\ n \in DOMAIN answers' /\ answers'[n] = a /\ n \notin DOMAIN answers
      /\ n \in Nat /\ s \in Nat
      /\ \A i \in DOMAIN answers : i \in DOMAIN answers' /\ answers'[i] = answers[i]
      /\ \A i \in DOMAIN answers' : i \in DOMAIN answers \/ i = n
  <2>1. answers \in Seq(Answers) /\ a \in Answers
    BY <1>h DEF TypeOK, Answers
  <2>2. s \in Nat
    BY <1>h, LenProperties DEF TypeOK
  <2> QED BY <2>1, <2>2, <1>1, AppendGives
<1> HIDE DEF n
<1>3. ~Enqueues(thread[t]) /\ ~Removed(thread[t]) /\ ~Carries(thread[t])
  <2>1. thread[t].at = "idle"
    BY DEF BeginEnqueue
  <2>2. thread[t] = Idle
    BY <2>1, <1>h DEF FramesHold, FrameHolds
  <2> QED BY <2>2, IdleGives
<1>4. /\ \A u \in Threads : u # t => thread'[u] = thread[u]
      /\ ~Removed(thread'[t])
      /\ FrameHolds(thread[t])'
      /\ Enqueues(thread'[t]) => thread'[t].answer = "refused" /\ thread'[t].id = n
                                 /\ thread'[t].src = s
      /\ \A r \in DOMAIN magic : /\ r \in DOMAIN magic'
                                 /\ magic[r] = "CONSUMED" => magic'[r] = "CONSUMED"
      /\ Enqueues(thread'[t]) /\ kind = "birth" =>
           magic[s] = "READY" /\ magic'[s] = "CONSUMED"
  <2>1. CASE magic[s] = "READY"
    <3>1. /\ thread' = [thread EXCEPT ![t] = [Idle EXCEPT !.at = "lock", !.call = "enqueue",
                                                          !.id = n, !.src = s]]
          /\ magic' = Spend(s, "snapshot") /\ answers' = Append(answers, "pending")
      BY <2>1 DEF BeginEnqueue, Begins, Goes, n
    <3> DEFINE l == [Idle EXCEPT !.at = "lock", !.call = "enqueue", !.id = n, !.src = s]
    <3>2. /\ l \in Frames /\ l.at = "lock" /\ l.call = "enqueue" /\ l.id = n /\ l.src = s
          /\ l.answer = "refused" /\ ~l.removed
      BY <1>2 DEF Idle, Frames, BirthStates
    <3> HIDE DEF l
    <3>3. thread'[t] = l /\ \A u \in Threads : u # t => thread'[u] = thread[u]
      BY <3>1, <1>h DEF TypeOK, l
    <3>4. answers'[n] = "pending"
      BY <3>1, <1>1, <1>2, AppendGives, <1>h DEF TypeOK, n
    <3>5. /\ DOMAIN magic' = DOMAIN magic
          /\ \A r \in DOMAIN magic : magic[r] = "CONSUMED" => magic'[r] = "CONSUMED"
          /\ kind = "birth" => magic'[s] = "CONSUMED"
      BY <3>1, <1>2, <1>h, SpendGives
    <3>6. FrameHolds(thread[t])'
      BY <3>2, <3>3, <3>4, <1>2 DEF FrameHolds, Enqueues, Removed
    <3> QED BY <2>1, <3>2, <3>3, <3>5, <3>6 DEF Enqueues, Removed
  <2>2. CASE magic[s] # "READY"
    <3>1. thread' = thread /\ magic' = magic
      BY <2>2 DEF BeginEnqueue
    <3>2. FrameHolds(thread[t])
      BY <1>h DEF FramesHold
    <3>3. FrameHolds(thread[t])'
      BY <3>1, <3>2, <1>3, <1>u DEF FrameHolds, Enqueues, Removed
    <3> QED BY <3>1, <3>3, <1>3
  <2> QED BY <2>1, <2>2
<1>5. FramesHold'
  <2>1. \A u \in Threads : Enqueues(thread[u]) => thread[u].id \in DOMAIN answers
    BY <1>h DEF FramesHold, FrameHolds
  <2> QED BY <2>1, <1>2, <1>4, <1>u, <1>h, FramesStay
<1>6. \A i : Sound(i) => Sound(i)'
  <2>1. \A u \in Threads : Enqueues(thread'[u]) =>
          thread'[u].id \notin DOMAIN answers \/ thread'[u] = thread[u]
    BY <1>2, <1>4
  <2> QED BY <2>1, <1>2, SoundStays
<1>7. QueueHolds' /\ CopiesHold' /\ DeliveriesHold'
  <2>1. \A u \in Threads :
          Removed(thread'[u]) => Removed(thread[u]) /\ thread'[u].id = thread[u].id
    BY <1>4
  <2> QED BY <2>1, <1>6, <1>u, <1>h, PlacesStay
<1>8. TracesHold'
  <2>1. ASSUME NEW x \in Traces'
        PROVE  x \in Traces \/ (Enqueues(thread'[t]) /\ x.id = n /\ x.src = s)
    <3>1. \/ \E q \in DOMAIN queue : x = Trace(queue[q])
          \/ \E d \in DOMAIN delivered : x = Trace(delivered[d])
          \/ \E u \in Threads : Carries(thread'[u]) /\ x = Trace(thread'[u])
      BY <2>1, <1>u DEF Traces, Trace, Carries, Enqueues, Removed
    <3>2. CASE \E u \in Threads : Carries(thread'[u]) /\ x = Trace(thread'[u])
      <4>1. PICK u \in Threads : Carries(thread'[u]) /\ x = Trace(thread'[u])
        BY <3>2
      <4>2. CASE u = t
        BY <4>1, <4>2, <1>4 DEF Carries, Trace
      <4>3. CASE u # t
        BY <4>1, <4>3, <1>4, TracesAre
      <4> QED BY <4>2, <4>3
    <3> QED BY <3>1, <3>2, TracesAre
  <2>2. ASSUME NEW x \in Traces'
        PROVE  x.src \in DOMAIN magic'
    BY <2>1, <1>4, <1>h DEF TracesHold
  <2>3. ASSUME NEW x \in Traces', kind = "birth"
        PROVE  magic'[x.src] = "CONSUMED"
    BY <2>1, <2>3, <1>4, <1>h DEF TracesHold
  <2>4. ASSUME NEW x \in Traces', NEW y \in Traces', kind = "birth", x.src = y.src
        PROVE  x.id = y.id
    <3>1. \A z \in Traces : magic[z.src] = "CONSUMED"
      BY <2>4, <1>h DEF TracesHold
    <3>2. CASE x \in Traces /\ y \in Traces
      BY <2>4, <3>2, <1>h DEF TracesHold
    <3>3. CASE x \notin Traces /\ y \notin Traces
      BY <2>1, <3>3
    <3>4. CASE x \in Traces /\ y \notin Traces
      BY <2>1, <2>4, <3>1, <3>4, <1>4
    <3>5. CASE x \notin Traces /\ y \in Traces
      BY <2>1, <2>4, <3>1, <3>5, <1>4
    <3> QED BY <3>2, <3>3, <3>4, <3>5
  <2> QED BY <2>2, <2>3, <2>4, <1>u DEF TracesHold
<1>9. \A i \in Nat \ {0} : Somewhere(i) => Somewhere(i)'
  <2>1. ASSUME NEW i, NEW q \in DOMAIN queue, queue[q].id = i
        PROVE  Somewhere(i)'
    <3>1. queue[q] \in Range(queue')
      BY <1>u DEF Range
    <3> QED BY <3>1, <2>1 DEF Somewhere, Present
  <2>2. ASSUME NEW i, NEW u \in Threads, Removed(thread[u]), thread[u].id = i
        PROVE  Somewhere(i)'
    <3>1. thread'[u].call = "take" /\ thread'[u].id = i
      BY <2>2, <1>3, <1>4 DEF Removed
    <3> QED BY <3>1 DEF Somewhere, Present
  <2> QED BY <2>1, <2>2, <1>u, <1>h, SomewhereStays
<1>10. AcceptanceHolds' /\ OnlyDenialsAreSilent'
  <2>1. \A i \in DOMAIN answers' : answers'[i] = "accepted" =>
          i \in DOMAIN answers /\ answers[i] = "accepted"
    BY <1>2
  <2>2. \A u \in Threads : Enqueues(thread'[u]) /\ thread'[u].answer = "accepted" =>
          /\ Enqueues(thread[u]) /\ thread[u].answer = "accepted"
          /\ thread'[u].id = thread[u].id
    BY <1>4
  <2> QED BY <2>1, <2>2, <1>9, <1>h, AccountsStay
<1> QED
  BY <1>5, <1>7, <1>8, <1>10 DEF TInv

\* What Uncertain leaves: the frame is gone, the caller knows nothing.
LEMMA UncertainKeeps ==
  ASSUME TInv, TypeOK', RecordsHold', NEW t \in Threads, Uncertain(t),
         UNCHANGED <<kind, magic, history, queue, fault, delivered, denied>>
  PROVE  TInv'
<1>1. thread'[t] = Idle /\ \A u \in Threads : u # t => thread'[u] = thread[u]
  BY IdleGives, GoesGives DEF TInv, TypeOK, Uncertain, Ends
<1>2. answers' = Told(thread[t], "raw") /\ lost \subseteq lost'
  BY DEF Uncertain
<1>3. Removed(thread[t]) => thread[t].id \in lost'
  BY DEF Uncertain, Removed
<1>4. "raw" \in Answers
  BY DEF Answers
<1> QED
  BY <1>1, <1>2, <1>3, <1>4, EndsKeeps

\* One frame moves on, the others stand still.
LEMMA OneKeeps ==
  ASSUME TInv, TypeOK', RecordsHold', NEW t \in Threads,
         \A u \in Threads : u # t => thread'[u] = thread[u],
         Follows(thread[t], thread'[t]), FrameHolds(thread[t])',
         thread[t].at = "release" /\ thread[t].answer = "accepted" => thread'[t].at = "release",
         UNCHANGED <<kind, history, magic, answers, delivered, lost, denied>>,
         fault => fault', ~fault' => queue' = queue,
         \A q \in DOMAIN queue' : Trace(queue'[q]) \in Traces
  PROVE  TInv'
<1>1. FramesHold /\ TypeOK
  BY DEF TInv
<1>2. ASSUME NEW u \in Threads, u # t
      PROVE  Follows(thread[u], thread'[u]) /\ FrameHolds(thread[u])'
  <2>1. thread'[u] = thread[u] /\ FrameHolds(thread[u])
    BY <1>1, <1>2 DEF FramesHold
  <2> QED BY <2>1 DEF Follows, Kept, FrameHolds, Enqueues, Removed
<1>3. \A u \in Threads : /\ Follows(thread[u], thread'[u])
                         /\ FrameHolds(thread[u])'
                         /\ thread[u].at = "release" /\ thread[u].answer = "accepted"
                              => thread'[u].at = "release"
  BY <1>2
<1> QED
  BY <1>3, KeptKeeps

LEMMA QueueTraces ==
  \A q \in DOMAIN queue : Trace(queue[q]) \in Traces
  BY TracesAre

LEMMA RegistryKeeps ==
  ASSUME TInv, TypeOK', RecordsHold', NEW node \in Nodes, Birth(node) \/ Retirement(node)
  PROVE  TInv'
<1>1. TypeOK /\ RecordsHold /\ FramesHold
  BY DEF TInv
<1>2. UNCHANGED <<kind, queue, fault, thread, answers, delivered, lost, denied>>
  BY DEF Birth, Retirement, results
<1>3. history.fault => history'.fault
  <2>1. CASE Birth(node)
    <3> DEFINE e == [node |-> node, engine |-> 1, inc |-> Len(history.log) + 1]
    <3>1. e \in [node : Nodes, engine : {1}, inc : Nat]
      BY <1>1, LenProperties DEF TypeOK, Histories
    <3>2. history' = ObserveBirth(history, e)
      BY <2>1 DEF Birth
    <3> QED BY <3>1, <3>2, <1>1, HistoryGives DEF TypeOK
  <2>2. CASE Retirement(node)
    <3> DEFINE e == [node |-> node, engine |-> 1, inc |-> 0]
    <3>1. e \in [node : Nodes, engine : {1}, inc : Nat]
      OBVIOUS
    <3>2. history' = ObserveRetirement(history, e)
      BY <2>2 DEF Retirement
    <3> QED BY <3>1, <3>2, <1>1, HistoryGives DEF TypeOK
  <2> QED BY <2>1, <2>2
<1>4. \A s \in DOMAIN magic : s \in DOMAIN magic' /\ magic'[s] = magic[s]
  <2>1. magic' = magic \/ magic' = Append(magic, "READY")
    BY DEF Birth, Retirement
  <2>2. magic \in Seq({"READY", "CONSUMED"})
    BY <1>1 DEF TypeOK
  <2>3. \A s \in DOMAIN magic :
          s \in DOMAIN Append(magic, "READY") /\ Append(magic, "READY")[s] = magic[s]
    BY <2>2, AppendGives
  <2> QED BY <2>1, <2>3
<1>5. \A t \in Threads : Follows(thread[t], thread'[t]) /\ FrameHolds(thread[t])'
  BY <1>1, <1>2, <1>3 DEF Follows, Kept, FramesHold, FrameHolds, Enqueues, Removed
<1> QED
  BY <1>2, <1>3, <1>4, <1>5, KeptKeeps, QueueTraces

\* A copy is a record that nothing carries.
LEMMA CopyKeeps ==
  ASSUME TInv, TypeOK', RecordsHold', NEW r \in DOMAIN magic, Copy(r)
  PROVE  TInv'
<1>1. TypeOK /\ FramesHold
  BY DEF TInv
<1>2. UNCHANGED <<kind, history, queue, fault, thread, answers, delivered, lost, denied>>
  BY DEF Copy, results
<1>3. \A s \in DOMAIN magic : s \in DOMAIN magic' /\ magic'[s] = magic[s]
  <2>1. magic \in Seq({"READY", "CONSUMED"})
    BY <1>1 DEF TypeOK
  <2>2. magic[r] \in {"READY", "CONSUMED"}
    BY <2>1, ElementOfSeq, LenProperties
  <2> QED BY <2>1, <2>2, AppendGives DEF Copy
<1>4. \A t \in Threads : Follows(thread[t], thread'[t]) /\ FrameHolds(thread[t])'
  BY <1>1, <1>2 DEF Follows, Kept, FramesHold, FrameHolds, Enqueues, Removed
<1> QED
  BY <1>2, <1>3, <1>4, KeptKeeps, QueueTraces

LEMMA EnqueueKeeps ==
  ASSUME TInv, TypeOK', RecordsHold', NEW t \in Threads, Enqueue(t) \/ AppendFails(t)
  PROVE  TInv'
<1>1. TypeOK /\ FrameHolds(thread[t]) /\ thread[t] \in Frames
  BY DEF TInv, TypeOK, FramesHold
<1>2. /\ thread[t].at = "held" /\ thread[t].call = "enqueue" /\ Enqueues(thread[t])
      /\ UNCHANGED <<kind, magic, history, answers, delivered, lost, denied>>
  BY DEF Enqueue, AppendFails, registry, results, Enqueues
<1> DEFINE row == [id |-> thread[t].id, src |-> thread[t].src]
<1>3. row = Trace(thread[t])
  BY DEF Trace
<1>4. CASE /\ queue' = Append(queue, row) /\ ~fault /\ fault' = fault
           /\ Goes(t, [thread[t] EXCEPT !.at = "release", !.answer = "accepted"])
  <2>1. /\ thread'[t] = [thread[t] EXCEPT !.at = "release", !.answer = "accepted"]
        /\ \A u \in Threads : u # t => thread'[u] = thread[u]
    BY <1>1, <1>4 DEF Goes, TypeOK
  <2>2. queue' = Append(queue, Trace(thread[t]))
    BY <1>3, <1>4
  <2> QED BY <2>1, <2>2, <1>2, <1>4, AppendKeeps
<1>5. CASE /\ Goes(t, [thread[t] EXCEPT !.at = "release"])
           /\ \/ queue' = queue /\ fault' = fault
              \/ fault' /\ queue' \in {queue, Append(queue, row)}
  <2>1. /\ thread'[t] = [thread[t] EXCEPT !.at = "release"]
        /\ \A u \in Threads : u # t => thread'[u] = thread[u]
    BY <1>1, <1>5 DEF Goes, TypeOK
  <2>2. thread'[t].at = "release" /\ Kept(thread[t], thread'[t]) /\ thread'[t].state = thread[t].state
    BY <2>1, <1>1 DEF Frames, Kept
  <2>3. FrameHolds(thread[t])'
    BY <2>2, <1>1, <1>2 DEF FrameHolds, Kept, Enqueues, Removed
  <2>4. ASSUME NEW q \in DOMAIN queue'
        PROVE  Trace(queue'[q]) \in Traces
    <3>1. CASE queue' = queue
      BY <3>1, QueueTraces
    <3>2. CASE queue' = Append(queue, row)
      <4>1. row \in Rows /\ queue \in Seq(Rows)
        BY <1>1 DEF Frames, Rows, TypeOK
      <4> HIDE DEF row
      <4>2. (q \in DOMAIN queue /\ queue'[q] = queue[q]) \/ queue'[q] = row
        BY <3>2, <4>1, AppendGives
      <4>3. Trace(row) = Trace(thread[t])
        BY <1>3 DEF Trace
      <4> QED BY <4>2, <4>3, <1>2, QueueTraces, TracesAre DEF Carries
    <3> QED BY <1>5, <3>1, <3>2
  <2>5. (fault => fault') /\ (~fault' => queue' = queue)
    BY <1>5
  <2>6. Follows(thread[t], thread'[t])
    BY <2>2 DEF Follows
  <2> HIDE DEF row
  <2> QED BY <2>1, <2>2, <2>3, <2>4, <2>5, <2>6, <1>2, OneKeeps
<1> QED
  BY <1>4, <1>5 DEF Enqueue, AppendFails, Faulted

LEMMA TakeKeeps ==
  ASSUME TInv, TypeOK', RecordsHold', NEW t \in Threads,
         BeginTake(t) \/ Take(t) \/ TakeFails(t)
  PROVE  TInv'
<1>1. TypeOK /\ FrameHolds(thread[t]) /\ thread[t] \in Frames
  BY DEF TInv, TypeOK, FramesHold
<1>2. UNCHANGED <<kind, magic, history, answers, delivered, lost, denied>>
  BY DEF BeginTake, Take, TakeFails, registry, results
<1>3. CASE BeginTake(t)
  <2> DEFINE l == [Idle EXCEPT !.at = "lock", !.call = "take", !.id = 0, !.src = 0]
  <2>1. /\ l \in Frames /\ l.at = "lock" /\ l.call = "take" /\ l.id = 0
        /\ l.answer = "refused" /\ ~l.removed
    BY DEF Idle, Frames, BirthStates
  <2>2. Goes(t, l)
    BY <1>3 DEF BeginTake, Begins
  <2> HIDE DEF l
  <2>3. thread'[t] = l /\ \A u \in Threads : u # t => thread'[u] = thread[u]
    BY <2>1, <2>2, <1>1, GoesGives DEF TypeOK
  <2>4. thread[t] = Idle
    BY <1>1, <1>3 DEF BeginTake, FrameHolds
  <2>5. ~Carries(thread[t]) /\ ~Carries(thread'[t]) /\ thread[t].at # "release"
    BY <2>1, <2>3, <2>4, IdleGives DEF Carries, Enqueues, Removed
  <2>6. FrameHolds(thread[t])'
    BY <2>1, <2>3 DEF FrameHolds, Enqueues, Removed
  <2>7. queue' = queue /\ fault' = fault
    BY <1>3 DEF BeginTake
  <2> QED BY <2>3, <2>5, <2>6, <2>7, <1>2, QueueTraces, OneKeeps DEF Follows
<1>4. CASE /\ thread[t].at = "held" /\ thread[t].call = "take"
           /\ Goes(t, [thread[t] EXCEPT !.at = "release"])
           /\ \/ queue' = queue /\ fault' = fault
              \/ fault' /\ queue # <<>> /\ queue' \in {queue, Tail(queue)}
  <2>1. /\ thread'[t] = [thread[t] EXCEPT !.at = "release"]
        /\ \A u \in Threads : u # t => thread'[u] = thread[u]
    BY <1>1, <1>4 DEF Goes, TypeOK
  <2>2. thread'[t].at = "release" /\ Kept(thread[t], thread'[t]) /\ thread'[t].state = thread[t].state
    BY <2>1, <1>1 DEF Frames, Kept
  <2>3. FrameHolds(thread[t])'
    BY <2>2, <1>1, <1>4 DEF FrameHolds, Kept, Enqueues, Removed
  <2>4. ASSUME NEW q \in DOMAIN queue'
        PROVE  Trace(queue'[q]) \in Traces
    <3>1. CASE queue' = queue
      BY <3>1, QueueTraces
    <3>2. CASE queue # <<>> /\ queue' = Tail(queue)
      BY <3>2, <1>1, TailGives, QueueTraces DEF TypeOK
    <3> QED BY <1>4, <3>1, <3>2
  <2>5. (fault => fault') /\ (~fault' => queue' = queue)
    BY <1>4
  <2>6. Follows(thread[t], thread'[t])
    BY <2>2 DEF Follows
  <2> QED BY <2>1, <2>2, <2>3, <2>4, <2>5, <2>6, <1>2, OneKeeps
<1>5. CASE /\ thread[t].at = "held" /\ thread[t].call = "take" /\ ~fault /\ queue # <<>>
           /\ Goes(t, [thread[t] EXCEPT !.at = "release", !.removed = TRUE,
                                        !.id = Head(queue).id, !.src = Head(queue).src])
           /\ queue' = Tail(queue) /\ fault' = fault
  <2>1. /\ thread'[t] = [thread[t] EXCEPT !.at = "release", !.removed = TRUE,
                                          !.id = Head(queue).id, !.src = Head(queue).src]
        /\ \A u \in Threads : u # t => thread'[u] = thread[u]
    BY <1>1, <1>5 DEF Goes, TypeOK
  <2> QED BY <2>1, <1>2, <1>5, RemoveKeeps
<1> QED
  BY <1>3, <1>4, <1>5 DEF Take, TakeFails, Faulted

LEMMA AcquireKeeps ==
  ASSUME TInv, TypeOK', RecordsHold', NEW t \in Threads, Acquire(t) \/ AcquireRegistry(t)
  PROVE  TInv'
<1>1. TypeOK /\ FrameHolds(thread[t]) /\ thread[t] \in Frames
  BY DEF TInv, TypeOK, FramesHold
<1>2. UNCHANGED <<kind, magic, history, queue, fault, delivered, denied>>
  BY DEF Acquire, AcquireRegistry, registry
<1>3. CASE Uncertain(t)
  BY <1>2, <1>3, UncertainKeeps
<1>4. CASE ~Uncertain(t)
  <2>1. PICK x \in {"held", "compare"} :
          /\ Goes(t, [thread[t] EXCEPT !.at = x])
          /\ UNCHANGED <<answers, lost, denied>>
          /\ x = "held" => thread[t].at = "lock"
          /\ x = "compare" => thread[t].at = "copy"
    BY <1>4 DEF Acquire, AcquireRegistry
  <2>2. /\ thread'[t] = [thread[t] EXCEPT !.at = x]
        /\ \A u \in Threads : u # t => thread'[u] = thread[u]
    BY <1>1, <2>1 DEF Goes, TypeOK
  <2>3. thread'[t].at = x /\ Kept(thread[t], thread'[t]) /\ thread'[t].state = thread[t].state
    BY <2>2, <1>1 DEF Frames, Kept
  <2>4. FrameHolds(thread[t])'
    BY <2>1, <2>3, <1>1, <1>2 DEF FrameHolds, Kept, Enqueues, Removed
  <2>5. thread[t].at # "release" /\ Follows(thread[t], thread'[t])
    BY <2>1, <2>3 DEF Follows
  <2> QED BY <2>1, <2>2, <2>4, <2>5, <1>2, QueueTraces, OneKeeps
<1> QED BY <1>3, <1>4

LEMMA ReleaseKeeps ==
  ASSUME TInv, TypeOK', RecordsHold', NEW t \in Threads, Release(t)
  PROVE  TInv'
<1>1. TypeOK /\ FramesHold /\ FrameHolds(thread[t]) /\ thread[t] \in Frames
  BY DEF TInv, TypeOK, FramesHold
<1>2. UNCHANGED <<kind, history, queue, fault, delivered, denied>> /\ thread[t].at = "release"
  BY DEF Release
<1>3. CASE Uncertain(t) /\ UNCHANGED magic
  BY <1>2, <1>3, UncertainKeeps
<1>4. CASE ~(Uncertain(t) /\ UNCHANGED magic)
  <2>1. /\ answers' = Told(thread[t], thread[t].answer)
        /\ magic' = (IF thread[t].answer = "accepted" THEN Spend(thread[t].src, "accepted") ELSE magic)
        /\ IF thread[t].removed THEN Goes(t, [thread[t] EXCEPT !.at = "copy"]) ELSE Ends(t)
        /\ UNCHANGED lost
    BY <1>4 DEF Release
  <2>2. magic' = magic
    BY <2>1, <1>1, SpendGives DEF Frames
  <2>3. thread[t].answer \in Answers
    BY <1>1 DEF Frames, Answers
  <2>4. CASE thread[t].removed
    <3>1. Removed(thread[t]) /\ ~Enqueues(thread[t])
      BY <2>4, <1>1, <1>2 DEF FrameHolds, Frames, Enqueues, Removed
    <3>2. /\ thread'[t] = [thread[t] EXCEPT !.at = "copy"]
          /\ \A u \in Threads : u # t => thread'[u] = thread[u]
      BY <1>1, <2>1, <2>4 DEF Goes, TypeOK
    <3>3. thread'[t].at = "copy" /\ Kept(thread[t], thread'[t]) /\ thread'[t].state = thread[t].state
      BY <3>2, <1>1 DEF Frames, Kept
    <3>4. answers' = answers
      BY <2>1, <3>1 DEF Told, Enqueues
    <3>5. FrameHolds(thread[t])'
      BY <3>1, <3>3, <3>4, <1>1, <1>2, <2>2 DEF FrameHolds, Kept, Enqueues, Removed
    <3>6. thread[t].answer # "accepted" /\ Follows(thread[t], thread'[t])
      BY <3>1, <3>3, <1>1 DEF Follows, FrameHolds, Removed
    <3> QED BY <2>1, <2>2, <3>2, <3>4, <3>5, <3>6, <1>2, QueueTraces, OneKeeps
  <2>5. CASE ~thread[t].removed
    <3>1. thread'[t] = Idle /\ \A u \in Threads : u # t => thread'[u] = thread[u]
      BY <2>1, <2>5, <1>1, IdleGives, GoesGives DEF Ends, TypeOK
    <3>2. ~Removed(thread[t])
      BY <2>5 DEF Removed
    <3> QED BY <2>1, <2>2, <2>3, <3>1, <3>2, <1>2, EndsKeeps
  <2> QED BY <2>4, <2>5
<1> QED BY <1>3, <1>4

LEMMA CompareKeeps ==
  ASSUME TInv, TypeOK', RecordsHold', NEW t \in Threads, Compare(t)
  PROVE  TInv'
<1>1. TypeOK /\ FrameHolds(thread[t]) /\ thread[t] \in Frames /\ RecordsHold /\ TracesHold
  BY DEF TInv, TypeOK, FramesHold
<1>2. /\ UNCHANGED <<kind, magic, history, queue, fault, answers, delivered, lost, denied>>
      /\ thread[t].at = "compare"
  BY DEF Compare, registry, results
<1> DEFINE x == IF history.fault THEN "none" ELSE history.log[born[thread[t].src]].state
<1>3. /\ thread'[t] = [thread[t] EXCEPT !.at = "export", !.state = x]
      /\ \A u \in Threads : u # t => thread'[u] = thread[u]
  BY <1>1 DEF Compare, Goes, TypeOK
<1>4. Removed(thread[t])
  BY <1>1, <1>2 DEF FrameHolds
<1>5. x = "none" => history.fault
  <2>1. history.log[born[thread[t].src]].state \in BirthStates
    BY <1>1, <1>4, SourceIsKnown DEF Carries, BirthRows
  <2> QED BY <2>1 DEF BirthStates
<1> HIDE DEF x
<1>6. thread'[t].at = "export" /\ Kept(thread[t], thread'[t]) /\ thread'[t].state = x
  BY <1>3, <1>1 DEF Frames, Kept
<1>7. FrameHolds(thread[t])'
  BY <1>1, <1>2, <1>4, <1>5, <1>6 DEF FrameHolds, Kept, Enqueues, Removed
<1> QED
  BY <1>2, <1>3, <1>6, <1>7, QueueTraces, OneKeeps DEF Follows

LEMMA ExportKeeps ==
  ASSUME TInv, TypeOK', RecordsHold', NEW t \in Threads, Export(t)
  PROVE  TInv'
<1>1. TypeOK /\ FrameHolds(thread[t]) /\ thread[t] \in Frames
  BY DEF TInv, TypeOK, FramesHold
<1>2. UNCHANGED <<kind, magic, history, queue, fault, denied>> /\ thread[t].at = "export"
  BY DEF Export
<1>3. Removed(thread[t]) /\ ~Enqueues(thread[t])
  BY <1>1, <1>2 DEF FrameHolds, Enqueues, Removed
<1>4. CASE Uncertain(t) /\ UNCHANGED delivered
  BY <1>2, <1>4, UncertainKeeps
<1>5. CASE ~(Uncertain(t) /\ UNCHANGED delivered)
  <2>1. Ends(t) /\ delivered' = delivered \o Observation(thread[t]) /\ UNCHANGED <<answers, lost>>
    BY <1>5 DEF Export
  <2>2. thread'[t] = Idle /\ \A u \in Threads : u # t => thread'[u] = thread[u]
    BY <2>1, <1>1, IdleGives, GoesGives DEF Ends, TypeOK
  <2>3. CASE thread[t].state = "none"
    <3>1. history.fault /\ delivered' = delivered
      BY <2>1, <2>3, <1>1, <1>2, ObservationGives DEF FrameHolds
    <3>2. answers' = Told(thread[t], "raw") /\ "raw" \in Answers
      BY <2>1, <1>3 DEF Told, Enqueues, Answers
    <3> QED BY <2>1, <2>2, <3>1, <3>2, <1>2, EndsKeeps
  <2>4. CASE thread[t].state # "none"
    <3> DEFINE d == [id |-> thread[t].id, src |-> thread[t].src, state |-> thread[t].state]
    <3>1. d \in Deliveries /\ delivered' = Append(delivered, d)
      BY <2>1, <2>4, <1>1, ObservationGives
    <3>2. Trace(d) = Trace(thread[t])
      BY DEF Trace
    <3> HIDE DEF d
    <3> QED BY <2>1, <2>2, <3>1, <3>2, <1>2, <1>3, DeliverKeeps
  <2> QED BY <2>3, <2>4
<1> QED
  BY <1>4, <1>5

\* Whatever the carrier answers, the envelope is delivered, or its consumer was
\* told a raw status, or it was denied.
LEMMA DispatchKeeps ==
  ASSUME TInv, TypeOK', RecordsHold', NEW t \in Threads, Dispatch(t)
  PROVE  TInv'
<1>1. TypeOK /\ FrameHolds(thread[t]) /\ thread[t] \in Frames
  BY DEF TInv, TypeOK, FramesHold
<1>2. UNCHANGED <<kind, magic, history, queue, fault>> /\ thread[t].at = "copy"
  BY DEF Dispatch
<1>3. Removed(thread[t]) /\ ~Enqueues(thread[t])
  BY <1>1, <1>2 DEF FrameHolds, Enqueues, Removed
<1>4. Ends(t) /\ UNCHANGED answers /\ lost \subseteq lost' /\ denied \subseteq denied'
  BY <1>3 DEF Dispatch, Publishes, Denies, Vanishes, MeetsQuarantine, CarrierFails, Uncertain,
              Told, Enqueues
<1>5. thread'[t] = Idle /\ \A u \in Threads : u # t => thread'[u] = thread[u]
  BY <1>4, <1>1, IdleGives, GoesGives DEF Ends, TypeOK
<1>6. CASE delivered' = Append(delivered, Published(thread[t]))
  <2>1. Published(thread[t]) \in Deliveries
    BY <1>1 DEF Published, Deliveries, Frames
  <2>2. Trace(Published(thread[t])) = Trace(thread[t])
    BY DEF Trace, Published
  <2> QED BY <1>2, <1>3, <1>4, <1>5, <1>6, <2>1, <2>2, DeliverKeeps
<1>7. CASE UNCHANGED delivered /\ thread[t].id \in lost' \cup denied'
  <2>1. answers' = Told(thread[t], "raw") /\ "raw" \in Answers
    BY <1>3, <1>4 DEF Told, Enqueues, Answers
  <2> QED BY <1>2, <1>4, <1>5, <1>7, <2>1, EndsKeeps
<1>8. \/ delivered' = Append(delivered, Published(thread[t]))
      \/ UNCHANGED delivered /\ thread[t].id \in lost' \cup denied'
  BY <1>3 DEF Dispatch, Publishes, Denies, Vanishes, MeetsQuarantine, CarrierFails, Uncertain,
              Removed
<1> QED
  BY <1>6, <1>7, <1>8

-----------------------------------------------------------------------------
(* The theorems.                                                             *)

LEMMA InitEstablishes == Init => TInv
<1> SUFFICES ASSUME Init PROVE TInv
  OBVIOUS
<1> USE DEF Init, Quarantines
<1>1. /\ queue = <<>> /\ delivered = <<>> /\ answers = <<>> /\ magic = <<>>
      /\ \A t \in Threads : thread[t] = Idle
  OBVIOUS
<1>2. /\ DOMAIN queue = {} /\ DOMAIN delivered = {} /\ DOMAIN answers = {} /\ DOMAIN magic = {}
      /\ Len(magic) = 0
  BY <1>1
<1>3. \A t \in Threads : ~Enqueues(thread[t]) /\ ~Removed(thread[t]) /\ FrameHolds(thread[t])
  BY <1>1, IdleGives DEF FrameHolds
<1>4. TypeOK
  <2>1. EmptyHistory \in Histories
    BY DEF EmptyHistory, Histories
  <2>2. thread \in [Threads -> Frames]
    BY IdleGives
  <2>3. /\ magic \in Seq({"READY", "CONSUMED"}) /\ queue \in Seq(Rows)
        /\ answers \in Seq({"pending", "accepted", "refused", "raw"})
        /\ delivered \in Seq([id : Nat, src : Nat, state : BirthStates \cup {"published"}])
    BY <1>1
  <2>5. born \in Seq(Nat)
    OBVIOUS
  <2>4. history \in Histories /\ lost \in SUBSET Nat /\ denied = {} /\ quarantine \in Quarantines
        /\ takes \in Nat /\ mishaps \in Nat
        /\ fault \in BOOLEAN /\ kind \in {"birth", "deferred"}
        /\ T \in Threads \cup {NoOne} /\ R \in Threads \cup {NoOne}
    BY <2>1
  <2> HIDE DEF Init
  <2> QED BY <2>2, <2>3, <2>4, <2>5 DEF TypeOK
<1>5. RecordsHold
  <2>1. born = <<>> /\ Len(born) = 0 /\ DOMAIN born = {}
    OBVIOUS
  <2> QED BY <1>2, <2>1 DEF RecordsHold
<1>6. FramesHold
  BY <1>3 DEF FramesHold
<1>7. QueueHolds /\ DeliveriesHold
  BY <1>2 DEF QueueHolds, DeliveriesHold
<1>8. CopiesHold /\ AcceptanceHolds
  BY <1>3 DEF CopiesHold, AcceptanceHolds
<1>9. TracesHold
  <2>1. Traces = {}
    BY <1>2, <1>3 DEF Traces, Carries
  <2> QED BY <2>1 DEF TracesHold
<1>10. OnlyDenialsAreSilent
  BY <1>2 DEF OnlyDenialsAreSilent
<1> QED
  BY <1>4, <1>5, <1>6, <1>7, <1>8, <1>9, <1>10 DEF TInv

LEMMA StutterKeeps ==
  ASSUME TInv, UNCHANGED vars
  PROVE  TInv'
<1>1. UNCHANGED <<kind, history, magic, born, queue, fault, T, R, thread, answers, delivered,
                  lost, denied, quarantine, takes, mishaps>>
  BY DEF vars
<1> QED
  BY <1>1 DEF TInv, TypeOK, RecordsHold, FramesHold, FrameHolds, QueueHolds, CopiesHold,
              DeliveriesHold, TracesHold, Traces, Carries, Enqueues, Removed, Sound,
              AcceptanceHolds, Somewhere, Present, OnlyDenialsAreSilent

LEMMA TransportInvariant == Spec => []TInv
<1>1. ASSUME TInv, [Next]_vars
      PROVE  TInv'
  <2>1. TypeOK' /\ RecordsHold'
    BY <1>1, TypeKeeps
  <2>2. CASE \E node \in Nodes : Birth(node) \/ Retirement(node)
    BY <1>1, <2>1, <2>2, RegistryKeeps
  <2>5. CASE \E s \in DOMAIN magic : Copy(s)
    BY <1>1, <2>1, <2>5, CopyKeeps
  <2>3. ASSUME NEW t \in Threads,
               \/ \E s \in DOMAIN magic : BeginEnqueue(t, s)
               \/ Enqueue(t) \/ AppendFails(t) \/ BeginTake(t) \/ Take(t) \/ TakeFails(t)
               \/ Acquire(t) \/ Release(t) \/ AcquireRegistry(t) \/ Compare(t) \/ Export(t)
               \/ Dispatch(t)
        PROVE  TInv'
    BY <1>1, <2>1, <2>3, BeginEnqueueKeeps, EnqueueKeeps, TakeKeeps, AcquireKeeps,
       ReleaseKeeps, CompareKeeps, ExportKeeps, DispatchKeeps
  <2>4. CASE UNCHANGED vars
    BY <1>1, <2>4, StutterKeeps
  <2> QED BY <1>1, <2>2, <2>3, <2>4, <2>5 DEF Next
<1> QED
  BY <1>1, InitEstablishes, PTL DEF Spec

\* Every word of the transports keeps its type, and every record describes a
\* birth of the history.
THEOREM TypeCorrect == Spec => [](TypeOK /\ RecordsHold)
<1>1. TInv => TypeOK /\ RecordsHold
  BY DEF TInv
<1> QED
  BY <1>1, TransportInvariant, PTL

\* No attempt is delivered twice, and one attempt at most of those with one
\* birth record object; a copy is an object of its own, and so is each
\* presentation of an envelope an attempt of its own.
THEOREM OneDelivery == Spec => []DeliveredOnce
<1>1. TInv => DeliveredOnce
  <2> SUFFICES ASSUME TInv, NEW i \in DOMAIN delivered, NEW j \in DOMAIN delivered
               PROVE  /\ delivered[i].id = delivered[j].id => i = j
                      /\ kind = "birth" /\ delivered[i].src = delivered[j].src => i = j
    BY DEF DeliveredOnce
  <2>1. delivered[i].id = delivered[j].id => i = j
    BY DEF TInv, DeliveriesHold
  <2>2. ASSUME kind = "birth", delivered[i].src = delivered[j].src
        PROVE  delivered[i].id = delivered[j].id
    <3>1. Trace(delivered[i]) \in Traces /\ Trace(delivered[j]) \in Traces
      BY TracesAre
    <3> QED BY <2>2, <3>1 DEF TInv, TracesHold, Trace
  <2> QED BY <2>1, <2>2
<1> QED
  BY <1>1, TransportInvariant, PTL

\* No consumer gets the record of a caller that was told zero.
THEOREM RefusalIsFinal == Spec => []RefusedIsNeverDelivered
<1>1. TInv => RefusedIsNeverDelivered
  BY DEF TInv, DeliveriesHold, Sound, RefusedIsNeverDelivered, Range
<1> QED
  BY <1>1, TransportInvariant, PTL

\* Nothing accepted is lost in silence but an envelope that the carrier denied.
THEOREM SilenceIsDenial == Spec => []OnlyDenialsAreSilent
<1>1. TInv => OnlyDenialsAreSilent
  BY DEF TInv
<1> QED
  BY <1>1, TransportInvariant, PTL
=============================================================================
