------------------------ MODULE NativeRegistry_proofs ------------------------
(****************************************************************************)
(* The registry for any number of threads, addresses, rows and mishaps:     *)
(* TLAPS proofs that births are observed while the history is healthy, that *)
(* a retirement is booked on the birth of its own incarnation, that what a  *)
(* caller is handed is what its own invocation saw under R, and that absent *)
(* is final.                                                                *)
(****************************************************************************)
EXTENDS NativeRegistry, FiniteSetTheorems, SequenceTheorems, TLAPS

Addresses == Nodes \cup {0}
Words == Engines \cup {0}
Verdicts == {"denied", "NODE_ABSENT", "MATCHING_FIELDS", "ENGINE_MISMATCH"}
Frames == [at : {"idle", "lock", "gate", "link", "observe", "unlink", "release", "complete"},
           kind : Registrations \cup Retirements \cup Readers \cup {"none"},
           tag : {"none", "ARMED", "CAPTURED"}, raw : {"unset", "zero", "error"},
           node : Addresses, engine : Words, inc : Nat, held : BOOLEAN,
           token : Nat, binding : Nat, owner : Nat,
           release : {"unseen", "zero", "error"}, bridge : {"none", "ENTERED", "INVALID"},
           verdict : Verdicts \cup {"none"}]
BornRows == [node : Addresses, engine : Words]
HistoryRows == [node : Addresses, engine : Words, inc : Nat, retired : Nat,
                state : {"NO_RETIREMENT_OBSERVED", "RETIREMENT_SELECTED"}]
Histories == [log : Seq(HistoryRows), fault : BOOLEAN]
BindingRows == [node : Addresses, engine : Words, inc : Nat, owner : Nat, receipt : Nat]
Bindings == [log : Seq(BindingRows), quarantine : BOOLEAN]
Exports == [kind : {"native", "BCAP", "GCAP"}, inc : Nat, held : BOOLEAN, left : BOOLEAN,
            engine : Words, token : Nat, binding : Nat, owner : Nat]
Answers == [inc : Nat, says : Verdicts \cup {"none"}]

TypeOK ==
  /\ ring \in Seq(Nat) /\ born \in Seq(BornRows) /\ holder \in Threads \cup {NoOne}
  /\ history \in Histories /\ bindings \in Bindings /\ receipts \in Seq(Nat) /\ serial \in Nat
  /\ thread \in [Threads -> Frames]
  /\ exports \in SUBSET Exports /\ audits \in SUBSET Answers
  /\ begun \in Nat /\ mishaps \in Nat

\* A registration whose node is linked, and one whose observer has run.
Carries(k) == k.kind \in Registrations /\ k.at \in {"observe", "release", "complete"}
Past(k) == k.kind \in Registrations /\ k.at \in {"release", "complete"}

\* Who has a witness owns R from the gate to its release.
OwnsR(t) ==
  /\ thread[t].at \in {"gate", "link", "observe", "unlink"} /\ Witnessed(thread[t]) => holder = t
  /\ thread[t].at = "complete" /\ thread[t].release = "zero" => holder # t

\* Only an admitted registration comes to the link, only a retirement unlinks,
\* and a reader goes by a pair that was bound.
Placed(t) ==
  /\ thread[t].at \in {"link", "observe"} =>
       thread[t].kind \in Registrations /\ Witnessed(thread[t])
  /\ thread[t].at = "unlink" => thread[t].kind \in Retirements
  /\ thread[t].kind \in Readers => thread[t].binding \in DOMAIN bindings.log

\* Until its observer has run, the address of a registration is its own.
OwnAddress(t) ==
  /\ thread[t].at = "link" => \A x \in Range(ring) : born[x].node # thread[t].node
  /\ thread[t].at = "observe" =>
       \A x \in Range(ring) : born[x].node = thread[t].node => x = thread[t].inc
  /\ Carries(thread[t]) =>
       /\ thread[t].inc \in DOMAIN born
       /\ thread[t].at = "observe" => born[thread[t].inc].node = thread[t].node

\* What the observer left in the frame is of the frame's own incarnation.
OwnRows(t) ==
  Past(thread[t]) =>
    /\ thread[t].held
    /\ thread[t].token # 0 => /\ thread[t].token \in DOMAIN history.log
                              /\ history.log[thread[t].token].inc = thread[t].inc
    /\ thread[t].binding # 0 => /\ thread[t].binding \in DOMAIN bindings.log
                                /\ bindings.log[thread[t].binding].inc = thread[t].inc
                                /\ bindings.log[thread[t].binding].owner = thread[t].owner

\* An audit that is about to answer absent has seen a ring without the node.
AbsentYet(t) ==
  thread[t].verdict = "NODE_ABSENT" =>
    /\ thread[t].kind \in Readers
    /\ bindings.log[thread[t].binding].inc \notin Range(ring)

FramesHold ==
  \A t \in Threads : OwnsR(t) /\ Placed(t) /\ OwnAddress(t) /\ OwnRows(t) /\ AbsentYet(t)

\* No two nodes of the ring share an address.
RingHolds ==
  /\ \A x \in Range(ring) : x \in DOMAIN born
  /\ \A x, y \in Range(ring) : born[x].node = born[y].node => x = y

\* A node of the ring whose observer has run has its row, and no older row
\* of its address is still outstanding.
UnderWay(x) == \E t \in Threads : thread[t].at = "observe" /\ thread[t].inc = x
Booked(x) ==
  /\ \E i \in DOMAIN history.log : history.log[i].inc = x
  /\ \A i \in Outstanding(history, born[x].node) : history.log[i].inc = x
HistoryHolds == ~history.fault => \A x \in Range(ring) : UnderWay(x) \/ Booked(x)

BindingsHold ==
  \A i \in DOMAIN bindings.log : /\ bindings.log[i].inc \in DOMAIN born
                                 /\ bindings.log[i].node = born[bindings.log[i].inc].node

\* An incarnation is in the hands of one registration, or was handed out.
IncsDiffer ==
  /\ \A t, u \in Threads :
       Carries(thread[t]) /\ Carries(thread[u]) /\ thread[t].inc = thread[u].inc => t = u
  /\ \A e \in exports, t \in Threads : Carries(thread[t]) => e.inc # thread[t].inc
  /\ \A e, f \in exports : e.inc = f.inc => e = f

HandedOut(e) ==
  /\ e.inc \in DOMAIN born /\ e.held /\ e.left
  /\ e.kind = "BCAP" => e.token \in DOMAIN history.log /\ history.log[e.token].inc = e.inc
  /\ e.kind = "GCAP" => /\ e.binding \in DOMAIN bindings.log
                        /\ bindings.log[e.binding].inc = e.inc
                        /\ bindings.log[e.binding].owner = e.owner
ExportsHold == \A e \in exports : HandedOut(e)

AuditsHold ==
  \A a \in audits : a.says = "NODE_ABSENT" => a.inc \in DOMAIN born /\ a.inc \notin Range(ring)

NInv ==
  /\ TypeOK
  /\ FramesHold
  /\ RingHolds
  /\ HistoryHolds
  /\ RetirementsFindTheirBirth
  /\ BindingsHold
  /\ IncsDiffer
  /\ ExportsHold
  /\ AuditsHold

-----------------------------------------------------------------------------
(* Sequences.                                                                *)

LEMMA AppendGives ==
  ASSUME NEW S, NEW s \in Seq(S), NEW e \in S
  PROVE  /\ Append(s, e) \in Seq(S)
         /\ Len(s) \in Nat /\ Len(Append(s, e)) = Len(s) + 1
         /\ DOMAIN s = 1 .. Len(s)
         /\ DOMAIN Append(s, e) = 1 .. Len(s) + 1
         /\ \A i \in DOMAIN s : i \in DOMAIN Append(s, e) /\ Append(s, e)[i] = s[i]
         /\ Append(s, e)[Len(s) + 1] = e
         /\ \A i \in DOMAIN Append(s, e) : i \in DOMAIN s \/ i = Len(s) + 1
  BY AppendProperties, LenProperties

LEMMA AppendRange ==
  ASSUME NEW S, NEW s \in Seq(S), NEW e \in S
  PROVE  \A x : x \in Range(Append(s, e)) <=> x \in Range(s) \/ x = e
<1>1. /\ DOMAIN s = 1 .. Len(s) /\ Len(s) \in Nat
      /\ DOMAIN Append(s, e) = 1 .. Len(s) + 1
      /\ \A i \in DOMAIN s : i \in DOMAIN Append(s, e) /\ Append(s, e)[i] = s[i]
      /\ Append(s, e)[Len(s) + 1] = e
      /\ \A i \in DOMAIN Append(s, e) : i \in DOMAIN s \/ i = Len(s) + 1
  BY AppendGives
<1>2. Len(s) + 1 \in DOMAIN Append(s, e)
  BY <1>1
<1> QED
  BY <1>1, <1>2, Zenon DEF Range

\* Removing an element leaves a sequence of the others.
LEMMA RemoveGives ==
  ASSUME NEW S, NEW s \in Seq(S), NEW i \in DOMAIN s
  PROVE  /\ RemoveAt(s, i) \in Seq(S)
         /\ \A x \in Range(RemoveAt(s, i)) : x \in Range(s)
<1>1. DOMAIN s = 1 .. Len(s) /\ Len(s) \in Nat
  BY LenProperties
<1>2. i - 1 \in 1 - 1 .. Len(s) /\ i + 1 \in 1 .. Len(s) + 1 /\ i \in Nat \ {0}
  BY <1>1
<1>3. /\ SubSeq(s, 1, i - 1) \in Seq(S)
      /\ Len(SubSeq(s, 1, i - 1)) = i - 1
      /\ \A j \in 1 .. i - 1 : SubSeq(s, 1, i - 1)[j] = s[j]
  BY <1>1, <1>2, SubSeqProperties
<1>4. /\ SubSeq(s, i + 1, Len(s)) \in Seq(S)
      /\ Len(SubSeq(s, i + 1, Len(s))) = Len(s) - i
      /\ \A j \in 1 .. Len(s) - i : SubSeq(s, i + 1, Len(s))[j] = s[i + j]
  BY <1>1, <1>2, SubSeqProperties
<1>5. /\ RemoveAt(s, i) \in Seq(S)
      /\ Len(RemoveAt(s, i)) = Len(s) - 1
      /\ \A j \in 1 .. Len(s) - 1 :
           RemoveAt(s, i)[j] = IF j <= i - 1 THEN SubSeq(s, 1, i - 1)[j]
                               ELSE SubSeq(s, i + 1, Len(s))[j - (i - 1)]
  <2> DEFINE a == SubSeq(s, 1, i - 1)
             b == SubSeq(s, i + 1, Len(s))
  <2>1. a \in Seq(S) /\ b \in Seq(S) /\ Len(a) = i - 1 /\ Len(b) = Len(s) - i
    BY <1>3, <1>4
  <2>2. RemoveAt(s, i) = a \o b
    BY DEF RemoveAt
  <2> HIDE DEF a, b
  <2>3. /\ a \o b \in Seq(S)
        /\ Len(a \o b) = Len(a) + Len(b)
        /\ \A j \in 1 .. Len(a) + Len(b) :
             (a \o b)[j] = IF j <= Len(a) THEN a[j] ELSE b[j - Len(a)]
    BY <2>1, ConcatProperties
  <2>4. Len(a) + Len(b) = Len(s) - 1
    BY <1>1, <1>2, <2>1
  <2>5. /\ RemoveAt(s, i) \in Seq(S)
        /\ Len(RemoveAt(s, i)) = Len(s) - 1
        /\ \A j \in 1 .. Len(s) - 1 :
             RemoveAt(s, i)[j] = IF j <= i - 1 THEN a[j] ELSE b[j - (i - 1)]
    BY <2>1, <2>2, <2>3, <2>4
  <2> QED
    BY <2>5 DEF a, b
<1>6. DOMAIN RemoveAt(s, i) = 1 .. Len(s) - 1
  BY <1>5, LenProperties
<1>7. ASSUME NEW j \in DOMAIN RemoveAt(s, i)
      PROVE  \E n \in DOMAIN s : RemoveAt(s, i)[j] = s[n]
  <2>1. CASE j <= i - 1
    BY <1>1, <1>2, <1>3, <1>5, <1>6, <2>1
  <2>2. CASE ~(j <= i - 1)
    <3>1. j - (i - 1) \in 1 .. Len(s) - i /\ i + (j - (i - 1)) = j + 1 /\ j + 1 \in DOMAIN s
      BY <1>1, <1>2, <1>6, <2>2
    <3>2. RemoveAt(s, i)[j] = SubSeq(s, i + 1, Len(s))[j - (i - 1)]
      BY <1>5, <1>6, <2>2
    <3> QED
      BY <1>4, <3>1, <3>2
  <2> QED
    BY <2>1, <2>2
<1>8. ASSUME NEW x \in Range(RemoveAt(s, i))
      PROVE  x \in Range(s)
  <2>1. PICK j \in DOMAIN RemoveAt(s, i) : x = RemoveAt(s, i)[j]
    BY Zenon DEF Range
  <2> QED
    BY <1>7, <2>1, Zenon DEF Range
<1> QED
  BY <1>5, <1>8

-----------------------------------------------------------------------------
(* What a step of one thread leaves to the others.                           *)

\* R changes hands only through its owner, the tables grow, and the ring gets
\* a fresh incarnation from the owner of R only.
Grows(t) ==
  /\ \A u \in Threads \ {t} : thread'[u] = thread[u] /\ (holder' = u <=> holder = u)
  /\ \A x \in DOMAIN born : x \in DOMAIN born' /\ born'[x] = born[x]
  /\ \A i \in DOMAIN history.log :
       i \in DOMAIN history'.log /\ history'.log[i].inc = history.log[i].inc
  /\ \A i \in DOMAIN bindings.log :
       i \in DOMAIN bindings'.log /\ bindings'.log[i] = bindings.log[i]
  /\ \A x \in Range(ring') : x \in Range(ring) \/ (x \notin DOMAIN born /\ holder = t)

Local(t) == OwnsR(t) /\ Placed(t) /\ OwnAddress(t) /\ OwnRows(t) /\ AbsentYet(t)

LEMMA OtherOwns ==
  ASSUME NEW t \in Threads, NEW u \in Threads \ {t}, Grows(t), OwnsR(u)
  PROVE  OwnsR(u)'
BY DEF Grows, OwnsR, Witnessed

LEMMA OtherPlaced ==
  ASSUME NEW t \in Threads, NEW u \in Threads \ {t}, Grows(t), Placed(u)
  PROVE  Placed(u)'
BY DEF Grows, Placed, Witnessed

LEMMA OtherRows ==
  ASSUME NEW t \in Threads, NEW u \in Threads \ {t}, Grows(t), OwnRows(u)
  PROVE  OwnRows(u)'
BY DEF Grows, OwnRows, Past

LEMMA OtherAddress ==
  ASSUME RingHolds, NEW t \in Threads, NEW u \in Threads \ {t}, Grows(t), OwnAddress(u),
         OwnsR(u), Placed(u)
  PROVE  OwnAddress(u)'
<1>1. thread'[u] = thread[u]
  BY DEF Grows
<1>2. ASSUME thread[u].at \in {"link", "observe"}
      PROVE  \A x \in Range(ring') : x \in Range(ring) /\ x \in DOMAIN born /\ born'[x] = born[x]
  <2>1. holder = u /\ u # t
    BY <1>2 DEF OwnsR, Placed
  <2> QED
    BY <2>1, Zenon DEF Grows, RingHolds
<1>3. Carries(thread[u]) => thread[u].inc \in DOMAIN born' /\ born'[thread[u].inc] = born[thread[u].inc]
  BY DEF Grows, OwnAddress
<1> QED
  BY <1>1, <1>2, <1>3 DEF OwnAddress

LEMMA OtherAbsent ==
  ASSUME BindingsHold, NEW t \in Threads, NEW u \in Threads \ {t}, Grows(t), AbsentYet(u), Placed(u)
  PROVE  AbsentYet(u)'
<1>1. thread'[u] = thread[u]
  BY DEF Grows
<1>2. CASE thread[u].verdict = "NODE_ABSENT"
  <2>1. thread[u].kind \in Readers /\ thread[u].binding \in DOMAIN bindings.log
    BY <1>2 DEF AbsentYet, Placed
  <2>2. bindings.log[thread[u].binding].inc \in DOMAIN born
    BY <2>1 DEF BindingsHold
  <2>3. bindings'.log[thread[u].binding] = bindings.log[thread[u].binding]
    BY <2>1 DEF Grows
  <2> QED
    BY <1>1, <1>2, <2>1, <2>2, <2>3, Zenon DEF Grows, AbsentYet
<1> QED
  BY <1>1, <1>2 DEF AbsentYet

LEMMA FramesKept ==
  ASSUME FramesHold, RingHolds, BindingsHold, NEW t \in Threads, Grows(t), Local(t)'
  PROVE  FramesHold'
<1> SUFFICES ASSUME NEW u \in Threads, u # t
             PROVE  Local(u)'
  BY Zenon DEF FramesHold, Local
<1>1. Local(u)
  BY DEF FramesHold, Local
<1> QED
  BY <1>1, OtherOwns, OtherPlaced, OtherRows, OtherAddress, OtherAbsent DEF Local

-----------------------------------------------------------------------------
(* Steps that observe nothing.                                               *)

Calm(t) ==
  /\ \A u \in Threads \ {t} : thread'[u] = thread[u] /\ (holder' = u <=> holder = u)
  /\ thread[t].at # "observe"
  /\ Carries(thread'[t]) => Carries(thread[t]) /\ thread'[t].inc = thread[t].inc
  /\ born' = born /\ \A x \in Range(ring') : x \in Range(ring)
  /\ history' = history /\ bindings'.log = bindings.log

LEMMA CalmGrows ==
  ASSUME NEW t \in Threads, Calm(t)
  PROVE  Grows(t)
BY DEF Calm, Grows

LEMMA RingKept ==
  ASSUME RingHolds, NEW t \in Threads, Calm(t)
  PROVE  RingHolds'
BY Zenon DEF RingHolds, Calm

LEMMA HistoryKept ==
  ASSUME HistoryHolds, NEW t \in Threads, Calm(t)
  PROVE  HistoryHolds'
<1> SUFFICES ASSUME ~history.fault, NEW x \in Range(ring')
             PROVE  UnderWay(x)' \/ Booked(x)'
  BY DEF HistoryHolds, Calm
<1>1. x \in Range(ring) /\ (UnderWay(x) \/ Booked(x))
  BY DEF HistoryHolds, Calm
<1>2. UnderWay(x) => UnderWay(x)'
  <2> SUFFICES ASSUME NEW u \in Threads, thread[u].at = "observe", thread[u].inc = x
               PROVE  UnderWay(x)'
    BY DEF UnderWay
  <2>1. u # t
    BY DEF Calm
  <2>2. thread'[u] = thread[u]
    BY <2>1 DEF Calm
  <2> QED
    BY <2>2 DEF UnderWay
<1>3. Booked(x) => Booked(x)'
  BY Zenon DEF Booked, Calm, Outstanding
<1> QED
  BY <1>1, <1>2, <1>3

LEMMA BindingsKept ==
  ASSUME BindingsHold, NEW t \in Threads, Calm(t)
  PROVE  BindingsHold'
BY DEF BindingsHold, Calm

LEMMA IncsKept ==
  ASSUME IncsDiffer, NEW t \in Threads, Calm(t), exports' = exports
  PROVE  IncsDiffer'
<1>1. \A u \in Threads : Carries(thread'[u]) => Carries(thread[u]) /\ thread'[u].inc = thread[u].inc
  BY DEF Calm
<1>2. \A u, v \in Threads :
        Carries(thread'[u]) /\ Carries(thread'[v]) /\ thread'[u].inc = thread'[v].inc => u = v
  BY <1>1 DEF IncsDiffer
<1>3. \A e \in exports, u \in Threads : Carries(thread'[u]) => e.inc # thread'[u].inc
  BY <1>1 DEF IncsDiffer
<1> QED
  BY <1>2, <1>3 DEF IncsDiffer, Carries

LEMMA ExportsKept ==
  ASSUME ExportsHold, NEW t \in Threads, Grows(t), NEW e \in exports
  PROVE  HandedOut(e)'
BY DEF ExportsHold, HandedOut, Grows

LEMMA AuditsKept ==
  ASSUME AuditsHold, NEW t \in Threads, Grows(t), NEW a \in audits, a.says = "NODE_ABSENT"
  PROVE  a.inc \in DOMAIN born' /\ a.inc \notin Range(ring')
BY DEF AuditsHold, Grows

LEMMA CalmKeeps ==
  ASSUME NInv, NEW t \in Threads, Calm(t), TypeOK', Local(t)',
         exports' = exports, audits' = audits
  PROVE  NInv'
<1>1. Grows(t)
  BY CalmGrows
<1>2. FramesHold'
  BY <1>1, FramesKept DEF NInv
<1>3. RingHolds' /\ HistoryHolds' /\ BindingsHold' /\ IncsDiffer'
  BY RingKept, HistoryKept, BindingsKept, IncsKept DEF NInv
<1>4. RetirementsFindTheirBirth'
  BY DEF NInv, Calm, RetirementsFindTheirBirth
<1>5. ExportsHold'
  <2> SUFFICES ASSUME NEW e \in exports
               PROVE  HandedOut(e)'
    BY Zenon DEF ExportsHold
  <2> QED
    BY <1>1, ExportsKept DEF NInv
<1>6. AuditsHold'
  BY <1>1, AuditsKept, Zenon DEF AuditsHold, NInv
<1> QED
  BY <1>2, <1>3, <1>4, <1>5, <1>6 DEF NInv

-----------------------------------------------------------------------------
(* The beginnings and the ends of invocations.                               *)

LEMMA IdleLocal ==
  ASSUME NEW t \in Threads, thread'[t].at = "idle", thread'[t].kind = "none",
         thread'[t].verdict = "none"
  PROVE  Local(t)'
BY DEF Local, OwnsR, Placed, OwnAddress, OwnRows, AbsentYet, Carries, Past,
       Registrations, Captures, Retirements, Readers

LEMMA LockLocal ==
  ASSUME NEW t \in Threads, thread'[t].at = "lock", thread'[t].verdict = "none",
         thread'[t].kind \in Readers => thread'[t].binding \in DOMAIN bindings'.log
  PROVE  Local(t)'
BY DEF Local, OwnsR, Placed, OwnAddress, OwnRows, AbsentYet, Carries, Past

LEMMA IdleFrame ==
  /\ Idle \in Frames
  /\ Idle.at = "idle" /\ Idle.kind = "none" /\ Idle.verdict = "none" /\ ~Carries(Idle)
BY DEF Idle, Frames, Carries, Addresses, Words, Registrations, Captures, Retirements, Readers

LEMMA GoesTo ==
  ASSUME TypeOK, NEW t \in Threads, NEW k \in Frames, Goes(t, k)
  PROVE  /\ thread' \in [Threads -> Frames] /\ thread'[t] = k
         /\ \A u \in Threads \ {t} : thread'[u] = thread[u]
BY DEF TypeOK, Goes

\* An invocation that ends.
LEMMA EndKeeps ==
  ASSUME NInv, NEW t \in Threads, Ends(t), thread[t].at # "observe",
         holder' \in Threads \cup {NoOne},
         \A u \in Threads \ {t} : holder' = u <=> holder = u,
         UNCHANGED <<ring, born, tables, exports, audits>>,
         begun' \in Nat, mishaps' \in Nat
  PROVE  NInv'
<1>1. /\ thread' \in [Threads -> Frames] /\ thread'[t] = Idle
      /\ \A u \in Threads \ {t} : thread'[u] = thread[u]
  BY GoesTo, IdleFrame DEF Ends, NInv
<1>2. TypeOK'
  BY <1>1 DEF TypeOK, NInv, tables
<1>3. Local(t)'
  BY <1>1, IdleLocal, IdleFrame
<1>4. Calm(t)
  BY <1>1, IdleFrame DEF Calm, tables
<1> QED
  BY <1>2, <1>3, <1>4, CalmKeeps

\* An invocation that begins.
LEMMA BeginKeeps ==
  ASSUME NInv, NEW t \in Threads, thread[t].at # "observe",
         NEW k \in Frames, Goes(t, k), k.at = "lock", k.verdict = "none",
         k.kind \in Readers => k.binding \in DOMAIN bindings.log,
         UNCHANGED <<ring, born, holder, tables, exports, audits>>,
         begun' \in Nat, mishaps' \in Nat
  PROVE  NInv'
<1>1. /\ thread' \in [Threads -> Frames] /\ thread'[t] = k
      /\ \A u \in Threads \ {t} : thread'[u] = thread[u]
  BY GoesTo DEF NInv
<1>2. TypeOK'
  BY <1>1 DEF TypeOK, NInv, tables
<1>3. Local(t)'
  BY <1>1, LockLocal DEF tables
<1>4. Calm(t)
  BY <1>1 DEF Calm, Carries, tables
<1> QED
  BY <1>2, <1>3, <1>4, CalmKeeps

LEMMA BeginsKeeps ==
  ASSUME NInv, NEW t \in Threads, NEW frame \in Frames, Begins(t, frame),
         frame.verdict = "none", frame.kind \notin Readers
  PROVE  NInv'
<1>1. PICK foreign \in BOOLEAN :
        /\ IF foreign THEN Mishap ELSE UNCHANGED mishaps
        /\ Goes(t, [frame EXCEPT !.at = "lock", !.tag = IF foreign THEN "none" ELSE "ARMED"])
  BY DEF Begins
<1>2. begun' \in Nat /\ mishaps' \in Nat
  BY <1>1 DEF Begins, Mishap, NInv, TypeOK
<1> DEFINE k == [frame EXCEPT !.at = "lock", !.tag = IF foreign THEN "none" ELSE "ARMED"]
<1>3. k \in Frames /\ k.at = "lock" /\ k.verdict = "none" /\ k.kind \notin Readers
  BY DEF Frames
<1>4. Goes(t, k)
  BY <1>1
<1> HIDE DEF k
<1>5. thread[t].at # "observe"
  BY DEF Begins
<1>6. UNCHANGED <<ring, born, holder, tables, exports, audits>>
  BY DEF Begins
<1> QED
  BY <1>2, <1>3, <1>4, <1>5, <1>6, BeginKeeps

LEMMA RegistrationBegins ==
  ASSUME NInv, NEW t \in Threads, NEW kind \in Registrations, BeginRegistration(t, kind)
  PROVE  NInv'
<1>1. PICK engine \in Engines :
        Begins(t, [Idle EXCEPT !.kind = kind, !.engine = engine,
                               !.bridge = IF kind = "construct" THEN "ENTERED" ELSE "none"])
  BY DEF BeginRegistration
<1> DEFINE k == [Idle EXCEPT !.kind = kind, !.engine = engine,
                             !.bridge = IF kind = "construct" THEN "ENTERED" ELSE "none"]
<1>2. k \in Frames /\ k.verdict = "none" /\ k.kind \notin Readers
  BY DEF Frames, Idle, Registrations, Captures, Readers, Words, Addresses
<1> QED
  BY <1>1, <1>2, BeginsKeeps

LEMMA RetirementBegins ==
  ASSUME NInv, NEW t \in Threads, NEW kind \in Retirements, BeginRetirement(t, kind)
  PROVE  NInv'
<1> DEFINE k == [Idle EXCEPT !.kind = kind]
<1>1. k \in Frames /\ k.verdict = "none" /\ k.kind \notin Readers
  BY DEF Frames, Idle, Retirements, Readers, Words, Addresses
<1>2. Begins(t, k)
  BY DEF BeginRetirement
<1> QED
  BY <1>1, <1>2, BeginsKeeps

LEMMA ReaderBegins ==
  ASSUME NInv, NEW t \in Threads, NEW kind \in Readers, BeginReader(t, kind)
  PROVE  NInv'
<1>1. PICK e \in {x \in exports : x.kind = "GCAP"} :
        Goes(t, [Idle EXCEPT !.at = "lock", !.kind = kind, !.tag = "ARMED",
                             !.binding = e.binding, !.owner = e.owner, !.engine = e.engine])
  BY DEF BeginReader
<1>2. e \in Exports /\ HandedOut(e) /\ e.kind = "GCAP"
  BY <1>1 DEF NInv, TypeOK, ExportsHold
<1> DEFINE k == [Idle EXCEPT !.at = "lock", !.kind = kind, !.tag = "ARMED",
                             !.binding = e.binding, !.owner = e.owner, !.engine = e.engine]
<1>3. k \in Frames /\ k.at = "lock" /\ k.verdict = "none" /\ k.binding = e.binding
  BY <1>2 DEF Frames, Idle, Exports, Readers, Words, Addresses
<1>4. k.binding \in DOMAIN bindings.log
  BY <1>2, <1>3 DEF HandedOut
<1>5. Goes(t, k)
  BY <1>1
<1> HIDE DEF k
<1>6. /\ begun' \in Nat /\ mishaps' \in Nat /\ thread[t].at # "observe"
      /\ UNCHANGED <<ring, born, holder, tables, exports, audits>>
  BY DEF BeginReader, NInv, TypeOK
<1> QED
  BY <1>3, <1>4, <1>5, <1>6, BeginKeeps

LEMMA RegistersAgain ==
  ASSUME NInv, NEW t \in Threads, RegisterAgain(t)
  PROVE  NInv'
<1> DEFINE k == [Idle EXCEPT !.at = "lock", !.kind = "construct", !.tag = "ARMED",
                             !.engine = thread[t].engine, !.bridge = "INVALID"]
<1>1. thread[t].engine \in Words
  BY DEF NInv, TypeOK, Frames
<1>2. k \in Frames /\ k.at = "lock" /\ k.verdict = "none" /\ k.kind \notin Readers
  BY <1>1 DEF Frames, Idle, Registrations, Captures, Readers, Addresses
<1>3. Goes(t, k)
  BY DEF RegisterAgain
<1> HIDE DEF k
<1>4. /\ begun' \in Nat /\ mishaps' \in Nat /\ thread[t].at # "observe"
      /\ UNCHANGED <<ring, born, holder, tables, exports, audits>>
  BY DEF RegisterAgain, NInv, TypeOK
<1> QED
  BY <1>2, <1>3, <1>4, BeginKeeps

LEMMA RefusalsKeep ==
  ASSUME NInv, NEW t \in Threads, RefuseRegistration(t) \/ RefuseDeletion(t) \/ AllocationFails(t)
  PROVE  NInv'
<1>1. /\ Ends(t) /\ thread[t].at # "observe" /\ holder' = holder
      /\ UNCHANGED <<ring, born, tables, exports, audits>> /\ begun' \in Nat
  BY DEF RefuseRegistration, RefuseDeletion, AllocationFails, NInv, TypeOK
<1>2. mishaps' \in Nat
  BY DEF RefuseRegistration, RefuseDeletion, AllocationFails, Mishap, NInv, TypeOK
<1>3. holder' \in Threads \cup {NoOne}
  BY <1>1 DEF NInv, TypeOK
<1> QED
  BY <1>1, <1>2, <1>3, EndKeeps

-----------------------------------------------------------------------------
(* The mutex.                                                                *)

LEMMA AcquireKeeps ==
  ASSUME NInv, NEW t \in Threads, Acquire(t)
  PROVE  NInv'
<1> DEFINE Captured(status) == [thread[t] EXCEPT !.at = "gate", !.raw = status,
                                  !.tag = IF @ = "ARMED" THEN "CAPTURED" ELSE "none"]
<1>0. /\ thread[t].at = "lock" /\ thread[t] \in Frames
      /\ UNCHANGED <<ring, born, tables, exports, audits, begun>> /\ mishaps' \in Nat
  BY DEF Acquire, NInv, TypeOK, Mishap
<1>1. CASE Ends(t)
  <2>1. /\ holder' \in Threads \cup {NoOne}
        /\ \A u \in Threads \ {t} : holder' = u <=> holder = u
    BY RegistryAssumption DEF Acquire, NInv, TypeOK
  <2> QED
    BY <1>0, <1>1, <2>1, EndKeeps DEF NInv, TypeOK
<1>2. ASSUME NEW status \in {"zero", "error"}, Goes(t, Captured(status)),
             status = "zero" => holder' = t
      PROVE  NInv'
  <2>1. /\ Captured(status) \in Frames /\ Captured(status).at = "gate"
        /\ Captured(status).raw = status
        /\ \A f \in {"kind", "inc", "verdict", "binding"} : Captured(status)[f] = thread[t][f]
    BY <1>0, ZenonT(40) DEF Frames
  <2>2. /\ thread' \in [Threads -> Frames] /\ thread'[t] = Captured(status)
        /\ \A u \in Threads \ {t} : thread'[u] = thread[u]
    BY <1>2, <2>1, GoesTo DEF NInv
  <2> HIDE DEF Captured
  <2>3. /\ thread'[t].at = "gate" /\ thread'[t].raw = status /\ thread'[t].kind = thread[t].kind
        /\ thread'[t].inc = thread[t].inc /\ thread'[t].verdict = thread[t].verdict
        /\ thread'[t].binding = thread[t].binding
    BY <2>1, <2>2
  <2>4. /\ holder' \in Threads \cup {NoOne}
        /\ \A u \in Threads \ {t} : holder' = u <=> holder = u
    BY RegistryAssumption DEF Acquire, NInv, TypeOK
  <2>5. TypeOK'
    BY <1>0, <2>2, <2>4 DEF TypeOK, NInv, tables
  <2>6. Placed(t) /\ AbsentYet(t)
    BY DEF NInv, FramesHold
  <2>7. Local(t)'
    BY <1>0, <1>2, <2>3, <2>6 DEF Local, OwnsR, Placed, OwnAddress, OwnRows, AbsentYet, Carries,
       Past, Witnessed, tables
  <2>8. Calm(t)
    BY <1>0, <2>2, <2>3, <2>4 DEF Calm, Carries, tables
  <2> QED
    BY <1>0, <2>5, <2>7, <2>8, CalmKeeps
<1> QED
  BY <1>1, <1>2 DEF Acquire

LEMMA ReleaseKeeps ==
  ASSUME NInv, NEW t \in Threads, Release(t)
  PROVE  NInv'
<1> DEFINE Told(status) == [thread[t] EXCEPT !.at = "complete", !.release = status]
<1>0. /\ thread[t].at = "release" /\ thread[t] \in Frames
      /\ UNCHANGED <<ring, born, tables, exports, audits, begun>> /\ mishaps' \in Nat
      /\ holder' \in {holder, IF holder = t THEN NoOne ELSE holder}
  BY DEF Release, NInv, TypeOK, Mishap
<1>1. /\ holder' \in Threads \cup {NoOne}
      /\ \A u \in Threads \ {t} : holder' = u <=> holder = u
  BY <1>0, RegistryAssumption DEF NInv, TypeOK
<1>2. CASE Ends(t)
  BY <1>0, <1>1, <1>2, EndKeeps DEF NInv, TypeOK
<1>3. ASSUME NEW status \in {"zero", "error", "unseen"}, Goes(t, Told(status)),
             status = "zero" => holder' # t
      PROVE  NInv'
  <2>1. /\ Told(status) \in Frames /\ Told(status).at = "complete"
        /\ Told(status).release = status
        /\ \A f \in {"kind", "inc", "verdict", "binding", "held", "token", "owner"} :
             Told(status)[f] = thread[t][f]
    BY <1>0 DEF Frames
  <2>2. /\ thread' \in [Threads -> Frames] /\ thread'[t] = Told(status)
        /\ \A u \in Threads \ {t} : thread'[u] = thread[u]
    BY <1>3, <2>1, GoesTo DEF NInv
  <2> HIDE DEF Told
  <2>3. /\ thread'[t].at = "complete" /\ thread'[t].release = status
        /\ thread'[t].kind = thread[t].kind
        /\ thread'[t].inc = thread[t].inc /\ thread'[t].verdict = thread[t].verdict
        /\ thread'[t].binding = thread[t].binding /\ thread'[t].held = thread[t].held
        /\ thread'[t].token = thread[t].token /\ thread'[t].owner = thread[t].owner
    BY <2>1, <2>2
  <2>5. TypeOK'
    BY <1>0, <1>1, <2>2 DEF TypeOK, NInv, tables
  <2>6. Placed(t) /\ AbsentYet(t) /\ OwnRows(t) /\ OwnAddress(t)
    BY DEF NInv, FramesHold
  <2>7. Local(t)'
    BY <1>0, <1>3, <2>3, <2>6 DEF Local, OwnsR, Placed, OwnAddress, OwnRows, AbsentYet, Carries,
       Past, tables
  <2>8. Calm(t)
    BY <1>0, <1>1, <2>2, <2>3 DEF Calm, Carries, tables
  <2> QED
    BY <1>0, <2>5, <2>7, <2>8, CalmKeeps
<1>4. (holder' = IF holder = t THEN NoOne ELSE holder) => holder' # t
  BY RegistryAssumption
<1> QED
  BY <1>2, <1>3, <1>4 DEF Release

-----------------------------------------------------------------------------
(* Steps behind the gate that observe nothing.                               *)

LEMMA MoveKeeps ==
  ASSUME NInv, NEW t \in Threads, NEW k \in Frames, Goes(t, k), thread[t].at # "observe",
         Carries(k) => Carries(thread[t]) /\ k.inc = thread[t].inc,
         Local(t)',
         ring' \in Seq(Nat), \A x \in Range(ring') : x \in Range(ring),
         bindings' \in Bindings, bindings'.log = bindings.log, mishaps' \in Nat,
         UNCHANGED <<born, holder, history, receipts, serial, exports, audits, begun>>
  PROVE  NInv'
<1>1. /\ thread' \in [Threads -> Frames] /\ thread'[t] = k
      /\ \A u \in Threads \ {t} : thread'[u] = thread[u]
  BY GoesTo DEF NInv
<1>2. TypeOK'
  BY <1>1 DEF TypeOK, NInv
<1>3. Calm(t)
  BY <1>1 DEF Calm
<1> QED
  BY <1>2, <1>3, CalmKeeps

LEMMA AllocateKeeps ==
  ASSUME NInv, NEW t \in Threads, Allocate(t)
  PROVE  NInv'
<1>1. PICK n \in Nodes : Free(n) /\ Goes(t, [thread[t] EXCEPT !.at = "link", !.node = n])
  BY DEF Allocate
<1> DEFINE k == [thread[t] EXCEPT !.at = "link", !.node = n]
<1>2. /\ thread[t] \in Frames /\ thread[t].at = "gate" /\ thread[t].kind \in Registrations
      /\ Witnessed(thread[t])
      /\ UNCHANGED <<ring, born, holder, history, bindings, receipts, serial, exports, audits,
                     begun, mishaps>>
  BY DEF Allocate, NInv, TypeOK, Admitted, Witnessed, tables
<1>3. /\ k \in Frames /\ k.at = "link" /\ k.node = n /\ k.kind = thread[t].kind
      /\ k.inc = thread[t].inc /\ k.tag = thread[t].tag /\ k.raw = thread[t].raw
      /\ k.verdict = thread[t].verdict /\ k.binding = thread[t].binding
  BY <1>2 DEF Frames, Addresses
<1>4. Goes(t, k)
  BY <1>1
<1> HIDE DEF k
<1>5. thread'[t] = k
  BY <1>3, <1>4, GoesTo DEF NInv
<1>6. \A x \in Range(ring) : born[x].node # n
  BY <1>1, Zenon DEF Free, Range
<1>7. OwnsR(t) /\ AbsentYet(t)
  BY DEF NInv, FramesHold
<1>8. thread[t].kind \notin Readers
  BY <1>2 DEF Registrations, Captures, Readers
<1>9. Local(t)'
  BY <1>2, <1>3, <1>5, <1>6, <1>7, <1>8 DEF Local, OwnsR, Placed, OwnAddress, OwnRows, AbsentYet,
     Carries, Past, Witnessed
<1>10. ring \in Seq(Nat) /\ bindings \in Bindings /\ mishaps \in Nat
  BY DEF NInv, TypeOK
<1> QED
  BY <1>2, <1>3, <1>4, <1>9, <1>10, MoveKeeps DEF Carries

LEMMA NothingFoundKeeps ==
  ASSUME NInv, NEW t \in Threads, NothingFound(t)
  PROVE  NInv'
<1> DEFINE k == [thread[t] EXCEPT !.at = "release", !.tag = "none"]
<1>2. /\ thread[t] \in Frames /\ thread[t].at = "gate" /\ thread[t].kind \in Retirements
      /\ UNCHANGED <<ring, born, holder, history, bindings, receipts, serial, exports, audits,
                     begun, mishaps>>
  BY DEF NothingFound, NInv, TypeOK, Retirements, tables
<1>3. /\ k \in Frames /\ k.at = "release" /\ k.kind = thread[t].kind
      /\ k.verdict = thread[t].verdict /\ k.binding = thread[t].binding
  BY <1>2 DEF Frames
<1>4. Goes(t, k)
  BY DEF NothingFound
<1> HIDE DEF k
<1>5. thread'[t] = k
  BY <1>3, <1>4, GoesTo DEF NInv
<1>6. AbsentYet(t)
  BY DEF NInv, FramesHold
<1>7. thread[t].kind \notin Readers /\ thread[t].kind \notin Registrations
  BY <1>2 DEF Registrations, Captures, Readers, Retirements
<1>8. Local(t)'
  BY <1>2, <1>3, <1>5, <1>6, <1>7 DEF Local, OwnsR, Placed, OwnAddress, OwnRows, AbsentYet,
     Carries, Past
<1>9. ring \in Seq(Nat) /\ bindings \in Bindings /\ mishaps \in Nat
  BY DEF NInv, TypeOK
<1> QED
  BY <1>2, <1>3, <1>4, <1>7, <1>8, <1>9, MoveKeeps DEF Carries

LEMMA UnlinkKeeps ==
  ASSUME NInv, NEW t \in Threads, Unlink(t)
  PROVE  NInv'
<1> DEFINE k == [thread[t] EXCEPT !.at = IF thread[t].kind = "teardown" THEN "gate" ELSE "release",
                                  !.inc = 0, !.node = 0]
<1>2. /\ thread[t] \in Frames /\ thread[t].at = "unlink"
      /\ UNCHANGED <<born, holder, history, bindings, receipts, serial, exports, audits,
                     begun, mishaps>>
  BY DEF Unlink, NInv, TypeOK, tables
<1>3. /\ k \in Frames /\ k.at \in {"gate", "release"} /\ k.kind = thread[t].kind
      /\ k.tag = thread[t].tag /\ k.raw = thread[t].raw
      /\ k.verdict = thread[t].verdict /\ k.binding = thread[t].binding
  BY <1>2 DEF Frames, Addresses
<1>4. Goes(t, k)
  BY DEF Unlink
<1> HIDE DEF k
<1>5. thread'[t] = k
  BY <1>3, <1>4, GoesTo DEF NInv
<1>6. OwnsR(t) /\ Placed(t) /\ AbsentYet(t)
  BY DEF NInv, FramesHold
<1>7. thread[t].kind \notin Readers /\ thread[t].kind \notin Registrations
  BY <1>2, <1>6 DEF Placed, Registrations, Captures, Readers, Retirements
<1>8. Local(t)'
  BY <1>2, <1>3, <1>5, <1>6, <1>7 DEF Local, OwnsR, Placed, OwnAddress, OwnRows, AbsentYet,
     Carries, Past, Witnessed
<1>9. ring \in Seq(Nat) /\ bindings \in Bindings /\ mishaps \in Nat
  BY DEF NInv, TypeOK
<1>10. ring' \in Seq(Nat) /\ \A x \in Range(ring') : x \in Range(ring)
  <2>1. CASE Alive(thread[t].inc)
    <3> DEFINE i == CHOOSE j \in DOMAIN ring : ring[j] = thread[t].inc
    <3>1. i \in DOMAIN ring
      BY <2>1, Zenon DEF Alive, Range
    <3>2. ring' = RemoveAt(ring, i)
      BY <2>1 DEF Unlink
    <3> HIDE DEF i
    <3> QED
      BY <1>9, <3>1, <3>2, RemoveGives
  <2>2. CASE ~Alive(thread[t].inc)
    BY <1>9, <2>2 DEF Unlink
  <2> QED
    BY <2>1, <2>2
<1> QED
  BY <1>2, <1>3, <1>4, <1>7, <1>8, <1>9, <1>10, MoveKeeps DEF Carries

LEMMA CarryKeeps ==
  ASSUME NInv, NEW t \in Threads, Carry(t)
  PROVE  NInv'
<1> DEFINE k == [thread[t] EXCEPT !.at = "release"]
<1>2. /\ thread[t] \in Frames /\ thread[t].at = "gate" /\ thread[t].kind = "carry"
      /\ UNCHANGED <<ring, born, holder, history, receipts, serial, exports, audits, begun>>
      /\ ring \in Seq(Nat) /\ mishaps' \in Nat
  BY DEF Carry, Mishap, NInv, TypeOK
<1>3. /\ k \in Frames /\ k.at = "release" /\ k.kind = thread[t].kind
      /\ k.verdict = thread[t].verdict /\ k.binding = thread[t].binding
  BY <1>2 DEF Frames
<1>4. Goes(t, k)
  BY DEF Carry
<1> HIDE DEF k
<1>5. thread'[t] = k
  BY <1>3, <1>4, GoesTo DEF NInv
<1>6. Placed(t) /\ AbsentYet(t)
  BY DEF NInv, FramesHold
<1>7. bindings' \in Bindings /\ bindings'.log = bindings.log
  BY DEF Carry, Quarantine, NInv, TypeOK, Bindings
<1>8. thread[t].kind \notin Registrations
  BY <1>2 DEF Registrations, Captures
<1>9. Local(t)'
  BY <1>2, <1>3, <1>5, <1>6, <1>7, <1>8 DEF Local, OwnsR, Placed, OwnAddress, OwnRows, AbsentYet,
     Carries, Past
<1> QED
  BY <1>2, <1>3, <1>4, <1>7, <1>8, <1>9, MoveKeeps DEF Carries

\* An audit says absent of nothing that is in the ring.
LEMMA AbsentIsAbsent ==
  ASSUME NInv, NEW t \in Threads, thread[t].kind \in Readers,
         Identity(thread[t]) = "NODE_ABSENT"
  PROVE  bindings.log[thread[t].binding].inc \notin Range(ring)
<1> DEFINE row == bindings.log[thread[t].binding]
           same == {inc \in Walked : born[inc].node = row.node}
<1>1. thread[t].binding \in DOMAIN bindings.log
  BY DEF NInv, FramesHold, Placed
<1>2. born[row.inc].node = row.node
  BY <1>1 DEF NInv, BindingsHold
<1>3. ~WalkRefused /\ same = {}
  BY DEF Identity
<1>4. \A x \in Range(ring) : x \in Walked
  <2>1. ring \in Seq(Nat) /\ MaxNodes \in Nat
    BY RegistryAssumption DEF NInv, TypeOK
  <2>2. \A j \in DOMAIN ring : j <= MaxNodes
    BY <1>3, <2>1, LenProperties DEF WalkRefused
  <2> QED
    BY <2>2, Zenon DEF Range, Walked
<1> QED
  BY <1>2, <1>3, <1>4

LEMMA AuditKeeps ==
  ASSUME NInv, NEW t \in Threads, Audit(t)
  PROVE  NInv'
<1> DEFINE k == [thread[t] EXCEPT !.at = "release", !.verdict = Identity(thread[t])]
<1>2. /\ thread[t] \in Frames /\ thread[t].at = "gate" /\ thread[t].kind = "audit"
      /\ UNCHANGED <<ring, born, holder, history, bindings, receipts, serial, exports, audits,
                     begun, mishaps>>
      /\ ring \in Seq(Nat) /\ bindings \in Bindings /\ mishaps \in Nat
  BY DEF Audit, NInv, TypeOK, tables
<1>3. Identity(thread[t]) \in Verdicts
  BY DEF Identity, Verdicts
<1>4. /\ k \in Frames /\ k.at = "release" /\ k.kind = thread[t].kind
      /\ k.verdict = Identity(thread[t]) /\ k.binding = thread[t].binding
  BY <1>2, <1>3 DEF Frames
<1>5. Goes(t, k)
  BY DEF Audit
<1> HIDE DEF k
<1>6. thread'[t] = k
  BY <1>4, <1>5, GoesTo DEF NInv
<1>7. Placed(t) /\ thread[t].kind \in Readers /\ thread[t].kind \notin Registrations
  BY <1>2 DEF NInv, FramesHold, Registrations, Captures, Readers
<1>8. Identity(thread[t]) = "NODE_ABSENT" => bindings.log[thread[t].binding].inc \notin Range(ring)
  BY <1>7, AbsentIsAbsent
<1>9. Local(t)'
  BY <1>2, <1>4, <1>6, <1>7, <1>8 DEF Local, OwnsR, Placed, OwnAddress, OwnRows, AbsentYet,
     Carries, Past
<1> QED
  BY <1>2, <1>4, <1>5, <1>7, <1>9, MoveKeeps DEF Carries

-----------------------------------------------------------------------------
(* The link of a new incarnation.                                            *)

LEMMA LinkKeeps ==
  ASSUME NInv, NEW t \in Threads, Link(t)
  PROVE  NInv'
<1> DEFINE n == Len(born) + 1
           r == [node |-> thread[t].node, engine |-> thread[t].engine]
           k == [thread[t] EXCEPT !.at = "observe", !.inc = n]
<1>1. /\ thread[t] \in Frames /\ thread[t].at = "link"
      /\ UNCHANGED <<holder, history, bindings, receipts, serial, exports, audits, begun, mishaps>>
      /\ ring \in Seq(Nat) /\ born \in Seq(BornRows)
  BY DEF Link, NInv, TypeOK, tables
<1>2. r \in BornRows /\ born' = Append(born, r)
  BY <1>1 DEF Link, BornRows, Frames
<1>3. /\ born' \in Seq(BornRows) /\ Len(born) \in Nat /\ Len(born') = n
      /\ DOMAIN born = 1 .. Len(born) /\ DOMAIN born' = 1 .. n
      /\ \A x \in DOMAIN born : x \in DOMAIN born' /\ born'[x] = born[x]
      /\ born'[n] = r
  BY <1>1, <1>2, AppendGives
<1>4. n \in Nat /\ n \notin DOMAIN born /\ n \in DOMAIN born'
  BY <1>3
<1>5. ring' = Append(ring, n) /\ Goes(t, k)
  BY <1>3 DEF Link
<1>6. ring' \in Seq(Nat) /\ \A x : x \in Range(ring') <=> x \in Range(ring) \/ x = n
  BY <1>1, <1>4, <1>5, AppendGives, AppendRange
<1>7. /\ k \in Frames /\ k.at = "observe" /\ k.inc = n /\ k.kind = thread[t].kind
      /\ k.tag = thread[t].tag /\ k.raw = thread[t].raw /\ k.node = thread[t].node
      /\ k.verdict = thread[t].verdict /\ k.binding = thread[t].binding
  BY <1>1, <1>4 DEF Frames
<1>8. r.node = thread[t].node
  OBVIOUS
<1> HIDE DEF k, r, n
<1>9. /\ thread' \in [Threads -> Frames] /\ thread'[t] = k
      /\ \A u \in Threads \ {t} : thread'[u] = thread[u]
  BY <1>5, <1>7, GoesTo DEF NInv
<1>10. /\ OwnsR(t) /\ Placed(t) /\ OwnAddress(t) /\ AbsentYet(t)
  BY DEF NInv, FramesHold
<1>11. thread[t].kind \in Registrations /\ thread[t].kind \notin Readers /\ Witnessed(thread[t])
       /\ holder = t
  BY <1>1, <1>10 DEF OwnsR, Placed, Registrations, Captures, Readers
<1>12. \A x \in Range(ring) : x \in DOMAIN born /\ born'[x] = born[x] /\ born[x].node # thread[t].node
  BY <1>1, <1>3, <1>10 DEF NInv, RingHolds, OwnAddress
<1>13. TypeOK'
  BY <1>1, <1>3, <1>6, <1>9 DEF NInv, TypeOK
<1>14. Grows(t)
  BY <1>1, <1>3, <1>4, <1>6, <1>9, <1>11 DEF Grows
<1>15. OwnAddress(t)'
  BY <1>3, <1>4, <1>6, <1>7, <1>8, <1>9, <1>12 DEF OwnAddress, Carries
<1>16. Local(t)'
  BY <1>1, <1>7, <1>9, <1>10, <1>11, <1>15 DEF Local, OwnsR, Placed, OwnRows, AbsentYet,
     Past, Witnessed
<1>17. FramesHold'
  BY <1>14, <1>16, FramesKept DEF NInv
<1>18. RingHolds'
  <2>1. \A x \in Range(ring') : x \in DOMAIN born'
    BY <1>3, <1>4, <1>6, <1>12
  <2>2. ASSUME NEW x \in Range(ring'), NEW y \in Range(ring'), born'[x].node = born'[y].node
        PROVE  x = y
    BY <1>3, <1>6, <1>8, <1>12, <2>2 DEF NInv, RingHolds
  <2> QED
    BY <2>1, <2>2 DEF RingHolds
<1>19. HistoryHolds'
  <2> SUFFICES ASSUME ~history.fault, NEW x \in Range(ring')
               PROVE  UnderWay(x)' \/ Booked(x)'
    BY <1>1 DEF HistoryHolds
  <2>1. CASE x = n
    BY <1>7, <1>9, <2>1 DEF UnderWay
  <2>2. CASE x # n
    <3>1. x \in Range(ring) /\ (UnderWay(x) \/ Booked(x))
      BY <1>6, <2>2 DEF NInv, HistoryHolds
    <3>2. born'[x] = born[x]
      BY <1>12, <3>1
    <3>3. UnderWay(x) => UnderWay(x)'
      BY <1>1, <1>9 DEF UnderWay
    <3>4. Booked(x) => Booked(x)'
      BY <1>1, <3>2, Zenon DEF Booked, Outstanding
    <3> QED
      BY <3>1, <3>3, <3>4
  <2> QED
    BY <2>1, <2>2
<1>20. RetirementsFindTheirBirth'
  BY <1>1 DEF NInv, RetirementsFindTheirBirth
<1>21. BindingsHold'
  BY <1>1, <1>3 DEF NInv, BindingsHold
<1>22. IncsDiffer'
  <2>1. \A u \in Threads : Carries(thread[u]) => thread[u].inc # n
    BY <1>4 DEF NInv, FramesHold, OwnAddress
  <2>2. \A u, v \in Threads :
          Carries(thread'[u]) /\ Carries(thread'[v]) /\ thread'[u].inc = thread'[v].inc => u = v
    BY <1>7, <1>9, <2>1 DEF NInv, IncsDiffer
  <2>3. \A e \in exports : e.inc # n
    BY <1>4 DEF NInv, ExportsHold, HandedOut
  <2>4. \A e \in exports, u \in Threads : Carries(thread'[u]) => e.inc # thread'[u].inc
    BY <1>7, <1>9, <2>3 DEF NInv, IncsDiffer
  <2> QED
    BY <1>1, <2>2, <2>4 DEF NInv, IncsDiffer, Carries
<1>23. ExportsHold'
  BY <1>1, <1>14, ExportsKept, Zenon DEF NInv, ExportsHold
<1>24. AuditsHold'
  BY <1>1, <1>14, AuditsKept, Zenon DEF NInv, AuditsHold
<1> QED
  BY <1>13, <1>17, <1>18, <1>19, <1>20, <1>21, <1>22, <1>23, <1>24 DEF NInv

-----------------------------------------------------------------------------
(* What is handed out.                                                       *)

LEMMA AnswerKeeps ==
  ASSUME NInv, NEW t \in Threads, Answer(t)
  PROVE  NInv'
<1>1. /\ thread[t] \in Frames /\ thread[t].at = "complete" /\ thread[t].kind \in Readers /\ Ends(t)
      /\ UNCHANGED <<ring, born, holder, history, bindings, receipts, serial, exports, begun, mishaps>>
  BY DEF Answer, NInv, TypeOK, tables
<1>2. /\ thread' \in [Threads -> Frames] /\ thread'[t] = Idle
      /\ \A u \in Threads \ {t} : thread'[u] = thread[u]
  BY <1>1, GoesTo, IdleFrame DEF Ends, NInv
<1>3. thread[t].binding \in DOMAIN bindings.log
  BY <1>1 DEF NInv, FramesHold, Placed
<1>4. bindings.log[thread[t].binding] \in BindingRows
  BY <1>3 DEF NInv, TypeOK, Bindings
<1> DEFINE a == [inc |-> bindings.log[thread[t].binding].inc, says |-> thread[t].verdict]
<1>5. a \in Answers /\ audits' \in {audits, audits \cup {a}}
  BY <1>1, <1>4 DEF Answer, Answers, BindingRows, Frames
<1>6. a.says = "NODE_ABSENT" => a.inc \in DOMAIN born /\ a.inc \notin Range(ring)
  BY <1>3 DEF NInv, BindingsHold, FramesHold, AbsentYet
<1> HIDE DEF a
<1>7. TypeOK'
  BY <1>1, <1>2, <1>5 DEF NInv, TypeOK
<1>8. Calm(t)
  BY <1>1, <1>2, IdleFrame DEF Calm
<1>9. Grows(t) /\ Local(t)'
  BY <1>2, <1>8, CalmGrows, IdleLocal, IdleFrame
<1>10. FramesHold'
  BY <1>9, FramesKept DEF NInv
<1>11. RingHolds' /\ HistoryHolds' /\ BindingsHold' /\ IncsDiffer'
  BY <1>1, <1>8, RingKept, HistoryKept, BindingsKept, IncsKept DEF NInv
<1>12. RetirementsFindTheirBirth'
  BY <1>1 DEF NInv, RetirementsFindTheirBirth
<1>13. ExportsHold'
  BY <1>1, <1>9, ExportsKept, Zenon DEF NInv, ExportsHold
<1>14. AuditsHold'
  BY <1>1, <1>5, <1>6 DEF NInv, AuditsHold
<1> QED
  BY <1>7, <1>10, <1>11, <1>12, <1>13, <1>14 DEF NInv

\* What a registration hands out is what its own frame says.
LEMMA HandedIs ==
  ASSUME NInv, NEW t \in Threads, thread[t].at = "complete", thread[t].kind \in Registrations,
         NEW e \in Handed(t, thread[t])
  PROVE  e \in Exports /\ HandedOut(e) /\ e.inc = thread[t].inc /\ Handed(t, thread[t]) = {e}
<1>1. thread[t] \in Frames
  BY DEF NInv, TypeOK
<1> DEFINE As(kind) == [kind |-> kind, inc |-> thread[t].inc, held |-> thread[t].held,
                        left |-> holder # t, engine |-> thread[t].engine,
                        token |-> thread[t].token, binding |-> thread[t].binding,
                        owner |-> thread[t].owner]
<1>2. /\ thread[t].release = "zero"
      /\ \/ Handed(t, thread[t]) = {As("native")}
         \/ Handed(t, thread[t]) = {As("BCAP")} /\ thread[t].token # 0
         \/ Handed(t, thread[t]) = {As("GCAP")} /\ thread[t].binding # 0
  <2>1. Handed(t, thread[t]) # {}
    OBVIOUS
  <2>2. thread[t].release = "zero"
    BY <2>1 DEF Handed, Released
  <2>3. Handed(t, thread[t]) =
          CASE thread[t].kind = "native" -> {As("native")}
            [] thread[t].kind = "birth" /\ thread[t].token # 0 -> {As("BCAP")}
            [] thread[t].kind = "register" /\ thread[t].binding # 0 -> {As("GCAP")}
            [] thread[t].kind = "construct" /\ thread[t].binding # 0
                 /\ thread[t].bridge = "ENTERED" -> {As("GCAP")}
            [] OTHER -> {}
    BY <2>2 DEF Handed, Released, BirthHands, RegistrationHands, ConstructorHands
  <2> HIDE DEF As
  <2>4. thread[t].kind \in {"native", "birth", "register", "construct"}
    BY DEF Registrations, Captures
  <2>5. CASE thread[t].kind = "native"
    BY <2>2, <2>3, <2>5
  <2>6. CASE thread[t].kind = "birth"
    BY <2>1, <2>2, <2>3, <2>6
  <2>7. CASE thread[t].kind = "register"
    BY <2>1, <2>2, <2>3, <2>7
  <2>8. CASE thread[t].kind = "construct"
    BY <2>1, <2>2, <2>3, <2>8
  <2> QED
    BY <2>4, <2>5, <2>6, <2>7, <2>8
<1>3. PICK kind \in {"native", "BCAP", "GCAP"} :
        /\ Handed(t, thread[t]) = {As(kind)}
        /\ kind = "BCAP" => thread[t].token # 0
        /\ kind = "GCAP" => thread[t].binding # 0
  BY <1>2
<1>4. e = As(kind)
  BY <1>3
<1>5. /\ e.kind = kind /\ e.inc = thread[t].inc /\ e.held = thread[t].held
      /\ e.left = (holder # t) /\ e.token = thread[t].token /\ e.binding = thread[t].binding
      /\ e.owner = thread[t].owner
  BY <1>4
<1>6. e \in Exports
  BY <1>1, <1>4 DEF Exports, Frames
<1> HIDE DEF As
<1>7. OwnsR(t) /\ OwnAddress(t) /\ OwnRows(t)
  BY DEF NInv, FramesHold
<1>8. /\ thread[t].inc \in DOMAIN born /\ thread[t].held /\ holder # t
      /\ thread[t].token # 0 => /\ thread[t].token \in DOMAIN history.log
                                /\ history.log[thread[t].token].inc = thread[t].inc
      /\ thread[t].binding # 0 => /\ thread[t].binding \in DOMAIN bindings.log
                                  /\ bindings.log[thread[t].binding].inc = thread[t].inc
                                  /\ bindings.log[thread[t].binding].owner = thread[t].owner
  BY <1>2, <1>7 DEF OwnsR, OwnAddress, OwnRows, Carries, Past
<1>9. HandedOut(e)
  BY <1>3, <1>5, <1>8 DEF HandedOut
<1> QED
  BY <1>3, <1>4, <1>5, <1>6, <1>9

LEMMA CompleteKeeps ==
  ASSUME NInv, NEW t \in Threads, Complete(t)
  PROVE  NInv'
<1>1. /\ thread[t] \in Frames /\ thread[t].at = "complete" /\ thread[t].kind \in Registrations
      /\ Ends(t)
      /\ UNCHANGED <<ring, born, holder, history, bindings, receipts, serial, audits, begun, mishaps>>
  BY DEF Complete, NInv, TypeOK, tables
<1>2. /\ thread' \in [Threads -> Frames] /\ thread'[t] = Idle
      /\ \A u \in Threads \ {t} : thread'[u] = thread[u]
  BY <1>1, GoesTo, IdleFrame DEF Ends, NInv
<1>3. exports' \in {exports, exports \cup Handed(t, thread[t])}
  BY DEF Complete
<1>4. ASSUME NEW e \in exports'
      PROVE  /\ e \in Exports /\ HandedOut(e)
             /\ e \in exports \/ (e.inc = thread[t].inc /\ Handed(t, thread[t]) = {e})
  <2>1. CASE e \in exports
    BY <2>1 DEF NInv, TypeOK, ExportsHold
  <2>2. CASE e \in Handed(t, thread[t])
    BY <1>1, <2>2, HandedIs
  <2> QED
    BY <1>3, <2>1, <2>2
<1>5. TypeOK'
  BY <1>1, <1>2, <1>4 DEF NInv, TypeOK
<1>6. Calm(t)
  BY <1>1, <1>2, IdleFrame DEF Calm
<1>7. Grows(t) /\ Local(t)'
  BY <1>2, <1>6, CalmGrows, IdleLocal, IdleFrame
<1>8. FramesHold'
  BY <1>7, FramesKept DEF NInv
<1>9. RingHolds' /\ HistoryHolds' /\ BindingsHold'
  BY <1>1, <1>6, RingKept, HistoryKept, BindingsKept DEF NInv
<1>10. RetirementsFindTheirBirth'
  BY <1>1 DEF NInv, RetirementsFindTheirBirth
<1>11. ExportsHold'
  <2>1. \A e \in exports' : HandedOut(e) => HandedOut(e)'
    BY <1>1 DEF HandedOut
  <2> QED
    BY <1>4, <2>1, Zenon DEF ExportsHold
<1>12. AuditsHold'
  BY <1>1 DEF NInv, AuditsHold
<1>13. IncsDiffer'
  <2>1. \A u \in Threads : Carries(thread'[u]) => u # t /\ Carries(thread[u]) /\ thread'[u] = thread[u]
    BY <1>2, IdleFrame
  <2>2. Carries(thread[t])
    BY <1>1 DEF Carries
  <2>3. \A u, v \in Threads :
          Carries(thread'[u]) /\ Carries(thread'[v]) /\ thread'[u].inc = thread'[v].inc => u = v
    BY <2>1 DEF NInv, IncsDiffer
  <2>4. \A e \in exports', u \in Threads : Carries(thread'[u]) => e.inc # thread'[u].inc
    BY <1>4, <2>1, <2>2 DEF NInv, IncsDiffer
  <2>5. \A e, f \in exports' : e.inc = f.inc => e = f
    BY <1>4, <2>2 DEF NInv, IncsDiffer
  <2> QED
    BY <2>3, <2>4, <2>5 DEF IncsDiffer, Carries
<1> QED
  BY <1>5, <1>8, <1>9, <1>10, <1>11, <1>12, <1>13 DEF NInv

-----------------------------------------------------------------------------
(* The history and the bindings.                                             *)

Events == [node : Addresses, engine : Words, inc : Nat]

\* A retirement takes no row away and, where the outstanding row of its
\* address is its own, writes its own incarnation.
Retires(h, g) ==
  /\ g \in Histories
  /\ h.fault => g = h
  /\ DOMAIN g.log = DOMAIN h.log
  /\ \A i \in DOMAIN h.log : /\ g.log[i].inc = h.log[i].inc /\ g.log[i].node = h.log[i].node
                             /\ g.log[i].state = "NO_RETIREMENT_OBSERVED" =>
                                  h.log[i].state = "NO_RETIREMENT_OBSERVED"
                             /\ g.log[i].retired \in {h.log[i].retired, h.log[i].inc}

LEMMA RetirementWrites ==
  ASSUME NEW h \in Histories, NEW event \in Events,
         ~h.fault => \A i \in Outstanding(h, event.node) : h.log[i].inc = event.inc
  PROVE  Retires(h, ObserveRetirement(h, event))
<1> DEFINE rows == Outstanding(h, event.node)
           row  == CHOOSE i \in rows : TRUE
           r == [h.log[row] EXCEPT !.state = "RETIREMENT_SELECTED", !.retired = event.inc]
           g == ObserveRetirement(h, event)
<1>1. CASE h.fault
  BY <1>1 DEF ObserveRetirement, Retires
<1>2. CASE ~h.fault /\ (Cardinality(rows) # 1 \/ h.log[row].engine # event.engine)
  <2>1. g = [h EXCEPT !.fault = TRUE]
    BY <1>2 DEF ObserveRetirement, Latched
  <2> HIDE DEF g
  <2>2. g \in Histories /\ g.log = h.log
    BY <2>1 DEF Histories
  <2> QED
    BY <1>2, <2>2 DEF Retires, g
<1>3. CASE ~h.fault /\ ~(Cardinality(rows) # 1 \/ h.log[row].engine # event.engine)
  <2>1. rows # {}
    BY <1>3, FS_EmptySet
  <2>2. row \in rows
    BY <2>1
  <2>3. row \in DOMAIN h.log /\ h.log[row].inc = event.inc
    BY <1>3, <2>2 DEF Outstanding
  <2>4. g = [h EXCEPT !.log = [h.log EXCEPT ![row] = r]]
    BY <1>3 DEF ObserveRetirement
  <2>5. h.log \in Seq(HistoryRows) /\ h.log[row] \in HistoryRows /\ event.inc \in Nat
    BY <2>3 DEF Histories, Events
  <2>6. /\ r \in HistoryRows /\ r.inc = h.log[row].inc /\ r.node = h.log[row].node
        /\ r.state = "RETIREMENT_SELECTED" /\ r.retired = h.log[row].inc
    BY <2>3, <2>5 DEF HistoryRows
  <2> DEFINE l == [h.log EXCEPT ![row] = r]
  <2> HIDE DEF r, row, rows, g
  <2>7. /\ l \in Seq(HistoryRows) /\ DOMAIN l = DOMAIN h.log /\ l[row] = r
        /\ \A i \in DOMAIN h.log : i # row => l[i] = h.log[i]
    BY <2>3, <2>5, <2>6, ExceptSeq
  <2>8. g \in Histories /\ g.log = l
    BY <2>4, <2>7 DEF Histories
  <2> HIDE DEF l
  <2>9. \A i \in DOMAIN h.log : l[i] = h.log[i] \/ (l[i] = r /\ i = row)
    BY <2>7
  <2> QED
    BY <1>3, <2>6, <2>7, <2>8, <2>9 DEF Retires, g
<1> QED
  BY <1>1, <1>2, <1>3

\* A birth is booked in the last row or ends the history.
Bears(h, g, event) ==
  /\ g \in Histories
  /\ \A i \in DOMAIN h.log : i \in DOMAIN g.log /\ g.log[i] = h.log[i]
  /\ \A i \in DOMAIN g.log :
       i \in DOMAIN h.log \/ (/\ g.log[i].inc = event.inc /\ g.log[i].node = event.node
                              /\ g.log[i].retired = 0)
  /\ ~g.fault => /\ ~h.fault /\ Outstanding(h, event.node) = {}
                 /\ \E i \in DOMAIN g.log : g.log[i].inc = event.inc
  /\ Token(h, g) \in Nat
  /\ Token(h, g) # 0 => Token(h, g) \in DOMAIN g.log /\ g.log[Token(h, g)].inc = event.inc

LEMMA BirthWrites ==
  ASSUME NEW h \in Histories, NEW event \in Events
  PROVE  Bears(h, ObserveBirth(h, event), event)
<1> DEFINE g == ObserveBirth(h, event)
           r == [node |-> event.node, engine |-> event.engine, inc |-> event.inc,
                 retired |-> 0, state |-> "NO_RETIREMENT_OBSERVED"]
<1>1. h.log \in Seq(HistoryRows) /\ Len(h.log) \in Nat
  BY LenProperties DEF Histories
<1>2. CASE g = h /\ h.fault
  <2> HIDE DEF g
  <2> QED
    BY <1>1, <1>2 DEF Bears, Token, g
<1>3. CASE g = [h EXCEPT !.fault = TRUE]
  <2> HIDE DEF g
  <2>1. g \in Histories /\ g.log = h.log /\ g.fault
    BY <1>3 DEF Histories
  <2> QED
    BY <1>1, <2>1 DEF Bears, Token, g
<1>4. CASE /\ g = [h EXCEPT !.log = Append(h.log, r)]
           /\ ~h.fault /\ Outstanding(h, event.node) = {}
  <2>1. r \in HistoryRows /\ r.inc = event.inc /\ r.node = event.node /\ r.retired = 0
    BY DEF Events, HistoryRows
  <2> HIDE DEF g, r
  <2>2. g \in Histories /\ g.log = Append(h.log, r) /\ g.fault = h.fault
    BY <1>1, <1>4, <2>1, AppendGives DEF Histories
  <2>3. /\ Len(g.log) = Len(h.log) + 1 /\ Len(g.log) \in DOMAIN g.log /\ g.log[Len(g.log)] = r
        /\ \A i \in DOMAIN h.log : i \in DOMAIN g.log /\ g.log[i] = h.log[i]
        /\ \A i \in DOMAIN g.log : i \in DOMAIN h.log \/ g.log[i] = r
    BY <1>1, <2>1, <2>2, AppendGives
  <2>4. Token(h, g) = Len(g.log) /\ Token(h, g) \in Nat
    BY <1>1, <2>3 DEF Token
  <2> QED
    BY <1>4, <2>1, <2>2, <2>3, <2>4 DEF Bears, g
<1> QED
  BY <1>2, <1>3, <1>4 DEF ObserveBirth, Latched

\* An owner that was issued is bound in the last row.
Binds(b, g, event) ==
  /\ g \in Bindings
  /\ \A i \in DOMAIN b.log : i \in DOMAIN g.log /\ g.log[i] = b.log[i]
  /\ \A i \in DOMAIN g.log :
       i \in DOMAIN b.log \/ (g.log[i].inc = event.inc /\ g.log[i].node = event.node)

BoundLast(g, event, owner) ==
  /\ Len(g.log) \in Nat /\ Len(g.log) \in DOMAIN g.log
  /\ g.log[Len(g.log)].inc = event.inc /\ g.log[Len(g.log)].owner = owner

LEMMA BindWrites ==
  ASSUME NEW b \in Bindings, NEW event \in Events, NEW receipt \in Nat, NEW owner \in Nat
  PROVE  /\ Binds(b, Bind(b, event, receipt, owner), event)
         /\ BoundLast(Bind(b, event, receipt, owner), event, owner)
<1> DEFINE g == Bind(b, event, receipt, owner)
           r == [node |-> event.node, engine |-> event.engine, inc |-> event.inc,
                 owner |-> owner, receipt |-> receipt]
<1>1. b.log \in Seq(BindingRows)
  BY DEF Bindings
<1>2. r \in BindingRows /\ r.inc = event.inc /\ r.node = event.node /\ r.owner = owner
  BY DEF Events, BindingRows
<1>3. g = [b EXCEPT !.log = Append(b.log, r)]
  BY DEF Bind
<1> HIDE DEF g, r
<1>4. g \in Bindings /\ g.log = Append(b.log, r)
  BY <1>1, <1>2, <1>3, AppendGives DEF Bindings
<1>5. /\ Len(g.log) \in Nat /\ Len(g.log) \in DOMAIN g.log /\ g.log[Len(g.log)] = r
      /\ \A i \in DOMAIN b.log : i \in DOMAIN g.log /\ g.log[i] = b.log[i]
      /\ \A i \in DOMAIN g.log : i \in DOMAIN b.log \/ g.log[i] = r
  BY <1>1, <1>2, <1>4, AppendGives
<1> QED
  BY <1>2, <1>4, <1>5 DEF Binds, BoundLast, g

-----------------------------------------------------------------------------
(* The frontier of a retirement.                                             *)

LEMMA FrontierKeeps ==
  ASSUME NInv, NEW t \in Threads, Frontier(t)
  PROVE  NInv'
<1>1. PICK i \in DOMAIN ring :
        LET chosen == [thread[t] EXCEPT !.inc = ring[i], !.node = born[ring[i]].node]
        IN  /\ history' = IF Witnessed(thread[t])
                          THEN ObserveRetirement(history, Event(chosen, born[ring[i]].engine))
                          ELSE history
            /\ Goes(t, [chosen EXCEPT !.at = IF thread[t].kind = "shutdown" THEN "release" ELSE "unlink",
                                      !.tag = IF thread[t].kind = "teardown" THEN @ ELSE "none"])
  BY DEF Frontier
<1> DEFINE x == ring[i]
           event == [node |-> born[x].node, engine |-> born[x].engine, inc |-> x]
           k == [thread[t] EXCEPT !.inc = x, !.node = born[x].node,
                   !.at = IF thread[t].kind = "shutdown" THEN "release" ELSE "unlink",
                   !.tag = IF thread[t].kind = "teardown" THEN @ ELSE "none"]
<1>2. /\ thread[t] \in Frames /\ thread[t].at = "gate" /\ thread[t].kind \in Retirements
      /\ UNCHANGED <<ring, born, holder, bindings, receipts, serial, exports, audits, begun, mishaps>>
      /\ history \in Histories
  BY DEF Frontier, NInv, TypeOK
<1>3. x \in Range(ring) /\ x \in DOMAIN born /\ x \in Nat
  <2>1. x \in Range(ring)
    BY Zenon DEF Range
  <2> QED
    BY <2>1 DEF NInv, RingHolds, TypeOK
<1>4. born[x] \in BornRows
  BY <1>3 DEF NInv, TypeOK
<1>5. event \in Events /\ event.node = born[x].node /\ event.inc = x
  BY <1>3, <1>4 DEF Events, BornRows
<1>6. history' = IF Witnessed(thread[t]) THEN ObserveRetirement(history, event) ELSE history
  <2> DEFINE chosen == [thread[t] EXCEPT !.inc = ring[i], !.node = born[ring[i]].node]
  <2>1. chosen.node = born[x].node /\ chosen.inc = x
    BY <1>2 DEF Frames
  <2>2. Event(chosen, born[x].engine) = event
    BY <2>1 DEF Event
  <2> QED
    BY <1>1, <2>2
<1>7. Goes(t, k)
  BY <1>1, <1>2 DEF Goes, Frames
<1>8. /\ k \in Frames /\ k.at \in {"release", "unlink"} /\ k.kind = thread[t].kind
      /\ k.tag \in {"none", thread[t].tag} /\ k.raw = thread[t].raw
      /\ k.verdict = thread[t].verdict /\ k.binding = thread[t].binding
  BY <1>2, <1>3, <1>4 DEF Frames, BornRows
<1> HIDE DEF k, event
<1>9. /\ thread' \in [Threads -> Frames] /\ thread'[t] = k
      /\ \A u \in Threads \ {t} : thread'[u] = thread[u]
  BY <1>7, <1>8, GoesTo DEF NInv
<1>10. OwnsR(t) /\ AbsentYet(t)
  BY DEF NInv, FramesHold
<1>11. thread[t].kind \notin Readers /\ thread[t].kind \notin Registrations
  BY <1>2 DEF Registrations, Captures, Readers, Retirements
<1>12. Retires(history, history')
  <2>1. CASE Witnessed(thread[t])
    <3>1. holder = t
      BY <1>2, <1>10, <2>1 DEF OwnsR
    <3>2. ~UnderWay(x)
      <4> SUFFICES ASSUME NEW u \in Threads, thread[u].at = "observe", thread[u].inc = x
                   PROVE  FALSE
        BY DEF UnderWay
      <4>1. OwnsR(u) /\ Placed(u)
        BY DEF NInv, FramesHold
      <4>2. holder = u
        BY <4>1 DEF OwnsR, Placed
      <4> QED
        BY <1>2, <3>1, <4>2
    <3>3. ~history.fault => Booked(x)
      BY <1>3, <3>2 DEF NInv, HistoryHolds
    <3>4. ~history.fault => \A j \in Outstanding(history, event.node) : history.log[j].inc = event.inc
      BY <1>5, <3>3 DEF Booked
    <3> QED
      BY <1>2, <1>5, <1>6, <2>1, <3>4, RetirementWrites
  <2>2. CASE ~Witnessed(thread[t])
    BY <1>2, <1>6, <2>2 DEF Retires
  <2> QED
    BY <2>1, <2>2
<1>13. history' \in Histories
  BY <1>12 DEF Retires
<1>14. TypeOK'
  BY <1>2, <1>9, <1>13 DEF NInv, TypeOK
<1>15. Grows(t)
  BY <1>2, <1>9, <1>12 DEF Grows, Retires
<1>16. Local(t)'
  BY <1>2, <1>8, <1>9, <1>10, <1>11 DEF Local, OwnsR, Placed, OwnAddress, OwnRows, AbsentYet,
     Carries, Past, Witnessed
<1>17. FramesHold'
  BY <1>15, <1>16, FramesKept DEF NInv
<1>18. RingHolds' /\ BindingsHold' /\ AuditsHold'
  BY <1>2 DEF NInv, RingHolds, BindingsHold, AuditsHold
<1>19. HistoryHolds'
  <2> SUFFICES ASSUME ~history'.fault, NEW y \in Range(ring)
               PROVE  UnderWay(y)' \/ Booked(y)'
    BY <1>2 DEF HistoryHolds
  <2>1. ~history.fault
    BY <1>12 DEF Retires
  <2>2. UnderWay(y) \/ Booked(y)
    BY <2>1 DEF NInv, HistoryHolds
  <2>3. UnderWay(y) => UnderWay(y)'
    BY <1>2, <1>9 DEF UnderWay
  <2>4. Booked(y) => Booked(y)'
    <3>1. \A j \in Outstanding(history', born[y].node) : j \in Outstanding(history, born[y].node)
      BY <1>12 DEF Outstanding, Retires
    <3> QED
      BY <1>2, <1>12, <3>1 DEF Booked, Retires, Outstanding
  <2> QED
    BY <2>2, <2>3, <2>4
<1>20. RetirementsFindTheirBirth'
  <2> SUFFICES ASSUME NEW j \in DOMAIN history'.log
               PROVE  history'.log[j].retired \in {0, history'.log[j].inc}
    BY Zenon DEF RetirementsFindTheirBirth, Range
  <2>1. j \in DOMAIN history.log
    BY <1>12 DEF Retires
  <2>2. history.log[j].retired \in {0, history.log[j].inc}
    BY <2>1, Zenon DEF NInv, RetirementsFindTheirBirth, Range
  <2> QED
    BY <1>12, <2>1, <2>2 DEF Retires
<1>21. IncsDiffer'
  <2>1. \A u \in Threads : Carries(thread'[u]) => Carries(thread[u]) /\ thread'[u].inc = thread[u].inc
    BY <1>8, <1>9, <1>11 DEF Carries
  <2>2. \A u, v \in Threads :
          Carries(thread'[u]) /\ Carries(thread'[v]) /\ thread'[u].inc = thread'[v].inc => u = v
    BY <2>1 DEF NInv, IncsDiffer
  <2>3. \A e \in exports, u \in Threads : Carries(thread'[u]) => e.inc # thread'[u].inc
    BY <2>1 DEF NInv, IncsDiffer
  <2> QED
    BY <1>2, <2>2, <2>3 DEF NInv, IncsDiffer, Carries
<1>22. ExportsHold'
  BY <1>2, <1>15, ExportsKept, Zenon DEF NInv, ExportsHold
<1> QED
  BY <1>14, <1>17, <1>18, <1>19, <1>20, <1>21, <1>22 DEF NInv

-----------------------------------------------------------------------------
(* The observer of a birth.                                                  *)

\* What an observation leaves: the history, the bindings and the frame.
Observed(t, event) ==
  /\ Bears(history, history', event) /\ Binds(bindings, bindings', event)
  /\ receipts' \in Seq(Nat) /\ serial' \in Nat /\ mishaps' \in Nat
  /\ thread' \in [Threads -> Frames] /\ \A u \in Threads \ {t} : thread'[u] = thread[u]
  /\ thread'[t].at = "release" /\ thread'[t].kind = thread[t].kind
  /\ thread'[t].inc = thread[t].inc /\ thread'[t].held = (holder = t)
  /\ thread'[t].verdict = thread[t].verdict
  /\ thread'[t].token \in {0, Token(history, history')}
  /\ thread'[t].binding # 0 => /\ thread'[t].binding = Len(bindings'.log)
                               /\ BoundLast(bindings', event, thread'[t].owner)

LEMMA ObserveWrites ==
  ASSUME NInv, NEW t \in Threads, Observe(t)
  PROVE  \E event \in Events : /\ event.node = thread[t].node /\ event.inc = thread[t].inc
                               /\ Observed(t, event)
<1> DEFINE receipt == Len(receipts) + 1
<1>1. /\ thread[t] \in Frames /\ thread[t].at = "observe" /\ Witnessed(thread[t])
      /\ history \in Histories /\ bindings \in Bindings /\ receipts \in Seq(Nat)
      /\ serial \in Nat /\ mishaps \in Nat
  BY DEF Observe, NInv, TypeOK, FramesHold, Placed
<1>2. receipt \in Nat
  BY <1>1, LenProperties
<1>3. PICK engine \in EngineWord(thread[t]), answer \in {"minted", "refused", "error"} :
        LET event == Event(thread[t], engine)
            bound == Issues(bindings, receipt) /\ answer = "minted"
        IN  /\ answer = "minted" => serial < TicketLimit
            /\ ~Issues(bindings, receipt) => answer = "refused"
            /\ IF answer = "error" THEN Mishap ELSE UNCHANGED mishaps
            /\ history' = Births(event)
            /\ bindings' = Issued(event, receipt, answer)
            /\ serial' = serial + (IF bound THEN 1 ELSE 0)
            /\ receipts' = Receive(receipts, event)
            /\ Goes(t, [thread[t] EXCEPT
                 !.at = "release", !.tag = "none", !.held = (holder = t),
                 !.token = BirthSink(thread[t], engine, Token(history, history')),
                 !.binding = IF bound THEN Sink(thread[t], engine, Len(bindings'.log)) ELSE 0,
                 !.owner = IF bound THEN Sink(thread[t], engine, serial') ELSE 0])
  BY <1>1, ZenonT(40) DEF Observe
<1> DEFINE event == Event(thread[t], engine)
           bound == Issues(bindings, receipt) /\ answer = "minted"
<1>4. engine \in Words
  <2>1. thread[t].inc \in DOMAIN born
    BY <1>1 DEF NInv, FramesHold, Placed, OwnAddress, Carries
  <2>2. born[thread[t].inc] \in BornRows
    BY <2>1 DEF NInv, TypeOK
  <2> QED
    BY <1>3, <2>2 DEF EngineWord, BornRows, Words
<1>5. event \in Events /\ event.node = thread[t].node /\ event.inc = thread[t].inc
  BY <1>1, <1>4 DEF Event, Events, Frames
<1> HIDE DEF event, receipt
<1>6. Bears(history, history', event)
  BY <1>1, <1>3, <1>5, BirthWrites DEF Births, event
<1>7. /\ Binds(bindings, bindings', event)
      /\ bound => BoundLast(bindings', event, serial') /\ serial' = serial + 1
  <2>1. CASE bound
    <3>1. serial' = serial + 1 /\ serial + 1 \in Nat
      BY <1>1, <1>3, <2>1
    <3>2. bindings' = Bind(bindings, event, receipt, serial + 1)
      BY <1>3, <2>1 DEF Issued, event
    <3> QED
      BY <1>1, <1>2, <1>5, <3>1, <3>2, BindWrites
  <2>2. CASE ~bound
    <3>1. bindings' \in {bindings, Quarantine(bindings)}
      BY <1>3, <2>2 DEF Issued, event
    <3>2. bindings' \in Bindings /\ bindings'.log = bindings.log
      BY <1>1, <3>1 DEF Quarantine, Bindings
    <3> QED
      BY <2>2, <3>2 DEF Binds
  <2> QED
    BY <2>1, <2>2
<1>8. receipts' \in Seq(Nat)
  BY <1>1, <1>3, <1>5, AppendGives DEF Receive, Events, event
<1>9. serial' \in Nat
  BY <1>1, <1>3
<1>10. mishaps' \in Nat
  BY <1>1, <1>3 DEF Mishap
<1> DEFINE token == BirthSink(thread[t], engine, Token(history, history'))
           binding == IF bound THEN Sink(thread[t], engine, Len(bindings'.log)) ELSE 0
           owner == IF bound THEN Sink(thread[t], engine, serial') ELSE 0
           k == [thread[t] EXCEPT !.at = "release", !.tag = "none", !.held = (holder = t),
                                  !.token = token, !.binding = binding, !.owner = owner]
<1>11. token \in {0, Token(history, history')} /\ token \in Nat
  BY <1>6 DEF BirthSink, Bears
<1>12. /\ binding \in Nat /\ owner \in Nat
       /\ binding # 0 => bound /\ binding = Len(bindings'.log) /\ owner = serial'
  BY <1>7, <1>9 DEF Sink, BoundLast
<1>13. Goes(t, k)
  BY <1>3
<1> HIDE DEF token, binding, owner
<1>14. /\ k \in Frames /\ k.at = "release" /\ k.kind = thread[t].kind /\ k.inc = thread[t].inc
       /\ k.held = (holder = t) /\ k.verdict = thread[t].verdict
       /\ k.token = token /\ k.binding = binding /\ k.owner = owner
  BY <1>1, <1>11, <1>12 DEF Frames
<1> HIDE DEF k
<1>15. /\ thread' \in [Threads -> Frames] /\ thread'[t] = k
       /\ \A u \in Threads \ {t} : thread'[u] = thread[u]
  BY <1>13, <1>14, GoesTo DEF NInv
<1>16. Observed(t, event)
  BY <1>6, <1>7, <1>8, <1>9, <1>10, <1>11, <1>12, <1>14, <1>15 DEF Observed
<1> QED
  BY <1>5, <1>16

LEMMA ObserveKeeps ==
  ASSUME NInv, NEW t \in Threads, Observe(t)
  PROVE  NInv'
<1>1. PICK event \in Events : /\ event.node = thread[t].node /\ event.inc = thread[t].inc
                              /\ Observed(t, event)
  BY ObserveWrites
<1>2. /\ thread[t].at = "observe"
      /\ UNCHANGED <<ring, born, holder, exports, audits, begun>>
  BY DEF Observe
<1>3. OwnsR(t) /\ Placed(t) /\ OwnAddress(t) /\ AbsentYet(t)
  BY DEF NInv, FramesHold
<1>4. /\ thread[t].kind \in Registrations /\ thread[t].kind \notin Readers /\ holder = t
      /\ thread[t].inc \in DOMAIN born /\ born[thread[t].inc].node = thread[t].node
      /\ \A x \in Range(ring) : born[x].node = thread[t].node => x = thread[t].inc
  BY <1>2, <1>3 DEF OwnsR, Placed, OwnAddress, Carries, Registrations, Captures, Readers
<1>5. /\ thread' \in [Threads -> Frames] /\ \A u \in Threads \ {t} : thread'[u] = thread[u]
      /\ thread'[t].at = "release" /\ thread'[t].kind = thread[t].kind
      /\ thread'[t].inc = thread[t].inc
  BY <1>1 DEF Observed
<1>6. Bears(history, history', event) /\ Binds(bindings, bindings', event)
  BY <1>1 DEF Observed
<1>7. TypeOK'
  BY <1>1, <1>2 DEF NInv, TypeOK, Observed, Bears, Binds
<1>8. Grows(t)
  BY <1>2, <1>5, <1>6 DEF Grows, Bears, Binds
<1>9. OwnRows(t)'
  <2>1. thread'[t].held
    BY <1>1, <1>4 DEF Observed
  <2>2. thread'[t].token # 0 => /\ thread'[t].token \in DOMAIN history'.log
                                /\ history'.log[thread'[t].token].inc = thread'[t].inc
    BY <1>1, <1>5, <1>6 DEF Observed, Bears
  <2>3. thread'[t].binding # 0 => /\ thread'[t].binding \in DOMAIN bindings'.log
                                  /\ bindings'.log[thread'[t].binding].inc = thread'[t].inc
                                  /\ bindings'.log[thread'[t].binding].owner = thread'[t].owner
    BY <1>1, <1>5 DEF Observed, BoundLast
  <2> QED
    BY <2>1, <2>2, <2>3 DEF OwnRows
<1>10. AbsentYet(t)'
  BY <1>1, <1>3, <1>4 DEF AbsentYet, Observed
<1>11. Local(t)'
  BY <1>2, <1>4, <1>5, <1>9, <1>10 DEF Local, OwnsR, Placed, OwnAddress, Carries
<1>12. FramesHold'
  BY <1>8, <1>11, FramesKept DEF NInv
<1>13. RingHolds' /\ AuditsHold'
  BY <1>2 DEF NInv, RingHolds, AuditsHold
<1>14. HistoryHolds'
  <2> SUFFICES ASSUME ~history'.fault, NEW x \in Range(ring)
               PROVE  UnderWay(x)' \/ Booked(x)'
    BY <1>2 DEF HistoryHolds
  <2>1. /\ ~history.fault /\ Outstanding(history, event.node) = {}
        /\ \E i \in DOMAIN history'.log : history'.log[i].inc = event.inc
    BY <1>6 DEF Bears
  <2>2. \A i \in Outstanding(history', born[x].node) :
          \/ i \in Outstanding(history, born[x].node) /\ history'.log[i] = history.log[i]
          \/ history'.log[i].inc = event.inc /\ born[x].node = event.node
    BY <1>6 DEF Bears, Outstanding
  <2>3. CASE x = thread[t].inc
    <3>1. \A i \in Outstanding(history', born[x].node) : history'.log[i].inc = x
      BY <1>1, <1>4, <2>1, <2>2, <2>3
    <3> QED
      BY <1>1, <1>2, <2>1, <2>3, <3>1 DEF Booked
  <2>4. CASE x # thread[t].inc
    <3>1. born[x].node # event.node
      BY <1>1, <1>4, <2>4
    <3>2. UnderWay(x) \/ Booked(x)
      BY <2>1 DEF NInv, HistoryHolds
    <3>3. UnderWay(x) => UnderWay(x)'
      BY <1>5, <2>4 DEF UnderWay
    <3>4. Booked(x) => Booked(x)'
      <4> SUFFICES ASSUME Booked(x)
                   PROVE  Booked(x)'
        OBVIOUS
      <4>1. \A i \in Outstanding(history', born[x].node) : history'.log[i].inc = x
        BY <2>2, <3>1 DEF Booked
      <4>2. \E i \in DOMAIN history'.log : history'.log[i].inc = x
        BY <1>6 DEF Booked, Bears
      <4> QED
        BY <1>2, <4>1, <4>2 DEF Booked
    <3> QED
      BY <3>2, <3>3, <3>4
  <2> QED
    BY <2>3, <2>4
<1>15. RetirementsFindTheirBirth'
  <2> SUFFICES ASSUME NEW j \in DOMAIN history'.log
               PROVE  history'.log[j].retired \in {0, history'.log[j].inc}
    BY Zenon DEF RetirementsFindTheirBirth, Range
  <2>1. CASE j \in DOMAIN history.log
    <3>1. history.log[j].retired \in {0, history.log[j].inc}
      BY <2>1, Zenon DEF NInv, RetirementsFindTheirBirth, Range
    <3> QED
      BY <1>6, <2>1, <3>1 DEF Bears
  <2>2. CASE j \notin DOMAIN history.log
    BY <1>6, <2>2 DEF Bears
  <2> QED
    BY <2>1, <2>2
<1>16. BindingsHold'
  <2> SUFFICES ASSUME NEW i \in DOMAIN bindings'.log
               PROVE  /\ bindings'.log[i].inc \in DOMAIN born
                      /\ bindings'.log[i].node = born[bindings'.log[i].inc].node
    BY <1>2 DEF BindingsHold
  <2>1. CASE i \in DOMAIN bindings.log
    BY <1>6, <2>1 DEF Binds, NInv, BindingsHold
  <2>2. CASE i \notin DOMAIN bindings.log
    BY <1>1, <1>4, <1>6, <2>2 DEF Binds
  <2> QED
    BY <2>1, <2>2
<1>17. IncsDiffer'
  <2>1. \A u \in Threads : Carries(thread'[u]) => Carries(thread[u]) /\ thread'[u].inc = thread[u].inc
    BY <1>2, <1>5 DEF Carries
  <2>2. \A u, v \in Threads :
          Carries(thread'[u]) /\ Carries(thread'[v]) /\ thread'[u].inc = thread'[v].inc => u = v
    BY <2>1 DEF NInv, IncsDiffer
  <2>3. \A e \in exports, u \in Threads : Carries(thread'[u]) => e.inc # thread'[u].inc
    BY <2>1 DEF NInv, IncsDiffer
  <2> QED
    BY <1>2, <2>2, <2>3 DEF NInv, IncsDiffer, Carries
<1>18. ExportsHold'
  BY <1>2, <1>8, ExportsKept, Zenon DEF NInv, ExportsHold
<1> QED
  BY <1>7, <1>12, <1>13, <1>14, <1>15, <1>16, <1>17, <1>18 DEF NInv

-----------------------------------------------------------------------------
(* The invariant.                                                            *)

LEMMA InitHolds == Init => NInv
<1> SUFFICES ASSUME Init
             PROVE  NInv
  OBVIOUS
<1>1. /\ <<>> \in Seq(Nat) /\ <<>> \in Seq(BornRows) /\ <<>> \in Seq(HistoryRows)
      /\ <<>> \in Seq(BindingRows) /\ DOMAIN <<>> = {} /\ Range(<<>>) = {}
  BY EmptySeq, LenProperties DEF Range
<1>2. TypeOK
  BY <1>1, IdleFrame DEF Init, TypeOK, EmptyHistory, NoBindings, Histories, Bindings
<1>3. /\ \A t \in Threads : thread[t] = Idle
      /\ ring = <<>> /\ history.log = <<>> /\ bindings.log = <<>> /\ exports = {} /\ audits = {}
  BY DEF Init, EmptyHistory, NoBindings
<1>4. FramesHold
  BY <1>3 DEF FramesHold, Idle, OwnsR, Placed, OwnAddress, OwnRows, AbsentYet, Carries, Past,
     Registrations, Captures, Readers, Retirements
<1>5. IncsDiffer
  BY <1>3, IdleFrame DEF IncsDiffer
<1> QED
  BY <1>1, <1>2, <1>3, <1>4, <1>5 DEF NInv, RingHolds, HistoryHolds, RetirementsFindTheirBirth,
     BindingsHold, ExportsHold, AuditsHold

LEMMA StepKeeps ==
  ASSUME NInv, NEW t \in Threads, Step(t)
  PROVE  NInv'
<1>1. ASSUME NEW kind \in Registrations, BeginRegistration(t, kind) PROVE NInv'
  BY <1>1, RegistrationBegins
<1>2. ASSUME NEW kind \in Retirements, BeginRetirement(t, kind) PROVE NInv'
  BY <1>2, RetirementBegins
<1>3. ASSUME NEW kind \in Readers, BeginReader(t, kind) PROVE NInv'
  BY <1>3, ReaderBegins
<1>4. CASE Acquire(t)
  BY <1>4, AcquireKeeps
<1>5. CASE RefuseRegistration(t) \/ RefuseDeletion(t) \/ AllocationFails(t)
  BY <1>5, RefusalsKeep
<1>6. CASE Allocate(t)
  BY <1>6, AllocateKeeps
<1>7. CASE Link(t)
  BY <1>7, LinkKeeps
<1>8. CASE Observe(t)
  BY <1>8, ObserveKeeps
<1>9. CASE NothingFound(t)
  BY <1>9, NothingFoundKeeps
<1>10. CASE Frontier(t)
  BY <1>10, FrontierKeeps
<1>11. CASE Unlink(t)
  BY <1>11, UnlinkKeeps
<1>12. CASE Audit(t)
  BY <1>12, AuditKeeps
<1>13. CASE Carry(t)
  BY <1>13, CarryKeeps
<1>14. CASE Release(t)
  BY <1>14, ReleaseKeeps
<1>15. CASE Complete(t)
  BY <1>15, CompleteKeeps
<1>16. CASE RegisterAgain(t)
  BY <1>16, RegistersAgain
<1>17. CASE Answer(t)
  BY <1>17, AnswerKeeps
<1> QED
  BY <1>1, <1>2, <1>3, <1>4, <1>5, <1>6, <1>7, <1>8, <1>9, <1>10, <1>11, <1>12, <1>13, <1>14,
     <1>15, <1>16, <1>17, Zenon DEF Step

LEMMA StutterKeeps ==
  ASSUME NInv, UNCHANGED vars
  PROVE  NInv'
<1>0. UNCHANGED <<ring, born, holder, history, bindings, receipts, serial, thread, exports, audits,
                  begun, mishaps>>
  BY DEF vars, tables
<1>1. TypeOK'
  BY <1>0 DEF NInv, TypeOK
<1>2. FramesHold'
  BY <1>0 DEF NInv, FramesHold, OwnsR, Placed, OwnAddress, OwnRows, AbsentYet, Carries, Past,
     Witnessed
<1>3. RingHolds' /\ RetirementsFindTheirBirth' /\ BindingsHold' /\ AuditsHold'
  BY <1>0 DEF NInv, RingHolds, RetirementsFindTheirBirth, BindingsHold, AuditsHold
<1>4. HistoryHolds'
  BY <1>0 DEF NInv, HistoryHolds, UnderWay, Booked, Outstanding
<1>5. IncsDiffer' /\ ExportsHold'
  BY <1>0 DEF NInv, IncsDiffer, Carries, ExportsHold, HandedOut
<1> QED
  BY <1>1, <1>2, <1>3, <1>4, <1>5 DEF NInv

\* The registry stays in range and every table, frame and export tells of the
\* incarnation it was written for, for every number of threads, addresses and
\* rows and however often services fail.
THEOREM RegistryInvariant == Spec => []NInv
<1>1. NInv /\ [Next]_vars => NInv'
  <2> SUFFICES ASSUME NInv, [Next]_vars
               PROVE  NInv'
    OBVIOUS
  <2>1. CASE Next
    BY <2>1, StepKeeps DEF Next
  <2>2. CASE UNCHANGED vars
    BY <2>2, StutterKeeps
  <2> QED
    BY <2>1, <2>2
<1> QED
  BY <1>1, InitHolds, PTL DEF Spec

\* While the history is healthy, every node of the ring has its row or the
\* observer of its registration has still to run.
THEOREM BirthsAlwaysObserved == Spec => []BirthsAreObserved
<1>1. NInv => BirthsAreObserved
  <2> SUFFICES ASSUME NInv, ~history.fault, NEW i \in DOMAIN ring
               PROVE  \/ \E t \in Threads : thread[t].at = "observe" /\ thread[t].inc = ring[i]
                      \/ \E r \in Range(history.log) : r.inc = ring[i]
    BY DEF BirthsAreObserved
  <2>1. ring[i] \in Range(ring)
    BY Zenon DEF Range
  <2>2. UnderWay(ring[i]) \/ Booked(ring[i])
    BY <2>1 DEF NInv, HistoryHolds
  <2> QED
    BY <2>2, Zenon DEF UnderWay, Booked, Range
<1> QED
  BY <1>1, RegistryInvariant, PTL

\* A retirement is booked on the birth of its own incarnation.
THEOREM RetirementsAlwaysMatch == Spec => []RetirementsFindTheirBirth
<1>1. NInv => RetirementsFindTheirBirth
  BY DEF NInv
<1> QED
  BY <1>1, RegistryInvariant, PTL

\* Callers are handed what their own invocation observed under R, and never
\* the row of another.
THEOREM ExportsAlwaysHonest == Spec => []ExportsAreHonest
<1>1. NInv => ExportsAreHonest
  BY DEF NInv, ExportsHold, HandedOut, IncsDiffer, ExportsAreHonest
<1> QED
  BY <1>1, RegistryInvariant, PTL

\* What an audit reports absent is never in the ring again.
THEOREM AbsentStaysAbsent == Spec => []AbsentForGood
<1>1. NInv => AbsentForGood
  BY DEF NInv, AuditsHold, AbsentForGood, Alive
<1> QED
  BY <1>1, RegistryInvariant, PTL
=============================================================================
