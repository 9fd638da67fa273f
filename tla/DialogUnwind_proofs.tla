-------------------------- MODULE DialogUnwind_proofs --------------------------
(****************************************************************************)
(* The retention gate and the stock frames around it, for any number of     *)
(* threads, attempts and frames: TLAPS proofs of the gate's safety and of   *)
(* its refinement of RetentionLock, and, on top of them, that DialogUnwind  *)
(* implements RetentionGate and that a failure stops the whole chain of     *)
(* frames it concerns.                                                      *)
(****************************************************************************)
EXTENDS DialogUnwind, SequenceTheorems, TLAPS

-------------------------------------------------------------------------------
(* The gate: the inductive invariant of RetentionGate.                      *)

(* The frames a thread may have: none, one it claimed for, or a facade that *)
(* waits for the close it lent its claim to.                                *)
Shape(s) ==
    \/ s = <<>>
    \/ Len(s) = 1 /\ s[1].stamp = "own"
    \/ /\ Len(s) = 2
       /\ s[1] = Frame("facade", "own")
       /\ s[2].stamp = "borrowed"
       /\ s[2].result # "pending"

ShapesHold == \A p \in Threads : Shape(frames[p])

(* A thread in a tail has a frame of its own that is ready to leave.        *)
TailsHold ==
    \A p \in Threads : pc[p] \in {"leave_ll", "leave_sc", "quarantine"} =>
        /\ Len(frames[p]) = 1
        /\ frames[p][1].stamp = "own"
        /\ frames[p][1].result # "pending"

(* A loop has attempts left while it runs.                                  *)
AttemptsHold ==
    \A p \in Threads :
        pc[p] \in {"enter_ll", "enter_sc", "leave_ll", "leave_sc"} => left[p] >= 1

(* What a standing reservation tells its thread about the word.             *)
LinksHold ==
    \A p \in Threads : link[p] =>
        /\ pc[p] = "enter_sc" => word = "READY"
        /\ pc[p] = "leave_sc" => word = "BUSY"

(* At most one thread is admitted, and a free word admits none.             *)
Exclusive ==
    /\ \A p, q \in Owners : p = q
    /\ word = "READY" => Owners = {}

(* An error in a frame was preceded by the quarantine of the word.          *)
ErrorsQuarantine ==
    \A p \in Threads : \A i \in 1 .. Len(frames[p]) :
        frames[p][i].result = "error" => word = "QUARANTINED"

IInv ==
    /\ TypeOK
    /\ ShapesHold
    /\ TailsHold
    /\ AttemptsHold
    /\ LinksHold
    /\ Exclusive
    /\ BusyHasOwner
    /\ ErrorsQuarantine
    /\ ErrorsAreReported

-------------------------------------------------------------------------------

(* Constructed frames are frames.                                           *)
LEMMA FrameFields ==
    ASSUME NEW kind \in Kinds, NEW stamp \in {"own", "borrowed"}
    PROVE  /\ Frame(kind, stamp) \in Frames
           /\ Frame(kind, stamp).kind = kind
           /\ Frame(kind, stamp).stamp = stamp
           /\ Frame(kind, stamp).result = IF kind = "facade" THEN "pending" ELSE "native"
BY DEF Frame, Frames, Results

(* The effect of a pop on a short stack.                                    *)
LEMMA PopShort ==
    ASSUME NEW s \in Seq(Frames), Len(s) \in {1, 2}
    PROVE  /\ SubSeq(s, 1, Len(s) - 1) \in Seq(Frames)
           /\ Len(SubSeq(s, 1, Len(s) - 1)) = Len(s) - 1
           /\ Len(s) = 1 => SubSeq(s, 1, Len(s) - 1) = <<>>
           /\ Len(s) = 2 => SubSeq(s, 1, Len(s) - 1)[1] = s[1]
<1> DEFINE n == Len(s) - 1
           r == SubSeq(s, 1, n)
<1>1. n \in Int /\ \A i \in 1 .. n : s[i] \in Frames
  BY ElementOfSeq
<1>2. /\ r \in Seq(Frames)
      /\ Len(r) = IF 1 <= n THEN n - 1 + 1 ELSE 0
      /\ \A i \in 1 .. n - 1 + 1 : r[i] = s[1 + i - 1]
  <2> HIDE DEF n
  <2> QED
    BY <1>1, SubSeqProperties
<1>3. Len(s) = 1 => r = <<>>
  BY SubSeqEmpty
<1>4. CASE Len(s) = 1
  BY <1>3, <1>4, EmptySeq
<1>5. CASE Len(s) = 2
  BY <1>2, <1>5
<1>6. Len(s) = 1 \/ Len(s) = 2
  OBVIOUS
<1> QED
  BY <1>4, <1>5, <1>6

(* A sequence with an element is not the empty one.                         *)
LEMMA NonemptyByLength ==
    ASSUME NEW s, Len(s) = 1
    PROVE  s # <<>>
<1>1. Len(<<>>) = 0
  BY EmptySeq
<1> QED
  BY <1>1

(* The effect of a push on a short stack.                                   *)
LEMMA PushShort ==
    ASSUME NEW s \in Seq(Frames), NEW f \in Frames
    PROVE  /\ Append(s, f) \in Seq(Frames)
           /\ Len(Append(s, f)) = Len(s) + 1
           /\ Append(s, f)[Len(s) + 1] = f
           /\ \A i \in 1 .. Len(s) : Append(s, f)[i] = s[i]
           /\ Append(s, f) # <<>>
BY AppendProperties

(* The effect of writing the result of the innermost frame.                 *)
LEMMA ResultShort ==
    ASSUME NEW s \in Seq(Frames), Len(s) \in {1, 2}, NEW r \in Results
    PROVE  LET t == [s EXCEPT ![Len(s)].result = r] IN
           /\ t \in Seq(Frames)
           /\ Len(t) = Len(s)
           /\ t # <<>>
           /\ t[Len(s)].result = r
           /\ t[Len(s)].kind = s[Len(s)].kind
           /\ t[Len(s)].stamp = s[Len(s)].stamp
           /\ Len(s) = 2 => t[1] = s[1]
<1> DEFINE f == [s[Len(s)] EXCEPT !.result = r]
           t == [s EXCEPT ![Len(s)].result = r]
<1>1. s[Len(s)] \in Frames
  OBVIOUS
<1>2. f \in Frames /\ f.result = r /\ f.kind = s[Len(s)].kind /\ f.stamp = s[Len(s)].stamp
  BY <1>1 DEF Frames
<1>3. t = [s EXCEPT ![Len(s)] = f]
  OBVIOUS
<1>4. t \in Seq(Frames) /\ Len(t) = Len(s) /\ t[Len(s)] = f /\ (Len(s) = 2 => t[1] = s[1])
  <2> HIDE DEF f, t
  <2>1. Len(s) \in 1 .. Len(s)
    <3>1. CASE Len(s) = 1
      BY <3>1
    <3>2. CASE Len(s) = 2
      BY <3>2
    <3>3. Len(s) = 1 \/ Len(s) = 2
      OBVIOUS
    <3> QED
      BY <3>1, <3>2, <3>3
  <2>2. /\ t \in Seq(Frames) /\ Len(t) = Len(s)
        /\ \A j \in 1 .. Len(s) : t[j] = IF j = Len(s) THEN f ELSE s[j]
    BY <1>2, <1>3, <2>1, ExceptSeq
  <2> QED
    BY <2>1, <2>2
<1>5. t # <<>>
  BY <1>4, EmptySeq
<1> QED
  BY <1>2, <1>4, <1>5
-------------------------------------------------------------------------------

(* Everything starts in native code with a free word.                       *)
LEMMA InitInvariant == Init => IInv
<1> SUFFICES ASSUME Init PROVE IInv
  OBVIOUS
<1>1. frames \in [Threads -> Seq(Frames)] /\ \A p \in Threads : frames[p] = <<>> /\ Len(frames[p]) = 0
  BY EmptySeq DEF Init
<1>2. TypeOK
  BY <1>1, RetriesAssumption DEF Init, TypeOK, Labels, Kinds, Results
<1> QED
  BY <1>1, <1>2 DEF Init, IInv, ShapesHold, Shape, TailsHold, AttemptsHold, LinksHold, Exclusive, Owners,
     BusyHasOwner, ErrorsQuarantine, ErrorsAreReported

(* What only reads the word and the frames keeps what is said of them.      *)
LEMMA QuietStep ==
    ASSUME IInv, UNCHANGED <<word, frames, masked>>,
           TypeOK', TailsHold', AttemptsHold', LinksHold'
    PROVE  IInv'
BY DEF IInv, ShapesHold, Shape, Exclusive, Owners, BusyHasOwner, ErrorsQuarantine,
   ErrorsAreReported

(* A return to native code clears the registers.                            *)
LEMMA ToNativeTypes ==
    ASSUME TypeOK, NEW p \in Threads, ToNative(p)
    PROVE  /\ pc' \in [Threads -> Labels] /\ pc'[p] = "native"
           /\ entering' \in [Threads -> Kinds]
           /\ left' \in [Threads -> 0 .. Retries]
           /\ \A q \in Threads \ {p} : pc'[q] = pc[q] /\ left'[q] = left[q]
<1>1. 0 \in 0 .. Retries
  BY RetriesAssumption
<1> QED
  BY <1>1 DEF TypeOK, ToNative, Labels, Kinds

LEMMA EnterKeeps ==
    ASSUME IInv, NEW p \in Threads, NEW kind \in Kinds, Enter(p, kind)
    PROVE  IInv'
<1> USE DEF IInv, Enter, TypeOK
<1>1. TypeOK'
  BY RetriesAssumption DEF Labels
<1>2. TailsHold'
  BY DEF TailsHold
<1>3. AttemptsHold'
  BY RetriesAssumption DEF AttemptsHold
<1>4. LinksHold'
  BY DEF LinksHold
<1> QED
  BY <1>1, <1>2, <1>3, <1>4, QuietStep

LEMMA EnterLLKeeps ==
    ASSUME IInv, NEW p \in Threads, EnterLL(p)
    PROVE  IInv'
<1> USE DEF IInv, EnterLL, TypeOK
<1>1. TypeOK'
  <2>1. ASSUME Denied(word) PROVE TypeOK'
    BY <2>1, ToNativeTypes
  <2>2. ASSUME ~Denied(word) PROVE TypeOK'
    BY <2>2 DEF Labels
  <2> QED
    BY <2>1, <2>2
<1> USE DEF ToNative
<1>2. TailsHold'
  BY DEF TailsHold
<1>3. AttemptsHold'
  BY DEF AttemptsHold
<1>4. LinksHold'
  BY DEF LinksHold, Denied
<1> QED
  BY <1>1, <1>2, <1>3, <1>4, QuietStep

LEMMA EnterSCFailsKeeps ==
    ASSUME IInv, NEW p \in Threads, EnterSCFails(p)
    PROVE  IInv'
<1> USE DEF IInv, EnterSCFails, TypeOK
<1>1. TypeOK'
  <2>1. ASSUME left[p] = 1 PROVE TypeOK'
    BY <2>1, ToNativeTypes
  <2>2. ASSUME left[p] # 1 PROVE TypeOK'
    <3>1. left[p] - 1 \in 0 .. Retries
      BY RetriesAssumption DEF AttemptsHold
    <3> QED
      BY <2>2, <3>1 DEF Labels
  <2> QED
    BY <2>1, <2>2
<1> USE DEF ToNative
<1>2. TailsHold'
  BY DEF TailsHold
<1>3. AttemptsHold'
  BY DEF AttemptsHold
<1>4. LinksHold'
  BY DEF LinksHold
<1> QED
  BY <1>1, <1>2, <1>3, <1>4, QuietStep

LEMMA LeaveKeeps ==
    ASSUME IInv, NEW p \in Threads, Leave(p)
    PROVE  IInv'
<1> USE DEF IInv, Leave, TypeOK
<1>1. TypeOK'
  BY RetriesAssumption DEF Labels
<1>2. Len(frames[p]) = 1 /\ frames[p][1].stamp = "own" /\ frames[p][1].result # "pending"
  BY DEF ShapesHold, Shape, Top
<1>3. TailsHold'
  BY <1>2 DEF TailsHold
<1>4. AttemptsHold'
  BY RetriesAssumption DEF AttemptsHold
<1>5. LinksHold'
  BY DEF LinksHold
<1> QED
  BY <1>1, <1>3, <1>4, <1>5, QuietStep

LEMMA LeaveSCFailsRetries ==
    ASSUME IInv, NEW p \in Threads, LeaveSCFails(p)
    PROVE  IInv'
<1> USE DEF IInv, LeaveSCFails, TypeOK, GiveUp
<1>1. TypeOK'
  <2>1. left[p] - 1 \in 0 .. Retries
    BY RetriesAssumption DEF AttemptsHold
  <2> QED
    BY <2>1 DEF Labels
<1>2. TailsHold'
  BY DEF TailsHold
<1>3. AttemptsHold'
  BY DEF AttemptsHold
<1>4. LinksHold'
  BY DEF LinksHold
<1> QED
  BY <1>1, <1>2, <1>3, <1>4, QuietStep

-------------------------------------------------------------------------------

(* The frames of one thread are replaced.                                   *)
LEMMA FramesStep ==
    ASSUME IInv, NEW p \in Threads, NEW s \in Seq(Frames), Len(s) <= 2,
           frames' = [frames EXCEPT ![p] = s]
    PROVE  /\ frames' \in [Threads -> Seq(Frames)]
           /\ \A q \in Threads : frames'[q] = IF q = p THEN s ELSE frames[q]
           /\ \A q \in Threads : Len(frames'[q]) <= 2
           /\ s = <<>> => Owners' = Owners \ {p}
           /\ s # <<>> => Owners' = Owners \cup {p}
<1>1. /\ frames' \in [Threads -> Seq(Frames)]
      /\ \A q \in Threads : frames'[q] = IF q = p THEN s ELSE frames[q]
  BY DEF IInv, TypeOK
<1>2. \A q \in Threads : Len(frames'[q]) <= 2
  <2>1. \A q \in Threads : Len(frames[q]) <= 2
    BY DEF IInv, TypeOK
  <2>2. \A q \in Threads : frames'[q] = s \/ frames'[q] = frames[q]
    BY <1>1
  <2> QED
    BY <2>1, <2>2
<1>3. Owners' = {q \in Threads : (IF q = p THEN s ELSE frames[q]) # <<>>}
  BY <1>1 DEF Owners
<1>4. s = <<>> => Owners' = Owners \ {p}
  BY <1>3 DEF Owners
<1>5. s # <<>> => Owners' = Owners \cup {p}
  BY <1>3 DEF Owners
<1> QED
  BY <1>1, <1>2, <1>4, <1>5

LEMMA EnterSCKeeps ==
    ASSUME IInv, NEW p \in Threads, EnterSC(p)
    PROVE  IInv'
<1> DEFINE f == Frame(entering[p], "own")
<1> USE DEF IInv
<1>1. word = "READY" /\ Owners = {}
  BY DEF EnterSC, LinksHold, Exclusive
<1>2. \A q \in Threads : frames[q] = <<>> /\ Len(frames[q]) = 0
  BY <1>1, EmptySeq DEF Owners
<1>3. f \in Frames /\ f.stamp = "own" /\ f.result # "error"
  BY FrameFields DEF TypeOK
<1> HIDE DEF f
<1>4. /\ Append(frames[p], f) \in Seq(Frames)
      /\ Len(Append(frames[p], f)) = 1
      /\ Append(frames[p], f)[1] = f
      /\ Append(frames[p], f) # <<>>
  BY <1>2, <1>3, PushShort DEF TypeOK
<1>5. frames' = [frames EXCEPT ![p] = Append(frames[p], f)]
  BY DEF EnterSC, f
<1>6. /\ frames' \in [Threads -> Seq(Frames)]
      /\ \A q \in Threads : frames'[q] = IF q = p THEN Append(frames[p], f) ELSE frames[q]
      /\ \A q \in Threads : Len(frames'[q]) <= 2
      /\ Owners' = {p}
  <2>1. Len(Append(frames[p], f)) <= 2
    BY <1>4
  <2> QED
    BY <1>1, <1>4, <1>5, <2>1, FramesStep
<1>7. word' = "BUSY" /\ link' = [q \in Threads |-> FALSE] /\ ToNative(p) /\ UNCHANGED masked
  BY DEF EnterSC, Store
<1>8. TypeOK'
  BY <1>6, <1>7, ToNativeTypes DEF TypeOK
<1>9. ShapesHold'
  BY <1>2, <1>3, <1>4, <1>6 DEF ShapesHold, Shape
<1>10. TailsHold' /\ AttemptsHold' /\ LinksHold'
  <2>1. \A q \in Threads : pc'[q] \notin {"leave_ll", "leave_sc", "quarantine"}
    BY <1>2, <1>7, ToNativeTypes DEF TailsHold
  <2>2. TailsHold' /\ LinksHold'
    BY <1>7, <2>1 DEF TailsHold, LinksHold
  <2>3. AttemptsHold'
    BY <1>7, ToNativeTypes DEF AttemptsHold
  <2> QED
    BY <2>2, <2>3
<1>11. Exclusive' /\ BusyHasOwner'
  BY <1>6, <1>7 DEF Exclusive, BusyHasOwner
<1>12. ErrorsQuarantine'
  <2>1. ASSUME NEW q \in Threads, NEW i \in 1 .. Len(frames'[q])
        PROVE  frames'[q][i].result # "error"
    <3>1. CASE q = p
      <4>1. frames'[q] = Append(frames[p], f)
        BY <1>6, <3>1
      <4>2. i = 1
        BY <1>4, <4>1
      <4> QED
        BY <1>3, <1>4, <4>1, <4>2
    <3>2. CASE q # p
      <4>1. Len(frames'[q]) = 0
        BY <1>2, <1>6, <3>2
      <4> QED
        BY <4>1
    <3> QED
      BY <3>1, <3>2
  <2> QED
    BY <2>1 DEF ErrorsQuarantine
<1>13. ErrorsAreReported'
  BY <1>7 DEF ErrorsAreReported
<1> QED
  BY <1>8, <1>9, <1>10, <1>11, <1>12, <1>13

(* A facade that has yet to run its inner close has no frame above it.      *)
LEMMA PendingFacade ==
    ASSUME IInv, NEW p \in Threads, frames[p] # <<>>, Top(p).result = "pending"
    PROVE  Len(frames[p]) = 1 /\ frames[p][1].stamp = "own"
BY DEF IInv, ShapesHold, Shape, Top

(* A frame on a borrowed stamp stands above its pending facade.             *)
LEMMA BorrowedAboveFacade ==
    ASSUME IInv, NEW p \in Threads, frames[p] # <<>>, Top(p).stamp = "borrowed"
    PROVE  /\ Len(frames[p]) = 2
           /\ frames[p][1] = Frame("facade", "own")
           /\ frames[p][2].result # "pending"
BY DEF IInv, ShapesHold, Shape, Top

(* A step of native code that rewrites the frames of its thread, keeps it   *)
(* admitted and respects the shapes, keeps the invariant.                   *)
LEMMA ReframeStep ==
    ASSUME IInv, NEW p \in Threads, pc[p] = "native", frames[p] # <<>>,
           NEW s \in Seq(Frames), s # <<>>, Len(s) <= 2, Shape(s),
           frames' = [frames EXCEPT ![p] = s],
           \A i \in 1 .. Len(s) : s[i].result = "error" => word' = "QUARANTINED",
           UNCHANGED <<pc, entering, left, masked>>,
           \/ UNCHANGED <<word, link>>
           \/ Store("QUARANTINED")
    PROVE  IInv'
<1> USE DEF IInv, Store
<1>1. /\ frames' \in [Threads -> Seq(Frames)]
      /\ \A q \in Threads : frames'[q] = IF q = p THEN s ELSE frames[q]
      /\ \A q \in Threads : Len(frames'[q]) <= 2
      /\ Owners' = Owners
  <2>1. p \in Owners
    BY DEF Owners
  <2> QED
    <3>1. /\ frames' \in [Threads -> Seq(Frames)]
          /\ \A q \in Threads : frames'[q] = IF q = p THEN s ELSE frames[q]
          /\ \A q \in Threads : Len(frames'[q]) <= 2
          /\ Owners' = Owners \cup {p}
      BY FramesStep
    <3> QED
      BY <2>1, <3>1
<1>2. TypeOK'
  BY <1>1 DEF TypeOK
<1>3. ShapesHold'
  BY <1>1 DEF ShapesHold, Shape
<1>4. TailsHold' /\ AttemptsHold' /\ LinksHold'
  BY <1>1 DEF TailsHold, AttemptsHold, LinksHold
<1>5. Exclusive' /\ BusyHasOwner'
  BY <1>1 DEF Exclusive, BusyHasOwner
<1>6. word = "QUARANTINED" => word' = "QUARANTINED"
  OBVIOUS
<1>7. ErrorsQuarantine' /\ ErrorsAreReported'
  BY <1>1, <1>6 DEF ErrorsQuarantine, ErrorsAreReported
<1> QED
  BY <1>2, <1>3, <1>4, <1>5, <1>7

LEMMA InnerCloseKeeps ==
    ASSUME IInv, NEW p \in Threads, InnerClose(p)
    PROVE  IInv'
<1> DEFINE s == frames[p]
<1>1. pc[p] = "native" /\ s # <<>> /\ Top(p).kind = "facade" /\ Top(p).result = "pending"
  BY DEF InnerClose
<1>2. s \in Seq(Frames) /\ Len(s) = 1 /\ s[1].stamp = "own" /\ s[1] = Top(p)
  BY <1>1, PendingFacade DEF IInv, TypeOK, Top
<1>3. s[1] \in Frames
  BY <1>2
<1>4. UNCHANGED <<word, link, pc, entering, left, masked>>
  BY DEF InnerClose
<1>5. ASSUME NEW r \in {"native", "error"}, r = "error" => word # "BUSY",
             InnerReturns(p, s, r)
      PROVE  IInv'
  <2> DEFINE t == [s EXCEPT ![Len(s)].result = r]
  <2>1. /\ t \in Seq(Frames) /\ t # <<>> /\ Len(t) = 1
        /\ t[1].result = r /\ t[1].stamp = "own"
    <3>1. Len(s) \in {1, 2} /\ r \in Results
      BY <1>2 DEF Results
    <3>2. /\ t \in Seq(Frames) /\ t # <<>> /\ Len(t) = Len(s)
          /\ t[Len(s)].result = r /\ t[Len(s)].stamp = s[Len(s)].stamp
      BY <1>2, <3>1, ResultShort
    <3> QED
      BY <1>2, <3>2
  <2>2. frames' = [frames EXCEPT ![p] = t]
    BY <1>5 DEF InnerReturns
  <2> HIDE DEF t
  <2>3. r = "error" => word = "QUARANTINED"
    BY <1>1, <1>5 DEF IInv, TypeOK, Exclusive, Owners
  <2>4. Shape(t) /\ \A i \in 1 .. Len(t) : t[i].result = "error" => word' = "QUARANTINED"
    BY <1>4, <2>1, <2>3 DEF Shape
  <2>5. Len(t) <= 2
    BY <2>1
  <2> QED
    BY <1>1, <1>4, <2>1, <2>2, <2>4, <2>5, ReframeStep
<1>6. ASSUME frames' = [frames EXCEPT ![p] = Append(s, Frame("close", BorrowedStamp))]
      PROVE  IInv'
  <2> DEFINE f == Frame("close", BorrowedStamp)
             t == Append(s, f)
  <2>1. f \in Frames /\ f.stamp = "borrowed" /\ f.result = "native"
    BY FrameFields DEF BorrowedStamp, Kinds
  <2> HIDE DEF f
  <2>2. t \in Seq(Frames) /\ t # <<>> /\ Len(t) = 2 /\ t[2] = f /\ t[1] = s[1]
    <3>1. /\ t \in Seq(Frames) /\ t # <<>> /\ Len(t) = Len(s) + 1
          /\ t[Len(s) + 1] = f /\ \A i \in 1 .. Len(s) : t[i] = s[i]
      BY <1>2, <2>1, PushShort
    <3> QED
      BY <1>2, <3>1
  <2>3. frames' = [frames EXCEPT ![p] = t]
    BY <1>6 DEF f
  <2> HIDE DEF t
  <2>4. t[1] = Frame("facade", "own")
    BY <1>1, <1>2, <1>3, <2>2 DEF Frame, Frames
  <2>5. Shape(t) /\ \A i \in 1 .. Len(t) : t[i].result = "error" => word' = "QUARANTINED"
    BY <1>1, <1>2, <2>1, <2>2, <2>4 DEF Shape
  <2>6. Len(t) <= 2
    BY <2>2
  <2> QED
    BY <1>1, <1>4, <2>2, <2>3, <2>5, <2>6, ReframeStep
<1> QED
  BY <1>5, <1>6 DEF InnerClose

LEMMA LeaveBorrowedKeeps ==
    ASSUME IInv, NEW p \in Threads, LeaveBorrowed(p)
    PROVE  IInv'
<1> DEFINE s == frames[p]
           rest == Pop(p)
           r == Top(p).result
           t == [rest EXCEPT ![Len(rest)].result = r]
<1>1. pc[p] = "native" /\ s # <<>>
  BY DEF LeaveBorrowed
<1>2. Len(s) = 2 /\ s[1] = Frame("facade", "own") /\ s[2].result # "pending" /\ Top(p) = s[2]
  BY <1>1, BorrowedAboveFacade DEF LeaveBorrowed, Top
<1>3. s \in Seq(Frames)
  BY DEF IInv, TypeOK
<1>4. s[2] \in Frames /\ r \in Results
  <2>1. s[2] \in Frames
    BY <1>2, <1>3, ElementOfSeq
  <2> QED
    BY <1>2, <2>1 DEF Frames
<1>5. rest \in Seq(Frames) /\ Len(rest) = 1 /\ rest[1] = s[1]
  BY <1>2, <1>3, PopShort DEF Pop
<1>6. s[1].stamp = "own"
  BY <1>2, FrameFields DEF Kinds
<1> HIDE DEF rest, r
<1>7. t \in Seq(Frames) /\ t # <<>> /\ Len(t) = 1 /\ t[1].result = r /\ t[1].stamp = "own"
  <2>1. Len(rest) \in {1, 2}
    BY <1>5
  <2>2. /\ t \in Seq(Frames) /\ t # <<>> /\ Len(t) = Len(rest)
        /\ t[Len(rest)].result = r /\ t[Len(rest)].stamp = rest[Len(rest)].stamp
    BY <1>4, <1>5, <2>1, ResultShort
  <2> QED
    BY <1>5, <1>6, <2>2
<1>8. frames' = [frames EXCEPT ![p] = t]
  BY DEF LeaveBorrowed, InnerReturns, rest, r
<1> HIDE DEF t
<1>9. r = "error" => word = "QUARANTINED"
  BY <1>2 DEF IInv, ErrorsQuarantine, r
<1>10. UNCHANGED <<word, link, pc, entering, left, masked>>
  BY DEF LeaveBorrowed
<1>11. Shape(t) /\ Len(t) <= 2 /\ \A i \in 1 .. Len(t) : t[i].result = "error" => word' = "QUARANTINED"
  BY <1>7, <1>9, <1>10 DEF Shape
<1> QED
  BY <1>1, <1>7, <1>8, <1>10, <1>11, ReframeStep

LEMMA ErrorRouteKeeps ==
    ASSUME IInv, NEW p \in Threads, ErrorRoute(p)
    PROVE  IInv'
<1>1. pc[p] = "native" /\ Store("QUARANTINED") /\ UNCHANGED <<pc, entering, left, masked>>
  BY DEF ErrorRoute, RunsFreely
<1>2. ASSUME UNCHANGED frames PROVE IInv'
  BY <1>1, <1>2 DEF IInv, Store, TypeOK, ShapesHold, Shape, TailsHold, AttemptsHold,
     LinksHold, Exclusive, Owners, BusyHasOwner, ErrorsQuarantine, ErrorsAreReported
<1>3. ASSUME frames[p] # <<>>, InnerReturns(p, frames[p], "error")
      PROVE  IInv'
  <2> DEFINE s == frames[p]
             t == [s EXCEPT ![Len(s)].result = "error"]
  <2>1. s \in Seq(Frames) /\ Len(s) \in {1, 2} /\ Shape(s)
    BY <1>3 DEF IInv, TypeOK, ShapesHold, Shape
  <2>2. /\ t \in Seq(Frames) /\ t # <<>> /\ Len(t) = Len(s)
        /\ t[Len(s)].result = "error" /\ t[Len(s)].stamp = s[Len(s)].stamp
        /\ Len(s) = 2 => t[1] = s[1]
    BY <2>1, ResultShort DEF Results
  <2>3. frames' = [frames EXCEPT ![p] = t]
    BY <1>3 DEF InnerReturns
  <2> HIDE DEF t
  <2>4. Len(s) = 1 => s[1].stamp = "own"
    BY <1>3, <2>1 DEF Shape
  <2>5. Shape(t) /\ Len(t) <= 2
    BY <1>3, <2>1, <2>2, <2>4 DEF Shape
  <2>6. word' = "QUARANTINED"
    BY <1>1 DEF Store
  <2> QED
    BY <1>1, <1>3, <2>2, <2>3, <2>5, <2>6, ReframeStep
<1> QED
  BY <1>2, <1>3 DEF ErrorRoute

(* A tail that returns takes the only frame of the only owner with it.      *)
LEMMA PopStep ==
    ASSUME IInv, NEW p \in Threads, pc[p] \in {"leave_ll", "leave_sc", "quarantine"},
           frames' = [frames EXCEPT ![p] = Pop(p)], ToNative(p),
           masked' \subseteq Results, "error" \notin masked',
           \/ word = "QUARANTINED" /\ UNCHANGED <<word, link>>
           \/ Store("READY")
           \/ Store("QUARANTINED")
    PROVE  IInv' /\ Owners = {p} /\ Owners' = {}
<1> USE DEF IInv, Store
<1>1. frames[p] \in Seq(Frames) /\ Len(frames[p]) = 1
  BY DEF TypeOK, TailsHold
<1>2. Pop(p) = <<>> /\ p \in Owners
  <2>1. frames[p] # <<>>
    BY <1>1, NonemptyByLength
  <2> QED
    BY <1>1, <2>1, PopShort DEF Pop, Owners
<1>3. Owners = {p}
  BY <1>2 DEF Exclusive
<1>4. /\ frames' \in [Threads -> Seq(Frames)]
      /\ \A q \in Threads : frames'[q] = <<>> /\ Len(frames'[q]) = 0
  BY <1>2, <1>3, EmptySeq DEF TypeOK, Owners
<1>5. Owners' = {}
  BY <1>4 DEF Owners
<1>6. TypeOK'
  <2>1. word' \in {"READY", "BUSY", "QUARANTINED"} /\ link' \in [Threads -> BOOLEAN]
    BY DEF TypeOK
  <2>2. /\ pc' \in [Threads -> Labels]
        /\ entering' \in [Threads -> Kinds]
        /\ left' \in [Threads -> 0 .. Retries]
    BY ToNativeTypes
  <2>3. \A q \in Threads : Len(frames'[q]) <= 2
    BY <1>4
  <2> QED
    BY <1>4, <2>1, <2>2, <2>3 DEF TypeOK
<1>7. ShapesHold' /\ ErrorsQuarantine' /\ ErrorsAreReported'
  BY <1>4 DEF ShapesHold, Shape, ErrorsQuarantine, ErrorsAreReported
<1>8. \A q \in Threads : pc'[q] \notin {"leave_ll", "leave_sc", "quarantine"}
  <2>1. pc'[p] = "native" /\ \A q \in Threads \ {p} : pc'[q] = pc[q]
    BY ToNativeTypes
  <2>2. ASSUME NEW q \in Threads \ {p}
        PROVE  pc[q] \notin {"leave_ll", "leave_sc", "quarantine"}
    <3>1. Len(frames[q]) = 0
      BY <1>3, EmptySeq DEF Owners
    <3> QED
      BY <3>1 DEF TailsHold
  <2> QED
    BY <2>1, <2>2
<1>9. TailsHold' /\ AttemptsHold' /\ LinksHold'
  BY <1>8, ToNativeTypes DEF TailsHold, AttemptsHold, LinksHold
<1>10. Exclusive' /\ BusyHasOwner'
  BY <1>5 DEF Exclusive, BusyHasOwner
<1> QED
  BY <1>3, <1>5, <1>6, <1>7, <1>9, <1>10

LEMMA LeaveLLKeeps ==
    ASSUME IInv, NEW p \in Threads, LeaveLL(p)
    PROVE  IInv'
<1>1. CASE word = "BUSY"
  <2> USE DEF IInv, LeaveLL, TypeOK
  <2>1. TypeOK'
    BY <1>1 DEF Labels
  <2>2. TailsHold' /\ AttemptsHold' /\ LinksHold'
    BY <1>1 DEF TailsHold, AttemptsHold, LinksHold
  <2> QED
    BY <1>1, <2>1, <2>2, QuietStep
<1>2. CASE word # "BUSY" /\ Faults(p)
  <2> USE DEF IInv, LeaveLL, TypeOK
  <2>1. TypeOK'
    BY <1>2 DEF Labels
  <2>2. TailsHold' /\ AttemptsHold' /\ LinksHold'
    BY <1>2 DEF TailsHold, AttemptsHold, LinksHold
  <2> QED
    BY <1>2, <2>1, <2>2, QuietStep
<1>3. CASE word # "BUSY" /\ ~Faults(p)
  <2>1. /\ pc[p] = "leave_ll" /\ ToNative(p) /\ frames' = [frames EXCEPT ![p] = Pop(p)]
        /\ UNCHANGED <<word, link, masked>>
    BY <1>3 DEF LeaveLL, Mask, Faults
  <2>2. p \in Owners
    BY <2>1, EmptySeq DEF IInv, TypeOK, TailsHold, Owners
  <2>3. word = "QUARANTINED"
    BY <1>3, <2>2 DEF IInv, TypeOK, Exclusive
  <2>4. masked' \subseteq Results /\ "error" \notin masked'
    BY <2>1 DEF IInv, TypeOK, ErrorsAreReported
  <2> QED
    BY <2>1, <2>3, <2>4, PopStep
<1> QED
  BY <1>1, <1>2, <1>3

(* The facade masks its result only after a release of BUSY, and then no    *)
(* frame carries an error.                                                  *)
LEMMA LeaveSCKeeps ==
    ASSUME IInv, NEW p \in Threads, LeaveSC(p)
    PROVE  IInv' /\ word = "BUSY" /\ Owners = {p} /\ Owners' = {}
<1>1. pc[p] = "leave_sc" /\ Store("READY") /\ ToNative(p)
      /\ frames' = [frames EXCEPT ![p] = Pop(p)]
  BY DEF LeaveSC
<1>2. word = "BUSY"
  BY DEF LeaveSC, IInv, LinksHold
<1>3. Top(p).result \in Results /\ Top(p).result # "error"
  <2>1. Len(frames[p]) = 1 /\ frames[p] \in Seq(Frames) /\ Top(p) = frames[p][1]
    BY <1>1 DEF IInv, TailsHold, TypeOK, Top
  <2>2. Top(p) \in Frames
    BY <2>1, ElementOfSeq
  <2> QED
    BY <1>2, <2>1, <2>2 DEF IInv, ErrorsQuarantine, Frames
<1>4. masked' \subseteq Results /\ "error" \notin masked'
  BY <1>3 DEF LeaveSC, Mask, IInv, TypeOK, ErrorsAreReported
<1> QED
  BY <1>1, <1>2, <1>4, PopStep

LEMMA LeaveQuarantinedKeeps ==
    ASSUME IInv, NEW p \in Threads, LeaveQuarantined(p)
    PROVE  IInv' /\ Owners = {p} /\ Owners' = {}
<1>1. pc[p] = "quarantine" /\ Store("QUARANTINED") /\ ToNative(p)
      /\ frames' = [frames EXCEPT ![p] = Pop(p)] /\ UNCHANGED masked
  BY DEF LeaveQuarantined
<1>2. masked' \subseteq Results /\ "error" \notin masked'
  BY <1>1 DEF IInv, TypeOK, ErrorsAreReported
<1> QED
  BY <1>1, <1>2, PopStep

-------------------------------------------------------------------------------

(* Every action of every thread preserves the invariant.                    *)
LEMMA StepInvariant == IInv /\ [Next]_vars => IInv'
<1> SUFFICES ASSUME IInv, [Next]_vars PROVE IInv'
  OBVIOUS
<1>1. CASE UNCHANGED vars
  BY <1>1 DEF vars, IInv, TypeOK, ShapesHold, Shape, TailsHold, AttemptsHold, LinksHold,
     Exclusive, Owners, BusyHasOwner, ErrorsQuarantine, ErrorsAreReported
<1>2. CASE Next
  BY <1>2, EnterKeeps, EnterLLKeeps, EnterSCKeeps, EnterSCFailsKeeps, InnerCloseKeeps,
     LeaveBorrowedKeeps, LeaveKeeps, LeaveLLKeeps, LeaveSCKeeps, LeaveSCFailsRetries,
     LeaveQuarantinedKeeps, ErrorRouteKeeps
     DEF Next
<1> QED
  BY <1>1, <1>2

THEOREM GateInvariant == Spec => []IInv
BY InitInvariant, StepInvariant, PTL DEF Spec

(* Registers and frames stay in range and reentry never deepens a stack.    *)
THEOREM GateTypeCorrect == Spec => []TypeOK
<1>1. IInv => TypeOK
  BY DEF IInv
<1> QED
  BY <1>1, GateInvariant, PTL

(* The gate is never left BUSY with nobody to release it.                   *)
THEOREM BusyHasOwnerHolds == Spec => []BusyHasOwner
<1>1. IInv => BusyHasOwner
  BY DEF IInv
<1> QED
  BY <1>1, GateInvariant, PTL

(* No facade hides an error that its inner close returned.                  *)
THEOREM ErrorsAreReportedHolds == Spec => []ErrorsAreReported
<1>1. IInv => ErrorsAreReported
  BY DEF IInv
<1> QED
  BY <1>1, GateInvariant, PTL

(* The gate implements the lock with quarantine: the successful store of an *)
(* entry claims, a tail's return releases, an error quarantines, and every  *)
(* other access stutters.                                                   *)
THEOREM ImplementsLock == Spec => LockSpec
<1>1. Init => Lock!Init
  BY DEF Init, Lock!Init, Owners
<1>2. IInv /\ [Next]_vars => [Lock!Next]_Lock!lockVars
  <2> SUFFICES ASSUME IInv, [Next]_vars PROVE [Lock!Next]_Lock!lockVars
    OBVIOUS
  <2> USE DEF Lock!lockVars
  <2>1. ASSUME UNCHANGED <<word, frames>> PROVE UNCHANGED Lock!lockVars
    BY <2>1 DEF Owners
  <2>2. ASSUME NEW p \in Threads, EnterSC(p) PROVE Lock!Next
    <3>1. word = "READY" /\ Owners = {} /\ word' = "BUSY"
      BY <2>2 DEF EnterSC, Store, IInv, LinksHold, Exclusive
    <3>2. Owners' = {p}
      <4>1. \A q \in Threads : frames[q] = <<>>
        BY <3>1 DEF Owners
      <4>2. entering[p] \in Kinds /\ frames \in [Threads -> Seq(Frames)]
        BY DEF IInv, TypeOK
      <4>3. Append(frames[p], Frame(entering[p], "own")) # <<>>
        BY <4>2, FrameFields, PushShort
      <4> QED
        BY <2>2, <4>1, <4>2, <4>3 DEF EnterSC, Owners
    <3> QED
      BY <3>1, <3>2 DEF Lock!Next, Lock!Claim
  <2>3. ASSUME NEW p \in Threads, LeaveSC(p) \/ LeaveQuarantined(p) PROVE Lock!Next
    <3>1. Owners = {p} /\ Owners' = {}
      BY <2>3, LeaveSCKeeps, LeaveQuarantinedKeeps
    <3>2. (word' = "QUARANTINED") \in {word = "QUARANTINED", TRUE}
      BY <2>3, LeaveSCKeeps DEF LeaveSC, LeaveQuarantined, Store
    <3> QED
      BY <3>1, <3>2 DEF Lock!Next, Lock!Release
  <2>4. ASSUME NEW p \in Threads, LeaveLL(p) PROVE [Lock!Next]_Lock!lockVars
    <3>1. CASE word = "BUSY" \/ Faults(p)
      BY <2>1, <2>4, <3>1 DEF LeaveLL
    <3>2. CASE word # "BUSY" /\ ~Faults(p)
      <4>1. /\ pc[p] = "leave_ll" /\ ToNative(p) /\ frames' = [frames EXCEPT ![p] = Pop(p)]
            /\ UNCHANGED <<word, link, masked>>
        BY <2>4, <3>2 DEF LeaveLL, Mask, Faults
      <4>2. Len(<<>>) = 0
        BY EmptySeq
      <4>3. p \in Owners
        BY <4>1, <4>2 DEF IInv, TailsHold, Owners
      <4>4. word = "QUARANTINED"
        BY <3>2, <4>3 DEF IInv, TypeOK, Exclusive
      <4>5. masked' \subseteq Results /\ "error" \notin masked'
        BY <4>1 DEF IInv, TypeOK, ErrorsAreReported
      <4>6. Owners = {p} /\ Owners' = {}
        BY <4>1, <4>4, <4>5, PopStep
      <4> QED
        BY <4>1, <4>6 DEF Lock!Next, Lock!Release
    <3> QED
      BY <3>1, <3>2
  <2>5. ASSUME NEW p \in Threads, NEW s, frames[p] # <<>>, s # <<>>,
               frames' = [frames EXCEPT ![p] = s]
        PROVE  Owners' = Owners
    BY <2>5 DEF IInv, TypeOK, Owners
  <2>6. ASSUME NEW p \in Threads, InnerClose(p) \/ LeaveBorrowed(p)
        PROVE  UNCHANGED Lock!lockVars
    <3>1. UNCHANGED word /\ frames[p] # <<>> /\ frames[p] \in Seq(Frames)
      BY <2>6 DEF InnerClose, LeaveBorrowed, IInv, TypeOK
    <3>2. CASE InnerClose(p)
      <4>1. Len(frames[p]) = 1
        BY <3>2, PendingFacade DEF InnerClose
      <4>2. ASSUME NEW r \in Results, InnerReturns(p, frames[p], r)
            PROVE  Owners' = Owners
        BY <2>5, <3>1, <4>1, <4>2, ResultShort DEF InnerReturns
      <4>3. Append(frames[p], Frame("close", BorrowedStamp)) # <<>>
        BY <3>1, FrameFields, PushShort DEF Kinds, BorrowedStamp
      <4>4. Owners' = Owners
        BY <2>5, <3>1, <3>2, <4>2, <4>3 DEF InnerClose, Results
      <4> QED
        BY <3>1, <4>4
    <3>3. CASE LeaveBorrowed(p)
      <4> DEFINE rest == Pop(p)
                 r == Top(p).result
      <4>1. Len(frames[p]) = 2
        BY <3>1, <3>3, BorrowedAboveFacade DEF LeaveBorrowed
      <4>2. rest \in Seq(Frames) /\ Len(rest) = 1
        BY <3>1, <4>1, PopShort DEF Pop
      <4>3. r \in Results
        <5>1. Top(p) \in Frames
          BY <3>1, <4>1, ElementOfSeq DEF Top
        <5> QED
          BY <5>1 DEF Frames
      <4>4. frames' = [frames EXCEPT ![p] = [rest EXCEPT ![Len(rest)].result = r]]
        BY <3>3 DEF LeaveBorrowed, InnerReturns
      <4> HIDE DEF rest, r
      <4>5. [rest EXCEPT ![Len(rest)].result = r] # <<>>
        BY <4>2, <4>3, ResultShort
      <4> QED
        BY <2>5, <3>1, <4>4, <4>5
    <3> QED
      BY <2>6, <3>2, <3>3
  <2>7. ASSUME NEW p \in Threads, ErrorRoute(p) PROVE [Lock!Next]_Lock!lockVars
    <3>1. word' = "QUARANTINED"
      BY <2>7 DEF ErrorRoute, Store
    <3>2. Owners' = Owners
      <4>1. ASSUME frames[p] # <<>>, InnerReturns(p, frames[p], "error")
            PROVE  Owners' = Owners
        <5>1. frames[p] \in Seq(Frames) /\ Len(frames[p]) \in {1, 2}
          BY <4>1 DEF IInv, TypeOK, ShapesHold, Shape
        <5>2. [frames[p] EXCEPT ![Len(frames[p])].result = "error"] # <<>>
          BY <5>1, ResultShort DEF Results
        <5> QED
          BY <2>5, <4>1, <5>2 DEF InnerReturns
      <4> QED
        BY <2>7, <4>1 DEF ErrorRoute, Owners
    <3> QED
      BY <3>1, <3>2 DEF Lock!Next, Lock!Quarantine
  <2> QED
    BY <2>1, <2>2, <2>3, <2>4, <2>6, <2>7
       DEF Next, vars, Enter, EnterLL, EnterSCFails, Leave, LeaveSCFails, GiveUp
<1> QED
  BY <1>1, <1>2, GateInvariant, PTL DEF Spec, LockSpec, Lock!Spec

-------------------------------------------------------------------------------
(* The stock frames around the gate.                                        *)

CallFrames ==
    [kind : FrameKinds, ra : {"known", "other", "abort"}, at : {"body", "error", "abort"},
     raw : {"none", "zero", "error"}, doomed : BOOLEAN,
     tag : {"none", "armed", "captured", "cleared", "admitted"}]

(* A frame from which a failure is to be passed on.                         *)
Failing(f) == f.at # "body" \/ (Answered(f) /\ ~Captured(f))

(* The failure of the innermost frame concerns frame i.                     *)
Concerned(s, i) == \A j \in i + 1 .. Len(s) : s[j].ra # "other"

(* A return address of stock code says who the caller is; a dialog is the   *)
(* outermost frame, and the address of an explorer is of no interest.       *)
ChainHolds(s) ==
    \A i \in 1 .. Len(s) :
        /\ s[i].kind = "dialog" => i = 1
        /\ s[i].kind = "explorer" => s[i].ra = "other"
        /\ (s[i].kind \in DOMAIN Caller /\ s[i].ra # "other") =>
               i > 1 /\ s[i - 1].kind = Caller[s[i].kind]

(* Frames below the innermost wait behind a call in their body.             *)
WaitingHolds(s) ==
    \A i \in 1 .. Len(s) - 1 : s[i].at = "body" /\ s[i].tag \in {"none", "admitted"}

(* A rewritten address is that of a wrapper which leaves, and a wrapper     *)
(* that leaves has none which leads to the code behind its call.            *)
AbortsHold(s) ==
    \A i \in 1 .. Len(s) :
        /\ s[i].ra = "abort" => s[i].kind = "wrapper" /\ s[i].at = "abort"
        /\ s[i].kind = "wrapper" /\ s[i].at = "abort" => s[i].ra # "known"
        /\ s[i].at # "body" => s[i].tag \in {"none", "admitted"}

(* Doomed are the frames that the failure of the innermost one concerns.    *)
DoomHolds(s) ==
    \A i \in 1 .. Len(s) :
        s[i].doomed <=> Failing(s[Len(s)]) /\ Concerned(s, i)

Sound(s) ==
    /\ s \in Seq(CallFrames)
    /\ ChainHolds(s)
    /\ WaitingHolds(s)
    /\ AbortsHold(s)
    /\ DoomHolds(s)

(* What the frames of the gate know of the stock frames above them: they    *)
(* run freely, and a dialog that returns to a consumer has one below it.    *)
Grounded(p) ==
    calls[p] # <<>> =>
        /\ RunsFreely(p)
        /\ calls[p][1].kind = "dialog" /\ calls[p][1].ra # "other" =>
               frames[p] # <<>> /\ Top(p).kind \in {"poll", "close"}

UInv ==
    /\ calls \in [Threads -> Seq(CallFrames)]
    /\ \A p \in Threads : Sound(calls[p])
    /\ \A p \in Threads : Grounded(p)
    /\ strayed = {}

-------------------------------------------------------------------------------

(* The innermost frame of a stack.                                          *)
LEMMA InnerFrame ==
    ASSUME NEW s \in Seq(CallFrames), s # <<>>
    PROVE  /\ Len(s) \in Nat \ {0}
           /\ Len(s) \in 1 .. Len(s)
           /\ DOMAIN s = 1 .. Len(s)
           /\ s[Len(s)] \in CallFrames
           /\ \A i \in 1 .. Len(s) : s[i] \in CallFrames
<1>1. Len(s) \in Nat \ {0}
  BY EmptySeq
<1>2. DOMAIN s = 1 .. Len(s) /\ \A i \in 1 .. Len(s) : s[i] \in CallFrames
  BY LenProperties, ElementOfSeq
<1> QED
  BY <1>1, <1>2

(* Doom marks frames and changes nothing else.                              *)
LEMMA DoomProperties ==
    ASSUME NEW s \in Seq(CallFrames), s # <<>>
    PROVE  /\ Doom(s) \in Seq(CallFrames)
           /\ Len(Doom(s)) = Len(s)
           /\ Doom(s) # <<>>
           /\ \A i \in 1 .. Len(s) :
                /\ Doom(s)[i] \in CallFrames
                /\ Doom(s)[i].kind = s[i].kind
                /\ Doom(s)[i].ra = s[i].ra
                /\ Doom(s)[i].at = s[i].at
                /\ Doom(s)[i].raw = s[i].raw
                /\ Doom(s)[i].tag = s[i].tag
                /\ Doom(s)[i].doomed <=>
                     s[i].doomed \/ \A j \in i + 1 .. Len(s) : s[j].ra = "known"
<1> DEFINE reached(i) == \A j \in i + 1 .. Len(s) : s[j].ra = "known"
           f(i) == IF reached(i) THEN [s[i] EXCEPT !.doomed = TRUE] ELSE s[i]
<1>1. /\ Len(s) \in Nat \ {0} /\ DOMAIN s = 1 .. Len(s)
      /\ \A i \in 1 .. Len(s) : s[i] \in CallFrames
  BY InnerFrame
<1>2. ASSUME NEW i \in 1 .. Len(s)
      PROVE  /\ f(i) \in CallFrames
             /\ f(i).kind = s[i].kind
             /\ f(i).ra = s[i].ra
             /\ f(i).at = s[i].at
             /\ f(i).raw = s[i].raw
             /\ f(i).tag = s[i].tag
             /\ f(i).doomed <=> s[i].doomed \/ reached(i)
  <2>1. s[i] \in CallFrames
    BY <1>1
  <2> HIDE DEF reached
  <2>2. CASE reached(i)
    BY <2>1, <2>2 DEF CallFrames
  <2>3. CASE ~reached(i)
    BY <2>1, <2>3
  <2> QED
    BY <2>2, <2>3
<1>3. Doom(s) = [i \in 1 .. Len(s) |-> f(i)]
  BY <1>1 DEF Doom
<1> HIDE DEF f
<1>4. Doom(s) \in Seq(CallFrames) /\ Len(Doom(s)) = Len(s)
      /\ \A i \in 1 .. Len(s) : Doom(s)[i] = f(i)
  <2>1. Doom(s) \in [1 .. Len(s) -> CallFrames]
    BY <1>2, <1>3
  <2>2. Doom(s) \in Seq(CallFrames)
    BY <1>1, <2>1, SeqDef
  <2>3. DOMAIN Doom(s) = 1 .. Len(Doom(s)) /\ Len(Doom(s)) \in Nat
    BY <2>2, LenProperties
  <2>4. 1 .. Len(Doom(s)) = 1 .. Len(s)
    BY <2>1, <2>3
  <2>5. Len(Doom(s)) = Len(s)
    <3>1. \A a \in Nat : \A b \in Nat \ {0} : 1 .. a = 1 .. b => a = b
      <4>1. SUFFICES ASSUME NEW a \in Nat, NEW b \in Nat \ {0}, 1 .. a = 1 .. b PROVE a = b
        OBVIOUS
      <4>2. b \in 1 .. a
        BY <4>1
      <4>3. a \in 1 .. b
        BY <4>1, <4>2
      <4> QED
        BY <4>2, <4>3
    <3> QED
      BY <1>1, <2>3, <2>4, <3>1
  <2> QED
    BY <1>3, <2>2, <2>5
<1>5. Doom(s) # <<>>
  BY <1>1, <1>4, EmptySeq
<1> QED
  BY <1>2, <1>4, <1>5

(* A write to one frame.                                                    *)
LEMMA WriteProperties ==
    ASSUME NEW s \in Seq(CallFrames), s # <<>>, NEW f \in CallFrames
    PROVE  LET t == [s EXCEPT ![Len(s)] = f] IN
           /\ t \in Seq(CallFrames)
           /\ Len(t) = Len(s)
           /\ t # <<>>
           /\ t[Len(s)] = f
           /\ \A i \in 1 .. Len(s) : i # Len(s) => t[i] = s[i]
<1>1. Len(s) \in 1 .. Len(s) /\ Len(s) # 0
  BY InnerFrame
<1> QED
  BY <1>1, ExceptSeq, EmptySeq

(* A return removes the innermost frame, and tells the one below where to   *)
(* go on unless it returns to other code.                                   *)
LEMMA ReturnProperties ==
    ASSUME NEW s \in Seq(CallFrames), s # <<>>, NEW behind \in {"body", "error"}
    PROVE  LET t == Return(s, behind)
               n == Len(s) - 1
               ra == s[Len(s)].ra
           IN  /\ t \in Seq(CallFrames)
               /\ Len(t) = n
               /\ \A i \in 1 .. n :
                    /\ t[i].kind = s[i].kind
                    /\ t[i].ra = s[i].ra
                    /\ t[i].raw = s[i].raw
                    /\ t[i].doomed = s[i].doomed
                    /\ t[i].tag = s[i].tag
                    /\ t[i].at = IF i # n \/ ra = "other" THEN s[i].at
                                 ELSE IF ra = "abort" THEN "abort" ELSE behind
<1> DEFINE n == Len(s) - 1
           ra == s[Len(s)].ra
           r == SubSeq(s, 1, n)
           at == IF ra = "abort" THEN "abort" ELSE behind
           t == Return(s, behind)
<1>1. /\ Len(s) \in Nat \ {0} /\ n \in Nat
      /\ \A i \in 1 .. Len(s) : s[i] \in CallFrames
  BY InnerFrame
<1>2. /\ r \in Seq(CallFrames)
      /\ Len(r) = n
      /\ \A i \in 1 .. n : r[i] = s[i]
  <2>1. 1 \in Int /\ n \in Int /\ \A i \in 1 .. n : s[i] \in CallFrames
    BY <1>1
  <2>2. /\ r \in Seq(CallFrames)
        /\ Len(r) = IF 1 <= n THEN n - 1 + 1 ELSE 0
        /\ \A i \in 1 .. n - 1 + 1 : r[i] = s[1 + i - 1]
    <3> HIDE DEF n
    <3> QED
      BY <2>1, SubSeqProperties
  <2>3. n \in Nat /\ (n = 0 \/ 1 <= n)
    <3>1. n \in Nat
      BY <1>1
    <3> HIDE DEF n
    <3> QED
      BY <3>1
  <2> HIDE DEF n, r
  <2>4. Len(r) = n
    BY <1>1, <2>2, <2>3
  <2>5. \A i \in 1 .. n : i \in 1 .. n - 1 + 1 /\ 1 + i - 1 = i
    BY <2>3
  <2> QED
    BY <2>2, <2>4, <2>5 DEF r
<1> HIDE DEF r, n, ra
<1>3. t = IF ra = "other" \/ r = <<>> THEN r ELSE [r EXCEPT ![Len(r)].at = at]
  BY DEF Return, r, n, ra
<1>4. CASE ra = "other" \/ r = <<>>
  <2>1. t = r
    BY <1>3, <1>4
  <2>2. r = <<>> => n = 0
    BY <1>2, EmptySeq
  <2> QED
    BY <1>1, <1>2, <1>4, <2>1, <2>2 DEF n, ra
<1>5. CASE ra # "other" /\ r # <<>>
  <2> DEFINE f == [r[n] EXCEPT !.at = at]
  <2>1. r[n] \in CallFrames /\ n \in 1 .. n
    BY <1>2, <1>5, InnerFrame
  <2>2. at \in {"body", "error", "abort"}
    OBVIOUS
  <2> HIDE DEF at
  <2>3. /\ f \in CallFrames /\ f.at = at /\ f.kind = r[n].kind /\ f.ra = r[n].ra
        /\ f.raw = r[n].raw /\ f.doomed = r[n].doomed /\ f.tag = r[n].tag
    BY <2>1, <2>2 DEF CallFrames
  <2> HIDE DEF f
  <2>4. t = [r EXCEPT ![n] = f]
    BY <1>2, <1>3, <1>5 DEF f
  <2>5. t \in Seq(CallFrames) /\ Len(t) = n
        /\ \A i \in 1 .. n : t[i] = IF i = n THEN f ELSE r[i]
    <3> HIDE DEF t
    <3> QED
      BY <1>2, <2>1, <2>3, <2>4, ExceptSeq
  <2>6. \A i \in 1 .. n : t[i] = IF i = n THEN f ELSE s[i]
    BY <1>2, <2>5
  <2> HIDE DEF t
  <2>7. /\ t \in Seq(CallFrames) /\ Len(t) = n
        /\ \A i \in 1 .. n :
            /\ t[i].kind = s[i].kind
            /\ t[i].ra = s[i].ra
            /\ t[i].raw = s[i].raw
            /\ t[i].doomed = s[i].doomed
            /\ t[i].tag = s[i].tag
            /\ t[i].at = IF i # n THEN s[i].at ELSE at
    BY <1>2, <2>1, <2>3, <2>5, <2>6
  <2> QED
    BY <2>7, <1>5 DEF t, n, ra, at
<1> QED
  BY <1>4, <1>5
-------------------------------------------------------------------------------

(* The same frames, but for what the innermost one is at and the doom.      *)
Alike(s, t) ==
    /\ t \in Seq(CallFrames)
    /\ Len(t) = Len(s)
    /\ \A i \in 1 .. Len(s) :
         /\ t[i].kind = s[i].kind
         /\ t[i].ra = "other" <=> s[i].ra = "other"
         /\ i # Len(s) => t[i].at = s[i].at /\ t[i].tag = s[i].tag

(* A failure is on its way from the innermost frame.                        *)
Marked(s) == \A i \in 1 .. Len(s) : s[i].doomed <=> Concerned(s, i)

(* What only depends on the shape of a stack.                               *)
LEMMA AlikeKeeps ==
    ASSUME NEW s \in Seq(CallFrames), NEW t, Alike(s, t), ChainHolds(s), WaitingHolds(s)
    PROVE  /\ ChainHolds(t)
           /\ WaitingHolds(t)
           /\ \A i \in 1 .. Len(s) : Concerned(t, i) <=> Concerned(s, i)
<1>1. Len(s) \in Nat
  BY LenProperties
<1>2. ChainHolds(t)
  <2> SUFFICES ASSUME NEW i \in 1 .. Len(s)
               PROVE  /\ t[i].kind = "dialog" => i = 1
                      /\ t[i].kind = "explorer" => t[i].ra = "other"
                      /\ (t[i].kind \in DOMAIN Caller /\ t[i].ra # "other") =>
                             i > 1 /\ t[i - 1].kind = Caller[t[i].kind]
    BY DEF ChainHolds, Alike
  <2>1. i > 1 => i - 1 \in 1 .. Len(s)
    BY <1>1
  <2> QED
    BY <2>1 DEF ChainHolds, Alike
<1>3. WaitingHolds(t)
  <2> SUFFICES ASSUME NEW i \in 1 .. Len(s) - 1
               PROVE  t[i].at = "body" /\ t[i].tag \in {"none", "admitted"}
    BY DEF WaitingHolds, Alike
  <2>1. i \in 1 .. Len(s) /\ i # Len(s)
    BY <1>1
  <2> QED
    BY <2>1 DEF WaitingHolds, Alike
<1>4. \A i \in 1 .. Len(s) : Concerned(t, i) <=> Concerned(s, i)
  <2> SUFFICES ASSUME NEW i \in 1 .. Len(s)
               PROVE  Concerned(t, i) <=> Concerned(s, i)
    OBVIOUS
  <2>1. \A j \in i + 1 .. Len(s) : j \in 1 .. Len(s)
    BY <1>1
  <2> QED
    BY <2>1 DEF Concerned, Alike
<1> QED
  BY <1>2, <1>3, <1>4

(* Doom marks the frames that a failure of the innermost one concerns.      *)
LEMMA DoomMarks ==
    ASSUME NEW s \in Seq(CallFrames), s # <<>>, ChainHolds(s), WaitingHolds(s),
           \A i \in 1 .. Len(s) : s[i].ra # "abort",
           \A i \in 1 .. Len(s) : s[i].doomed => Concerned(s, i)
    PROVE  /\ Alike(s, Doom(s))
           /\ Marked(Doom(s))
           /\ Doom(s)[Len(s)].doomed
<1>1. Len(s) \in Nat /\ Len(s) \in 1 .. Len(s) /\ \A i \in 1 .. Len(s) : s[i] \in CallFrames
  BY InnerFrame
<1>2. Alike(s, Doom(s))
  BY DoomProperties DEF Alike
<1>3. ASSUME NEW i \in 1 .. Len(s)
      PROVE  Concerned(s, i) <=> \A j \in i + 1 .. Len(s) : s[j].ra = "known"
  <2>1. \A j \in i + 1 .. Len(s) : s[j].ra \in {"known", "other"}
    <3>1. \A j \in i + 1 .. Len(s) : j \in 1 .. Len(s)
      BY <1>1
    <3> QED
      BY <1>1, <3>1 DEF CallFrames
  <2> QED
    BY <2>1 DEF Concerned
<1>4. \A i \in 1 .. Len(s) : Doom(s)[i].doomed <=> Concerned(s, i)
  BY <1>3, DoomProperties
<1>5. Marked(Doom(s))
  BY <1>2, <1>4, AlikeKeeps, DoomProperties DEF Marked
<1>6. Concerned(s, Len(s))
  BY <1>1 DEF Concerned
<1> QED
  BY <1>1, <1>2, <1>4, <1>5, <1>6

(* A return address is only rewritten in a wrapper that leaves, and that is *)
(* the innermost frame.                                                     *)
LEMMA NoneRewritten ==
    ASSUME NEW s, Sound(s), s # <<>>, s[Len(s)].kind # "wrapper" \/ s[Len(s)].at # "abort"
    PROVE  \A i \in 1 .. Len(s) : s[i].ra # "abort"
<1>1. Len(s) \in Nat
  BY LenProperties DEF Sound
<1> SUFFICES ASSUME NEW i \in 1 .. Len(s) PROVE s[i].ra # "abort"
  OBVIOUS
<1>2. CASE i = Len(s)
  BY <1>2 DEF Sound, AbortsHold
<1>3. CASE i # Len(s)
  <2>1. i \in 1 .. Len(s) - 1
    BY <1>1, <1>3
  <2> QED
    BY <2>1 DEF Sound, AbortsHold, WaitingHolds
<1> QED
  BY <1>2, <1>3

(* A failure passes from the innermost frame to the one it returns to.      *)
LEMMA FailureReturns ==
    ASSUME NEW s \in Seq(CallFrames), s # <<>>, NEW behind \in {"body", "error"},
           ChainHolds(s), WaitingHolds(s), Marked(s),
           s[Len(s)].ra = "known" => behind = "error",
           \A i \in 1 .. Len(s) - 1 :
               s[i].ra = "abort" =>
                   i = Len(s) - 1 /\ s[i].kind = "wrapper" /\ s[Len(s)].ra = "abort",
           \A i \in 1 .. Len(s) - 1 :
               i = Len(s) - 1 /\ s[i].kind = "wrapper" /\ s[Len(s)].ra = "abort" =>
                   s[i].ra # "known"
    PROVE  Sound(Return(s, behind))
<1> DEFINE n == Len(s) - 1
           t == Return(s, behind)
<1>1. /\ Len(s) \in Nat \ {0} /\ n \in Nat /\ Len(s) = n + 1 /\ Len(s) \in 1 .. Len(s)
      /\ \A i \in 1 .. Len(s) : s[i] \in CallFrames
      /\ \A i \in 1 .. n : i \in 1 .. Len(s)
  BY InnerFrame
<1>2. /\ t \in Seq(CallFrames)
      /\ Len(t) = n
      /\ \A i \in 1 .. n :
           /\ t[i].kind = s[i].kind
           /\ t[i].ra = s[i].ra
           /\ t[i].doomed = s[i].doomed
           /\ t[i].tag = s[i].tag
           /\ i # n => t[i].at = s[i].at
           /\ s[Len(s)].ra = "other" => t[i].at = s[i].at
           /\ s[Len(s)].ra = "abort" /\ i = n => t[i].at = "abort"
           /\ s[Len(s)].ra = "known" /\ i = n => t[i].at = behind
  <2>1. /\ t \in Seq(CallFrames)
        /\ Len(t) = n
        /\ \A i \in 1 .. n :
             /\ t[i].kind = s[i].kind
             /\ t[i].ra = s[i].ra
             /\ t[i].raw = s[i].raw
             /\ t[i].doomed = s[i].doomed
             /\ t[i].tag = s[i].tag
             /\ t[i].at = IF i # n \/ s[Len(s)].ra = "other" THEN s[i].at
                          ELSE IF s[Len(s)].ra = "abort" THEN "abort" ELSE behind
    BY ReturnProperties, ZenonT(40)
  <2> HIDE DEF n, t
  <2> QED
    BY <2>1
<1>3. s[Len(s)].ra \in {"known", "other", "abort"}
  BY <1>1 DEF CallFrames
<1> HIDE DEF n, t
<1>4. ChainHolds(t)
  <2> SUFFICES ASSUME NEW i \in 1 .. n
               PROVE  /\ t[i].kind = "dialog" => i = 1
                      /\ t[i].kind = "explorer" => t[i].ra = "other"
                      /\ (t[i].kind \in DOMAIN Caller /\ t[i].ra # "other") =>
                             i > 1 /\ t[i - 1].kind = Caller[t[i].kind]
    BY <1>2 DEF ChainHolds
  <2>1. i > 1 => i - 1 \in 1 .. n
    BY <1>1
  <2> QED
    BY <1>1, <1>2, <2>1 DEF ChainHolds
<1>5. \A i \in 1 .. n : s[i].at = "body" /\ s[i].tag \in {"none", "admitted"}
  BY DEF WaitingHolds, n
<1>6. WaitingHolds(t)
  <2> SUFFICES ASSUME NEW i \in 1 .. n - 1
               PROVE  t[i].at = "body" /\ t[i].tag \in {"none", "admitted"}
    BY <1>2 DEF WaitingHolds
  <2>1. i \in 1 .. n /\ i # n
    BY <1>1
  <2> QED
    BY <1>2, <1>5, <2>1
<1>7. AbortsHold(t)
  <2> SUFFICES ASSUME NEW i \in 1 .. n
               PROVE  /\ t[i].ra = "abort" => t[i].kind = "wrapper" /\ t[i].at = "abort"
                      /\ t[i].kind = "wrapper" /\ t[i].at = "abort" => t[i].ra # "known"
                      /\ t[i].at # "body" => t[i].tag \in {"none", "admitted"}
    BY <1>2 DEF AbortsHold
  <2>1. t[i].ra = "abort" => t[i].kind = "wrapper" /\ t[i].at = "abort"
    BY <1>2 DEF n
  <2>2. t[i].at = "abort" => i = n /\ s[Len(s)].ra = "abort"
    BY <1>2, <1>3, <1>5
  <2>3. t[i].kind = "wrapper" /\ t[i].at = "abort" => t[i].ra # "known"
    BY <1>2, <2>2 DEF n
  <2> QED
    BY <1>2, <1>5, <2>1, <2>3
<1>8. DoomHolds(t)
  <2> SUFFICES ASSUME NEW i \in 1 .. n
               PROVE  t[i].doomed <=> Failing(t[n]) /\ Concerned(t, i)
    BY <1>2 DEF DoomHolds
  <2>1. n \in 1 .. n
    BY <1>1
  <2>2. Concerned(s, i) <=> Concerned(t, i) /\ s[Len(s)].ra # "other"
    <3>1. \A j : j \in i + 1 .. Len(s) <=> j \in i + 1 .. n \/ j = Len(s)
      BY <1>1
    <3>2. \A j \in i + 1 .. n : j \in 1 .. n
      BY <1>1
    <3> QED
      BY <1>2, <3>1, <3>2 DEF Concerned
  <2>3. Failing(t[n]) <=> s[Len(s)].ra # "other"
    <3>1. CASE s[Len(s)].ra = "other"
      BY <1>2, <1>5, <2>1, <3>1 DEF Failing, Answered
    <3>2. CASE s[Len(s)].ra # "other"
      BY <1>2, <1>3, <2>1, <3>2 DEF Failing
    <3> QED
      BY <3>1, <3>2
  <2>4. t[i].doomed <=> Concerned(s, i)
    BY <1>1, <1>2 DEF Marked
  <2> QED
    BY <2>2, <2>3, <2>4
<1> QED
  BY <1>2, <1>4, <1>6, <1>7, <1>8 DEF Sound, t

(* A frame without a failure returns to one without.                        *)
LEMMA NormalReturns ==
    ASSUME NEW s, Sound(s), s # <<>>, s[Len(s)].at = "body",
           s[Len(s)].tag \in {"none", "admitted"}
    PROVE  Sound(Return(s, "body")) /\ ~s[Len(s)].doomed
<1> DEFINE n == Len(s) - 1
           t == Return(s, "body")
<1>0. s \in Seq(CallFrames)
  BY DEF Sound
<1>1. /\ Len(s) \in Nat \ {0} /\ n \in Nat /\ Len(s) = n + 1 /\ Len(s) \in 1 .. Len(s)
      /\ \A i \in 1 .. Len(s) : s[i] \in CallFrames
      /\ \A i \in 1 .. n : i \in 1 .. Len(s)
  BY <1>0, InnerFrame
<1>2. \A i \in 1 .. Len(s) : s[i].ra # "abort"
  BY NoneRewritten
<1>3. /\ t \in Seq(CallFrames)
      /\ Len(t) = n
      /\ \A i \in 1 .. n :
           /\ t[i].kind = s[i].kind
           /\ t[i].ra = s[i].ra
           /\ t[i].doomed = s[i].doomed
           /\ t[i].tag = s[i].tag
           /\ t[i].at = s[i].at \/ t[i].at = "body"
  BY <1>0, <1>1, <1>2, ReturnProperties, ZenonT(40)
<1>4. \A i \in 1 .. Len(s) : ~s[i].doomed
  BY <1>1 DEF Sound, DoomHolds, Failing, Answered
<1> HIDE DEF n, t
<1>5. \A i \in 1 .. n : s[i].at = "body" /\ s[i].tag \in {"none", "admitted"}
  BY DEF Sound, WaitingHolds, n
<1>6. \A i \in 1 .. n : t[i].at = "body" /\ t[i].tag \in {"none", "admitted"} /\ ~t[i].doomed
                        /\ t[i].ra # "abort"
  BY <1>1, <1>2, <1>3, <1>4, <1>5
<1>7. ChainHolds(t)
  <2> SUFFICES ASSUME NEW i \in 1 .. n
               PROVE  /\ t[i].kind = "dialog" => i = 1
                      /\ t[i].kind = "explorer" => t[i].ra = "other"
                      /\ (t[i].kind \in DOMAIN Caller /\ t[i].ra # "other") =>
                             i > 1 /\ t[i - 1].kind = Caller[t[i].kind]
    BY <1>3 DEF ChainHolds
  <2>1. i > 1 => i - 1 \in 1 .. n
    BY <1>1
  <2> QED
    BY <1>1, <1>3, <2>1 DEF Sound, ChainHolds
<1>8. WaitingHolds(t)
  <2>1. \A i \in 1 .. n - 1 : i \in 1 .. n
    BY <1>1
  <2> QED
    BY <1>3, <1>6, <2>1 DEF WaitingHolds
<1>9. AbortsHold(t)
  BY <1>3, <1>6 DEF AbortsHold
<1>10. DoomHolds(t)
  <2>1. \A i \in 1 .. n : n \in 1 .. n
    BY <1>1
  <2> QED
    BY <1>3, <1>6, <2>1 DEF DoomHolds, Failing, Answered
<1> QED
  BY <1>1, <1>3, <1>4, <1>7, <1>8, <1>9, <1>10 DEF Sound, t
-------------------------------------------------------------------------------

(* The failure of a frame that is not a refresh passes on, since only the   *)
(* return of a refresh leads to a wrapper.                                  *)
LEMMA FailurePasses ==
    ASSUME NEW s \in Seq(CallFrames), s # <<>>, NEW behind \in {"body", "error"},
           ChainHolds(s), WaitingHolds(s), Marked(s), s[Len(s)].kind # "refresh",
           s[Len(s)].ra = "known" => behind = "error",
           \A i \in 1 .. Len(s) - 1 : s[i].ra # "abort"
    PROVE  Sound(Return(s, behind))
<1>1. /\ Len(s) \in 1 .. Len(s) /\ s[Len(s)].kind \in FrameKinds
      /\ FrameKinds = {"dialog", "explorer"} \cup DOMAIN Caller
  BY InnerFrame DEF CallFrames, FrameKinds
<1>2. /\ s[Len(s)].kind = "explorer" => s[Len(s)].ra = "other"
      /\ s[Len(s)].kind = "dialog" => Len(s) = 1
      /\ s[Len(s)].kind \in DOMAIN Caller /\ s[Len(s)].ra # "other" =>
             s[Len(s) - 1].kind = Caller[s[Len(s)].kind]
  BY <1>1 DEF ChainHolds
<1>3. \A kind \in DOMAIN Caller : kind # "refresh" => Caller[kind] # "wrapper"
  BY DEF Caller
<1>4. Len(s) = 1 => Len(s) - 1 \notin 1 .. Len(s) - 1
  OBVIOUS
<1>5. ASSUME NEW i \in 1 .. Len(s) - 1, i = Len(s) - 1, s[Len(s)].ra = "abort"
      PROVE  s[i].kind # "wrapper"
  <2>1. s[Len(s)].kind \in DOMAIN Caller
    BY <1>1, <1>2, <1>4, <1>5
  <2> QED
    BY <1>2, <1>3, <1>5, <2>1
<1> QED
  BY <1>5, FailureReturns

(* A failing frame of a sound stack is marked like all it concerns.         *)
LEMMA FailingMarked ==
    ASSUME NEW s, Sound(s), s # <<>>, Failing(s[Len(s)])
    PROVE  Marked(s) /\ s[Len(s)].doomed
<1>1. Len(s) \in 1 .. Len(s)
  BY InnerFrame DEF Sound
<1>2. Concerned(s, Len(s))
  BY <1>1 DEF Concerned
<1> QED
  BY <1>1, <1>2 DEF Sound, DoomHolds, Marked

(* A frame that is called extends a stack without a failure.                *)
LEMMA CallSound ==
    ASSUME NEW s, Sound(s), NEW f \in CallFrames,
           s # <<>> => s[Len(s)].at = "body" /\ s[Len(s)].tag \in {"none", "admitted"},
           f.at = "body", f.tag \in {"none", "armed"}, f.ra # "abort", ~f.doomed,
           f.kind = "dialog" => s = <<>>,
           f.kind = "explorer" => f.ra = "other",
           f.kind \in DOMAIN Caller /\ f.ra # "other" =>
               s # <<>> /\ s[Len(s)].kind = Caller[f.kind]
    PROVE  Sound(Append(s, f))
<1> DEFINE t == Append(s, f)
           n == Len(s) + 1
<1>1. s \in Seq(CallFrames)
  BY DEF Sound
<1>2. /\ t \in Seq(CallFrames)
      /\ Len(t) = n
      /\ t[n] = f
      /\ \A i \in 1 .. Len(s) : t[i] = s[i]
      /\ Len(s) \in Nat
      /\ s = <<>> => Len(s) = 0
      /\ s # <<>> => Len(s) \in 1 .. Len(s)
  BY <1>1, AppendProperties, LenProperties, EmptySeq, InnerFrame
<1>3. \A i \in 1 .. n : i \in 1 .. Len(s) \/ i = n
  BY <1>2
<1>4. \A i \in 1 .. Len(s) : ~s[i].doomed /\ s[i].ra # "abort"
  <2>1. \A i \in 1 .. Len(s) : s # <<>>
    BY EmptySeq
  <2>2. s # <<>> => \A i \in 1 .. Len(s) : s[i].ra # "abort"
    BY NoneRewritten
  <2>3. s # <<>> => \A i \in 1 .. Len(s) : ~s[i].doomed
    BY DEF Sound, DoomHolds, Failing, Answered
  <2> QED
    BY <2>1, <2>2, <2>3
<1>5. n \in 1 .. n /\ n - 1 = Len(s) /\ (s # <<>> => n > 1) /\ (s = <<>> => n = 1)
  BY <1>2
<1> HIDE DEF t, n
<1>6. ChainHolds(t)
  <2> SUFFICES ASSUME NEW i \in 1 .. n
               PROVE  /\ t[i].kind = "dialog" => i = 1
                      /\ t[i].kind = "explorer" => t[i].ra = "other"
                      /\ (t[i].kind \in DOMAIN Caller /\ t[i].ra # "other") =>
                             i > 1 /\ t[i - 1].kind = Caller[t[i].kind]
    BY <1>2 DEF ChainHolds
  <2>1. CASE i = n
    BY <1>2, <1>5, <2>1
  <2>2. CASE i \in 1 .. Len(s)
    <3>1. i > 1 => i - 1 \in 1 .. Len(s)
      BY <1>2, <2>2
    <3> QED
      BY <1>2, <2>2, <3>1 DEF Sound, ChainHolds
  <2> QED
    BY <1>3, <2>1, <2>2
<1>7. WaitingHolds(t)
  <2> SUFFICES ASSUME NEW i \in 1 .. n - 1
               PROVE  t[i].at = "body" /\ t[i].tag \in {"none", "admitted"}
    BY <1>2 DEF WaitingHolds
  <2>1. i \in 1 .. Len(s) /\ (i = Len(s) \/ i \in 1 .. Len(s) - 1)
    BY <1>2, <1>5
  <2>2. s # <<>>
    BY <2>1, EmptySeq
  <2> QED
    BY <1>2, <2>1, <2>2 DEF Sound, WaitingHolds
<1>8. AbortsHold(t)
  <2> SUFFICES ASSUME NEW i \in 1 .. n
               PROVE  /\ t[i].ra = "abort" => t[i].kind = "wrapper" /\ t[i].at = "abort"
                      /\ t[i].kind = "wrapper" /\ t[i].at = "abort" => t[i].ra # "known"
                      /\ t[i].at # "body" => t[i].tag \in {"none", "admitted"}
    BY <1>2 DEF AbortsHold
  <2> QED
    BY <1>2, <1>3 DEF Sound, AbortsHold
<1>9. DoomHolds(t)
  <2>1. ~Failing(t[n])
    BY <1>2 DEF Failing, Answered
  <2>2. \A i \in 1 .. n : ~t[i].doomed
    BY <1>2, <1>3, <1>4
  <2> QED
    BY <1>2, <2>1, <2>2 DEF DoomHolds
<1> QED
  BY <1>2, <1>6, <1>7, <1>8, <1>9 DEF Sound, t

(* An answer to a witness that was armed: with the witness it is no failure,*)
(* without it the frame and all it concerns are doomed.                     *)
LEMMA AnswerSound ==
    ASSUME NEW s, Sound(s), s # <<>>, ~Failing(s[Len(s)]), s[Len(s)].at = "body",
           s[Len(s)].kind # "wrapper",
           NEW f \in CallFrames,
           f.kind = s[Len(s)].kind, f.ra = s[Len(s)].ra, f.at = "body",
           f.doomed = s[Len(s)].doomed
    PROVE  LET t == [s EXCEPT ![Len(s)] = f] IN
           /\ Alike(s, t) /\ (\A i \in 1 .. Len(s) : t[i].ra = s[i].ra)
           /\ ~Failing(f) => Sound(t)
           /\ Failing(f) => Sound(Doom(t))
<1> DEFINE t == [s EXCEPT ![Len(s)] = f]
<1>0. s \in Seq(CallFrames)
  BY DEF Sound
<1>1. /\ Len(s) \in Nat /\ Len(s) \in 1 .. Len(s)
      /\ \A i \in 1 .. Len(s) : s[i] \in CallFrames
  BY <1>0, InnerFrame
<1>2. /\ t \in Seq(CallFrames)
      /\ Len(t) = Len(s)
      /\ t # <<>>
      /\ t[Len(s)] = f
      /\ \A i \in 1 .. Len(s) : i # Len(s) => t[i] = s[i]
  BY <1>0, WriteProperties
<1> HIDE DEF t
<1>3. \A i \in 1 .. Len(s) : t[i].ra = s[i].ra /\ t[i].kind = s[i].kind /\ t[i].doomed = s[i].doomed
  BY <1>2
<1>4. Alike(s, t)
  BY <1>2, <1>3 DEF Alike
<1>5. ChainHolds(t) /\ WaitingHolds(t) /\ \A i \in 1 .. Len(s) : Concerned(t, i) <=> Concerned(s, i)
  BY <1>0, <1>4, AlikeKeeps DEF Sound
<1>6. \A i \in 1 .. Len(s) : t[i].ra # "abort" /\ ~t[i].doomed
  <2>1. \A i \in 1 .. Len(s) : s[i].ra # "abort"
    BY NoneRewritten
  <2>2. \A i \in 1 .. Len(s) : ~s[i].doomed
    BY DEF Sound, DoomHolds
  <2> QED
    BY <1>3, <2>1, <2>2
<1>7. \A i \in 1 .. Len(s) : t[i].at = "body"
  <2>1. \A i \in 1 .. Len(s) : i # Len(s) => i \in 1 .. Len(s) - 1
    BY <1>1
  <2> QED
    BY <1>2, <2>1 DEF Sound, WaitingHolds
<1>8. ~Failing(f) => Sound(t)
  <2>1. AbortsHold(t)
    BY <1>2, <1>6, <1>7 DEF AbortsHold
  <2>2. ~Failing(f) => DoomHolds(t)
    BY <1>1, <1>2, <1>6 DEF DoomHolds
  <2> QED
    BY <1>2, <1>5, <2>1, <2>2 DEF Sound
<1>9. Failing(f) => Sound(Doom(t))
  <2> SUFFICES ASSUME Failing(f) PROVE Sound(Doom(t))
    OBVIOUS
  <2> DEFINE d == Doom(t)
  <2>1. Alike(t, d) /\ Marked(d)
    BY <1>2, <1>5, <1>6, DoomMarks
  <2>2. /\ d \in Seq(CallFrames) /\ Len(d) = Len(s)
        /\ \A i \in 1 .. Len(s) : d[i].ra = t[i].ra /\ d[i].at = t[i].at /\ d[i].tag = t[i].tag
                                  /\ d[i].raw = t[i].raw
    BY <1>2, DoomProperties
  <2> HIDE DEF d
  <2>3. ChainHolds(d) /\ WaitingHolds(d)
    BY <1>2, <1>5, <2>1, AlikeKeeps
  <2>4. AbortsHold(d)
    BY <1>6, <1>7, <2>2 DEF AbortsHold
  <2>5. Failing(d[Len(d)])
    BY <1>1, <1>2, <2>2 DEF Failing, Answered, Captured
  <2>6. DoomHolds(d)
    BY <2>1, <2>5 DEF DoomHolds, Marked
  <2> QED
    BY <2>2, <2>3, <2>4, <2>6 DEF Sound, d
<1> QED
  BY <1>3, <1>4, <1>8, <1>9 DEF t
-------------------------------------------------------------------------------

(* What the gate's frames have to be for stock frames like s above them.    *)
Ground(p, s) ==
    s # <<>> =>
        /\ RunsFreely(p)
        /\ s[1].kind = "dialog" /\ s[1].ra # "other" =>
               frames[p] # <<>> /\ Top(p).kind \in {"poll", "close"}

(* A step of p on its own stock frames.                                     *)
LEMMA PrivateStep ==
    ASSUME UInv, NEW p \in Threads, NEW s, Sound(s), Ground(p, s),
           calls' = [calls EXCEPT ![p] = s], strayed' = {}, UNCHANGED vars
    PROVE  UInv'
<1>1. calls' \in [Threads -> Seq(CallFrames)]
  BY DEF UInv, Sound
<1>2. \A q \in Threads : Sound(calls'[q])
  BY DEF UInv
<1>3. ASSUME NEW q \in Threads PROVE Grounded(q)'
  <2>1. frames' = frames /\ pc' = pc
    BY DEF vars
  <2>2. CASE q = p
    BY <2>1, <2>2 DEF UInv, Ground, Grounded, RunsFreely, Top
  <2>3. CASE q # p
    BY <2>1, <2>3 DEF UInv, Grounded, RunsFreely, Top
  <2> QED
    BY <2>2, <2>3
<1> QED
  BY <1>1, <1>2, <1>3 DEF UInv

(* The first frame of an alike stack stands on the same ground.             *)
LEMMA AlikeGround ==
    ASSUME UInv, NEW p \in Threads, NEW s, Alike(calls[p], s), calls[p] # <<>>
    PROVE  Ground(p, s)
<1>1. 1 \in 1 .. Len(calls[p])
  BY InnerFrame DEF UInv
<1> QED
  BY <1>1 DEF UInv, Grounded, Ground, Alike

(* So does the first frame behind a return.                                 *)
LEMMA ReturnGround ==
    ASSUME UInv, NEW p \in Threads, NEW s, s # <<>>, Ground(p, s), s \in Seq(CallFrames),
           NEW behind \in {"body", "error"}
    PROVE  Ground(p, Return(s, behind))
<1> DEFINE t == Return(s, behind)
<1>1. /\ t \in Seq(CallFrames)
      /\ Len(t) = Len(s) - 1
      /\ \A i \in 1 .. Len(s) - 1 : t[i].kind = s[i].kind /\ t[i].ra = s[i].ra
  BY ReturnProperties, SMTT(30)
<1> HIDE DEF t
<1>2. t # <<>> => 1 \in 1 .. Len(s) - 1
  BY <1>1, InnerFrame
<1> QED
  BY <1>1, <1>2 DEF Ground, t

(* What InFrame says of the stack.                                          *)
LEMMA InFrameFacts ==
    ASSUME UInv, NEW p \in Threads, calls[p] # <<>>
    PROVE  /\ Sound(calls[p])
           /\ calls[p] \in Seq(CallFrames)
           /\ ChainHolds(calls[p])
           /\ WaitingHolds(calls[p])
           /\ Inner(p) = calls[p][Len(calls[p])]
           /\ Inner(p) \in CallFrames
           /\ RunsFreely(p)
BY InnerFrame DEF UInv, Sound, Inner, Grounded

LEMMA CallKeeps ==
    ASSUME UInv, NEW p \in Threads, NEW kind \in FrameKinds, NEW ra \in {"known", "other"},
           Call(p, kind, ra)
    PROVE  UInv'
<1> DEFINE s == calls[p]
           f == [kind |-> kind, ra |-> ra, at |-> "body", raw |-> "none", doomed |-> FALSE,
                 tag |-> IF kind \in Witnessed THEN "armed" ELSE "none"]
<1>1. f \in CallFrames
  BY DEF CallFrames
<1>2. ASSUME NEW below PROVE ~Nested(below, "dialog") /\ ~Nested(below, "explorer")
  BY DEF Nested, Orders
<1>3. s # <<>> => s[Len(s)].at = "body" /\ s[Len(s)].tag \in {"none", "admitted"}
  BY DEF Call, Outside, Inner
<1>4. kind = "dialog" => s = <<>>
  BY <1>2 DEF Call, Outside
<1>5. kind = "explorer" => ra = "other"
  BY DEF Call, Caller
<1>6. kind \in DOMAIN Caller /\ ra # "other" => s # <<>> /\ s[Len(s)].kind = Caller[kind]
  BY DEF Call, Outside, Inner
<1>7. Sound(s)
  BY DEF UInv
<1>8. Sound(Append(s, f))
  <2> HIDE DEF s
  <2>1. /\ f.kind = kind /\ f.ra = ra /\ f.at = "body" /\ f.tag \in {"none", "armed"}
        /\ f.ra # "abort" /\ ~f.doomed
    OBVIOUS
  <2> HIDE DEF f
  <2> QED
    BY <1>1, <1>3, <1>4, <1>5, <1>6, <1>7, <2>1, CallSound
<1>9. Ground(p, Append(s, f))
  <2>1. s \in Seq(CallFrames)
    BY DEF UInv
  <2>2. CASE s = <<>>
    <3>1. Append(s, f)[1] = f
      BY <2>2
    <3>2. kind = "dialog" /\ ra # "other" => frames[p] # <<>> /\ Top(p).kind \in {"poll", "close"}
      BY DEF Call, Caller
    <3> QED
      BY <3>1, <3>2 DEF Ground, Call
  <2>3. CASE s # <<>>
    <3>1. Append(s, f)[1] = s[1]
      BY <1>1, <2>1, <2>3, AppendProperties, InnerFrame
    <3> QED
      BY <2>3, <3>1 DEF Ground, UInv, Grounded, Call
  <2> QED
    BY <2>2, <2>3
<1>10. calls' = [calls EXCEPT ![p] = Append(s, f)] /\ strayed' = {} /\ UNCHANGED vars
  BY DEF Call, UInv
<1> HIDE DEF s, f
<1> QED
  BY <1>8, <1>9, <1>10, PrivateStep

LEMMA ServicedKeeps ==
    ASSUME UInv, NEW p \in Threads, NEW kind \in Witnessed, InFrame(p, kind), Serviced(p)
    PROVE  UInv'
<1> DEFINE s == calls[p]
<1>1. /\ s # <<>> /\ Sound(s) /\ s \in Seq(CallFrames)
      /\ Inner(p) = s[Len(s)] /\ s[Len(s)] \in CallFrames
      /\ s[Len(s)].kind = kind /\ s[Len(s)].tag = "armed"
  BY InFrameFacts DEF InFrame, Serviced, Outside
<1>2. s[Len(s)].at = "body" /\ ~Failing(s[Len(s)]) /\ s[Len(s)].kind # "wrapper"
  <2>1. Len(s) \in 1 .. Len(s)
    BY <1>1, InnerFrame
  <2> QED
    BY <1>1, <2>1 DEF Sound, AbortsHold, Failing, Answered, Witnessed
<1>3. PICK raw \in {"zero", "error"}, seen \in BOOLEAN :
        LET after == [calls[p] EXCEPT ![Len(calls[p])] =
                          [@ EXCEPT !.tag = IF seen THEN "captured" ELSE "cleared",
                                    !.raw = raw]]
        IN  calls' = [calls EXCEPT ![p] =
                          IF raw = "zero" /\ seen THEN after ELSE Doom(after)]
  BY DEF Serviced
<1> DEFINE f == [s[Len(s)] EXCEPT !.tag = IF seen THEN "captured" ELSE "cleared",
                                  !.raw = raw]
           t == [s EXCEPT ![Len(s)] = f]
<1>4. /\ f \in CallFrames
      /\ f.kind = s[Len(s)].kind /\ f.ra = s[Len(s)].ra /\ f.at = "body"
      /\ f.doomed = s[Len(s)].doomed
      /\ Failing(f) <=> ~(raw = "zero" /\ seen)
  <2>1. /\ f \in CallFrames
        /\ f.kind = s[Len(s)].kind /\ f.ra = s[Len(s)].ra /\ f.at = s[Len(s)].at
        /\ f.doomed = s[Len(s)].doomed
        /\ f.tag = IF seen THEN "captured" ELSE "cleared"
        /\ f.raw = raw
    BY <1>1 DEF CallFrames
  <2> HIDE DEF f
  <2> QED
    BY <1>2, <2>1 DEF Failing, Answered, Captured
<1>5. calls' = [calls EXCEPT ![p] = IF raw = "zero" /\ seen THEN t ELSE Doom(t)]
  BY <1>3
<1> HIDE DEF f
<1>6. /\ Alike(s, t)
      /\ ~Failing(f) => Sound(t)
      /\ Failing(f) => Sound(Doom(t))
  BY <1>1, <1>2, <1>4, AnswerSound
<1>7. Ground(p, t)
  BY <1>1, <1>6, AlikeGround
<1>8. Ground(p, Doom(t))
  <2>1. t \in Seq(CallFrames) /\ t # <<>>
    BY <1>1, <1>4, WriteProperties
  <2>2. 1 \in 1 .. Len(t)
    BY <2>1, InnerFrame
  <2>3. Doom(t)[1].kind = t[1].kind /\ Doom(t)[1].ra = t[1].ra
    BY <2>1, <2>2, DoomProperties
  <2> HIDE DEF t
  <2> QED
    BY <1>7, <2>1, <2>3 DEF Ground
<1>9. strayed' = {} /\ UNCHANGED vars
  BY DEF Serviced, UInv
<1> HIDE DEF t, s
<1>10. CASE raw = "zero" /\ seen
  BY <1>4, <1>5, <1>6, <1>7, <1>9, <1>10, PrivateStep
<1>11. CASE ~(raw = "zero" /\ seen)
  BY <1>4, <1>5, <1>6, <1>8, <1>9, <1>11, PrivateStep
<1> QED
  BY <1>10, <1>11

LEMMA AdmittedKeeps ==
    ASSUME UInv, NEW p \in Threads, NEW kind \in Witnessed, Admitted(p, kind)
    PROVE  UInv'
<1> DEFINE s == calls[p]
           f == [s[Len(s)] EXCEPT !.tag = "admitted", !.raw = "none"]
           t == [s EXCEPT ![Len(s)] = f]
<1>1. /\ s # <<>> /\ Sound(s) /\ s \in Seq(CallFrames)
      /\ Inner(p) = s[Len(s)] /\ s[Len(s)] \in CallFrames
      /\ s[Len(s)].kind = kind /\ s[Len(s)].tag = "captured" /\ s[Len(s)].raw = "zero"
  BY InFrameFacts DEF InFrame, Admitted, Captured, Outside
<1>2. s[Len(s)].at = "body" /\ ~Failing(s[Len(s)]) /\ s[Len(s)].kind # "wrapper"
  <2>1. Len(s) \in 1 .. Len(s)
    BY <1>1, InnerFrame
  <2> QED
    BY <1>1, <2>1 DEF Sound, AbortsHold, Failing, Answered, Captured, Witnessed
<1>3. /\ f \in CallFrames
      /\ f.kind = s[Len(s)].kind /\ f.ra = s[Len(s)].ra /\ f.at = "body"
      /\ f.doomed = s[Len(s)].doomed
      /\ ~Failing(f)
  <2>1. /\ f \in CallFrames
        /\ f.kind = s[Len(s)].kind /\ f.ra = s[Len(s)].ra /\ f.at = s[Len(s)].at
        /\ f.doomed = s[Len(s)].doomed
        /\ f.tag = "admitted"
    BY <1>1 DEF CallFrames
  <2> HIDE DEF f
  <2> QED
    BY <1>2, <2>1 DEF Failing, Answered
<1>4. calls' = [calls EXCEPT ![p] = t] /\ strayed' = {} /\ UNCHANGED vars
  BY <1>1 DEF Admitted, UInv
<1> HIDE DEF f
<1>5. Alike(s, t) /\ Sound(t)
  BY <1>1, <1>2, <1>3, AnswerSound
<1>6. Ground(p, t)
  BY <1>1, <1>5, AlikeGround
<1> HIDE DEF t, s
<1> QED
  BY <1>4, <1>5, <1>6, PrivateStep
-------------------------------------------------------------------------------

(* A frame that leaves by its epilogue with a failure on its way.           *)
LEMMA StopsKeeps ==
    ASSUME UInv, NEW p \in Threads, calls[p] # <<>>, NEW s, NEW behind \in {"body", "error"},
           Alike(calls[p], s), s[Len(s)].doomed, Sound(Return(s, behind)), Stops(p, s, behind)
    PROVE  UInv'
<1>1. s \in Seq(CallFrames) /\ s # <<>>
  BY InnerFrame, EmptySeq DEF Alike, UInv
<1>2. Ground(p, Return(s, behind))
  BY <1>1, AlikeGround, ReturnGround
<1>3. strayed' = {} /\ calls' = [calls EXCEPT ![p] = Return(s, behind)] /\ UNCHANGED vars
  BY DEF Stops, UInv
<1> QED
  BY <1>2, <1>3, PrivateStep

(* A sound stack is alike itself.                                           *)
LEMMA AlikeItself ==
    ASSUME NEW s \in Seq(CallFrames)
    PROVE  Alike(s, s)
BY DEF Alike

(* The failures that start in a frame which waits for nothing.              *)
LEMMA DoomStops ==
    ASSUME NEW s, Sound(s), s # <<>>, s[Len(s)].kind # "wrapper"
    PROVE  /\ Alike(s, Doom(s))
           /\ Marked(Doom(s))
           /\ Doom(s)[Len(s)].doomed
           /\ ChainHolds(Doom(s))
           /\ WaitingHolds(Doom(s))
           /\ Doom(s) \in Seq(CallFrames)
           /\ Doom(s) # <<>>
           /\ Len(Doom(s)) = Len(s)
           /\ Len(s) \in 1 .. Len(s)
           /\ \A i \in 1 .. Len(s) : Doom(s)[i].ra # "abort" /\ Doom(s)[i].kind = s[i].kind
<1>1. s \in Seq(CallFrames) /\ ChainHolds(s) /\ WaitingHolds(s)
  BY DEF Sound
<1>2. \A i \in 1 .. Len(s) : s[i].ra # "abort"
  BY NoneRewritten
<1>3. \A i \in 1 .. Len(s) : s[i].doomed => Concerned(s, i)
  BY DEF Sound, DoomHolds
<1>4. Alike(s, Doom(s)) /\ Marked(Doom(s)) /\ Doom(s)[Len(s)].doomed
  BY <1>1, <1>2, <1>3, DoomMarks
<1>5. ChainHolds(Doom(s)) /\ WaitingHolds(Doom(s))
  BY <1>1, <1>4, AlikeKeeps
<1>6. Len(s) \in 1 .. Len(s)
  BY <1>1, InnerFrame
<1> QED
  BY <1>1, <1>2, <1>4, <1>5, <1>6, DoomProperties

LEMMA DeleteRefusedKeeps ==
    ASSUME UInv, NEW p \in Threads, DeleteRefused(p)
    PROVE  UInv'
<1> DEFINE s == calls[p]
           d == Doom(s)
<1>1. s # <<>> /\ Sound(s) /\ s[Len(s)].kind = "destructor"
  BY InFrameFacts DEF DeleteRefused, InFrame, Outside
<1>2. Stops(p, d, "error")
  BY DEF DeleteRefused
<1> HIDE DEF s
<1>3. /\ Alike(s, d) /\ Marked(d) /\ d[Len(d)].doomed /\ ChainHolds(d) /\ WaitingHolds(d)
      /\ d \in Seq(CallFrames) /\ d # <<>> /\ d[Len(d)].kind = "destructor"
      /\ \A i \in 1 .. Len(d) : d[i].ra # "abort"
  BY <1>1, DoomStops
<1> HIDE DEF d
<1>4. \A i \in 1 .. Len(d) - 1 : i \in 1 .. Len(d)
  BY <1>3, InnerFrame
<1>5. Sound(Return(d, "error"))
  BY <1>3, <1>4, FailurePasses
<1> QED
  BY <1>1, <1>2, <1>3, <1>5, StopsKeeps DEF s

(* The frames below the innermost one of a sound stack have their addresses.*)
LEMMA LowerAddresses ==
    ASSUME NEW s, Sound(s)
    PROVE  \A i \in 1 .. Len(s) - 1 : s[i].ra # "abort"
<1>1. \A i \in 1 .. Len(s) - 1 : i \in 1 .. Len(s)
  BY LenProperties DEF Sound
<1> QED
  BY <1>1 DEF Sound, AbortsHold, WaitingHolds

LEMMA DestructorStopsKeeps ==
    ASSUME UInv, NEW p \in Threads, DestructorStops(p)
    PROVE  UInv'
<1> DEFINE s == calls[p]
<1>1. /\ s # <<>> /\ Sound(s) /\ s \in Seq(CallFrames) /\ ChainHolds(s) /\ WaitingHolds(s)
      /\ s[Len(s)].kind = "destructor" /\ Failing(s[Len(s)])
  BY InFrameFacts DEF DestructorStops, InFrame, Outside, Failing
<1>2. Stops(p, s, "error")
  BY DEF DestructorStops
<1> HIDE DEF s
<1>3. Marked(s) /\ s[Len(s)].doomed
  BY <1>1, FailingMarked
<1>4. Sound(Return(s, "error"))
  BY <1>1, <1>3, LowerAddresses, FailurePasses
<1> QED
  BY <1>1, <1>2, <1>3, <1>4, AlikeItself, StopsKeeps DEF s

(* The epilogue of a frame in its abort thunk.                              *)
LEMMA AbortsKeeps ==
    ASSUME UInv, NEW p \in Threads, NEW kind \in {"wrapper", "explorer"}, Aborts(p, kind)
    PROVE  UInv'
<1> DEFINE s == calls[p]
<1>1. /\ s # <<>> /\ Sound(s) /\ s \in Seq(CallFrames) /\ ChainHolds(s) /\ WaitingHolds(s)
      /\ s[Len(s)].kind = kind /\ s[Len(s)].at = "abort" /\ Failing(s[Len(s)])
  BY InFrameFacts DEF Aborts, InFrame, Outside, Failing
<1>2. Stops(p, s, "body")
  BY DEF Aborts
<1> HIDE DEF s
<1>3. Marked(s) /\ s[Len(s)].doomed
  BY <1>1, FailingMarked
<1>4. s[Len(s)].ra # "known" /\ kind # "refresh"
  <2>1. Len(s) \in 1 .. Len(s)
    BY <1>1, InnerFrame
  <2> QED
    BY <1>1, <2>1 DEF Sound, AbortsHold, ChainHolds
<1>5. Sound(Return(s, "body"))
  BY <1>1, <1>3, <1>4, LowerAddresses, FailurePasses
<1> QED
  BY <1>1, <1>2, <1>3, <1>5, AlikeItself, StopsKeeps DEF s

(* A rewritten return of the innermost frame.                               *)
LEMMA RetargetInner ==
    ASSUME NEW s \in Seq(CallFrames), s # <<>>, ChainHolds(s), WaitingHolds(s), Marked(s)
    PROVE  LET t == [s EXCEPT ![Len(s)].ra = Retarget(@)] IN
           /\ Alike(s, t) /\ t \in Seq(CallFrames) /\ t # <<>> /\ Len(t) = Len(s)
           /\ ChainHolds(t) /\ WaitingHolds(t) /\ Marked(t)
           /\ t[Len(s)].ra # "known"
           /\ t[Len(s)].doomed = s[Len(s)].doomed
           /\ t[Len(s)].kind = s[Len(s)].kind
           /\ \A i \in 1 .. Len(s) - 1 : t[i] = s[i]
<1> DEFINE f == [s[Len(s)] EXCEPT !.ra = Retarget(@)]
           t == [s EXCEPT ![Len(s)] = f]
<1>0. [s EXCEPT ![Len(s)].ra = Retarget(@)] = t
  OBVIOUS
<1>1. /\ Len(s) \in Nat \ {0} /\ Len(s) \in 1 .. Len(s) /\ s[Len(s)] \in CallFrames
      /\ \A i \in 1 .. Len(s) - 1 : i \in 1 .. Len(s) /\ i # Len(s)
  BY InnerFrame
<1>2. /\ f \in CallFrames /\ f.ra # "known"
      /\ f.ra = "other" <=> s[Len(s)].ra = "other"
      /\ f.doomed = s[Len(s)].doomed /\ f.kind = s[Len(s)].kind
  <2>1. /\ f.ra = Retarget(s[Len(s)].ra)
        /\ f.doomed = s[Len(s)].doomed /\ f.kind = s[Len(s)].kind
    BY <1>1 DEF CallFrames
  <2>2. Retarget(s[Len(s)].ra) \in {"abort", "other"}
    BY <1>1 DEF Retarget, CallFrames
  <2>3. f \in CallFrames
    BY <1>1, <2>2 DEF CallFrames
  <2> HIDE DEF f
  <2> QED
    BY <2>1, <2>2, <2>3 DEF Retarget
<1> HIDE DEF f
<1>3. /\ t \in Seq(CallFrames) /\ Len(t) = Len(s) /\ t # <<>> /\ t[Len(s)] = f
      /\ \A i \in 1 .. Len(s) : i # Len(s) => t[i] = s[i]
  BY <1>2, WriteProperties
<1> HIDE DEF t
<1>4. Alike(s, t)
  BY <1>2, <1>3 DEF Alike
<1>5. /\ ChainHolds(t) /\ WaitingHolds(t)
      /\ \A i \in 1 .. Len(s) : Concerned(t, i) <=> Concerned(s, i)
  BY <1>4, AlikeKeeps
<1>6. \A i \in 1 .. Len(s) : t[i].doomed = s[i].doomed
  BY <1>2, <1>3
<1>7. Marked(t)
  BY <1>3, <1>5, <1>6 DEF Marked
<1> QED
  BY <1>0, <1>1, <1>2, <1>3, <1>4, <1>5, <1>7

LEMMA CallbackAbortsKeeps ==
    ASSUME UInv, NEW p \in Threads, CallbackAborts(p)
    PROVE  UInv'
<1> DEFINE s == calls[p]
           t == [s EXCEPT ![Len(s)].ra = Retarget(@)]
<1>1. /\ s # <<>> /\ Sound(s) /\ s \in Seq(CallFrames) /\ ChainHolds(s) /\ WaitingHolds(s)
      /\ s[Len(s)].kind = "callback" /\ s[Len(s)].at = "abort" /\ Failing(s[Len(s)])
  BY InFrameFacts DEF CallbackAborts, InFrame, Outside, Failing
<1>2. Stops(p, t, "body")
  BY DEF CallbackAborts
<1> HIDE DEF s
<1>3. Marked(s) /\ s[Len(s)].doomed
  BY <1>1, FailingMarked
<1>4. /\ Alike(s, t) /\ t \in Seq(CallFrames) /\ t # <<>> /\ Len(t) = Len(s)
      /\ ChainHolds(t) /\ WaitingHolds(t) /\ Marked(t)
      /\ t[Len(t)].ra # "known" /\ t[Len(t)].doomed /\ t[Len(t)].kind = "callback"
      /\ \A i \in 1 .. Len(t) - 1 : t[i] = s[i]
  BY <1>1, <1>3, RetargetInner
<1>5. \A i \in 1 .. Len(t) - 1 : t[i].ra # "abort"
  BY <1>1, <1>4, LowerAddresses
<1> HIDE DEF t
<1>6. Sound(Return(t, "body"))
  BY <1>4, <1>5, FailurePasses
<1> QED
  BY <1>1, <1>2, <1>4, <1>6, StopsKeeps DEF s

LEMMA RegistrationFailsKeeps ==
    ASSUME UInv, NEW p \in Threads, RegistrationFails(p)
    PROVE  UInv'
<1> DEFINE s == calls[p]
           d == Doom(s)
           t == [d EXCEPT ![Len(d)].ra = Retarget(@)]
<1>1. /\ s # <<>> /\ Sound(s) /\ s \in Seq(CallFrames)
      /\ s[Len(s)].kind = "constructor"
  BY InFrameFacts DEF RegistrationFails, InFrame, Outside
<1>2. Stops(p, [d EXCEPT ![Len(s)].ra = Retarget(@)], "body")
  BY DEF RegistrationFails
<1> HIDE DEF s
<1>3. /\ Alike(s, d) /\ Marked(d) /\ d[Len(d)].doomed /\ ChainHolds(d) /\ WaitingHolds(d)
      /\ d \in Seq(CallFrames) /\ d # <<>> /\ Len(d) = Len(s) /\ d[Len(d)].kind = "constructor"
      /\ \A i \in 1 .. Len(d) : d[i].ra # "abort"
  BY <1>1, DoomStops
<1>4. \A i \in 1 .. Len(d) - 1 : d[i].ra # "abort"
  <2>1. \A i \in 1 .. Len(d) - 1 : i \in 1 .. Len(d)
    BY <1>3, InnerFrame
  <2> QED
    BY <1>3, <2>1
<1> HIDE DEF d
<1>5. /\ Alike(d, t) /\ t \in Seq(CallFrames) /\ t # <<>> /\ Len(t) = Len(d)
      /\ ChainHolds(t) /\ WaitingHolds(t) /\ Marked(t)
      /\ t[Len(t)].ra # "known" /\ t[Len(t)].doomed /\ t[Len(t)].kind = "constructor"
      /\ \A i \in 1 .. Len(t) - 1 : t[i] = d[i]
  BY <1>3, RetargetInner
<1>6. Stops(p, t, "body")
  BY <1>2, <1>3
<1>7. \A i \in 1 .. Len(t) - 1 : t[i].ra # "abort"
  BY <1>4, <1>5
<1> HIDE DEF t
<1>8. Sound(Return(t, "body"))
  BY <1>5, <1>7, FailurePasses
<1>9. Alike(s, t)
  BY <1>3, <1>5, LenProperties DEF Alike
<1> QED
  BY <1>1, <1>5, <1>6, <1>8, <1>9, StopsKeeps DEF s

(* Both rewrites of a failed refresh: its own return, and the return of the *)
(* wrapper it leads to.                                                     *)
LEMMA RewriteProperties ==
    ASSUME NEW s, Sound(s), s # <<>>, s[Len(s)].kind = "refresh", Marked(s)
    PROVE  LET t == Rewrite(s) IN
           /\ Alike(s, t) /\ t # <<>> /\ Marked(t) /\ ChainHolds(t) /\ WaitingHolds(t)
           /\ t[Len(t)].ra # "known" /\ t[Len(t)].doomed = s[Len(s)].doomed
           /\ \A i \in 1 .. Len(t) - 1 :
                t[i].ra = "abort" =>
                    i = Len(t) - 1 /\ t[i].kind = "wrapper" /\ t[Len(t)].ra = "abort"
           /\ \A i \in 1 .. Len(t) - 1 :
                i = Len(t) - 1 /\ t[i].kind = "wrapper" /\ t[Len(t)].ra = "abort" =>
                    t[i].ra # "known"
<1> DEFINE n == Len(s)
           written(i) == i = n \/ (i = n - 1 /\ s[n].ra = "known")
           f(i) == IF written(i) THEN [s[i] EXCEPT !.ra = Retarget(@)] ELSE s[i]
           t == Rewrite(s)
<1>1. /\ s \in Seq(CallFrames) /\ n \in Nat \ {0} /\ n \in 1 .. n /\ DOMAIN s = 1 .. n
      /\ \A i \in 1 .. n : s[i] \in CallFrames
      /\ ChainHolds(s) /\ WaitingHolds(s)
  BY InnerFrame DEF Sound
<1>2. \A i \in 1 .. n : s[i].ra \in {"known", "other"}
  <2>1. \A i \in 1 .. n : s[i].ra # "abort"
    BY NoneRewritten
  <2> QED
    BY <1>1, <2>1 DEF CallFrames
<1>3. ASSUME NEW i \in 1 .. n
      PROVE  /\ f(i) \in CallFrames
             /\ f(i).kind = s[i].kind
             /\ f(i).ra = IF written(i) THEN Retarget(s[i].ra) ELSE s[i].ra
             /\ f(i).at = s[i].at
             /\ f(i).tag = s[i].tag
             /\ f(i).doomed = s[i].doomed
  <2>1. s[i] \in CallFrames /\ Retarget(s[i].ra) \in {"known", "other", "abort"}
    BY <1>1, <1>2 DEF Retarget
  <2> HIDE DEF written
  <2>2. CASE written(i)
    BY <2>1, <2>2 DEF CallFrames
  <2>3. CASE ~written(i)
    BY <2>1, <2>3
  <2> QED
    BY <2>2, <2>3
<1>4. t = [i \in 1 .. n |-> f(i)]
  BY <1>1 DEF Rewrite
<1> HIDE DEF f, t
<1>5. t \in Seq(CallFrames) /\ Len(t) = n /\ \A i \in 1 .. n : t[i] = f(i)
  <2>1. t \in [1 .. n -> CallFrames]
    BY <1>3, <1>4
  <2>2. t \in Seq(CallFrames)
    BY <1>1, <2>1, SeqDef
  <2>3. DOMAIN t = 1 .. Len(t) /\ Len(t) \in Nat /\ 1 .. Len(t) = 1 .. n
    BY <2>1, <2>2, LenProperties
  <2>4. n \in 1 .. Len(t)
    BY <1>1, <2>3
  <2>5. Len(t) \in 1 .. n
    BY <2>3, <2>4
  <2>6. Len(t) = n
    <3>1. n \in Nat /\ Len(t) \in Nat
      BY <1>1, <2>3
    <3> HIDE DEF n
    <3> QED
      BY <2>4, <2>5, <3>1
  <2> QED
    BY <1>4, <2>2, <2>6
<1>6. \A i \in 1 .. n : f(i).ra = "other" <=> s[i].ra = "other"
  BY <1>2, <1>3 DEF Retarget
<1>7. Alike(s, t)
  BY <1>3, <1>5, <1>6 DEF Alike
<1>8. /\ ChainHolds(t) /\ WaitingHolds(t)
      /\ \A i \in 1 .. n : Concerned(t, i) <=> Concerned(s, i)
  BY <1>1, <1>7, AlikeKeeps
<1>9. \A i \in 1 .. n : t[i].doomed = s[i].doomed
  BY <1>3, <1>5
<1>10. Marked(t)
  BY <1>5, <1>8, <1>9 DEF Marked
<1>11. t # <<>>
  BY <1>1, <1>5, EmptySeq
<1>12. t[n].ra = Retarget(s[n].ra) /\ t[n].ra # "known" /\ t[n].doomed = s[n].doomed
  BY <1>1, <1>2, <1>3, <1>5, <1>9 DEF Retarget
<1>13. s[n].ra = "known" => n > 1 /\ s[n - 1].kind = "wrapper"
  BY <1>1 DEF ChainHolds, Caller
<1>14. ASSUME NEW i \in 1 .. n - 1
       PROVE  /\ t[i].ra = "abort" =>
                     i = n - 1 /\ t[i].kind = "wrapper" /\ t[n].ra = "abort"
              /\ i = n - 1 /\ t[n].ra = "abort" => t[i].ra # "known"
  <2>1. i \in 1 .. n /\ i # n
    <3>1. n \in Nat
      BY <1>1
    <3> HIDE DEF n
    <3> QED
      BY <3>1
  <2>2. /\ t[i].ra = IF i = n - 1 /\ s[n].ra = "known" THEN Retarget(s[i].ra) ELSE s[i].ra
        /\ t[i].kind = s[i].kind
    BY <1>3, <1>5, <2>1
  <2>3. s[n].ra = "known" => t[n].ra = "abort"
    BY <1>12 DEF Retarget
  <2>4. t[n].ra = "abort" => s[n].ra = "known"
    BY <1>1, <1>2, <1>12 DEF Retarget
  <2>5. s[i].ra \in {"known", "other"} /\ Retarget(s[i].ra) # "known"
    BY <1>2, <2>1 DEF Retarget
  <2> HIDE DEF n
  <2> QED
    BY <1>13, <2>2, <2>3, <2>4, <2>5
<1> QED
  BY <1>5, <1>7, <1>8, <1>10, <1>11, <1>12, <1>14 DEF t

LEMMA RefreshStopsKeeps ==
    ASSUME UInv, NEW p \in Threads, RefreshStops(p)
    PROVE  UInv'
<1> DEFINE s == calls[p]
           t == Rewrite(s)
<1>1. s # <<>> /\ Sound(s) /\ s[Len(s)].kind = "refresh" /\ Failing(s[Len(s)])
  BY InFrameFacts DEF RefreshStops, InFrame, Outside, Failing
<1>2. Stops(p, t, "body")
  BY DEF RefreshStops
<1> HIDE DEF s
<1>3. Marked(s) /\ s[Len(s)].doomed
  BY <1>1, FailingMarked
<1>4. /\ Alike(s, t) /\ t # <<>> /\ Marked(t) /\ ChainHolds(t) /\ WaitingHolds(t)
      /\ t[Len(t)].ra # "known" /\ t[Len(t)].doomed
      /\ \A i \in 1 .. Len(t) - 1 :
           t[i].ra = "abort" =>
               i = Len(t) - 1 /\ t[i].kind = "wrapper" /\ t[Len(t)].ra = "abort"
      /\ \A i \in 1 .. Len(t) - 1 :
           i = Len(t) - 1 /\ t[i].kind = "wrapper" /\ t[Len(t)].ra = "abort" =>
               t[i].ra # "known"
  BY <1>1, <1>3, RewriteProperties
<1> HIDE DEF t
<1>5. Sound(Return(t, "body"))
  BY <1>4, FailureReturns DEF Alike
<1> QED
  BY <1>1, <1>2, <1>4, <1>5, StopsKeeps DEF s

LEMMA FinishesKeeps ==
    ASSUME UInv, NEW p \in Threads, Finishes(p)
    PROVE  UInv'
<1> DEFINE s == calls[p]
<1>1. /\ s # <<>> /\ Sound(s) /\ s \in Seq(CallFrames)
      /\ s[Len(s)].at = "body" /\ s[Len(s)].tag \in {"none", "admitted"}
  BY InFrameFacts DEF Finishes, Outside
<1>2. Ground(p, s)
  BY <1>1, AlikeItself, AlikeGround
<1> HIDE DEF s
<1>3. Sound(Return(s, "body")) /\ ~s[Len(s)].doomed
  BY <1>1, NormalReturns
<1>4. Ground(p, Return(s, "body"))
  BY <1>1, <1>2, ReturnGround
<1>5. /\ calls' = [calls EXCEPT ![p] = Return(s, "body")]
      /\ strayed' = strayed \cup {k \in {s[Len(s)].kind} : s[Len(s)].doomed}
      /\ UNCHANGED vars
  BY DEF Finishes, Inner, s
<1>6. strayed' = {}
  BY <1>3, <1>5 DEF UInv
<1> QED
  BY <1>3, <1>4, <1>5, <1>6, PrivateStep
-------------------------------------------------------------------------------

(* A dialog is the only stock frame of its thread when it leaves, so what   *)
(* it writes into the gate's frame below is under no stock frame.           *)
LEMMA LeavesRetainedKeeps ==
    ASSUME TypeOK, UInv, NEW p \in Threads, calls[p] # <<>>, Inner(p).kind = "dialog",
           Failing(Inner(p)), LeavesRetained(p)
    PROVE  UInv' /\ (UNCHANGED frames \/ /\ frames[p] # <<>>
                                         /\ Top(p).kind \in {"poll", "close"}
                                         /\ InnerReturns(p, frames[p], "error"))
<1> DEFINE s == calls[p]
           t == Return(s, "body")
<1>1. /\ s # <<>> /\ Sound(s) /\ s \in Seq(CallFrames) /\ Inner(p) = s[Len(s)]
      /\ s[Len(s)].kind = "dialog"
  BY InFrameFacts
<1>2. Len(s) = 1
  BY <1>1, InnerFrame DEF Sound, ChainHolds
<1>3. t = <<>>
  <2>1. t \in Seq(CallFrames) /\ Len(t) = Len(s) - 1
    BY <1>1, ReturnProperties
  <2> HIDE DEF t
  <2> QED
    BY <1>2, <2>1, EmptySeq
<1>4. s[Len(s)].doomed
  BY <1>1, FailingMarked
<1>5. strayed' = {}
  <2>1. Retarget(Inner(p).ra) # "known"
    BY DEF Retarget
  <2> QED
    BY <1>1, <1>4, <2>1 DEF LeavesRetained, UInv
<1>6. calls' = [calls EXCEPT ![p] = <<>>]
  BY <1>3 DEF LeavesRetained
<1>7. UNCHANGED frames \/ /\ frames[p] # <<>>
                          /\ Top(p).kind \in {"poll", "close"}
                          /\ InnerReturns(p, frames[p], "error")
  <2>1. Retarget(Inner(p).ra) = "abort" => Inner(p).ra # "other"
    BY DEF Retarget
  <2>2. s[1] = Inner(p)
    BY <1>1, <1>2
  <2> QED
    BY <1>1, <2>1, <2>2 DEF LeavesRetained, UInv, Grounded
<1>8. \A q \in Threads \ {p} : frames'[q] = frames[q] /\ pc'[q] = pc[q]
  BY <1>7 DEF LeavesRetained, InnerReturns, TypeOK
<1>9. Sound(<<>>)
  <2>1. Len(<<>>) = 0 /\ <<>> \in Seq(CallFrames)
    BY EmptySeq
  <2> QED
    BY <2>1 DEF Sound, ChainHolds, WaitingHolds, AbortsHold, DoomHolds
<1>10. calls' \in [Threads -> Seq(CallFrames)] /\ \A q \in Threads : Sound(calls'[q])
  BY <1>6, <1>9 DEF UInv, Sound
<1>11. ASSUME NEW q \in Threads PROVE Grounded(q)'
  <2>1. CASE q = p
    BY <1>6, <2>1 DEF UInv, Grounded
  <2>2. CASE q # p
    BY <1>6, <1>8, <2>2 DEF UInv, Grounded, RunsFreely, Top
  <2> QED
    BY <2>1, <2>2
<1> QED
  BY <1>5, <1>7, <1>10, <1>11 DEF UInv

(* The error routes of a dialog are the gate's.                             *)
LEMMA DialogRoutes ==
    ASSUME TypeOK, UInv, NEW p \in Threads, DialogDenied(p) \/ DialogAborts(p)
    PROVE  UInv' /\ ErrorRoute(p)
<1>1. /\ calls[p] # <<>> /\ Inner(p).kind = "dialog" /\ Failing(Inner(p))
      /\ Quarantines /\ LeavesRetained(p)
  BY DEF DialogDenied, DialogAborts, InFrame, Outside, Failing
<1>2. RunsFreely(p)
  BY <1>1 DEF UInv, Grounded
<1> QED
  BY <1>1, <1>2, LeavesRetainedKeeps DEF ErrorRoute, Quarantines, LeavesRetained

(* The gate's own steps are those of threads without stock frames.          *)
LEMMA GateStepOutside ==
    ASSUME TypeOK, UInv, NEW p \in Threads, GateStep(p)
    PROVE  /\ calls[p] = <<>>
           /\ \A q \in Threads \ {p} : frames'[q] = frames[q] /\ pc'[q] = pc[q]
<1> USE DEF TypeOK
<1>1. pc[p] # "native" => calls[p] = <<>>
  BY DEF UInv, Grounded, RunsFreely
<1>2. CASE Outside(p) /\ \E kind \in Kinds : Enter(p, kind)
  BY <1>2 DEF Outside, Enter
<1>3. CASE EnterLL(p)
  BY <1>1, <1>3 DEF EnterLL, ToNative
<1>4. CASE EnterSC(p)
  BY <1>1, <1>4 DEF EnterSC, ToNative
<1>5. CASE EnterSCFails(p)
  BY <1>1, <1>5 DEF EnterSCFails, ToNative
<1>6. CASE Outside(p) /\ InnerClose(p)
  BY <1>6 DEF Outside, InnerClose, InnerReturns
<1>7. CASE Outside(p) /\ LeaveBorrowed(p)
  BY <1>7 DEF Outside, LeaveBorrowed, InnerReturns
<1>8. CASE Outside(p) /\ Leave(p)
  BY <1>8 DEF Outside, Leave
<1>9. CASE LeaveLL(p)
  BY <1>1, <1>9 DEF LeaveLL, ToNative
<1>10. CASE LeaveSC(p)
  BY <1>1, <1>10 DEF LeaveSC, ToNative
<1>11. CASE LeaveSCFails(p)
  BY <1>1, <1>11 DEF LeaveSCFails, GiveUp
<1>12. CASE LeaveQuarantined(p)
  BY <1>1, <1>12 DEF LeaveQuarantined, ToNative
<1> QED
  BY <1>2, <1>3, <1>4, <1>5, <1>6, <1>7, <1>8, <1>9, <1>10, <1>11, <1>12 DEF GateStep

LEMMA GateStepKeeps ==
    ASSUME TypeOK, UInv, NEW p \in Threads, GateStep(p)
    PROVE  UInv' /\ Next
<1>1. calls' = calls /\ strayed' = strayed
  BY DEF GateStep, unwindVars
<1>2. ASSUME NEW q \in Threads PROVE Grounded(q)'
  <2>1. CASE calls[q] = <<>>
    BY <1>1, <2>1 DEF Grounded
  <2>2. CASE calls[q] # <<>>
    <3>1. frames'[q] = frames[q] /\ pc'[q] = pc[q]
      BY <2>2, GateStepOutside
    <3> QED
      BY <1>1, <2>2, <3>1 DEF UInv, Grounded, RunsFreely, Top
  <2> QED
    BY <2>1, <2>2
<1>3. UInv'
  BY <1>1, <1>2 DEF UInv
<1>4. Next
  BY DEF GateStep, Next
<1> QED
  BY <1>3, <1>4

(* Every step keeps the stacks sound, and is a step of the gate or none.    *)
LEMMA UnwindStep ==
    ASSUME IInv, UInv, [DialogNext]_dialogVars
    PROVE  UInv' /\ [Next]_vars
<1> TypeOK
  BY DEF IInv
<1>1. CASE UNCHANGED dialogVars
  BY <1>1 DEF dialogVars, unwindVars, vars, UInv, Grounded, RunsFreely, Top
<1>2. ASSUME NEW p \in Threads, GateStep(p)
      PROVE  UInv' /\ [Next]_vars
  BY <1>2, GateStepKeeps
<1>3. ASSUME NEW p \in Threads, NEW kind \in FrameKinds, NEW ra \in {"known", "other"},
             Call(p, kind, ra)
      PROVE  UInv' /\ [Next]_vars
  BY <1>3, CallKeeps DEF Call
<1>4. ASSUME NEW p \in Threads, RawAcquire(p) \/ RawRelease(p)
      PROVE  UInv' /\ [Next]_vars
  <2>1. "dialog" \in Witnessed /\ "destructor" \in Witnessed
    BY DEF Witnessed
  <2> QED
    BY <1>4, <2>1, ServicedKeeps DEF RawAcquire, RawRelease, Serviced
<1>5. ASSUME NEW p \in Threads, DialogAdmitted(p) \/ DestructorForwards(p)
      PROVE  UInv' /\ [Next]_vars
  <2>1. "dialog" \in Witnessed /\ "destructor" \in Witnessed
    BY DEF Witnessed
  <2> QED
    BY <1>5, <2>1, AdmittedKeeps DEF DialogAdmitted, DestructorForwards, Admitted
<1>6. ASSUME NEW p \in Threads, DeleteRefused(p)
      PROVE  UInv' /\ [Next]_vars
  BY <1>6, DeleteRefusedKeeps DEF DeleteRefused, Stops
<1>7. ASSUME NEW p \in Threads, DestructorStops(p)
      PROVE  UInv' /\ [Next]_vars
  BY <1>7, DestructorStopsKeeps DEF DestructorStops, Stops
<1>8. ASSUME NEW p \in Threads, RefreshStops(p)
      PROVE  UInv' /\ [Next]_vars
  BY <1>8, RefreshStopsKeeps DEF RefreshStops, Stops
<1>9. ASSUME NEW p \in Threads, WrapperAborts(p) \/ ExplorerAborts(p)
      PROVE  UInv' /\ [Next]_vars
  BY <1>9, AbortsKeeps DEF WrapperAborts, ExplorerAborts, Aborts, Stops
<1>10. ASSUME NEW p \in Threads, CallbackAborts(p)
       PROVE  UInv' /\ [Next]_vars
  BY <1>10, CallbackAbortsKeeps DEF CallbackAborts, Stops
<1>11. ASSUME NEW p \in Threads, RegistrationFails(p)
       PROVE  UInv' /\ [Next]_vars
  BY <1>11, RegistrationFailsKeeps DEF RegistrationFails, Stops
<1>12. ASSUME NEW p \in Threads, DialogDenied(p) \/ DialogAborts(p)
       PROVE  UInv' /\ [Next]_vars
  BY <1>12, DialogRoutes DEF Next
<1>13. ASSUME NEW p \in Threads, Finishes(p)
       PROVE  UInv' /\ [Next]_vars
  BY <1>13, FinishesKeeps DEF Finishes
<1> QED
  BY <1>1, <1>2, <1>3, <1>4, <1>5, <1>6, <1>7, <1>8, <1>9, <1>10, <1>11, <1>12, <1>13 DEF DialogNext

(* Nothing has been called yet.                                             *)
LEMMA UnwindInit == DialogInit => UInv
<1> SUFFICES ASSUME DialogInit PROVE UInv
  OBVIOUS
<1>1. Len(<<>>) = 0 /\ <<>> \in Seq(CallFrames)
  BY EmptySeq
<1> QED
  BY <1>1 DEF DialogInit, UInv, Grounded, Sound, ChainHolds, WaitingHolds, AbortsHold, DoomHolds

-------------------------------------------------------------------------------

(* The stacks stay sound: who is doomed is who the failure of the innermost *)
(* frame reaches through known calls.                                       *)
THEOREM UnwindInvariant == DialogSpec => [](IInv /\ UInv)
<1>1. DialogInit => IInv /\ UInv
  BY InitInvariant, UnwindInit DEF DialogInit
<1>2. IInv /\ UInv /\ [DialogNext]_dialogVars => IInv' /\ UInv'
  BY UnwindStep, StepInvariant
<1> QED
  BY <1>1, <1>2, PTL DEF DialogSpec

(* The frames add no behaviour to the gate: what the retention and factory  *)
(* gates promise holds with the dialogs and explorers that reach them.      *)
THEOREM DialogImplementsGate == DialogSpec => Spec
<1>1. DialogInit => Init
  BY DEF DialogInit
<1>2. IInv /\ UInv /\ [DialogNext]_dialogVars => [Next]_vars
  BY UnwindStep
<1> QED
  BY <1>1, <1>2, UnwindInvariant, PTL DEF DialogSpec, Spec

(* For any number of frames, a failure stops exactly the frames it concerns *)
(* (the "skips" of the seven gates).                                        *)
THEOREM StopsTheWholeChainHolds == DialogSpec => []StopsTheWholeChain
<1>1. UInv => StopsTheWholeChain
  BY DEF UInv, StopsTheWholeChain
<1> QED
  BY <1>1, UnwindInvariant, PTL

(* A quarantined word stays so, whoever has been admitted.                  *)
LEMMA QuarantineStays ==
    ASSUME IInv, [Next]_vars, word = "QUARANTINED"
    PROVE  word' = "QUARANTINED"
<1>1. CASE UNCHANGED vars
  BY <1>1 DEF vars
<1>2. ASSUME NEW p \in Threads, EnterSC(p) \/ LeaveSC(p)
      PROVE  FALSE
  BY <1>2 DEF IInv, LinksHold, EnterSC, LeaveSC
<1>3. ASSUME NEW p \in Threads, LeaveQuarantined(p) \/ ErrorRoute(p)
      PROVE  word' = "QUARANTINED"
  BY <1>3 DEF LeaveQuarantined, ErrorRoute, Store
<1> QED
  BY <1>1, <1>2, <1>3 DEF Next, Enter, EnterLL, EnterSCFails, InnerClose, LeaveBorrowed, Leave,
     LeaveLL, LeaveSCFails

(* A dialog left with an uncertain mutex keeps every consumer out for good. *)
THEOREM RetainedIsQuarantinedHolds == DialogSpec => []RetainedIsQuarantined
<1>1. DialogInit => RetainedIsQuarantined
  BY DEF DialogInit, RetainedIsQuarantined
<1>2. ASSUME IInv, UInv, RetainedIsQuarantined, [DialogNext]_dialogVars
      PROVE  RetainedIsQuarantined'
  <2>1. [Next]_vars
    BY <1>2, UnwindStep
  <2>2. retained # {} => word' = "QUARANTINED"
    BY <1>2, <2>1, QuarantineStays DEF RetainedIsQuarantined
  <2>3. retained' = retained \/ word' = "QUARANTINED"
    BY <1>2 DEF DialogNext, dialogVars, unwindVars, GateStep, Call, RawAcquire, RawRelease, Serviced,
       DialogAdmitted, DestructorForwards, Admitted, DeleteRefused, DestructorStops, RefreshStops,
       WrapperAborts, ExplorerAborts, Aborts, CallbackAborts, RegistrationFails, Stops, Finishes,
       DialogDenied, DialogAborts, Quarantines, Store
  <2> QED
    BY <2>2, <2>3 DEF RetainedIsQuarantined
<1> QED
  BY <1>1, <1>2, UnwindInvariant, PTL DEF DialogSpec

(* The claims of the gate for threads with dialogs and explorers: bodies    *)
(* exclude each other and nothing enters a quarantined word.                *)
THEOREM DialogImplementsLock == DialogSpec => LockSpec
BY DialogImplementsGate, ImplementsLock, PTL

(* A claim is not lost by a dialog that leaves without its cleanup.         *)
THEOREM DialogBusyHasOwner == DialogSpec => []BusyHasOwner
BY DialogImplementsGate, BusyHasOwnerHolds, PTL

(* No tail clears the error a failed dialog left for its consumer.          *)
THEOREM DialogErrorsAreReported == DialogSpec => []ErrorsAreReported
BY DialogImplementsGate, ErrorsAreReportedHolds, PTL
=============================================================================
