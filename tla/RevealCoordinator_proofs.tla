----------------------- MODULE RevealCoordinator_proofs -----------------------
(****************************************************************************)
(* The coordinator's safety for any tracks, folders, views, bounds and      *)
(* geometries. The invariant says what each part of the record guarantees   *)
(* the others (CInv) and what the histories count (Histories). The methods  *)
(* are compositions of a dozen helpers, so each helper gets one lemma about *)
(* the fields it writes, and an action's proof only composes them.          *)
(* Then the emitted geometry core, which computes the same movement as the  *)
(* host's minimal_reveal, and so whatever the coordinator proposes.         *)
(* And the emitted mutation guard, for any threads, revision limit and      *)
(* attempts: it implements, on one word that threads compete for, the       *)
(* bracket that the coordinator's playback publication implements too.      *)
(****************************************************************************)
EXTENDS RevealCoordinator, RevealGeometryCore, MutationGuard, SequenceTheorems,
        WellFoundedInduction, TLAPS

PubFields == {"view", "epoch", "serial", "ticket", "fill", "rows", "started", "error"}
FillFields == {"total", "rows", "terminal"}
PlayFields == {"revision", "identity", "ready", "ticket", "pending", "deferred", "error"}
ModelFields == {"committed", "last_seen", "candidate", "pending", "previous"}
WorkFields == {"view", "manual_epoch", "ticks_left"}
StageFields == {"started", "scope", "fill", "promoted", "error"}
CoFields ==
    {"serial", "fatal", "model", "publication", "staging", "playback", "view",
     "generation", "fill", "change", "stage", "issued", "interaction",
     "manual_epoch", "playback_fence"}

Distinct(s) == \A i, j \in DOMAIN s : s[i] = s[j] => i = j

(* A fill and its rows belong to a view that has begun and is not poisoned, *)
(* and rows come one by one, each of them once, up to the announced total.  *)
PubInv(p) ==
    /\ DOMAIN p = PubFields
    /\ p.epoch \in Int /\ p.serial \in Serials
    /\ p.started \in BOOLEAN /\ p.error \in BOOLEAN
    /\ p.view # None => p.view \in Generations
    /\ p.fill # None =>
         /\ DOMAIN p.fill = FillFields
         /\ p.view # None /\ ~p.error /\ p.started /\ p.rows = None
         /\ p.fill.total \in 0 .. MaxRows
         /\ p.fill.rows \in Seq(Tracks)
         /\ Len(p.fill.rows) <= p.fill.total
         /\ Distinct(p.fill.rows)
    /\ p.rows # None =>
         /\ p.view # None /\ ~p.error /\ p.started /\ p.fill = None
         /\ p.rows.generation = p.view
         /\ p.rows.entries \in Seq(Tracks)
         /\ Len(p.rows.entries) <= MaxRows
         /\ Distinct(p.rows.entries)

(* A published identity, a mutation in progress and an error exclude each   *)
(* other; the ticket in force is the newest revision.                       *)
PlayInv(p) ==
    /\ DOMAIN p = PlayFields
    /\ p.revision \in Serials
    /\ p.ready \in BOOLEAN /\ p.error \in BOOLEAN
    /\ p.ready => p.ticket = None /\ ~p.error
    /\ p.error => p.ticket = None
    /\ p.ticket # None => p.ticket = p.revision

(* Work of the model that can still lead to a proposal.                     *)
Live(work) == work # None /\ work.view # None

WorkInv(m, work) ==
    work # None =>
        /\ DOMAIN work = WorkFields
        /\ work.view # None => Folder[m.last_seen] = work.view.folder

ModelInv(m) ==
    /\ DOMAIN m = ModelFields
    /\ WorkInv(m, m.candidate) /\ WorkInv(m, m.pending)
    /\ m.committed = None => ~Live(m.candidate) /\ ~Live(m.pending)

CoTypes(c) ==
    /\ DOMAIN c = CoFields /\ DOMAIN c.stage = StageFields
    /\ c.serial \in Serials
    /\ c.stage.started \in BOOLEAN /\ c.stage.error \in BOOLEAN
    /\ c.view # None => c.view \in Tickets
    /\ c.generation # None => c.generation \in Generations
    /\ c.change # None => c.change \in [view : Tickets, epoch : Tickets]
    /\ c.playback_fence # None => c.playback_fence \in 0 .. c.serial
    /\ c.fatal # None => c.playback.error
    /\ c.fatal # "staged-row-transfer-failed"

(* The coordinator's serials run ahead of the public collector's epochs and *)
(* tickets, by one as long as the fill of the generation has not begun.     *)
Behind(c) ==
    /\ c.publication.epoch <= c.serial
    /\ c.publication.serial <= c.serial
    /\ c.publication.view # None /\ ~c.publication.started =>
          c.publication.serial < c.serial

(* The generation, the owner, the change in progress and the public fill.   *)
ScopeInv(c) ==
    /\ c.publication.view = c.generation
    /\ c.view # None => (c.generation = None <=> c.change # None)
    /\ c.view = None => c.generation = None /\ c.change = None
    /\ c.generation # None => c.generation.view_epoch = c.view
    /\ c.generation # None /\ c.stage.error => c.publication.error
    /\ c.stage.error \/ c.stage.fill # None => c.stage.started
    /\ c.fill # None => c.generation # None /\ c.fill.ticket = c.publication.ticket

(* The parts, apart from the scope, which some methods suspend.             *)
PartsInv(c) ==
    /\ CoTypes(c)
    /\ PubInv(c.publication)
    /\ PubInv(c.staging)
    /\ PlayInv(c.playback)
    /\ ModelInv(c.model)
    /\ Behind(c)

CInv(c) == PartsInv(c) /\ ScopeInv(c)

(* A published change of tracks that the model has not seen yet.            *)
Unseen(c) ==
    /\ c.playback.ready
    /\ ~c.publication.error
    /\ c.model.committed # None
    /\ Eligible(c.playback.identity)
    /\ c.playback.identity # c.model.last_seen

Stirring(c) == Unseen(c) \/ Live(c.model.candidate) \/ Live(c.model.pending)

(* What consume would find for the proposal in force.                       *)
IssueHolds(c) ==
    LET geometry == c.issued.action.geometry
    IN  /\ c.issued.fence = c.serial
        /\ c.issued.revision = c.playback.revision
        /\ ~Erroneous(c)
        /\ c.view # None /\ c.generation # None /\ c.change = None
        /\ c.playback.ready
        /\ ~ManualActive(c)
        /\ geometry \in Samples /\ geometry # None
        /\ c.publication.rows # None
        /\ ValidAction(c.issued.action, Snapshot(c, geometry))

(* A mutation in progress has not been proposed for. Whatever can lead to a *)
(* proposal - an unseen track, a candidate, a pending transition - is of an *)
(* undisturbed mutation that has not been proposed for either.              *)
Histories(c, quiet, proposed, revealed) ==
    /\ quiet \in BOOLEAN
    /\ proposed \in Nat /\ revealed \in Nat
    /\ revealed <= proposed /\ proposed <= 1
    /\ c.playback.ticket # None => proposed = 0
    /\ c.playback.ticket # None /\ c.playback_fence = c.serial => quiet
    /\ Stirring(c) => quiet /\ proposed = 0
    /\ c.issued # None =>
          IssueHolds(c) /\ quiet /\ proposed = 1 /\ revealed = 0

RInv == CInv(co) /\ Histories(co, undisturbed, proposals, reveals)

-------------------------------------------------------------------------------

(* Every nonempty set of numbers has a least one.                           *)
LEMMA LeastNatural ==
    ASSUME NEW S \in SUBSET Nat, S # {}
    PROVE  \E m \in S : \A k \in S : m <= k
<1> DEFINE R == {ss \in Nat \X Nat : ss[1] < ss[2]}
<1>1. IsWellFoundedOn(R, Nat)
  BY NatLessThanWellFounded DEF OpToRel
<1>2. PICK m \in S : \A k \in S : <<k, m>> \notin R
  BY <1>1, WFMin
<1>3. \A k \in S : m <= k
  <2> SUFFICES ASSUME NEW k \in S, ~(m <= k) PROVE FALSE
    OBVIOUS
  <2>1. k \in Nat /\ m \in Nat /\ k < m
    OBVIOUS
  <2>2. <<k, m>> \in R
    BY <2>1
  <2> QED
    BY <2>2, <1>2
<1> QED
  BY <1>3

LEMMA Bounds == Limit \in Nat \ {0} /\ MaxRows \in Nat \ {0} /\ 0 \in Serials
BY LimitAssumption, MaxRowsAssumption, IntMaxAssumption DEF Serials

(* A sequence of distinct members stays one with a member it did not have.  *)
LEMMA AppendDistinct ==
    ASSUME NEW s \in Seq(Tracks), Distinct(s), NEW e \in Tracks, e \notin Range(s)
    PROVE  /\ Append(s, e) \in Seq(Tracks)
           /\ Len(Append(s, e)) = Len(s) + 1
           /\ Distinct(Append(s, e))
<1>1. /\ Append(s, e) \in Seq(Tracks) /\ Len(Append(s, e)) = Len(s) + 1
      /\ \A i \in 1 .. Len(s) : Append(s, e)[i] = s[i]
      /\ Append(s, e)[Len(s) + 1] = e
  BY AppendProperties
<1>2. Len(s) \in Nat /\ DOMAIN s = 1 .. Len(s) /\ DOMAIN Append(s, e) = 1 .. Len(s) + 1
  BY <1>1, LenProperties
<1>3. \A i \in 1 .. Len(s) : s[i] # e
  BY <1>2 DEF Range
<1> QED
  BY <1>1, <1>2, <1>3 DEF Distinct

-------------------------------------------------------------------------------
(* The collector of rows.                                                   *)

LEMMA PoisonGives ==
    ASSUME NEW p, PubInv(p)
    PROVE  LET q == Poison(p)
           IN  /\ PubInv(q) /\ q.error = TRUE /\ q.fill = None /\ q.rows = None
               /\ q.view = p.view /\ q.epoch = p.epoch /\ q.serial = p.serial
               /\ q.ticket = p.ticket /\ q.started = p.started
BY DEF Poison, PubInv, PubFields

(* What an activation gives: a generation with a fresh epoch is in force.   *)
ActivatedFor(p, q, g) ==
    /\ PubInv(q) /\ q.fill = None /\ q.rows = None
    /\ q.serial = p.serial /\ q.started = FALSE
    /\ g = None => q.view = None /\ q.epoch = p.epoch /\ q.error = FALSE
    /\ g # None /\ g.contents_epoch > p.epoch =>
          q.view = g /\ q.epoch = g.contents_epoch /\ q.error = FALSE

LEMMA ActivateGives ==
    ASSUME NEW p, PubInv(p), NEW g, g # None => g \in Generations
    PROVE  ActivatedFor(p, ActivateRows(p, g), g)
<1> USE DEF ActivatedFor
<1>1. CASE g = None
  BY <1>1 DEF ActivateRows, PubInv, PubFields
<1>2. CASE g # None /\ ~FreshEpoch(p, g)
  BY <1>2 DEF ActivateRows, PubInv, PubFields, Poison, FreshEpoch
<1>3. CASE g # None /\ FreshEpoch(p, g)
  <2>1. g.contents_epoch \in Int
    BY <1>3, Bounds DEF Generations
  <2> QED
    BY <1>3, <2>1 DEF ActivateRows, PubInv, PubFields, FreshEpoch
<1> QED
  BY <1>1, <1>2, <1>3

(* What the begin of a fill can do.                                         *)
BegunFrom(p, q, g, total, supported) ==
    /\ PubInv(q) /\ q.view = p.view /\ q.epoch = p.epoch
    /\ p.started => q.started
    /\ p.view # None /\ g = p.view /\ ~p.error /\ ~p.started /\ supported
          /\ total <= MaxRows /\ p.serial # Limit => Accepted(p, q)
    /\ Accepted(p, q) =>
          /\ q.view # None /\ g = p.view /\ ~p.started /\ ~p.error
          /\ q.started /\ ~q.error /\ q.rows = None
          /\ q.serial = p.serial + 1 /\ q.ticket = p.serial + 1
          /\ q.fill # None
          /\ q.fill = [total |-> total, rows |-> <<>>, terminal |-> FALSE]
    /\ ~Accepted(p, q) =>
          /\ q.serial = p.serial /\ q.ticket = p.ticket
          /\ q.view # None /\ g = p.view => q.error
          /\ q.started => p.started \/ q.error

LEMMA BeginGives ==
    ASSUME NEW p, PubInv(p), NEW g, NEW total \in Nat, NEW supported \in BOOLEAN
    PROVE  BegunFrom(p, BeginFill(p, g, total, supported), g, total, supported)
<1> DEFINE q == BeginFill(p, g, total, supported)
           fill == [total |-> total, rows |-> <<>>, terminal |-> FALSE]
<1>1. CASE p.view = None \/ g # p.view \/ p.error
  <2>1. q = p
    BY <1>1 DEF BeginFill
  <2> QED
    BY <1>1, <2>1 DEF Accepted, BegunFrom
<1>2. CASE p.view # None /\ g = p.view /\ ~p.error /\ p.started
  <2>1. q = Poison(p)
    BY <1>2 DEF BeginFill
  <2> QED
    BY <1>2, <2>1, PoisonGives DEF Accepted, BegunFrom
<1>3. CASE p.view # None /\ g = p.view /\ ~p.error /\ ~p.started
                         /\ (~supported \/ total > MaxRows \/ p.serial = Limit)
  <2> DEFINE started == [p EXCEPT !.started = TRUE]
  <2>1. q = Poison(started)
    BY <1>3 DEF BeginFill
  <2>2. /\ PubInv(started) /\ started.view = p.view /\ started.epoch = p.epoch
        /\ started.serial = p.serial /\ started.ticket = p.ticket
    BY <1>3 DEF PubInv, PubFields
  <2> HIDE DEF started
  <2>3. /\ PubInv(q) /\ q.error = TRUE /\ q.view = p.view /\ q.epoch = p.epoch
        /\ q.serial = p.serial /\ q.ticket = p.ticket
    BY <2>1, <2>2, PoisonGives
  <2>4. ~Accepted(p, q)
    BY <2>3 DEF Accepted
  <2> QED
    BY <1>3, <2>3, <2>4, Bounds DEF BegunFrom
<1>4. CASE p.view # None /\ g = p.view /\ ~p.error /\ ~p.started
                         /\ ~(~supported \/ total > MaxRows \/ p.serial = Limit)
  <2>1. q = [p EXCEPT !.started = TRUE, !.serial = p.serial + 1,
                      !.ticket = p.serial + 1, !.fill = fill]
    <3>1. /\ DOMAIN p = PubFields /\ "started" # "serial"
      BY DEF PubInv
    <3> QED
      BY <1>4, <3>1 DEF BeginFill, PubFields
  <2>2. fill # None
    <3>1. <<>> \in Seq(Tracks)
      BY EmptySeq
    <3>2. fill \in [total : Nat, rows : Seq(Tracks), terminal : BOOLEAN]
      BY <3>1
    <3> QED
      BY <3>2, NoneAssumption
  <2>3. p.serial + 1 \in Serials /\ total <= MaxRows
    BY <1>4, Bounds DEF Serials, PubInv
  <2>4. /\ q.started = TRUE /\ q.error = FALSE /\ q.serial = p.serial + 1
        /\ q.ticket = p.serial + 1 /\ q.fill = fill /\ q.view = p.view
        /\ q.epoch = p.epoch /\ q.rows = None /\ DOMAIN q = PubFields
    BY <1>4, <2>1 DEF PubInv, PubFields
  <2>5. /\ DOMAIN fill = FillFields /\ fill.total = total
        /\ fill.rows \in Seq(Tracks) /\ Len(fill.rows) = 0 /\ Distinct(fill.rows)
    BY EmptySeq DEF FillFields, Distinct
  <2> HIDE DEF q, fill
  <2>6. PubInv(q)
    <3>1. q.view \in Generations /\ q.epoch \in Int
      BY <1>4, <2>4 DEF PubInv
    <3>2. /\ q.fill.total \in 0 .. MaxRows /\ Len(q.fill.rows) <= q.fill.total
          /\ DOMAIN q.fill = FillFields
          /\ q.fill.rows \in Seq(Tracks) /\ Distinct(q.fill.rows)
      BY <2>3, <2>4, <2>5, Bounds
    <3> QED
      BY <1>4, <2>3, <2>4, <3>1, <3>2 DEF PubInv
  <2>7. Accepted(p, q)
    BY <1>4, <2>2, <2>4 DEF Accepted
  <2> QED
    BY <1>4, <2>4, <2>6, <2>7, <2>2 DEF BegunFrom, fill, q
<1> QED
  BY <1>1, <1>2, <1>3, <1>4

(* What an event of a fill under one of its tickets can do.                 *)
FillKept(p, q, ticket) ==
    /\ PubInv(q)
    /\ q.view = p.view /\ q.epoch = p.epoch /\ q.serial = p.serial
    /\ q.ticket = p.ticket /\ q.started = p.started
    /\ ticket = p.ticket /\ ~Accepted(p, q) => q.error
    /\ Accepted(p, q) => p.fill # None /\ ~p.error

LEMMA EventGives ==
    ASSUME NEW p, PubInv(p), NEW ticket, NEW correct, NEW next,
           p.fill # None /\ correct =>
              /\ PubInv(next) /\ next.error = FALSE /\ next # p
              /\ next.view = p.view /\ next.epoch = p.epoch /\ next.serial = p.serial
              /\ next.ticket = p.ticket /\ next.started = p.started
    PROVE  FillKept(p, FillEvent(p, ticket, correct, next), ticket)
<1> DEFINE q == FillEvent(p, ticket, correct, next)
<1>1. CASE ticket # p.ticket
  BY <1>1 DEF FillEvent, FillKept, Accepted
<1>2. CASE ticket = p.ticket /\ (p.fill = None \/ ~correct)
  <2>1. q = Poison(p)
    BY <1>2 DEF FillEvent
  <2> QED
    BY <1>2, <2>1, PoisonGives DEF FillKept, Accepted
<1>3. CASE ticket = p.ticket /\ p.fill # None /\ correct
  <2>1. q = next
    BY <1>3 DEF FillEvent
  <2>2. ~p.error
    BY <1>3 DEF PubInv
  <2> QED
    BY <1>3, <2>1, <2>2 DEF FillKept, Accepted
<1> QED
  BY <1>1, <1>2, <1>3

(* The three events, each with what it does to a fill that it fits.         *)
LEMMA AppendKeeps ==
    ASSUME NEW p, PubInv(p), NEW ticket, NEW identity \in Tracks, NEW confirmed \in BOOLEAN
    PROVE  FillKept(p, AppendRow(p, ticket, identity, confirmed), ticket)
<1> DEFINE next == [p EXCEPT !.fill.rows = Append(@, identity)]
           correct == /\ confirmed
                      /\ p.fill # None => /\ ~p.fill.terminal
                                          /\ Len(p.fill.rows) < p.fill.total
                                          /\ identity \notin Range(p.fill.rows)
<1>1. ASSUME p.fill # None, correct
      PROVE  /\ PubInv(next) /\ next.error = FALSE /\ next # p
             /\ next.view = p.view /\ next.epoch = p.epoch /\ next.serial = p.serial
             /\ next.ticket = p.ticket /\ next.started = p.started
  <2> DEFINE rows == Append(p.fill.rows, identity)
  <2>1. /\ p.fill.rows \in Seq(Tracks) /\ Len(p.fill.rows) < p.fill.total
        /\ p.fill.total \in 0 .. MaxRows /\ Len(p.fill.rows) \in Nat
        /\ DOMAIN p.fill = FillFields /\ DOMAIN p = PubFields
    BY <1>1, LenProperties DEF PubInv
  <2>2. /\ rows \in Seq(Tracks) /\ Len(rows) = Len(p.fill.rows) + 1 /\ Distinct(rows)
    BY <1>1, <2>1, AppendDistinct DEF PubInv
  <2>3. /\ DOMAIN next = PubFields
        /\ \A f \in PubFields \ {"fill"} : next[f] = p[f]
        /\ next.fill = [p.fill EXCEPT !.rows = rows]
    BY <2>1 DEF PubFields
  <2>4. /\ DOMAIN next.fill = FillFields /\ next.fill.rows = rows
        /\ next.fill.total = p.fill.total /\ next.fill.terminal = p.fill.terminal
    BY <2>1, <2>3 DEF FillFields
  <2>5. next.fill # p.fill
    BY <2>1, <2>2, <2>4
  <2> HIDE DEF next, rows
  <2>6. /\ next.view = p.view /\ next.epoch = p.epoch /\ next.serial = p.serial
        /\ next.ticket = p.ticket /\ next.started = p.started
        /\ next.error = p.error /\ next.rows = p.rows
    BY <2>3 DEF PubFields
  <2>7. Len(rows) <= p.fill.total
    BY <2>1, <2>2
  <2>8. PubInv(next)
    BY <1>1, <2>1, <2>2, <2>3, <2>4, <2>6, <2>7 DEF PubInv
  <2> QED
    BY <1>1, <2>5, <2>6, <2>8 DEF PubInv
<1> HIDE DEF next, correct
<1>2. FillKept(p, FillEvent(p, ticket, correct, next), ticket)
  BY <1>1, EventGives
<1> QED
  BY <1>2 DEF AppendRow, next, correct

LEMMA TerminalKeeps ==
    ASSUME NEW p, PubInv(p), NEW ticket, NEW confirmed \in BOOLEAN
    PROVE  FillKept(p, TerminalRow(p, ticket, confirmed), ticket)
<1> DEFINE next == [p EXCEPT !.fill.terminal = TRUE]
           correct == confirmed /\ (p.fill # None => ~p.fill.terminal)
<1>1. ASSUME p.fill # None, correct
      PROVE  /\ PubInv(next) /\ next.error = FALSE /\ next # p
             /\ next.view = p.view /\ next.epoch = p.epoch /\ next.serial = p.serial
             /\ next.ticket = p.ticket /\ next.started = p.started
  <2>1. DOMAIN p = PubFields /\ DOMAIN p.fill = FillFields
    BY <1>1 DEF PubInv
  <2>2. /\ DOMAIN next = PubFields
        /\ \A f \in PubFields \ {"fill"} : next[f] = p[f]
        /\ next.fill = [p.fill EXCEPT !.terminal = TRUE]
    BY <2>1 DEF PubFields
  <2>3. /\ DOMAIN next.fill = FillFields /\ next.fill.rows = p.fill.rows
        /\ next.fill.total = p.fill.total /\ next.fill.terminal = TRUE
    BY <2>1, <2>2 DEF FillFields
  <2>4. next.fill # p.fill
    BY <1>1, <2>3
  <2> HIDE DEF next
  <2>5. /\ next.view = p.view /\ next.epoch = p.epoch /\ next.serial = p.serial
        /\ next.ticket = p.ticket /\ next.started = p.started
        /\ next.error = p.error /\ next.rows = p.rows
    BY <2>2 DEF PubFields
  <2>6. PubInv(next)
    BY <1>1, <2>1, <2>2, <2>3, <2>5 DEF PubInv
  <2> QED
    BY <1>1, <2>4, <2>5, <2>6 DEF PubInv
<1> HIDE DEF next, correct
<1>2. FillKept(p, FillEvent(p, ticket, correct, next), ticket)
  BY <1>1, EventGives
<1> QED
  BY <1>2 DEF TerminalRow, next, correct

LEMMA FinishKeeps ==
    ASSUME NEW p, PubInv(p), NEW ticket, NEW confirmed \in BOOLEAN
    PROVE  FillKept(p, FinishFill(p, ticket, confirmed), ticket)
<1> DEFINE rows == [generation |-> p.view, entries |-> p.fill.rows]
           next == [p EXCEPT !.fill = None, !.rows = rows]
           correct == /\ confirmed
                      /\ p.fill # None => /\ p.fill.terminal
                                          /\ Len(p.fill.rows) = p.fill.total
<1>1. ASSUME p.fill # None, correct
      PROVE  /\ PubInv(next) /\ next.error = FALSE /\ next # p
             /\ next.view = p.view /\ next.epoch = p.epoch /\ next.serial = p.serial
             /\ next.ticket = p.ticket /\ next.started = p.started
  <2>1. DOMAIN p = PubFields /\ DOMAIN p.fill = FillFields
    BY <1>1 DEF PubInv
  <2>2. /\ DOMAIN next = PubFields
        /\ \A f \in PubFields \ {"fill", "rows"} : next[f] = p[f]
        /\ next.fill = None /\ next.rows = rows
    BY <2>1 DEF PubFields
  <2>3. rows.generation = p.view /\ rows.entries = p.fill.rows
    OBVIOUS
  <2> HIDE DEF next, rows
  <2>4. /\ next.view = p.view /\ next.epoch = p.epoch /\ next.serial = p.serial
        /\ next.ticket = p.ticket /\ next.started = p.started
        /\ next.error = p.error
    BY <2>2 DEF PubFields
  <2>5. Len(p.fill.rows) <= MaxRows
    BY <1>1, Bounds, LenProperties DEF PubInv
  <2>6. PubInv(next)
    BY <1>1, <2>1, <2>2, <2>3, <2>4, <2>5 DEF PubInv
  <2> QED
    BY <1>1, <2>2, <2>4, <2>6 DEF PubInv
<1> HIDE DEF next, correct
<1>2. FillKept(p, FillEvent(p, ticket, correct, next), ticket)
  BY <1>1, EventGives
<1> QED
  BY <1>2 DEF FinishFill, next, correct, rows

-------------------------------------------------------------------------------
(* The replay of the staged rows.                                           *)

(* The publication after the first n rows of the replay.                    *)
Filled(p, entries, n) ==
    IF n = 0 THEN p ELSE [p EXCEPT !.fill.rows = SubSeq(entries, 1, n)]

Opened(p, entries) ==
    p.fill = [total |-> Len(entries), rows |-> <<>>, terminal |-> FALSE]

LEMMA NextRow ==
    ASSUME NEW entries \in Seq(Tracks), NEW n \in 1 .. Len(entries), Distinct(entries)
    PROVE  LET rows == SubSeq(entries, 1, n - 1)
           IN  /\ rows \in Seq(Tracks) /\ Len(rows) = n - 1 /\ Len(rows) < Len(entries)
               /\ entries[n] \in Tracks /\ entries[n] \notin Range(rows)
               /\ Append(rows, entries[n]) = SubSeq(entries, 1, n)
<1> DEFINE rows == SubSeq(entries, 1, n - 1)
           longer == SubSeq(entries, 1, n)
<1>1. Len(entries) \in Nat /\ DOMAIN entries = 1 .. Len(entries) /\ n \in 1 .. Len(entries)
  BY LenProperties
<1>2. /\ rows \in Seq(Tracks) /\ Len(rows) = n - 1
      /\ \A i \in 1 .. n - 1 : rows[i] = entries[i]
  <2>1. 1 \in 1 .. Len(entries) + 1 /\ n - 1 \in 0 .. Len(entries)
    BY <1>1
  <2>2. /\ rows \in Seq(Tracks)
        /\ Len(rows) = IF 1 <= n - 1 THEN (n - 1) - 1 + 1 ELSE 0
        /\ \A i \in 1 .. (n - 1) - 1 + 1 : rows[i] = entries[1 + i - 1]
    BY <2>1, SubSeqProperties
  <2> QED
    BY <1>1, <2>2
<1>3. /\ longer \in Seq(Tracks) /\ Len(longer) = n
      /\ \A i \in 1 .. n : longer[i] = entries[i]
  <2>1. 1 \in 1 .. Len(entries) + 1 /\ n \in 0 .. Len(entries)
    BY <1>1
  <2>2. /\ longer \in Seq(Tracks)
        /\ Len(longer) = IF 1 <= n THEN n - 1 + 1 ELSE 0
        /\ \A i \in 1 .. n - 1 + 1 : longer[i] = entries[1 + i - 1]
    BY <2>1, SubSeqProperties
  <2> QED
    BY <1>1, <2>2
<1>4. entries[n] \in Tracks
  BY <1>1, ElementOfSeq
<1> HIDE DEF rows, longer
<1>5. DOMAIN rows = 1 .. n - 1
  BY <1>2, LenProperties
<1>6. entries[n] \notin Range(rows)
  <2> SUFFICES ASSUME NEW i \in DOMAIN rows, rows[i] = entries[n] PROVE FALSE
    BY DEF Range
  <2>1. i \in DOMAIN entries /\ entries[i] = entries[n] /\ i # n
    BY <1>1, <1>2, <1>5
  <2> QED
    BY <1>1, <2>1 DEF Distinct
<1>7. Append(rows, entries[n]) = longer
  <2>1. /\ Append(rows, entries[n]) \in Seq(Tracks)
        /\ Len(Append(rows, entries[n])) = n
        /\ \A i \in 1 .. n - 1 : Append(rows, entries[n])[i] = rows[i]
        /\ Append(rows, entries[n])[n] = entries[n]
    BY <1>1, <1>2, <1>4, AppendProperties
  <2>2. \A i \in 1 .. n : Append(rows, entries[n])[i] = longer[i]
    BY <1>1, <1>2, <1>3, <2>1
  <2> QED
    BY <1>1, <1>3, <2>1, <2>2, SeqEqual
<1> QED
  BY <1>1, <1>2, <1>4, <1>6, <1>7 DEF rows, longer

FilledTo(p, q, entries, n) ==
    /\ DOMAIN q = PubFields /\ \A f \in PubFields \ {"fill"} : q[f] = p[f]
    /\ DOMAIN q.fill = FillFields /\ q.fill # None
    /\ q.fill \in [total : Nat, rows : Seq(Tracks), terminal : BOOLEAN]
    /\ q.fill.rows = SubSeq(entries, 1, n)
    /\ q.fill.total = Len(entries) /\ q.fill.terminal = FALSE

LEMMA FilledGives ==
    ASSUME NEW p, PubInv(p), NEW entries \in Seq(Tracks), Opened(p, entries),
           NEW n \in 0 .. Len(entries)
    PROVE  FilledTo(p, Filled(p, entries, n), entries, n)
<1> DEFINE q == Filled(p, entries, n)
<1> SUFFICES
      /\ DOMAIN q = PubFields /\ \A f \in PubFields \ {"fill"} : q[f] = p[f]
      /\ DOMAIN q.fill = FillFields /\ q.fill # None
      /\ q.fill \in [total : Nat, rows : Seq(Tracks), terminal : BOOLEAN]
      /\ q.fill.rows = SubSeq(entries, 1, n)
      /\ q.fill.total = Len(entries) /\ q.fill.terminal = FALSE
  BY DEF FilledTo
<1>1. DOMAIN p = PubFields /\ Len(entries) \in Nat
  BY LenProperties DEF PubInv
<1>2. /\ DOMAIN p.fill = FillFields /\ p.fill.rows = <<>>
      /\ p.fill.total = Len(entries) /\ p.fill.terminal = FALSE
  BY DEF Opened, FillFields
<1>3. CASE n = 0
  <2>1. SubSeq(entries, 1, 0) = <<>>
    BY <1>1, SubSeqEmpty
  <2>2. p.fill \in [total : Nat, rows : Seq(Tracks), terminal : BOOLEAN]
    BY <1>1, EmptySeq DEF Opened
  <2> QED
    BY <1>1, <1>2, <1>3, <2>1, <2>2, NoneAssumption DEF Filled
<1>4. CASE n # 0
  <2> DEFINE rows == SubSeq(entries, 1, n)
  <2>1. q = [p EXCEPT !.fill.rows = rows]
    BY <1>4 DEF Filled
  <2>2. rows \in Seq(Tracks)
    BY <1>1, SubSeqProperties
  <2>3. p.fill \in [total : Nat, rows : Seq(Tracks), terminal : BOOLEAN]
    BY <1>1, EmptySeq DEF Opened
  <2> HIDE DEF rows
  <2>4. q.fill = [p.fill EXCEPT !.rows = rows]
    BY <1>1, <2>1 DEF PubFields
  <2>5. [p.fill EXCEPT !.rows = rows]
          \in [total : Nat, rows : Seq(Tracks), terminal : BOOLEAN]
    BY <2>2, <2>3
  <2> QED
    BY <1>1, <1>2, <2>1, <2>4, <2>5, NoneAssumption DEF PubFields, FillFields, rows
<1> QED
  BY <1>3, <1>4

LEMMA ReplayStep ==
    ASSUME NEW p, PubInv(p), NEW entries \in Seq(Tracks), Distinct(entries),
           Opened(p, entries), NEW n \in 1 .. Len(entries)
    PROVE  AppendRow(Filled(p, entries, n - 1), p.ticket, entries[n], TRUE)
              = Filled(p, entries, n)
<1> DEFINE rows == SubSeq(entries, 1, n - 1)
           q == Filled(p, entries, n - 1)
<1>1. /\ rows \in Seq(Tracks) /\ Len(rows) < Len(entries)
      /\ entries[n] \in Tracks /\ entries[n] \notin Range(rows)
      /\ Append(rows, entries[n]) = SubSeq(entries, 1, n)
  BY NextRow
<1>2. DOMAIN p = PubFields /\ Len(entries) \in Nat
  BY LenProperties DEF PubInv
<1>3. /\ DOMAIN q = PubFields /\ q.fill # None /\ q.ticket = p.ticket
      /\ q.fill.rows = rows /\ q.fill.total = Len(entries) /\ q.fill.terminal = FALSE
  <2>1. n - 1 \in 0 .. Len(entries)
    BY <1>2
  <2>2. FilledTo(p, q, entries, n - 1)
    BY <2>1, FilledGives
  <2> QED
    BY <2>2 DEF FilledTo, PubFields
<1>4. [q EXCEPT !.fill.rows = Append(@, entries[n])] = Filled(p, entries, n)
  <2>1. [q EXCEPT !.fill.rows = Append(@, entries[n])]
          = [q EXCEPT !.fill.rows = SubSeq(entries, 1, n)]
    BY <1>1, <1>3
  <2>2. [q EXCEPT !.fill.rows = SubSeq(entries, 1, n)]
          = [p EXCEPT !.fill.rows = SubSeq(entries, 1, n)]
    BY <1>2, <1>3 DEF Filled, PubFields
  <2> QED
    BY <1>2, <2>1, <2>2 DEF Filled
<1> HIDE DEF q, rows
<1>5. AppendRow(q, p.ticket, entries[n], TRUE)
        = [q EXCEPT !.fill.rows = Append(@, entries[n])]
  BY <1>1, <1>3 DEF AppendRow, FillEvent
<1> QED
  BY <1>4, <1>5 DEF q

(* The replay is a fill with all the rows, in their order.                  *)
LEMMA ReplayGives ==
    ASSUME NEW p, PubInv(p), NEW entries \in Seq(Tracks), Distinct(entries),
           Opened(p, entries)
    PROVE  Replay(p, entries) = Filled(p, entries, Len(entries))
<1> DEFINE L == Len(entries)
           Step(f, n) == IF n = 0 THEN p
                         ELSE AppendRow(f[n - 1], p.ticket, entries[n], TRUE)
           R == CHOOSE f : f = [n \in 0 .. L |-> Step(f, n)]
           G == [n \in 0 .. L |-> Filled(p, entries, n)]
<1>1. L \in Nat
  BY LenProperties
<1>2. \A n \in 0 .. L : G[n] = Step(G, n)
  <2> SUFFICES ASSUME NEW n \in 0 .. L PROVE Filled(p, entries, n) = Step(G, n)
    OBVIOUS
  <2>1. CASE n = 0
    BY <2>1 DEF Filled
  <2>2. CASE n # 0
    <3>1. n \in 1 .. L /\ n - 1 \in 0 .. L
      BY <1>1, <2>2
    <3>2. G[n - 1] = Filled(p, entries, n - 1)
      BY <3>1
    <3> QED
      BY <2>2, <3>1, <3>2, ReplayStep
  <2> QED
    BY <2>1, <2>2
<1>3. G = [n \in 0 .. L |-> Step(G, n)]
  BY <1>2
<1> HIDE DEF G, Step, L
<1>4. R = [n \in 0 .. L |-> Step(R, n)]
  BY <1>3
<1>5. \A n \in 0 .. L : R[n] = G[n]
  <2> DEFINE Wrong == {n \in 0 .. L : R[n] # G[n]}
  <2> SUFFICES ASSUME Wrong # {} PROVE FALSE
    OBVIOUS
  <2>1. Wrong \in SUBSET Nat
    BY <1>1
  <2>2. PICK n \in Wrong : \A k \in Wrong : n <= k
    BY <2>1, LeastNatural
  <2>3. n \in 0 .. L /\ R[n] # G[n]
    OBVIOUS
  <2>4. n # 0 => n - 1 \in 0 .. L /\ n - 1 \notin Wrong
    BY <1>1, <2>2, <2>3
  <2> HIDE DEF R
  <2>5. n # 0 => R[n - 1] = G[n - 1]
    BY <2>4
  <2>6. R[n] = Step(R, n) /\ G[n] = Step(G, n)
    BY <1>2, <1>4, <2>3
  <2>7. Step(R, n) = Step(G, n)
    BY <2>5 DEF Step
  <2> QED
    BY <2>3, <2>6, <2>7
<1>6. Replay(p, entries) = R[L]
  BY DEF Replay, R, L, Step
<1>7. G[L] = Filled(p, entries, L)
  BY <1>1 DEF G
<1> HIDE DEF R
<1> QED
  BY <1>1, <1>5, <1>6, <1>7 DEF L

(* The publication after a whole fill was replayed into it.                 *)
Receipt(begun, entries) ==
    FinishFill(TerminalRow(Replay(begun, entries), begun.ticket, TRUE), begun.ticket, TRUE)

(* A fresh view takes the rows of another collector without an objection.   *)
Transferred(p, begun, done) ==
    /\ begun.fill # None /\ done.rows # None
    /\ PubInv(done) /\ done.view = p.view /\ done.epoch = p.epoch
    /\ done.serial = p.serial + 1 /\ done.ticket = begun.ticket
    /\ done.started /\ ~done.error

LEMMA TransferGives ==
    ASSUME NEW p, PubInv(p), p.view # None, ~p.error, ~p.started, p.serial # Limit,
           NEW entries \in Seq(Tracks), Distinct(entries), Len(entries) <= MaxRows,
           NEW g, g = p.view, NEW begun, begun = BeginFill(p, g, Len(entries), TRUE)
    PROVE  Transferred(p, begun, Receipt(begun, entries))
<1> DEFINE filled == Replay(begun, entries)
           terminal == TerminalRow(filled, begun.ticket, TRUE)
           done == FinishFill(terminal, begun.ticket, TRUE)
<1>1. Len(entries) \in Nat
  BY LenProperties
<1>2. BegunFrom(p, begun, g, Len(entries), TRUE)
  BY <1>1, BeginGives
<1>3. /\ Accepted(p, begun)
      /\ PubInv(begun) /\ begun.view = p.view /\ begun.epoch = p.epoch
      /\ begun.started /\ ~begun.error /\ begun.rows = None
      /\ begun.serial = p.serial + 1 /\ Opened(begun, entries)
  BY <1>1, <1>2 DEF BegunFrom, Opened
<1>4. begun.fill # None
  BY <1>2, <1>3 DEF BegunFrom
<1>5. filled = Filled(begun, entries, Len(entries))
  BY <1>3, ReplayGives
<1>6. /\ DOMAIN filled = PubFields /\ \A f \in PubFields \ {"fill"} : filled[f] = begun[f]
      /\ DOMAIN filled.fill = FillFields /\ filled.fill # None
      /\ filled.fill \in [total : Nat, rows : Seq(Tracks), terminal : BOOLEAN]
      /\ filled.fill.rows = entries
      /\ filled.fill.total = Len(entries) /\ filled.fill.terminal = FALSE
  <2>1. SubSeq(entries, 1, Len(entries)) = entries
    BY SubSeqFull
  <2>2. Len(entries) \in 0 .. Len(entries)
    BY <1>1
  <2>3. FilledTo(begun, filled, entries, Len(entries))
    BY <1>3, <1>5, <2>2, FilledGives
  <2> QED
    BY <2>1, <2>3 DEF FilledTo
<1> HIDE DEF filled
<1>7. /\ filled.view = begun.view /\ filled.epoch = begun.epoch
      /\ filled.serial = begun.serial /\ filled.ticket = begun.ticket
      /\ filled.started = begun.started /\ filled.error = begun.error
      /\ filled.rows = begun.rows
  BY <1>6 DEF PubFields
<1>8. PubInv(filled)
  <2>1. filled.fill.total \in 0 .. MaxRows /\ Len(filled.fill.rows) <= filled.fill.total
    BY <1>1, <1>6, Bounds
  <2>2. filled.epoch \in Int /\ filled.serial \in Serials /\ filled.started \in BOOLEAN
        /\ filled.error \in BOOLEAN /\ filled.view # None /\ filled.view \in Generations
    BY <1>3, <1>7 DEF PubInv
  <2>3. filled.started /\ ~filled.error /\ filled.rows = None
    BY <1>3, <1>7
  <2> QED
    BY <1>6, <2>1, <2>2, <2>3 DEF PubInv
<1>9. terminal = [filled EXCEPT !.fill.terminal = TRUE]
  BY <1>6, <1>7 DEF TerminalRow, FillEvent
<1>10. /\ DOMAIN terminal = PubFields
       /\ \A f \in PubFields \ {"fill"} : terminal[f] = filled[f]
       /\ terminal.fill = [filled.fill EXCEPT !.terminal = TRUE]
  BY <1>6, <1>9 DEF PubFields
<1>11. /\ terminal.fill.rows = entries /\ terminal.fill.total = Len(entries)
       /\ terminal.fill.terminal = TRUE
  BY <1>6, <1>10 DEF FillFields
<1>12. FillKept(filled, terminal, begun.ticket)
  BY <1>8, TerminalKeeps
<1> HIDE DEF terminal
<1>13. /\ terminal.error = filled.error /\ terminal.ticket = begun.ticket
       /\ terminal.view = filled.view
  BY <1>7, <1>10 DEF PubFields
<1>14. /\ terminal.fill \in [total : Nat, rows : Seq(Tracks), terminal : BOOLEAN]
       /\ terminal.fill # None
  BY <1>6, <1>10, NoneAssumption
<1>15. PubInv(terminal)
  BY <1>12 DEF FillKept
<1>16. done = [terminal EXCEPT !.fill = None,
                 !.rows = [generation |-> terminal.view, entries |-> terminal.fill.rows]]
  BY <1>11, <1>13, <1>14 DEF FinishFill, FillEvent
<1>17. done.rows = [generation |-> terminal.view, entries |-> entries]
  BY <1>10, <1>11, <1>16 DEF PubFields
<1>18. done.rows # None
  <2>1. terminal.view \in Generations
    BY <1>3, <1>7, <1>13 DEF PubInv
  <2>2. [generation |-> terminal.view, entries |-> entries]
          \in [generation : Generations, entries : Seq(Tracks)]
    BY <2>1
  <2> QED
    BY <1>17, <2>2, NoneAssumption
<1>19. FillKept(terminal, done, begun.ticket)
  BY <1>15, FinishKeeps
<1>20. PubInv(done)
  BY <1>19 DEF FillKept
<1> HIDE DEF done
<1>21. ~done.error
  BY <1>18, <1>20 DEF PubInv
<1>22. /\ done.view = p.view /\ done.epoch = p.epoch /\ done.serial = p.serial + 1
       /\ done.ticket = begun.ticket /\ done.started
  BY <1>3, <1>7, <1>12, <1>19 DEF FillKept
<1> QED
  BY <1>4, <1>18, <1>20, <1>21, <1>22
     DEF Transferred, Receipt, filled, terminal, done

-------------------------------------------------------------------------------
(* The playback publication and the model.                                  *)

(* A step of the bracket, or none: failed publications are all the same.    *)
Brackets(p, q) ==
    \/ q.ticket = p.ticket /\ q.revision = p.revision /\ q.error = p.error
    \/ q.ticket = None /\ q.error = TRUE
    \/ /\ p.ticket = None /\ p.error = FALSE /\ q.error = FALSE
       /\ q.ticket # None /\ q.revision = p.revision + 1 /\ q.revision \in Tickets
    \/ /\ p.ticket # None /\ p.error = FALSE /\ q.error = FALSE
       /\ q.ticket = None /\ q.revision = p.revision

PlayFailed(p, q) ==
    /\ PlayInv(q)
    /\ q.error = TRUE /\ q.ticket = None /\ q.ready = FALSE
    /\ q.revision = p.revision

LEMMA FailGives ==
    ASSUME NEW p, PlayInv(p) PROVE PlayFailed(p, FailPlayback(p))
BY DEF PlayFailed, FailPlayback, PlayInv, PlayFields

(* A BEGIN withdraws the identity; the ticket it issues is a new revision.  *)
PlayBegun(p, q) ==
    /\ PlayInv(q) /\ Brackets(p, q)
    /\ q.ready = FALSE
    /\ p.error => q.error
    /\ q.ticket # None => p.ticket = None /\ q.revision # p.revision

LEMMA BeginPlaybackGives ==
    ASSUME NEW p, PlayInv(p), NEW identity, NEW deferred
    PROVE  PlayBegun(p, BeginPlayback(p, identity, deferred))
<1> DEFINE withdrawn == [p EXCEPT !.identity = None, !.ready = FALSE]
           advanced == [withdrawn EXCEPT !.revision = @ + 1]
           q == BeginPlayback(p, identity, deferred)
<1>1. DOMAIN p = PlayFields
  BY DEF PlayInv
<1>2. /\ PlayInv(withdrawn) /\ withdrawn.revision = p.revision /\ withdrawn.ready = FALSE
      /\ withdrawn.ticket = p.ticket /\ withdrawn.error = p.error
  BY DEF PlayInv, PlayFields
<1>3. CASE p.revision = Limit
  <2>1. q = FailPlayback(withdrawn)
    BY <1>3 DEF BeginPlayback
  <2> HIDE DEF withdrawn
  <2>2. PlayFailed(withdrawn, q)
    BY <1>2, <2>1, FailGives
  <2> QED
    BY <1>2, <2>2 DEF PlayBegun, PlayFailed, Brackets
<1>4. CASE p.revision # Limit
  <2>1. p.revision + 1 \in Tickets /\ p.revision + 1 \in Serials /\ p.revision + 1 # p.revision
    BY <1>4, Bounds DEF PlayInv, Serials, Tickets
  <2>2. /\ DOMAIN advanced = PlayFields
        /\ advanced.revision = p.revision + 1 /\ advanced.ready = FALSE
        /\ advanced.ticket = p.ticket /\ advanced.error = p.error
    BY <1>1, <1>2 DEF PlayFields
  <2> HIDE DEF withdrawn
  <2>3. CASE p.error
    <3>1. q = advanced
      BY <1>4, <2>3 DEF BeginPlayback, withdrawn
    <3> HIDE DEF advanced
    <3>2. PlayInv(q) /\ p.ticket = None
      BY <2>1, <2>2, <2>3, <3>1 DEF PlayInv
    <3> QED
      BY <2>2, <2>3, <3>1, <3>2 DEF PlayBegun, Brackets, PlayInv
  <2>4. CASE ~p.error /\ (Overlaps(p) \/ identity = Unsupported)
    <3>1. q = FailPlayback(advanced)
      BY <1>4, <2>4 DEF BeginPlayback, withdrawn
    <3> HIDE DEF advanced
    <3>2. /\ q.ticket = None /\ q.error = TRUE /\ q.ready = FALSE
          /\ q.revision = advanced.revision /\ DOMAIN q = PlayFields
      BY <2>2, <3>1 DEF FailPlayback, PlayFields
    <3> QED
      BY <2>1, <2>2, <2>4, <3>2 DEF PlayBegun, Brackets, PlayInv
  <2>5. CASE ~p.error /\ ~Overlaps(p) /\ identity # Unsupported
    <3>1. q = [advanced EXCEPT !.pending = identity, !.deferred = deferred,
                               !.ticket = advanced.revision]
      BY <1>4, <2>5 DEF BeginPlayback, withdrawn
    <3> HIDE DEF advanced
    <3>2. /\ q.ticket = p.revision + 1 /\ q.error = p.error /\ q.ready = FALSE
          /\ q.revision = p.revision + 1 /\ DOMAIN q = PlayFields
      BY <2>2, <3>1 DEF PlayFields
    <3>3. p.ticket = None
      BY <2>5 DEF Overlaps
    <3>4. p.error = FALSE
      BY <2>5 DEF PlayInv
    <3>5. p.revision + 1 # None
      BY <2>1, NoneAssumption DEF Tickets
    <3> QED
      BY <2>1, <3>2, <3>3, <3>4, <3>5 DEF PlayBegun, Brackets, PlayInv
  <2> QED
    BY <2>3, <2>4, <2>5
<1> QED
  BY <1>3, <1>4

(* An END leaves no ticket, and publishes only the one it found.            *)
PlayEnded(p, q) ==
    /\ PlayInv(q) /\ Brackets(p, q)
    /\ q.ticket = None /\ q.revision = p.revision
    /\ p.error => q.error
    /\ q.ready => p.ticket # None

LEMMA FinishPlaybackGives ==
    ASSUME NEW p, PlayInv(p), NEW ticket, NEW identity, NEW deferred
    PROVE  PlayEnded(p, FinishPlayback(p, ticket, identity, deferred))
<1> DEFINE q == FinishPlayback(p, ticket, identity, deferred)
           refused == \/ p.error
                      \/ p.ticket = None \/ ticket # p.ticket
                      \/ p.deferred # deferred
                      \/ deferred /\ identity = Unsupported
<1>1. CASE refused
  <2>1. q = FailPlayback(p)
    BY <1>1 DEF FinishPlayback
  <2>2. PlayFailed(p, q)
    BY <2>1, FailGives
  <2> QED
    BY <2>2 DEF PlayFailed, PlayEnded, Brackets
<1>2. CASE ~refused
  <2>1. q = [p EXCEPT !.identity = IF deferred THEN identity ELSE p.pending,
                   !.ready = TRUE, !.pending = None, !.ticket = None,
                   !.deferred = FALSE]
    BY <1>2 DEF FinishPlayback
  <2>2. /\ q.ready = TRUE /\ q.ticket = None /\ q.revision = p.revision
        /\ q.error = p.error /\ DOMAIN q = PlayFields
    BY <2>1 DEF PlayInv, PlayFields
  <2>3. p.error = FALSE /\ p.ticket # None
    BY <1>2 DEF PlayInv
  <2> QED
    BY <2>2, <2>3 DEF PlayEnded, PlayInv, Brackets
<1> QED
  BY <1>1, <1>2

Idle(m) == ~Live(m.candidate) /\ ~Live(m.pending)

ModelCancelled(m, n) ==
    /\ ModelInv(n) /\ Idle(n)
    /\ n.committed = m.committed /\ n.last_seen = m.last_seen
    /\ n.pending = None
    /\ n.candidate # None => n.candidate.view = None

LEMMA CancelGives ==
    ASSUME NEW m, ModelInv(m) PROVE ModelCancelled(m, CancelPending(m))
<1> DEFINE n == CancelPending(m)
<1>1. /\ DOMAIN n = ModelFields /\ n.committed = m.committed
      /\ n.last_seen = m.last_seen /\ n.pending = None
      /\ n.candidate = IF m.candidate = None THEN None ELSE [m.candidate EXCEPT !.view = None]
  BY DEF CancelPending, ModelInv, ModelFields
<1>2. m.candidate # None => DOMAIN m.candidate = WorkFields
  BY DEF ModelInv, WorkInv
<1>3. m.candidate # None =>
        DOMAIN n.candidate = WorkFields /\ n.candidate.view = None
  BY <1>1, <1>2 DEF WorkFields
<1> HIDE DEF n
<1>4. ~Live(n.candidate) /\ ~Live(n.pending)
  BY <1>1, <1>3 DEF Live
<1> QED
  BY <1>1, <1>3, <1>4 DEF ModelCancelled, ModelInv, WorkInv, Idle, n

(* A new baseline is the identity itself, or none where it is ineligible.   *)
ModelReset(n, identity) ==
    /\ ModelInv(n) /\ Idle(n)
    /\ Eligible(identity) => n.last_seen = identity

LEMMA ResetGives ==
    ASSUME NEW m, NEW identity PROVE ModelReset(ResetBaseline(m, identity), identity)
BY DEF ResetBaseline, NewModel, ModelReset, ModelInv, ModelFields, WorkInv, Live, Idle

-------------------------------------------------------------------------------
(* The helpers of the class, by the fields they write.                      *)

Same(c, d, fields) ==
    DOMAIN d = CoFields /\ \A f \in CoFields \ fields : d[f] = c[f]

Cleared(c, d) ==
    /\ PartsInv(d) /\ Same(c, d, {"staging", "stage"})
    /\ d.stage = NoStage

LEMMA DiscardGives ==
    ASSUME NEW c, PartsInv(c) PROVE Cleared(c, DiscardStaging(c))
<1> DEFINE d == DiscardStaging(c)
           staging == ActivateRows(c.staging, None)
<1>1. ActivatedFor(c.staging, staging, None)
  BY ActivateGives DEF PartsInv
<1>2. PubInv(staging)
  BY <1>1 DEF ActivatedFor
<1>3. DOMAIN c = CoFields
  BY DEF PartsInv, CoTypes
<1>4. Same(c, d, {"staging", "stage"}) /\ d.stage = NoStage /\ d.staging = staging
  BY <1>3 DEF DiscardStaging, Same, CoFields
<1> HIDE DEF d, staging
<1>5. /\ d.publication = c.publication /\ d.playback = c.playback /\ d.model = c.model
      /\ d.serial = c.serial /\ d.view = c.view /\ d.generation = c.generation
      /\ d.change = c.change /\ d.playback_fence = c.playback_fence /\ d.fatal = c.fatal
  BY <1>4 DEF Same, CoFields
<1>6. CoTypes(d)
  BY <1>4, <1>5 DEF PartsInv, CoTypes, NoStage, StageFields, Same
<1> QED
  BY <1>2, <1>4, <1>5, <1>6 DEF Cleared, PartsInv, Behind, d

(* The model has seen the track that is published, if it is one to follow.  *)
CaughtUp(c) ==
    c.playback.ready /\ Eligible(c.playback.identity) =>
        c.playback.identity = c.model.last_seen

Rebased(c, d) ==
    /\ PartsInv(d) /\ Same(c, d, {"model"})
    /\ Idle(d.model) /\ CaughtUp(d)

LEMMA BaselineGives ==
    ASSUME NEW c, PartsInv(c) PROVE Rebased(c, Baseline(c))
<1> DEFINE d == Baseline(c)
           identity == IF c.playback.ready THEN c.playback.identity ELSE None
           model == ResetBaseline(c.model, identity)
<1>1. ModelReset(model, identity)
  BY ResetGives
<1>2. DOMAIN c = CoFields
  BY DEF PartsInv, CoTypes
<1>3. Same(c, d, {"model"}) /\ d.model = model
  BY <1>2 DEF Baseline, Same, CoFields
<1> HIDE DEF d, model
<1>4. /\ d.publication = c.publication /\ d.playback = c.playback /\ d.staging = c.staging
      /\ d.serial = c.serial /\ d.view = c.view /\ d.generation = c.generation
      /\ d.change = c.change /\ d.playback_fence = c.playback_fence
      /\ d.stage = c.stage /\ d.fatal = c.fatal
  BY <1>3 DEF Same, CoFields
<1>5. CoTypes(d)
  BY <1>3, <1>4 DEF PartsInv, CoTypes, Same
<1>6. CaughtUp(d)
  BY <1>1, <1>3, <1>4 DEF ModelReset, CaughtUp
<1> QED
  BY <1>1, <1>3, <1>4, <1>5, <1>6 DEF Rebased, PartsInv, Behind, ModelReset, d

Inactive(c, d) ==
    /\ PartsInv(d) /\ Same(c, d, {"publication", "view", "generation", "fill"})
    /\ d.view = None /\ d.generation = None /\ d.fill = None
    /\ d.publication.view = None
    /\ d.publication.epoch = c.publication.epoch
    /\ d.publication.serial = c.publication.serial

LEMMA DeactivateGives ==
    ASSUME NEW c, PartsInv(c) PROVE Inactive(c, Deactivate(c))
<1> DEFINE d == Deactivate(c)
           publication == ActivateRows(c.publication, None)
<1>1. ActivatedFor(c.publication, publication, None)
  BY ActivateGives DEF PartsInv
<1>2. DOMAIN c = CoFields
  BY DEF PartsInv, CoTypes
<1>3. /\ Same(c, d, {"publication", "view", "generation", "fill"})
      /\ d.publication = publication /\ d.view = None /\ d.generation = None
      /\ d.fill = None
  BY <1>2 DEF Deactivate, Same, CoFields
<1> HIDE DEF d, publication
<1>4. /\ d.model = c.model /\ d.playback = c.playback /\ d.staging = c.staging
      /\ d.serial = c.serial /\ d.change = c.change /\ d.stage = c.stage
      /\ d.playback_fence = c.playback_fence /\ d.fatal = c.fatal
  BY <1>3 DEF Same, CoFields
<1>5. CoTypes(d)
  BY <1>3, <1>4 DEF PartsInv, CoTypes, Same
<1>6. /\ PubInv(d.publication) /\ d.publication.view = None
      /\ d.publication.epoch = c.publication.epoch
      /\ d.publication.serial = c.publication.serial
  BY <1>1, <1>3 DEF ActivatedFor
<1>7. Behind(d)
  BY <1>4, <1>6 DEF PartsInv, Behind
<1> QED
  BY <1>3, <1>4, <1>5, <1>6, <1>7 DEF Inactive, PartsInv, d

(* The serials are ahead of the public collector, as after an event.        *)
Ahead(c) == c.publication.epoch < c.serial /\ c.publication.serial < c.serial

Published(c, d, g) ==
    /\ PartsInv(d) /\ Same(c, d, {"publication", "generation"})
    /\ d.generation = g
    /\ d.publication.view = g /\ ~d.publication.started /\ ~d.publication.error
    /\ d.publication.serial = c.publication.serial

LEMMA PublishGives ==
    ASSUME NEW c, PartsInv(c), Ahead(c),
           NEW g \in Generations, g.contents_epoch = c.serial
    PROVE  Published(c, Publish(c, g), g)
<1> DEFINE d == Publish(c, g)
           publication == ActivateRows(c.publication, g)
<1>1. g # None
  BY NoneAssumption
<1>2. ActivatedFor(c.publication, publication, g)
  BY ActivateGives DEF PartsInv
<1>3. DOMAIN c = CoFields /\ c.serial \in Int /\ c.publication.epoch \in Int
      /\ c.publication.serial \in Int
  BY Bounds DEF PartsInv, CoTypes, PubInv, Serials
<1>4. /\ Same(c, d, {"publication", "generation"})
      /\ d.publication = publication /\ d.generation = g
  BY <1>3 DEF Publish, Same, CoFields
<1> HIDE DEF d, publication
<1>5. /\ d.model = c.model /\ d.playback = c.playback /\ d.staging = c.staging
      /\ d.serial = c.serial /\ d.change = c.change /\ d.stage = c.stage
      /\ d.view = c.view
      /\ d.playback_fence = c.playback_fence /\ d.fatal = c.fatal
  BY <1>4 DEF Same, CoFields
<1>6. CoTypes(d)
  BY <1>4, <1>5 DEF PartsInv, CoTypes, Same
<1>7. g.contents_epoch > c.publication.epoch
  BY <1>3 DEF Ahead
<1>8. /\ PubInv(d.publication) /\ d.publication.view = g
      /\ d.publication.epoch = c.serial
      /\ d.publication.serial = c.publication.serial
      /\ d.publication.started = FALSE /\ d.publication.error = FALSE
  BY <1>1, <1>2, <1>4, <1>7 DEF ActivatedFor
<1>9. Behind(d)
  BY <1>3, <1>5, <1>8 DEF Ahead, Behind
<1> QED
  BY <1>4, <1>5, <1>6, <1>8, <1>9 DEF Published, PartsInv, d

(* The playback is at most invalidated, and nothing is left to propose.     *)
Calm(c, d) ==
    /\ d.issued = None
    /\ Idle(d.model)
    /\ ~Unseen(d)
    /\ \/ d.playback = c.playback
       \/ PlayFailed(c.playback, d.playback)
    /\ d.playback.ticket # None => d.playback_fence # d.serial

(* Disabled, or left so: no event counts from here on.                      *)
Stopped(c, d) ==
    /\ PartsInv(d)
    /\ d.serial = c.serial
    /\ PlayFailed(c.playback, d.playback)
    /\ Calm(c, d)

LEMMA DisableGives ==
    ASSUME NEW c, PartsInv(c), NEW reason, reason # "staged-row-transfer-failed"
    PROVE  Stopped(c, Disable(c, reason)) /\ ScopeInv(Disable(c, reason))
<1> DEFINE discarded == DiscardStaging(c)
           d == Disable(c, reason)
           publication == ActivateRows(discarded.publication, None)
           playback == FailPlayback(discarded.playback)
           model == CancelPending(discarded.model)
<1>1. Cleared(c, discarded)
  BY DiscardGives
<1>2. /\ DOMAIN discarded = CoFields /\ discarded.stage = NoStage
      /\ discarded.publication = c.publication /\ discarded.playback = c.playback
      /\ discarded.model = c.model /\ discarded.serial = c.serial
      /\ discarded.fatal = c.fatal
      /\ PubInv(discarded.staging)
  BY <1>1 DEF Cleared, Same, CoFields, PartsInv
<1> HIDE DEF discarded
<1>3. ActivatedFor(discarded.publication, publication, None)
  BY <1>2, ActivateGives DEF PartsInv
<1>4. PlayFailed(discarded.playback, playback)
  BY <1>2, FailGives DEF PartsInv
<1>5. ModelCancelled(discarded.model, model)
  BY <1>2, CancelGives DEF PartsInv
<1>6. d = [discarded EXCEPT
             !.fatal = IF discarded.fatal = None THEN reason ELSE discarded.fatal,
             !.issued = None, !.view = None, !.generation = None, !.fill = None,
             !.change = None, !.playback_fence = None,
             !.model = model, !.publication = publication, !.playback = playback]
  BY <1>2 DEF Disable, discarded, CoFields
<1> HIDE DEF d, publication, playback, model
<1>7. /\ DOMAIN d = CoFields /\ d.stage = NoStage /\ d.serial = c.serial
      /\ d.issued = None /\ d.view = None /\ d.generation = None /\ d.fill = None
      /\ d.change = None /\ d.playback_fence = None
      /\ d.model = model /\ d.publication = publication /\ d.playback = playback
      /\ d.staging = discarded.staging
      /\ d.fatal = IF c.fatal = None THEN reason ELSE c.fatal
  BY <1>2, <1>6 DEF CoFields
<1>8. /\ PubInv(publication) /\ publication.view = None
      /\ publication.epoch = c.publication.epoch
      /\ publication.serial = c.publication.serial
  BY <1>2, <1>3 DEF ActivatedFor
<1>9. /\ PlayInv(playback) /\ playback.error /\ ~playback.ready
      /\ playback.ticket = None /\ PlayFailed(c.playback, playback)
  BY <1>2, <1>4 DEF PlayFailed
<1>10. CoTypes(d)
  BY <1>7, <1>9 DEF CoTypes, PartsInv, NoStage, StageFields
<1>11. Behind(d)
  BY <1>7, <1>8 DEF Behind, PartsInv
<1>12. PartsInv(d)
  BY <1>2, <1>5, <1>7, <1>8, <1>9, <1>10, <1>11 DEF PartsInv, ModelCancelled
<1>13. Calm(c, d)
  BY <1>5, <1>7, <1>9 DEF Calm, Unseen, ModelCancelled
<1>14. ScopeInv(d)
  BY <1>7, <1>8 DEF ScopeInv, NoStage
<1> QED
  BY <1>7, <1>9, <1>12, <1>13, <1>14 DEF Stopped, d

(* What an event that takes a serial leaves.                                *)
Taken(c, d) ==
    /\ PartsInv(d) /\ Same(c, d, {"serial", "issued", "model"})
    /\ d.serial = c.serial + 1 /\ d.serial \in Tickets
    /\ Ahead(d)
    /\ d.issued = None /\ Idle(d.model)
    /\ d.playback_fence # d.serial

LEMMA ChangeGives ==
    ASSUME NEW c, PartsInv(c)
    PROVE  /\ MayChange(c) => Taken(c, Change(c))
           /\ ~MayChange(c) =>
                 /\ Stopped(c, Change(c))
                 /\ c.fatal = None \/ ScopeInv(c) => ScopeInv(Change(c))
<1> DEFINE withdrawn == [c EXCEPT !.issued = None, !.model = CancelPending(@)]
           model == CancelPending(c.model)
           d == Change(c)
<1>1. DOMAIN c = CoFields /\ c.serial \in 0 .. Limit
  BY DEF PartsInv, CoTypes, Serials
<1>2. ModelCancelled(c.model, model)
  BY CancelGives DEF PartsInv
<1>3. /\ Same(c, withdrawn, {"issued", "model"})
      /\ withdrawn.issued = None /\ withdrawn.model = model
  BY <1>1 DEF Same, CoFields
<1> HIDE DEF withdrawn, model
<1>4. /\ withdrawn.publication = c.publication /\ withdrawn.playback = c.playback
      /\ withdrawn.staging = c.staging /\ withdrawn.serial = c.serial
      /\ withdrawn.view = c.view /\ withdrawn.generation = c.generation
      /\ withdrawn.change = c.change /\ withdrawn.stage = c.stage
      /\ withdrawn.playback_fence = c.playback_fence /\ withdrawn.fatal = c.fatal
      /\ withdrawn.fill = c.fill /\ DOMAIN withdrawn = CoFields
  BY <1>3 DEF Same, CoFields
<1>5. CoTypes(withdrawn) /\ Behind(withdrawn)
  BY <1>4 DEF PartsInv, CoTypes, Behind
<1>6. PartsInv(withdrawn)
  BY <1>2, <1>3, <1>4, <1>5 DEF PartsInv, ModelCancelled
<1>7. CASE c.fatal # None
  <2>1. d = withdrawn
    BY <1>7 DEF Change, withdrawn
  <2>2. c.playback.error
    BY <1>7 DEF PartsInv, CoTypes
  <2>3. PlayFailed(c.playback, c.playback)
    BY <2>2 DEF PlayFailed, PartsInv, PlayInv
  <2>4. Calm(c, withdrawn)
    BY <1>2, <1>3, <1>4, <2>3 DEF Calm, Unseen, ModelCancelled, PlayFailed
  <2>5. Stopped(c, withdrawn)
    BY <1>4, <1>6, <2>3, <2>4 DEF Stopped
  <2>6. ScopeInv(c) => ScopeInv(withdrawn)
    BY <1>4 DEF ScopeInv
  <2> QED
    BY <1>7, <2>1, <2>5, <2>6 DEF MayChange
<1>8. CASE c.fatal = None /\ c.serial = Limit
  <2>1. d = Disable(withdrawn, "coordinator-epoch-exhausted")
    BY <1>8 DEF Change, withdrawn
  <2>2. Stopped(withdrawn, d) /\ ScopeInv(d)
    BY <1>6, <2>1, DisableGives
  <2>3. Stopped(c, d)
    BY <1>4, <2>2 DEF Stopped, Calm
  <2> QED
    BY <1>8, <2>2, <2>3 DEF MayChange
<1>9. CASE c.fatal = None /\ c.serial # Limit
  <2>1. d = [withdrawn EXCEPT !.serial = @ + 1]
    BY <1>9 DEF Change, withdrawn
  <2>2. Same(withdrawn, d, {"serial"}) /\ d.serial = c.serial + 1
    BY <1>4, <2>1 DEF Same, CoFields
  <2> HIDE DEF d
  <2>3. /\ d.publication = c.publication /\ d.playback = c.playback
        /\ d.staging = c.staging /\ d.model = withdrawn.model /\ d.issued = None
        /\ d.view = c.view /\ d.generation = c.generation
        /\ d.change = c.change /\ d.stage = c.stage
        /\ d.playback_fence = c.playback_fence /\ d.fatal = c.fatal
        /\ DOMAIN d = CoFields
    BY <1>3, <1>4, <2>2 DEF Same, CoFields
  <2>4. Same(c, d, {"serial", "issued", "model"})
    BY <1>3, <2>2 DEF Same
  <2>5. d.serial \in Tickets /\ d.serial \in Serials
    BY <1>1, <1>9, <2>2, Bounds DEF Tickets, Serials
  <2>6. d.playback_fence # None => d.playback_fence \in 0 .. c.serial
    BY <2>3 DEF PartsInv, CoTypes
  <2>7. d.playback_fence # d.serial
    BY <1>1, <2>2, <2>5, <2>6, NoneAssumption DEF Tickets
  <2>8. CoTypes(d)
    <3>1. 0 .. c.serial \subseteq 0 .. d.serial
      BY <1>1, <2>2
    <3> QED
      BY <2>3, <2>5, <2>6, <3>1 DEF PartsInv, CoTypes
  <2>9. c.publication.epoch \in Int /\ c.publication.serial \in Int
    BY DEF PartsInv, PubInv, Serials
  <2>10. Ahead(d) /\ Behind(d)
    BY <1>1, <2>2, <2>3, <2>9 DEF Ahead, Behind, PartsInv
  <2>11. PartsInv(d)
    BY <1>2, <1>3, <2>3, <2>8, <2>10 DEF PartsInv, ModelCancelled
  <2> QED
    BY <1>2, <1>3, <1>9, <2>2, <2>3, <2>4, <2>5, <2>7, <2>10, <2>11
       DEF Taken, MayChange, ModelCancelled, d
<1> QED
  BY <1>7, <1>8, <1>9

(* An event of a fill that failed: its publication can propose nothing.     *)
LEMMA FailedEventGives ==
    ASSUME NEW c, CInv(c), c.publication.error
    PROVE  CInv(Change(c)) /\ Calm(c, Change(c))
<1> DEFINE d == Change(c)
<1>1. CASE ~MayChange(c)
  BY <1>1, ChangeGives DEF CInv, Stopped
<1>2. CASE MayChange(c)
  <2>1. Taken(c, d)
    BY <1>2, ChangeGives DEF CInv
  <2> HIDE DEF d
  <2>2. /\ d.publication = c.publication /\ d.playback = c.playback
        /\ d.generation = c.generation /\ d.view = c.view /\ d.change = c.change
        /\ d.stage = c.stage /\ d.fill = c.fill
    BY <2>1 DEF Taken, Same, CoFields
  <2>3. ScopeInv(d)
    BY <2>2 DEF CInv, ScopeInv
  <2>4. Calm(c, d)
    BY <2>1, <2>2 DEF Taken, Calm, Unseen
  <2> QED
    BY <2>1, <2>3, <2>4 DEF CInv, Taken, d
<1> QED
  BY <1>1, <1>2

(* What a call leaves that takes no serial: what a proposal in force depends*)
(* on is not touched.                                                       *)
Quiet(c, d) ==
    /\ Same(c, d, {"stage", "staging", "publication", "fill"})
    /\ d.publication.error = c.publication.error
    /\ IssueHolds(c) => d.publication = c.publication /\ ~d.stage.error /\ ~d.staging.error

Outcome(c, d) == CInv(d) /\ (Calm(c, d) \/ Quiet(c, d))

Poisoned(c, d) ==
    /\ CInv(d)
    /\ Promoted(c) => Calm(c, d)
    /\ ~Promoted(c) => c.change # None /\ Same(c, d, {"stage", "staging"})

LEMMA PoisonStagingGives ==
    ASSUME NEW c, CInv(c), c.stage.started, Promoted(c) \/ c.change # None
    PROVE  Poisoned(c, PoisonStaging(c))
<1> DEFINE poisoned == [c EXCEPT !.stage.error = TRUE, !.staging = Poison(@)]
           staging == Poison(c.staging)
           publication == Poison(c.publication)
           revoked == [poisoned EXCEPT !.publication = Poison(@)]
           d == PoisonStaging(c)
<1>1. DOMAIN c = CoFields /\ DOMAIN c.stage = StageFields
  BY DEF CInv, PartsInv, CoTypes
<1>2. PubInv(staging) /\ PubInv(publication) /\ publication.error = TRUE
  BY PoisonGives DEF CInv, PartsInv
<1>3. /\ publication.view = c.publication.view /\ publication.epoch = c.publication.epoch
      /\ publication.serial = c.publication.serial /\ publication.ticket = c.publication.ticket
      /\ publication.started = c.publication.started
  BY PoisonGives DEF CInv, PartsInv
<1>4. /\ Same(c, poisoned, {"stage", "staging"})
      /\ poisoned.staging = staging
      /\ poisoned.stage = [c.stage EXCEPT !.error = TRUE]
  BY <1>1 DEF Same, CoFields
<1>5. /\ DOMAIN poisoned.stage = StageFields /\ poisoned.stage.error = TRUE
      /\ poisoned.stage.started = c.stage.started /\ poisoned.stage.fill = c.stage.fill
  BY <1>1, <1>4 DEF StageFields
<1>6. /\ DOMAIN poisoned = CoFields /\ poisoned.publication = c.publication
      /\ poisoned.playback = c.playback /\ poisoned.model = c.model
      /\ poisoned.serial = c.serial /\ poisoned.generation = c.generation
      /\ poisoned.view = c.view /\ poisoned.change = c.change /\ poisoned.fill = c.fill
      /\ poisoned.playback_fence = c.playback_fence /\ poisoned.fatal = c.fatal
  BY <1>4 DEF Same, CoFields
<1>7. CASE Promoted(c)
  <2> HIDE DEF poisoned, publication, staging
  <2>1. Same(poisoned, revoked, {"publication"}) /\ revoked.publication = publication
    BY <1>6 DEF Same, CoFields, publication
  <2> HIDE DEF revoked
  <2>2. /\ DOMAIN revoked = CoFields /\ revoked.stage = poisoned.stage
        /\ revoked.staging = staging
        /\ revoked.playback = c.playback /\ revoked.model = c.model
        /\ revoked.serial = c.serial /\ revoked.generation = c.generation
        /\ revoked.view = c.view /\ revoked.change = c.change /\ revoked.fill = c.fill
        /\ revoked.playback_fence = c.playback_fence /\ revoked.fatal = c.fatal
    BY <1>4, <1>6, <2>1 DEF Same, CoFields
  <2>3. CoTypes(revoked)
    BY <1>5, <2>2 DEF CInv, PartsInv, CoTypes
  <2>4. Behind(revoked)
    BY <1>3, <2>1, <2>2 DEF CInv, PartsInv, Behind
  <2>5. ScopeInv(revoked)
    BY <1>2, <1>3, <1>5, <2>1, <2>2 DEF CInv, ScopeInv
  <2>6. CInv(revoked)
    BY <1>2, <2>1, <2>2, <2>3, <2>4, <2>5 DEF CInv, PartsInv
  <2>7. CInv(Change(revoked)) /\ Calm(revoked, Change(revoked))
    BY <1>2, <2>1, <2>6, FailedEventGives
  <2>8. d = Change(revoked)
    BY <1>7 DEF PoisonStaging, revoked, poisoned
  <2> QED
    BY <1>7, <2>2, <2>7, <2>8 DEF Poisoned, Calm
<1>8. CASE ~Promoted(c)
  <2>1. d = poisoned
    BY <1>8 DEF PoisonStaging
  <2> HIDE DEF poisoned, publication, staging
  <2>2. CoTypes(poisoned) /\ Behind(poisoned)
    BY <1>5, <1>6 DEF CInv, PartsInv, CoTypes, Behind
  <2>3. c.generation = None /\ c.change # None
    BY <1>8 DEF CInv, ScopeInv
  <2>4. ScopeInv(poisoned)
    BY <1>5, <1>6, <2>3 DEF CInv, ScopeInv
  <2>5. CInv(poisoned)
    BY <1>2, <1>4, <1>6, <2>2, <2>4 DEF CInv, PartsInv
  <2> QED
    BY <1>4, <1>8, <2>1, <2>3, <2>5 DEF Poisoned
<1> QED
  BY <1>7, <1>8

LEMMA PoisonedOutcome ==
    ASSUME NEW c, NEW d, Poisoned(c, d) PROVE Outcome(c, d)
<1>1. CASE Promoted(c)
  BY <1>1 DEF Poisoned, Outcome
<1>2. CASE ~Promoted(c)
  <2>1. c.change # None /\ Same(c, d, {"stage", "staging"})
    BY <1>2 DEF Poisoned
  <2>2. Quiet(c, d)
    BY <2>1 DEF Quiet, Same, CoFields, IssueHolds
  <2> QED
    BY <2>2 DEF Poisoned, Outcome
<1> QED
  BY <1>1, <1>2

(* The staging collector's answer to a call of its producer.                *)
LEMMA StagedGives ==
    ASSUME NEW c, CInv(c), NEW t, CurrentStage(c, t), NEW staging, PubInv(staging)
    PROVE  Outcome(c, Staged(c, staging))
<1> DEFINE d == [c EXCEPT !.staging = staging]
<1>1. DOMAIN c = CoFields
  BY DEF CInv, PartsInv, CoTypes
<1>2. Same(c, d, {"staging"}) /\ d.staging = staging
  BY <1>1 DEF Same, CoFields
<1> HIDE DEF d
<1>3. /\ DOMAIN d = CoFields /\ d.publication = c.publication
      /\ d.playback = c.playback /\ d.model = c.model
      /\ d.serial = c.serial /\ d.generation = c.generation /\ d.stage = c.stage
      /\ d.view = c.view /\ d.change = c.change /\ d.fill = c.fill
      /\ d.playback_fence = c.playback_fence /\ d.fatal = c.fatal /\ d.issued = c.issued
      /\ d.interaction = c.interaction /\ d.manual_epoch = c.manual_epoch
  BY <1>2 DEF Same, CoFields
<1>4. CInv(d)
  <2>1. CoTypes(d) /\ Behind(d)
    BY <1>3 DEF CInv, PartsInv, CoTypes, Behind
  <2>2. ScopeInv(d)
    BY <1>3 DEF CInv, ScopeInv
  <2> QED
    BY <1>2, <1>3, <2>1, <2>2 DEF CInv, PartsInv
<1>5. d.stage.started /\ (Promoted(d) \/ d.change # None)
  BY <1>3 DEF CurrentStage, Promoted, CInv, ScopeInv
<1>6. CASE Accepted(c.staging, staging)
  <2>1. Staged(c, staging) = d
    BY <1>6 DEF Staged, d
  <2>2. Quiet(c, d)
    BY <1>2, <1>3, <1>6 DEF Quiet, Same, Accepted, IssueHolds, Erroneous
  <2> QED
    BY <1>4, <2>1, <2>2 DEF Outcome
<1>7. CASE ~Accepted(c.staging, staging)
  <2> DEFINE e == PoisonStaging(d)
  <2>1. Staged(c, staging) = e
    BY <1>7 DEF Staged, d
  <2>2. Poisoned(d, e)
    BY <1>4, <1>5, PoisonStagingGives
  <2> HIDE DEF e
  <2>3. Promoted(d) = Promoted(c)
    BY <1>3 DEF Promoted
  <2>4. Promoted(c) => Calm(c, e)
    BY <1>3, <2>2, <2>3 DEF Poisoned, Calm
  <2>5. ~Promoted(c) => c.change # None /\ Same(c, e, {"stage", "staging"})
    BY <1>2, <1>3, <2>2, <2>3 DEF Poisoned, Same
  <2>6. Poisoned(c, e)
    BY <2>2, <2>4, <2>5 DEF Poisoned
  <2> QED
    BY <2>1, <2>6, PoisonedOutcome
<1> QED
  BY <1>6, <1>7

-------------------------------------------------------------------------------
(* The events of views.                                                     *)

LEMMA StopsGive ==
    ASSUME NEW c, NEW d, Stopped(c, d), ScopeInv(d)
    PROVE  CInv(d) /\ Calm(c, d)
BY DEF Stopped, CInv

LEMMA NoChangeGives ==
    ASSUME NEW c, CInv(c), ~MayChange(c)
    PROVE  CInv(Change(c)) /\ Calm(c, Change(c))
BY ChangeGives, StopsGive DEF CInv

(* An event is calm when its baseline leaves the playback alone.            *)
LEMMA EventIsCalm ==
    ASSUME NEW b, NEW c, Taken(b, c), NEW d, Idle(d.model), CaughtUp(d),
           d.playback = c.playback, d.serial = c.serial, d.issued = c.issued,
           d.playback_fence = c.playback_fence
    PROVE  Calm(b, d)
<1>1. c.playback = b.playback /\ c.issued = None /\ c.playback_fence # c.serial
  BY DEF Taken, Same, CoFields
<1> QED
  BY <1>1 DEF Calm, Unseen, CaughtUp

(* The owner, its rows and its change are gone, and the baseline moved.     *)
Ownerless(c, d) ==
    /\ CInv(d) /\ Idle(d.model) /\ CaughtUp(d)
    /\ Same(c, d, {"publication", "view", "generation", "fill", "change",
                   "staging", "stage", "model"})
    /\ d.view = None /\ d.change = None /\ d.fill = None /\ d.stage = NoStage
    /\ Ahead(c) => Ahead(d)

LEMMA OwnerlessGives ==
    ASSUME NEW c, PartsInv(c)
    PROVE  Ownerless(c, Baseline(DiscardStaging([Deactivate(c) EXCEPT !.change = None])))
<1> DEFINE a == Deactivate(c)
           b == [a EXCEPT !.change = None]
           e == DiscardStaging(b)
           d == Baseline(e)
<1>1. Inactive(c, a)
  BY DeactivateGives
<1> HIDE DEF a
<1>2. Same(a, b, {"change"}) /\ b.change = None
  BY <1>1 DEF Inactive, Same, CoFields
<1> HIDE DEF b
<1>3. /\ DOMAIN b = CoFields /\ b.model = a.model /\ b.playback = a.playback
      /\ b.staging = a.staging /\ b.publication = a.publication
      /\ b.serial = a.serial /\ b.view = a.view /\ b.generation = a.generation
      /\ b.playback_fence = a.playback_fence /\ b.fatal = a.fatal /\ b.stage = a.stage
      /\ b.fill = a.fill
  BY <1>2 DEF Same, CoFields
<1>4. PartsInv(b)
  BY <1>1, <1>2, <1>3 DEF Inactive, PartsInv, CoTypes, Behind
<1>5. Cleared(b, e)
  BY <1>4, DiscardGives
<1> HIDE DEF e
<1>6. Rebased(e, d)
  BY <1>5, BaselineGives DEF Cleared
<1> HIDE DEF d
<1>7. Same(c, d, {"publication", "view", "generation", "fill", "change",
                   "staging", "stage", "model"})
  BY <1>1, <1>2, <1>5, <1>6 DEF Inactive, Cleared, Rebased, Same
<1>8. /\ d.publication = a.publication /\ d.view = None /\ d.generation = None
      /\ d.fill = None /\ d.change = None /\ d.stage = NoStage
      /\ d.serial = c.serial
  BY <1>1, <1>2, <1>3, <1>5, <1>6 DEF Inactive, Cleared, Rebased, Same, CoFields
<1>9. ScopeInv(d)
  BY <1>1, <1>8 DEF Inactive, ScopeInv, NoStage
<1>10. Ahead(c) => Ahead(d)
  BY <1>1, <1>8 DEF Inactive, Ahead
<1> QED
  BY <1>6, <1>7, <1>8, <1>9, <1>10 DEF Ownerless, Rebased, CInv, d, e, b, a

LEMMA NewGeneration ==
    ASSUME NEW folder \in Scopes, folder # None, NEW v \in Tickets, NEW e \in Tickets
    PROVE  LET g == ViewGeneration(folder, v, e)
           IN  g \in Generations /\ g.contents_epoch = e /\ g.view_epoch = v /\ g # None
BY InputAssumption, NoneAssumption DEF ViewGeneration, Generations, Tickets

LEMMA ActivateKeeps ==
    ASSUME CInv(co), NEW folder \in Scopes, Activate(folder)
    PROVE  CInv(co') /\ Calm(co, co')
<1> DEFINE c == Change(co)
           o == Baseline(DiscardStaging([Deactivate(c) EXCEPT !.change = None]))
           g == ViewGeneration(folder, c.serial, c.serial)
           p == Publish(o, g)
<1>1. CASE ~MayChange(co)
  BY <1>1, NoChangeGives DEF Activate
<1>2. CASE MayChange(co)
  <2>1. Taken(co, c)
    BY <1>2, ChangeGives DEF CInv
  <2> HIDE DEF c
  <2>2. Ownerless(c, o)
    BY <2>1, OwnerlessGives DEF Taken
  <2> HIDE DEF o
  <2>3. /\ DOMAIN o = CoFields
        /\ o.playback = c.playback /\ o.serial = c.serial /\ o.issued = c.issued
        /\ o.playback_fence = c.playback_fence
    BY <2>2 DEF Ownerless, Same, CoFields
  <2>4. CASE folder = None
    <3>1. co' = o
      BY <1>2, <2>4 DEF Activate, o, c
    <3>2. Calm(co, o)
      BY <2>1, <2>2, <2>3, EventIsCalm DEF Ownerless
    <3> QED
      BY <2>2, <3>1, <3>2 DEF Ownerless
  <2>5. CASE folder # None
    <3>1. c.serial \in Tickets
      BY <2>1 DEF Taken
    <3>2. g \in Generations /\ g.contents_epoch = c.serial /\ g.view_epoch = c.serial
          /\ g # None
      BY <2>5, <3>1, NewGeneration
    <3> HIDE DEF g
    <3>3. Published(o, p, g)
      BY <2>1, <2>2, <2>3, <3>2, PublishGives DEF Ownerless, CInv, Taken
    <3> HIDE DEF p
    <3>4. co' = [p EXCEPT !.view = c.serial]
      BY <1>2, <2>5 DEF Activate, p, g, o, c
    <3>5. Same(p, co', {"view"}) /\ co'.view = c.serial
      BY <3>3, <3>4 DEF Published, Same, CoFields
    <3>6. /\ DOMAIN co' = CoFields /\ co'.publication = p.publication
          /\ co'.staging = p.staging /\ co'.playback = o.playback
          /\ co'.model = o.model /\ co'.serial = c.serial /\ co'.issued = o.issued
          /\ co'.playback_fence = o.playback_fence /\ co'.change = None
          /\ co'.generation = g /\ co'.stage = NoStage /\ co'.fill = None
          /\ co'.fatal = p.fatal /\ p.serial = o.serial
      BY <2>2, <2>3, <3>3, <3>5 DEF Published, Ownerless, Same, CoFields
    <3>7. CoTypes(co') /\ Behind(co')
      <4>1. CoTypes(p) /\ Behind(p)
        BY <3>3 DEF Published, PartsInv
      <4>2. /\ p.playback = co'.playback /\ p.playback_fence = co'.playback_fence
            /\ p.serial = co'.serial
        BY <2>3, <3>5, <3>6 DEF Same, CoFields
      <4> QED
        BY <3>1, <3>2, <3>5, <3>6, <4>1, <4>2, NoneAssumption
           DEF CoTypes, NoStage, StageFields, Behind
    <3>8. PartsInv(co')
      <4>1. p.playback = co'.playback /\ p.model = co'.model
        BY <3>5 DEF Same, CoFields
      <4> QED
        BY <3>3, <3>6, <3>7, <4>1 DEF Published, PartsInv
    <3>9. ScopeInv(co')
      <4>1. c.serial # None
        BY <3>1, NoneAssumption DEF Tickets
      <4> QED
        BY <3>2, <3>3, <3>5, <3>6, <4>1 DEF ScopeInv, Published, NoStage
    <3>10. Calm(co, co')
      <4>1. Idle(co'.model) /\ CaughtUp(co')
        BY <2>2, <3>6 DEF Ownerless, CaughtUp
      <4> DEFINE d == co'
      <4>2. Calm(co, d)
        BY <2>1, <2>3, <3>6, <4>1, EventIsCalm
      <4> QED
        BY <4>2
    <3> QED
      BY <3>8, <3>9, <3>10 DEF CInv
  <2> QED
    BY <2>4, <2>5
<1> QED
  BY <1>1, <1>2

LEMMA CloseKeeps ==
    ASSUME CInv(co), NEW v, Close(v)
    PROVE  CInv(co') /\ Calm(co, co')
<1> DEFINE c == Change(co)
           o == Baseline(DiscardStaging([Deactivate(c) EXCEPT !.change = None]))
<1>1. co' = o
  BY DEF Close
<1>2. PartsInv(c)
  BY ChangeGives DEF CInv, Taken, Stopped
<1> HIDE DEF c
<1>3. Ownerless(c, o)
  BY <1>2, OwnerlessGives
<1> HIDE DEF o
<1>4. /\ o.playback = c.playback /\ o.serial = c.serial /\ o.issued = c.issued
      /\ o.playback_fence = c.playback_fence
  BY <1>3 DEF Ownerless, Same, CoFields
<1>5. Calm(co, o)
  <2>1. CASE MayChange(co)
    <3>1. Taken(co, c)
      BY <2>1, ChangeGives DEF CInv, c
    <3> QED
      BY <1>3, <1>4, <3>1, EventIsCalm DEF Ownerless
  <2>2. CASE ~MayChange(co)
    <3>1. Stopped(co, c)
      BY <2>2, ChangeGives DEF CInv, c
    <3> QED
      BY <1>3, <1>4, <3>1 DEF Ownerless, Stopped, Calm, CaughtUp, Unseen
  <2> QED
    BY <2>1, <2>2
<1> QED
  BY <1>1, <1>3, <1>5 DEF Ownerless

Emptied(c, d) ==
    /\ PartsInv(d) /\ Idle(d.model) /\ CaughtUp(d)
    /\ Same(c, d, {"staging", "stage", "fill", "model"})
    /\ d.fill = None /\ d.stage = NoStage

LEMMA EmptiedGives ==
    ASSUME NEW c, PartsInv(c)
    PROVE  Emptied(c, Baseline([DiscardStaging(c) EXCEPT !.fill = None]))
<1> DEFINE a == DiscardStaging(c)
           b == [a EXCEPT !.fill = None]
           d == Baseline(b)
<1>1. Cleared(c, a)
  BY DiscardGives
<1> HIDE DEF a
<1>2. Same(a, b, {"fill"}) /\ b.fill = None
  BY <1>1 DEF Cleared, Same, CoFields
<1> HIDE DEF b
<1>3. /\ DOMAIN b = CoFields /\ b.model = a.model /\ b.playback = a.playback
      /\ b.staging = a.staging /\ b.publication = a.publication
      /\ b.serial = a.serial /\ b.view = a.view /\ b.generation = a.generation
      /\ b.playback_fence = a.playback_fence /\ b.fatal = a.fatal /\ b.stage = a.stage
      /\ b.change = a.change
  BY <1>2 DEF Same, CoFields
<1>4. PartsInv(b)
  BY <1>1, <1>3 DEF Cleared, PartsInv, CoTypes, Behind
<1>5. Rebased(b, d)
  BY <1>4, BaselineGives
<1> HIDE DEF d
<1>6. /\ Same(c, d, {"staging", "stage", "fill", "model"})
      /\ d.fill = None /\ d.stage = NoStage
  BY <1>1, <1>2, <1>3, <1>5 DEF Cleared, Rebased, Same, CoFields
<1> QED
  BY <1>5, <1>6 DEF Emptied, Rebased, d, b, a

LEMMA ReplaceKeeps ==
    ASSUME CInv(co), NEW folder \in Scopes, NEW v, ReplaceContents(v, folder)
    PROVE  CInv(co') /\ Calm(co, co')
<1> DEFINE c == Change(co)
           empty == Baseline([DiscardStaging(c) EXCEPT !.fill = None])
           g == ViewGeneration(folder, v, c.serial)
<1>1. CASE co.change # None
  <2>1. co' = Disable(co, "mixed-contents-change-protocol")
    BY <1>1 DEF ReplaceContents
  <2> QED
    BY <2>1, DisableGives, StopsGive DEF CInv
<1>2. CASE co.change = None /\ ~MayChange(co)
  BY <1>2, NoChangeGives DEF ReplaceContents
<1>3. CASE co.change = None /\ MayChange(co)
  <2>1. Taken(co, c)
    BY <1>3, ChangeGives DEF CInv
  <2> HIDE DEF c
  <2>2. Emptied(c, empty)
    BY <2>1, EmptiedGives DEF Taken
  <2> HIDE DEF empty
  <2>3. /\ DOMAIN empty = CoFields /\ empty.view = v /\ v # None /\ v \in Tickets
        /\ empty.playback = c.playback /\ empty.serial = c.serial
        /\ empty.issued = c.issued /\ empty.playback_fence = c.playback_fence
        /\ empty.change = None /\ empty.publication = c.publication
    BY <1>3, <2>1, <2>2
       DEF Emptied, Taken, Same, CoFields, ReplaceContents, Current, CInv, PartsInv, CoTypes
  <2>4. CASE folder = None
    <3> DEFINE d == Deactivate(empty)
    <3>1. co' = d
      BY <1>3, <2>4 DEF ReplaceContents, empty, c
    <3>2. Inactive(empty, d)
      BY <2>2, DeactivateGives DEF Emptied
    <3> HIDE DEF d
    <3>3. /\ d.playback = empty.playback /\ d.model = empty.model /\ d.serial = empty.serial
          /\ d.issued = empty.issued /\ d.playback_fence = empty.playback_fence
          /\ d.change = None /\ d.stage = NoStage
      BY <2>2, <2>3, <3>2 DEF Inactive, Emptied, Same, CoFields
    <3>4. Calm(co, d)
      BY <2>1, <2>2, <2>3, <3>3, EventIsCalm DEF Emptied, CaughtUp
    <3>5. ScopeInv(d)
      BY <3>2, <3>3 DEF Inactive, ScopeInv, NoStage
    <3> QED
      BY <3>1, <3>2, <3>4, <3>5 DEF Inactive, CInv
  <2>5. CASE folder # None
    <3> DEFINE d == Publish(empty, g)
    <3>1. c.serial \in Tickets
      BY <2>1 DEF Taken
    <3>2. g \in Generations /\ g.contents_epoch = c.serial /\ g.view_epoch = v /\ g # None
      BY <2>3, <2>5, <3>1, NewGeneration
    <3>3. co' = d
      BY <1>3, <2>5 DEF ReplaceContents, g, empty, c
    <3> HIDE DEF g
    <3>4. Published(empty, d, g)
      BY <2>1, <2>2, <2>3, <3>2, PublishGives DEF Emptied, Taken, Ahead
    <3> HIDE DEF d
    <3>5. /\ d.playback = empty.playback /\ d.model = empty.model /\ d.serial = empty.serial
          /\ d.issued = empty.issued /\ d.playback_fence = empty.playback_fence
          /\ d.change = None /\ d.stage = NoStage /\ d.fill = None /\ d.view = v
      BY <2>2, <2>3, <3>4 DEF Published, Emptied, Same, CoFields
    <3>6. Calm(co, d)
      BY <2>1, <2>2, <2>3, <3>5, EventIsCalm DEF Emptied, CaughtUp
    <3>7. ScopeInv(d)
      BY <2>3, <3>2, <3>4, <3>5 DEF Published, ScopeInv, NoStage
    <3> QED
      BY <3>3, <3>4, <3>6, <3>7 DEF Published, CInv
  <2> QED
    BY <2>4, <2>5
<1> QED
  BY <1>1, <1>2, <1>3

LEMMA BeginChangeKeeps ==
    ASSUME CInv(co), NEW v, BeginContentsChange(v)
    PROVE  CInv(co') /\ Calm(co, co')
<1> DEFINE c == Change(co)
           a == DiscardStaging(c)
           publication == ActivateRows(a.publication, None)
           change == [view |-> v, epoch |-> c.serial]
           b == [a EXCEPT !.publication = publication, !.generation = None,
                          !.fill = None, !.change = change]
           d == Baseline(b)
<1>1. CASE co.change # None
  <2>1. co' = Disable(co, "overlapping-contents-change")
    BY <1>1 DEF BeginContentsChange
  <2> QED
    BY <2>1, DisableGives, StopsGive DEF CInv
<1>2. CASE co.change = None /\ ~MayChange(co)
  BY <1>2, NoChangeGives DEF BeginContentsChange
<1>3. CASE co.change = None /\ MayChange(co)
  <2>1. Taken(co, c)
    BY <1>3, ChangeGives DEF CInv
  <2>2. Cleared(c, a)
    BY <2>1, DiscardGives DEF Taken
  <2>3. co' = d
    BY <1>3, <2>2 DEF BeginContentsChange, Cleared, Same, CoFields
  <2> HIDE DEF c, a
  <2>4. ActivatedFor(a.publication, publication, None)
    BY <2>2, ActivateGives DEF Cleared, PartsInv
  <2>5. /\ v # None /\ v \in Tickets /\ c.serial \in Tickets /\ a.view = v
        /\ a.playback = c.playback /\ a.serial = c.serial /\ a.issued = c.issued
        /\ a.playback_fence = c.playback_fence /\ a.stage = NoStage
        /\ DOMAIN a = CoFields
    BY <2>1, <2>2 DEF BeginContentsChange, Current, Taken, Cleared, Same, CoFields,
                      CInv, PartsInv, CoTypes
  <2>6. change \in [view : Tickets, epoch : Tickets] /\ change # None
    <3>1. change \in [view : Tickets, epoch : Tickets]
      BY <2>5
    <3> QED
      BY <3>1, NoneAssumption
  <2> HIDE DEF publication, change
  <2>7. /\ Same(a, b, {"publication", "generation", "fill", "change"})
        /\ b.publication = publication /\ b.generation = None /\ b.fill = None
        /\ b.change = change
    BY <2>5 DEF Same, CoFields
  <2> HIDE DEF b
  <2>8. /\ DOMAIN b = CoFields /\ b.view = v /\ b.playback = a.playback
        /\ b.serial = a.serial /\ b.issued = a.issued /\ b.stage = NoStage
        /\ b.playback_fence = a.playback_fence /\ b.model = a.model
        /\ b.staging = a.staging /\ b.fatal = a.fatal
    BY <2>5, <2>7 DEF Same, CoFields
  <2>9. /\ PubInv(publication) /\ publication.view = None
        /\ publication.epoch = a.publication.epoch
        /\ publication.serial = a.publication.serial
    BY <2>4 DEF ActivatedFor
  <2>10. CoTypes(b)
    BY <2>2, <2>5, <2>6, <2>7, <2>8 DEF Cleared, PartsInv, CoTypes
  <2>11. Behind(b)
    BY <2>2, <2>7, <2>8, <2>9 DEF Cleared, PartsInv, Behind
  <2>12. PartsInv(b)
    BY <2>2, <2>7, <2>8, <2>9, <2>10, <2>11 DEF Cleared, PartsInv
  <2>13. Rebased(b, d)
    BY <2>12, BaselineGives
  <2> HIDE DEF d
  <2>14. /\ d.playback = c.playback /\ d.serial = c.serial /\ d.issued = c.issued
         /\ d.playback_fence = c.playback_fence /\ d.publication = publication
         /\ d.stage = NoStage /\ d.view = v /\ d.generation = None /\ d.fill = None
         /\ d.change = change
    BY <2>5, <2>7, <2>8, <2>13 DEF Rebased, Same, CoFields
  <2>15. Calm(co, d)
    BY <2>1, <2>13, <2>14, EventIsCalm DEF Rebased
  <2>16. ScopeInv(d)
    BY <2>5, <2>6, <2>9, <2>14 DEF ScopeInv, NoStage
  <2> QED
    BY <2>3, <2>13, <2>15, <2>16 DEF Rebased, CInv
<1> QED
  BY <1>1, <1>2, <1>3

(* The staged rows move into the generation that was just published.        *)
LEMMA PromoteGives ==
    ASSUME NEW c, CInv(c), c.view # None, c.generation # None, c.staging.rows # None,
           ~c.publication.error, ~c.publication.started,
           c.publication.serial < c.serial, ~c.stage.error, c.stage.started
    PROVE  CInv(Promote(c))
           /\ Same(c, Promote(c), {"publication", "fill", "stage"})
<1> DEFINE entries == c.staging.rows.entries
           g == c.generation
           p == c.publication
           begun == BeginFill(p, g, Len(entries), TRUE)
           filled == Replay(begun, entries)
           done == FinishFill(TerminalRow(filled, begun.ticket, TRUE), begun.ticket, TRUE)
           fill == [generation |-> g, ticket |-> begun.ticket]
           promoted == [c EXCEPT !.publication = done, !.fill = fill]
           d == [promoted EXCEPT !.stage.promoted = g]
<1>1. /\ DOMAIN c = CoFields /\ DOMAIN c.stage = StageFields
      /\ c.serial \in 0 .. Limit /\ PubInv(p) /\ p.serial \in 0 .. Limit
  BY DEF CInv, PartsInv, CoTypes, PubInv, Serials
<1>2. entries \in Seq(Tracks) /\ Distinct(entries) /\ Len(entries) <= MaxRows
  BY DEF CInv, PartsInv, PubInv
<1>3. p.view # None /\ g = p.view /\ p.serial # Limit
  BY <1>1, Bounds DEF CInv, ScopeInv
<1>4. /\ begun.fill # None /\ done.rows # None
      /\ PubInv(done) /\ done.view = p.view /\ done.epoch = p.epoch
      /\ done.serial = p.serial + 1 /\ done.ticket = begun.ticket
      /\ done.started /\ ~done.error
  <2>1. begun = BeginFill(p, g, Len(entries), TRUE) /\ done = Receipt(begun, entries)
    BY DEF Receipt
  <2> HIDE DEF entries, g, p, begun, done
  <2>2. /\ PubInv(p) /\ p.view # None /\ ~p.error /\ ~p.started /\ p.serial # Limit
        /\ entries \in Seq(Tracks) /\ Distinct(entries) /\ Len(entries) <= MaxRows
        /\ g = p.view
    BY <1>1, <1>2, <1>3 DEF p
  <2>3. Transferred(p, begun, done)
    BY <2>1, <2>2, TransferGives
  <2> QED
    BY <2>3 DEF Transferred
<1>5. Promote(c) = d
  BY <1>4 DEF Promote
<1> HIDE DEF done, fill
<1>6. /\ Same(c, promoted, {"publication", "fill"})
      /\ promoted.publication = done /\ promoted.fill = fill
  BY <1>1 DEF Same, CoFields
<1>7. fill.ticket = done.ticket
  BY <1>4 DEF fill
<1> HIDE DEF promoted
<1>8. /\ Same(promoted, d, {"stage"}) /\ d.stage = [promoted.stage EXCEPT !.promoted = g]
  BY <1>6 DEF Same, CoFields
<1> HIDE DEF d
<1>9. /\ promoted.stage = c.stage /\ DOMAIN d = CoFields
      /\ d.publication = done /\ d.fill = fill /\ d.serial = c.serial
      /\ d.model = c.model /\ d.staging = c.staging /\ d.playback = c.playback
      /\ d.view = c.view /\ d.generation = c.generation /\ d.change = c.change
      /\ d.playback_fence = c.playback_fence /\ d.fatal = c.fatal
  BY <1>6, <1>8 DEF Same, CoFields
<1>10. /\ DOMAIN d.stage = StageFields /\ d.stage.error = c.stage.error
       /\ d.stage.started = c.stage.started /\ d.stage.fill = c.stage.fill
  BY <1>1, <1>8, <1>9 DEF StageFields
<1>11. CoTypes(d)
  BY <1>9, <1>10 DEF CInv, PartsInv, CoTypes
<1>12. Behind(d)
  BY <1>1, <1>4, <1>9 DEF CInv, PartsInv, Behind
<1>13. ScopeInv(d)
  BY <1>3, <1>4, <1>7, <1>9, <1>10 DEF CInv, ScopeInv
<1>14. Same(c, d, {"publication", "fill", "stage"})
  BY <1>6, <1>8 DEF Same
<1> QED
  BY <1>4, <1>5, <1>9, <1>11, <1>12, <1>13, <1>14 DEF CInv, PartsInv

LEMMA FinishChangeKeeps ==
    ASSUME CInv(co), NEW e, NEW folder \in Scopes, NEW outcome,
           FinishContentsChange(e, folder, outcome)
    PROVE  CInv(co') /\ Calm(co, co')
<1> DEFINE ended == [co EXCEPT !.change = None]
           x == Change(ended)
           c == Baseline(x)
           g == ViewGeneration(folder, c.view, c.serial)
           public == Publish(c, g)
<1>1. /\ co.change # None /\ co.fatal = None /\ co.view # None /\ co.view \in Tickets
      /\ co.generation = None /\ co.fill = None /\ DOMAIN co = CoFields
  BY DEF FinishContentsChange, CurrentChange, CInv, PartsInv, CoTypes, ScopeInv
<1>2. Same(co, ended, {"change"}) /\ ended.change = None
  BY <1>1 DEF Same, CoFields
<1> HIDE DEF ended
<1>3. /\ DOMAIN ended = CoFields /\ ended.model = co.model /\ ended.playback = co.playback
      /\ ended.staging = co.staging /\ ended.publication = co.publication
      /\ ended.serial = co.serial /\ ended.view = co.view
      /\ ended.generation = None /\ ended.fill = None
      /\ ended.playback_fence = co.playback_fence /\ ended.fatal = co.fatal
      /\ ended.stage = co.stage
  BY <1>1, <1>2 DEF Same, CoFields
<1>4. PartsInv(ended)
  BY <1>2, <1>3 DEF CInv, PartsInv, CoTypes, Behind
<1>5. CASE ~MayChange(ended)
  <2>1. co' = x
    BY <1>5 DEF FinishContentsChange, ended
  <2>2. Stopped(ended, x) /\ ScopeInv(x)
    BY <1>1, <1>3, <1>4, <1>5, ChangeGives
  <2> HIDE DEF x
  <2>3. Calm(co, x)
    BY <1>3, <2>2 DEF Stopped, Calm
  <2> QED
    BY <2>1, <2>2, <2>3 DEF Stopped, CInv
<1>6. CASE MayChange(ended)
  <2>1. Taken(ended, x)
    BY <1>4, <1>6, ChangeGives
  <2> HIDE DEF x
  <2>2. Rebased(x, c)
    BY <2>1, BaselineGives DEF Taken
  <2> HIDE DEF c
  <2>3. /\ DOMAIN c = CoFields /\ c.playback = co.playback /\ c.serial = x.serial
        /\ c.issued = x.issued /\ c.playback_fence = x.playback_fence
        /\ x.playback = co.playback
        /\ c.view = co.view /\ c.generation = None /\ c.fill = None /\ c.change = None
        /\ c.stage = co.stage /\ c.staging = co.staging /\ c.publication = x.publication
        /\ c.issued = None
    BY <1>2, <1>3, <2>1, <2>2 DEF Taken, Rebased, Same, CoFields
  <2>4. c.serial \in Tickets /\ Ahead(c) /\ c.playback_fence # c.serial
    BY <2>1, <2>3 DEF Taken, Ahead
  <2>5. ASSUME NEW reason, reason # "staged-row-transfer-failed",
               co' = Disable(c, reason)
        PROVE  CInv(co') /\ Calm(co, co')
    <3> DEFINE d == Disable(c, reason)
    <3>1. Stopped(c, d) /\ ScopeInv(d)
      BY <2>2, <2>5, DisableGives DEF Rebased
    <3> HIDE DEF d
    <3>2. Calm(co, d)
      BY <2>3, <3>1 DEF Stopped, Calm
    <3> QED
      BY <2>5, <3>1, <3>2 DEF Stopped, CInv, d
  <2>6. CASE outcome = "unknown"
    <3>1. co' = Disable(c, "unknown-contents-change-outcome")
      BY <1>6, <2>6 DEF FinishContentsChange, c, x, ended
    <3> QED
      BY <2>5, <3>1
  <2>7. CASE outcome # "unknown" /\ (outcome = "failed" \/ folder = None)
    <3> DEFINE s == DiscardStaging(c)
               d == Deactivate(s)
    <3>1. co' = d
      BY <1>6, <2>7 DEF FinishContentsChange, c, x, ended
    <3>2. Cleared(c, s)
      BY <2>2, DiscardGives DEF Rebased
    <3> HIDE DEF s
    <3>3. Inactive(s, d)
      BY <3>2, DeactivateGives DEF Cleared
    <3> HIDE DEF d
    <3>4. /\ d.playback = co.playback /\ d.model = c.model /\ d.serial = c.serial
          /\ d.issued = None /\ d.playback_fence = c.playback_fence
          /\ d.change = None /\ d.stage = NoStage
      BY <2>3, <3>2, <3>3 DEF Cleared, Inactive, Same, CoFields
    <3>5. Calm(co, d)
      BY <2>2, <2>3, <2>4, <3>4 DEF Rebased, Calm, CaughtUp, Unseen
    <3>6. ScopeInv(d)
      BY <3>3, <3>4 DEF Inactive, ScopeInv, NoStage
    <3> QED
      BY <3>1, <3>3, <3>5, <3>6 DEF Inactive, CInv
  <2>8. CASE outcome # "unknown" /\ outcome # "failed" /\ folder # None
    <3>1. co' = IF ~c.stage.started THEN public
                ELSE IF ~StageConfirmed(c, e)
                THEN Disable(c, "unconfirmed-staged-rows")
                ELSE IF folder # c.stage.scope
                THEN Disable(c, "staged-scope-mismatch")
                ELSE Promote(public)
      BY <1>6, <2>8 DEF FinishContentsChange, public, g, c, x, ended
    <3>2. c.view \in Tickets
      BY <1>1, <2>3
    <3>3. g \in Generations /\ g.contents_epoch = c.serial /\ g.view_epoch = c.view
          /\ g # None
      BY <2>4, <2>8, <3>2, NewGeneration
    <3> HIDE DEF g
    <3>4. Published(c, public, g)
      BY <2>2, <2>4, <3>3, PublishGives DEF Rebased
    <3> HIDE DEF public
    <3>5. /\ public.playback = c.playback /\ public.model = c.model
          /\ public.serial = c.serial /\ public.issued = None
          /\ public.playback_fence = c.playback_fence /\ public.view = c.view
          /\ public.change = None /\ public.fill = None /\ public.stage = c.stage
          /\ public.staging = c.staging
      BY <2>3, <3>4 DEF Published, Same, CoFields
    <3>6. ~c.stage.error => CInv(public)
      <4>1. ~c.stage.error => ScopeInv(public)
        BY <1>1, <2>3, <3>3, <3>4, <3>5 DEF Published, ScopeInv, CInv
      <4> QED
        BY <3>4, <4>1 DEF Published, CInv
    <3>7. Calm(co, public)
      BY <2>2, <2>3, <2>4, <3>5 DEF Rebased, Calm, CaughtUp, Unseen
    <3>8. CASE ~c.stage.started
      <4>1. ~c.stage.error
        BY <2>3, <3>8 DEF CInv, ScopeInv
      <4> QED
        BY <3>1, <3>6, <3>7, <3>8, <4>1
    <3>9. CASE c.stage.started /\ StageConfirmed(c, e) /\ folder = c.stage.scope
      <4> DEFINE d == Promote(public)
      <4>1. co' = d
        BY <3>1, <3>9
      <4>2. ~c.stage.error /\ c.staging.rows # None
        BY <3>9 DEF StageConfirmed
      <4>3. CInv(public)
        BY <3>6, <4>2
      <4>4. /\ public.view # None /\ public.generation # None
            /\ public.staging.rows # None
            /\ ~public.publication.error /\ ~public.publication.started
            /\ public.publication.serial < public.serial
            /\ ~public.stage.error /\ public.stage.started
        BY <1>1, <2>3, <2>4, <3>3, <3>4, <3>5, <3>9, <4>2 DEF Published, Ahead
      <4>5. CInv(d) /\ Same(public, d, {"publication", "fill", "stage"})
        BY <4>3, <4>4, PromoteGives
      <4> HIDE DEF d
      <4>6. /\ d.playback = c.playback /\ d.model = c.model /\ d.serial = c.serial
            /\ d.issued = None /\ d.playback_fence = c.playback_fence
        BY <3>5, <4>5 DEF Same, CoFields
      <4>7. Calm(co, d)
        BY <2>2, <2>3, <2>4, <4>6 DEF Rebased, Calm, CaughtUp, Unseen
      <4> QED
        BY <4>1, <4>5, <4>7
    <3>10. CASE c.stage.started /\ (~StageConfirmed(c, e) \/ folder # c.stage.scope)
      BY <2>5, <3>1, <3>10
    <3> QED
      BY <3>8, <3>9, <3>10
  <2> QED
    BY <2>6, <2>7, <2>8
<1> QED
  BY <1>5, <1>6

-------------------------------------------------------------------------------
(* The events of producers.                                                 *)

(* A staged producer's own state, during a contents change.                 *)
LEMMA StageOnly ==
    ASSUME NEW c, CInv(c), c.change # None,
           NEW d, Same(c, d, {"stage", "staging"}), PubInv(d.staging),
           DOMAIN d.stage = StageFields,
           d.stage.started = TRUE, d.stage.error = c.stage.error
    PROVE  CInv(d) /\ Quiet(c, d)
<1>1. c.generation = None
  BY DEF CInv, ScopeInv
<1>2. /\ DOMAIN d = CoFields /\ d.model = c.model /\ d.playback = c.playback
      /\ d.publication = c.publication /\ d.serial = c.serial /\ d.view = c.view
      /\ d.generation = None /\ d.fill = c.fill /\ d.change = c.change
      /\ d.playback_fence = c.playback_fence /\ d.fatal = c.fatal
  BY <1>1 DEF Same, CoFields
<1>3. CoTypes(d) /\ Behind(d)
  BY <1>1, <1>2 DEF CInv, PartsInv, CoTypes, Behind
<1>4. ScopeInv(d)
  BY <1>1, <1>2 DEF CInv, ScopeInv
<1>5. Quiet(c, d)
  BY <1>2 DEF Quiet, Same, IssueHolds
<1> QED
  BY <1>2, <1>3, <1>4, <1>5 DEF CInv, PartsInv

LEMMA StageOnlyPoisoned ==
    ASSUME NEW c, CInv(c), c.change # None,
           NEW d, Same(c, d, {"stage", "staging"}), CInv(d), d.stage.started
    PROVE  Outcome(c, PoisonStaging(d))
<1> DEFINE e == PoisonStaging(d)
<1>1. d.change # None /\ d.generation = None
  BY DEF CInv, ScopeInv, Same, CoFields
<1>2. Poisoned(d, e)
  BY <1>1, PoisonStagingGives
<1> HIDE DEF e
<1>3. Same(c, e, {"stage", "staging"})
  BY <1>1, <1>2 DEF Poisoned, Promoted, Same
<1>4. Quiet(c, e)
  BY <1>3 DEF Quiet, Same, CoFields, IssueHolds
<1> QED
  BY <1>2, <1>4 DEF Poisoned, Outcome, e

LEMMA BeginStagedKeeps ==
    ASSUME CInv(co), NEW e, NEW folder \in Scopes, NEW total \in Totals,
           NEW supported \in Confirmations, BeginStagedFill(e, folder, total, supported)
    PROVE  Outcome(co, co')
<1> DEFINE c == [co EXCEPT !.stage.started = TRUE]
           scoped == [c EXCEPT !.stage.scope = folder]
           g == ViewGeneration(folder, co.view, e)
           active == ActivateRows(co.staging, g)
           begun == BeginFill(active, g, total, supported)
           fill == [change |-> e, view |-> co.view, generation |-> g,
                    ticket |-> begun.ticket]
           opened == [scoped EXCEPT !.staging = begun, !.stage.fill = fill]
           refused == [scoped EXCEPT !.staging = begun]
<1>1. /\ co.change # None /\ e \in Tickets /\ co.view \in Tickets
      /\ DOMAIN co = CoFields /\ DOMAIN co.stage = StageFields
      /\ PubInv(co.staging)
  BY DEF BeginStagedFill, CurrentChange, CInv, PartsInv, CoTypes, ScopeInv
<1>2. CASE co.stage.started
  <2>1. co' = PoisonStaging(co)
    BY <1>2 DEF BeginStagedFill
  <2>2. Same(co, co, {"stage", "staging"})
    BY <1>1 DEF Same
  <2> QED
    BY <1>1, <1>2, <2>1, <2>2, StageOnlyPoisoned
<1>3. CASE ~co.stage.started
  <2>1. /\ Same(co, c, {"stage", "staging"}) /\ c.staging = co.staging
        /\ c.stage = [co.stage EXCEPT !.started = TRUE]
    BY <1>1 DEF Same, CoFields
  <2>2. /\ DOMAIN c.stage = StageFields /\ c.stage.started = TRUE
        /\ c.stage.error = co.stage.error
    BY <1>1, <2>1 DEF StageFields
  <2>3. CASE folder = None
    <3>1. co' = PoisonStaging(c)
      BY <1>3, <2>3 DEF BeginStagedFill
    <3> HIDE DEF c
    <3>2. CInv(c)
      BY <1>1, <2>1, <2>2, StageOnly
    <3> QED
      BY <1>1, <2>1, <2>2, <3>1, <3>2, StageOnlyPoisoned
  <2>4. CASE folder # None
    <3>1. co' = IF Accepted(active, begun) THEN opened ELSE PoisonStaging(refused)
      BY <1>3, <2>4 DEF BeginStagedFill
    <3>2. g \in Generations
      BY <1>1, <2>4, NewGeneration
    <3> HIDE DEF c, g
    <3>3. PubInv(active)
      BY <1>1, <3>2, ActivateGives DEF ActivatedFor
    <3> HIDE DEF active
    <3>4. total \in Nat /\ supported \in BOOLEAN
      BY InputAssumption
    <3>5. PubInv(begun)
      BY <3>3, <3>4, BeginGives DEF BegunFrom
    <3> HIDE DEF begun, fill
    <3>6. DOMAIN c = CoFields
      BY <2>1 DEF Same
    <3>7. /\ Same(c, scoped, {"stage"}) /\ scoped.stage = [c.stage EXCEPT !.scope = folder]
      BY <3>6 DEF Same, CoFields
    <3> HIDE DEF scoped
    <3>8. /\ DOMAIN scoped = CoFields /\ DOMAIN scoped.stage = StageFields
          /\ scoped.stage.started = TRUE /\ scoped.stage.error = co.stage.error
      BY <2>2, <3>7 DEF Same, StageFields
    <3>9. CASE Accepted(active, begun)
      <4>1. /\ Same(scoped, opened, {"stage", "staging"})
            /\ opened.stage = [scoped.stage EXCEPT !.fill = fill]
            /\ opened.staging = begun
        BY <3>8 DEF Same, CoFields
      <4> HIDE DEF opened
      <4>2. Same(co, opened, {"stage", "staging"})
        BY <2>1, <3>7, <4>1 DEF Same
      <4>3. /\ DOMAIN opened.stage = StageFields /\ opened.stage.started = TRUE
            /\ opened.stage.error = co.stage.error
        BY <3>8, <4>1 DEF StageFields
      <4>4. CInv(opened) /\ Quiet(co, opened)
        BY <1>1, <3>5, <4>1, <4>2, <4>3, StageOnly
      <4> QED
        BY <3>1, <3>9, <4>4 DEF Outcome
    <3>10. CASE ~Accepted(active, begun)
      <4>1. /\ Same(scoped, refused, {"staging"}) /\ refused.staging = begun
        BY <3>8 DEF Same, CoFields
      <4> HIDE DEF refused
      <4>2. Same(co, refused, {"stage", "staging"}) /\ refused.stage = scoped.stage
        BY <2>1, <3>7, <4>1 DEF Same, CoFields
      <4>3. CInv(refused)
        BY <1>1, <3>5, <3>8, <4>1, <4>2, StageOnly
      <4> QED
        BY <1>1, <3>1, <3>8, <3>10, <4>2, <4>3, StageOnlyPoisoned
    <3> QED
      BY <3>9, <3>10
  <2> QED
    BY <2>3, <2>4
<1> QED
  BY <1>2, <1>3

LEMMA StageIsCurrent ==
    ASSUME CInv(co), NEW t, CurrentStage(co, t)
    PROVE  co.stage.started /\ (Promoted(co) \/ co.change # None)
BY DEF CurrentStage, CInv, ScopeInv

LEMMA StagedRowKeeps ==
    ASSUME CInv(co), NEW t, NEW confirmed \in Confirmations,
           \/ \E identity \in Tracks : AppendStaged(t, identity, confirmed)
           \/ TerminalStaged(t, confirmed)
           \/ FinishStagedFill(t, confirmed)
    PROVE  Outcome(co, co')
<1>1. confirmed \in BOOLEAN /\ PubInv(co.staging)
  BY InputAssumption DEF CInv, PartsInv
<1>2. CurrentStage(co, t)
  BY DEF AppendStaged, TerminalStaged, FinishStagedFill
<1>3. CASE co' = PoisonStaging(co)
  BY <1>2, <1>3, StageIsCurrent, PoisonStagingGives, PoisonedOutcome
<1>4. ASSUME NEW identity \in Tracks, AppendStaged(t, identity, confirmed)
      PROVE  Outcome(co, co')
  <2>1. CASE Folder[identity] # co.stage.scope
    BY <1>3, <1>4, <2>1 DEF AppendStaged
  <2>2. CASE Folder[identity] = co.stage.scope
    <3> DEFINE staging == AppendRow(co.staging, t, identity, confirmed)
    <3>1. PubInv(staging)
      BY <1>1, AppendKeeps DEF FillKept
    <3>2. co' = Staged(co, staging)
      BY <1>4, <2>2 DEF AppendStaged
    <3> HIDE DEF staging
    <3> QED
      BY <1>2, <3>1, <3>2, StagedGives
  <2> QED
    BY <2>1, <2>2
<1>5. CASE TerminalStaged(t, confirmed)
  <2> DEFINE staging == TerminalRow(co.staging, t, confirmed)
  <2>1. PubInv(staging)
    BY <1>1, TerminalKeeps DEF FillKept
  <2>2. co' = Staged(co, staging)
    BY <1>5 DEF TerminalStaged
  <2> HIDE DEF staging
  <2> QED
    BY <1>2, <2>1, <2>2, StagedGives
<1>6. CASE FinishStagedFill(t, confirmed)
  <2> DEFINE staging == FinishFill(co.staging, t, confirmed)
  <2>1. PubInv(staging)
    BY <1>1, FinishKeeps DEF FillKept
  <2>2. co' = Staged(co, staging)
    BY <1>6 DEF FinishStagedFill
  <2> HIDE DEF staging
  <2> QED
    BY <1>2, <2>1, <2>2, StagedGives
<1> QED
  BY <1>4, <1>5, <1>6

LEMMA InvalidateKeeps ==
    ASSUME CInv(co), NEW e, InvalidateStagedFill(e)
    PROVE  Outcome(co, co')
<1>1. co' = PoisonStaging(co) /\ co.stage.started /\ (Promoted(co) \/ co.change # None)
  BY DEF InvalidateStagedFill, CurrentStage
<1> QED
  BY <1>1, PoisonStagingGives, PoisonedOutcome

(* An answer of the public collector: its view, epoch and error stay.       *)
LEMMA PublicGives ==
    ASSUME NEW c, CInv(c), c.generation # None,
           NEW d, Same(c, d, {"publication", "fill"}), PubInv(d.publication),
           d.publication.view = c.publication.view,
           d.publication.epoch = c.publication.epoch,
           d.publication.serial <= c.serial,
           d.publication.started \/
              (d.publication.serial = c.publication.serial /\ ~c.publication.started),
           d.fill # None => d.fill.ticket = d.publication.ticket,
           c.stage.error => d.publication.error
    PROVE  CInv(d)
<1>1. /\ DOMAIN d = CoFields /\ d.model = c.model /\ d.playback = c.playback
      /\ d.stage = c.stage /\ d.staging = c.staging /\ d.serial = c.serial
      /\ d.view = c.view /\ d.generation = c.generation /\ d.change = c.change
      /\ d.playback_fence = c.playback_fence /\ d.fatal = c.fatal
  BY DEF Same, CoFields
<1>2. CoTypes(d)
  BY <1>1 DEF CInv, PartsInv, CoTypes
<1>3. Behind(d)
  BY <1>1 DEF CInv, PartsInv, Behind
<1>4. ScopeInv(d)
  BY <1>1 DEF CInv, ScopeInv
<1> QED
  BY <1>1, <1>2, <1>3, <1>4 DEF CInv, PartsInv

LEMMA BeginPublicKeeps ==
    ASSUME CInv(co), NEW e, NEW total \in Totals, NEW supported \in Confirmations,
           BeginPublicFill(e, total, supported)
    PROVE  Outcome(co, co')
<1> DEFINE p == co.publication
           g == co.generation
           q == BeginFill(p, g, total, supported)
           answered == [co EXCEPT !.publication = q]
           fill == [generation |-> g, ticket |-> q.ticket]
           begun == [answered EXCEPT !.fill = fill]
<1>1. /\ PubInv(p) /\ total \in Nat /\ supported \in BOOLEAN /\ DOMAIN co = CoFields
      /\ co.generation # None /\ p.view = g
      /\ p.serial \in Int /\ co.serial \in Int
      /\ co.stage.error => p.error
  BY InputAssumption, Bounds
     DEF CInv, PartsInv, CoTypes, BeginPublicFill, ScopeInv, PubInv, Serials
<1>2. BegunFrom(p, q, g, total, supported)
  BY <1>1, BeginGives
<1>3. co' = IF Accepted(p, q) THEN begun ELSE Change(answered)
  BY DEF BeginPublicFill
<1>4. fill.ticket = q.ticket
  OBVIOUS
<1> HIDE DEF q, fill
<1>5. Same(co, answered, {"publication"}) /\ answered.publication = q
  BY <1>1 DEF Same, CoFields
<1> HIDE DEF answered
<1>6. CASE Accepted(p, q)
  <2>1. Same(answered, begun, {"fill"}) /\ begun.fill = fill
    BY <1>5 DEF Same, CoFields
  <2> HIDE DEF begun
  <2>2. Same(co, begun, {"publication", "fill"}) /\ begun.publication = q
    BY <1>5, <2>1 DEF Same, CoFields
  <2>3. /\ PubInv(q) /\ q.view = p.view /\ q.epoch = p.epoch /\ q.started
        /\ q.serial = p.serial + 1 /\ ~p.started /\ ~p.error /\ ~q.error /\ p.view # None
    BY <1>1, <1>2, <1>6 DEF BegunFrom
  <2>4. q.serial <= co.serial
    BY <1>1, <2>3 DEF CInv, PartsInv, Behind
  <2>5. CInv(begun)
    BY <1>1, <1>4, <2>1, <2>2, <2>3, <2>4, PublicGives
  <2>6. Quiet(co, begun)
    <3>1. q.error = FALSE /\ p.error = FALSE
      BY <1>1, <2>3 DEF PubInv
    <3>2. ~IssueHolds(co)
      BY <1>1, <2>3 DEF IssueHolds, PubInv
    <3> QED
      BY <2>2, <3>1, <3>2 DEF Quiet, Same
  <2> QED
    BY <1>3, <1>6, <2>5, <2>6 DEF Outcome
<1>7. CASE ~Accepted(p, q)
  <2>1. /\ PubInv(q) /\ q.view = p.view /\ q.epoch = p.epoch
        /\ q.serial = p.serial /\ q.ticket = p.ticket /\ q.error
        /\ p.started => q.started
    BY <1>1, <1>2, <1>7 DEF BegunFrom
  <2>2. q.serial <= co.serial
    BY <2>1 DEF CInv, PartsInv, Behind
  <2>3. answered.fill # None => answered.fill.ticket = q.ticket
    BY <1>5, <2>1 DEF Same, CoFields, CInv, ScopeInv
  <2>4. Same(co, answered, {"publication", "fill"})
    BY <1>5 DEF Same
  <2>5. CInv(answered)
    <3>1. answered.publication.started \/
             (answered.publication.serial = co.publication.serial /\ ~co.publication.started)
      BY <1>5, <2>1
    <3> QED
      BY <1>1, <1>5, <2>1, <2>2, <2>3, <2>4, <3>1, PublicGives
  <2>6. CInv(Change(answered)) /\ Calm(answered, Change(answered))
    BY <1>5, <2>1, <2>5, FailedEventGives
  <2>7. answered.playback = co.playback
    BY <1>5 DEF Same, CoFields
  <2> QED
    BY <1>3, <1>7, <2>6, <2>7 DEF Outcome, Calm
<1> QED
  BY <1>6, <1>7

LEMMA PublicEventKeeps ==
    ASSUME CInv(co), NEW t, NEW q, FillKept(co.publication, q, t), PublicFillEvent(t, q)
    PROVE  Outcome(co, co')
<1> DEFINE p == co.publication
           answered == [co EXCEPT !.publication = q]
<1>1. /\ PubInv(p) /\ DOMAIN co = CoFields /\ co.generation # None
      /\ co.fill # None /\ t = p.ticket
      /\ co.stage.error => p.error
  BY DEF CInv, PartsInv, CoTypes, PublicFillEvent, ScopeInv
<1>2. /\ PubInv(q) /\ q.view = p.view /\ q.epoch = p.epoch /\ q.serial = p.serial
      /\ q.ticket = p.ticket /\ q.started = p.started
      /\ ~Accepted(p, q) => q.error
      /\ Accepted(p, q) => p.fill # None /\ ~p.error
  BY <1>1 DEF FillKept
<1>3. Same(co, answered, {"publication"}) /\ answered.publication = q
  BY <1>1 DEF Same, CoFields
<1>4. co' = IF Accepted(p, q) THEN answered ELSE Change(answered)
  BY <1>1, <1>3 DEF PublicFillEvent, OrChange
<1> HIDE DEF answered
<1>5. CInv(answered)
  <2>1. Same(co, answered, {"publication", "fill"})
    BY <1>3 DEF Same
  <2>2. q.serial <= co.serial
    BY <1>2 DEF CInv, PartsInv, Behind
  <2>3. answered.fill # None => answered.fill.ticket = q.ticket
    BY <1>2, <1>3 DEF Same, CoFields, CInv, ScopeInv
  <2>4. co.stage.error => q.error
    BY <1>1, <1>2
  <2>5. answered.publication.started \/
           (answered.publication.serial = co.publication.serial /\ ~co.publication.started)
    BY <1>2, <1>3
  <2> QED
    BY <1>1, <1>2, <1>3, <2>1, <2>2, <2>3, <2>4, <2>5, PublicGives
<1>6. CASE Accepted(p, q)
  <2>1. q.error = FALSE /\ p.error = FALSE
    BY <1>1, <1>2, <1>6 DEF PubInv, Accepted
  <2>2. ~IssueHolds(co)
    BY <1>1, <1>2, <1>6 DEF IssueHolds, PubInv
  <2>3. Quiet(co, answered)
    BY <1>3, <2>1, <2>2 DEF Quiet, Same
  <2> QED
    BY <1>4, <1>5, <1>6, <2>3 DEF Outcome
<1>7. CASE ~Accepted(p, q)
  <2>1. CInv(Change(answered)) /\ Calm(answered, Change(answered))
    BY <1>2, <1>3, <1>5, <1>7, FailedEventGives
  <2>2. answered.playback = co.playback
    BY <1>3 DEF Same, CoFields
  <2> QED
    BY <1>4, <1>7, <2>1, <2>2 DEF Outcome, Calm
<1> QED
  BY <1>6, <1>7

LEMMA PublicRowKeeps ==
    ASSUME CInv(co), NEW t, NEW confirmed \in Confirmations,
           \/ \E identity \in Tracks : AppendPublic(t, identity, confirmed)
           \/ TerminalPublic(t, confirmed)
           \/ FinishPublic(t, confirmed)
    PROVE  Outcome(co, co')
<1>1. confirmed \in BOOLEAN /\ PubInv(co.publication)
  BY InputAssumption DEF CInv, PartsInv
<1>2. ASSUME NEW identity \in Tracks, AppendPublic(t, identity, confirmed)
      PROVE  Outcome(co, co')
  BY <1>1, <1>2, AppendKeeps, PublicEventKeeps DEF AppendPublic
<1>3. CASE TerminalPublic(t, confirmed)
  BY <1>1, <1>3, TerminalKeeps, PublicEventKeeps DEF TerminalPublic
<1>4. CASE FinishPublic(t, confirmed)
  BY <1>1, <1>4, FinishKeeps, PublicEventKeeps DEF FinishPublic
<1> QED
  BY <1>2, <1>3, <1>4

-------------------------------------------------------------------------------
(* What the model's samples lead to.                                        *)

(* A proposal is valid for the sample that it was made from.                *)
LEMMA ProposalGives ==
    ASSUME NEW view, NEW s, Proposal(view, s) # None,
           s.view = view, ~s.manual_active, Folder[s.playback] = view.folder
    PROVE  /\ ValidAction(Proposal(view, s), s)
           /\ Proposal(view, s).geometry = s.geometry
<1> DEFINE row == Locate(s.rows, s.playback)
           target == MinimalReveal(row, Len(s.rows.entries), s.geometry)
           a == [identity |-> s.playback, rows |-> s.rows, manual_epoch |-> s.manual_epoch,
                 geometry |-> s.geometry, row |-> row, target_y |-> target]
<1>1. /\ s.rows.generation = view /\ Listed(s.rows, s.playback)
      /\ target \notin {Unrevealed, s.geometry.scroll_y}
      /\ Proposal(view, s) = a
  BY DEF Proposal
<1>2. /\ a.identity = s.playback /\ a.rows = s.rows /\ a.manual_epoch = s.manual_epoch
      /\ a.geometry = s.geometry /\ a.row = row /\ a.target_y = target
  OBVIOUS
<1> HIDE DEF a
<1>3. ValidAction(a, s)
  BY <1>1, <1>2 DEF ValidAction
<1> QED
  BY <1>1, <1>2, <1>3

(* The looks at a pending transition: only a live one becomes a proposal,   *)
(* and it is consumed by it.                                                *)
Evaluated(m, s, n, action) ==
    /\ ModelInv(n)
    /\ n.candidate = m.candidate /\ n.last_seen = m.last_seen
    /\ Live(n.pending) => Live(m.pending)
    /\ action # None =>
          /\ Live(m.pending) /\ ~Live(n.pending)
          /\ s.rows # None
          /\ ValidAction(action, s) /\ action.geometry = s.geometry

LEMMA EvaluateGives ==
    ASSUME NEW m, ModelInv(m), NEW s, s.playback = m.last_seen,
           Live(m.pending) => ~s.manual_active
    PROVE  Evaluated(m, s, Evaluate(m, s).model, Evaluate(m, s).action)
<1> DEFINE work == m.pending
           left == work.ticks_left - 1
           consumed == [m EXCEPT !.pending = None]
           waiting == [m EXCEPT !.pending.ticks_left = left]
<1>1. DOMAIN m = ModelFields
  BY DEF ModelInv
<1>2. /\ DOMAIN consumed = ModelFields /\ consumed.candidate = m.candidate
      /\ consumed.last_seen = m.last_seen /\ consumed.committed = m.committed
      /\ consumed.pending = None
  BY <1>1 DEF ModelFields
<1> HIDE DEF consumed
<1>3. ModelInv(consumed) /\ ~Live(consumed.pending)
  BY <1>2 DEF ModelInv, WorkInv, Live
<1>4. CASE work = None
  <2>1. Evaluate(m, s) = [model |-> m, action |-> None]
    BY <1>4 DEF Evaluate
  <2> QED
    BY <2>1 DEF Evaluated
<1>5. CASE work # None /\ (work.view = None \/ work.view # s.view
                             \/ work.manual_epoch # s.manual_epoch)
  <2>1. Evaluate(m, s) = [model |-> consumed, action |-> None]
    BY <1>5 DEF Evaluate, consumed
  <2> QED
    BY <1>2, <1>3, <2>1 DEF Evaluated
<1>6. CASE work # None /\ work.view # None /\ work.view = s.view
                       /\ work.manual_epoch = s.manual_epoch
  <2>1. Live(m.pending) /\ Folder[s.playback] = work.view.folder /\ DOMAIN work = WorkFields
    BY <1>6 DEF Live, ModelInv, WorkInv
  <2>2. CASE s.rows = None \/ s.geometry = None
    <3>1. Evaluate(m, s) = [model |-> IF left <= 0 THEN consumed ELSE waiting,
                            action |-> None]
      BY <1>6, <2>2 DEF Evaluate, consumed
    <3>2. /\ DOMAIN waiting = ModelFields /\ waiting.candidate = m.candidate
          /\ waiting.last_seen = m.last_seen /\ waiting.committed = m.committed
          /\ waiting.pending = [work EXCEPT !.ticks_left = left]
      BY <1>1 DEF ModelFields
    <3> HIDE DEF waiting
    <3>3. DOMAIN waiting.pending = WorkFields /\ waiting.pending.view = work.view
      BY <2>1, <3>2 DEF WorkFields
    <3>4. ModelInv(waiting)
      BY <1>6, <2>1, <3>2, <3>3 DEF ModelInv, WorkInv, Live
    <3>5. Evaluated(m, s, consumed, None) /\ Evaluated(m, s, waiting, None)
      BY <1>2, <1>3, <2>1, <3>2, <3>4 DEF Evaluated
    <3> QED
      BY <3>1, <3>5
  <2>3. CASE s.rows # None /\ s.geometry # None
    <3> DEFINE action == Proposal(work.view, s)
    <3>1. Evaluate(m, s) = [model |-> consumed, action |-> action]
      BY <1>6, <2>3 DEF Evaluate, consumed
    <3>2. action # None => ValidAction(action, s) /\ action.geometry = s.geometry
      BY <1>6, <2>1, ProposalGives
    <3> HIDE DEF action
    <3>3. Evaluated(m, s, consumed, action)
      BY <1>2, <1>3, <2>1, <2>3, <3>2 DEF Evaluated
    <3> QED
      BY <3>1, <3>3
  <2> QED
    BY <2>2, <2>3
<1> QED
  BY <1>4, <1>5, <1>6

(* A sample: new work only for a track not seen before, a proposal only from*)
(* live work, and nothing to see again afterwards.                          *)
Observed(m, s, n, action) ==
    /\ ModelInv(n)
    /\ Live(n.candidate) =>
          m.committed # None /\ Eligible(s.playback) /\ s.playback # m.last_seen
    /\ Live(n.pending) => Live(m.candidate) \/ Live(m.pending)
    /\ n.committed # None /\ Eligible(s.playback) => s.playback = n.last_seen
    /\ action # None =>
          /\ Live(m.candidate) \/ Live(m.pending)
          /\ Idle(n)
          /\ s.rows # None
          /\ ValidAction(action, s) /\ action.geometry = s.geometry

LEMMA ObserveGives ==
    ASSUME NEW m, ModelInv(m), NEW s
    PROVE  Observed(m, s, Observe(m, s).model, Observe(m, s).action)
<1> DEFINE context == <<s.view, s.manual_epoch>>
           interaction == m.previous # None /\ context # m.previous
           seen == [m EXCEPT !.previous = context]
           quiet == IF interaction \/ s.manual_active THEN CancelPending(seen) ELSE seen
           eligible == /\ ~interaction /\ ~s.manual_active
                       /\ s.view # None
                       /\ Folder[s.playback] = s.view.folder
           candidate == [view |-> IF eligible THEN s.view ELSE None,
                         manual_epoch |-> s.manual_epoch, ticks_left |-> MaxWaitTicks]
           ready == IF quiet.candidate = None THEN quiet
                    ELSE [quiet EXCEPT !.committed = s.playback,
                                       !.pending = quiet.candidate, !.candidate = None]
           r == Observe(m, s)
<1>1. /\ DOMAIN seen = ModelFields /\ seen.candidate = m.candidate
      /\ seen.pending = m.pending /\ seen.committed = m.committed
      /\ seen.last_seen = m.last_seen
  BY DEF ModelInv, ModelFields
<1> HIDE DEF seen
<1>2. ModelInv(seen)
  BY <1>1 DEF ModelInv, WorkInv
<1>3. /\ ModelInv(quiet) /\ quiet.committed = m.committed
      /\ quiet.last_seen = m.last_seen
      /\ Live(quiet.candidate) => Live(m.candidate)
      /\ Live(quiet.pending) => Live(m.pending)
      /\ s.manual_active => Idle(quiet)
  BY <1>1, <1>2, CancelGives DEF ModelCancelled, Idle
<1>4. CASE ~Eligible(s.playback)
  <2>1. r = [model |-> [NewModel EXCEPT !.previous = context], action |-> None]
    BY <1>4 DEF Observe
  <2> HIDE DEF context
  <2>2. /\ ModelInv(r.model) /\ Idle(r.model)
    BY <2>1 DEF NewModel, ModelInv, ModelFields, WorkInv, Live, Idle
  <2> QED
    BY <1>4, <2>1, <2>2 DEF Observed, Idle
<1>5. CASE Eligible(s.playback) /\ m.committed = None
  <2> DEFINE n == [quiet EXCEPT !.committed = s.playback, !.last_seen = s.playback]
  <2>1. r = [model |-> n, action |-> None]
    BY <1>5 DEF Observe, seen
  <2> HIDE DEF quiet
  <2>2. /\ DOMAIN n = ModelFields /\ n.candidate = quiet.candidate
        /\ n.pending = quiet.pending /\ n.last_seen = s.playback
        /\ n.committed = s.playback
    BY <1>3 DEF ModelInv, ModelFields
  <2> HIDE DEF n
  <2>3. ~Live(n.candidate) /\ ~Live(n.pending)
    BY <1>3, <1>5, <2>2 DEF ModelInv
  <2>4. ModelInv(n)
    BY <1>3, <2>2, <2>3 DEF ModelInv, WorkInv, Live
  <2> QED
    BY <2>1, <2>2, <2>3, <2>4 DEF Observed
<1>6. CASE Eligible(s.playback) /\ m.committed # None /\ s.playback # m.last_seen
  <2> DEFINE n == [quiet EXCEPT !.last_seen = s.playback, !.pending = None,
                     !.candidate = IF s.playback = m.committed THEN None ELSE candidate]
  <2>1. r = [model |-> n, action |-> None]
    BY <1>6 DEF Observe, seen
  <2>2. /\ DOMAIN candidate = WorkFields
        /\ candidate.view # None => Folder[s.playback] = candidate.view.folder
    BY DEF WorkFields
  <2> HIDE DEF quiet, candidate
  <2>3. /\ DOMAIN n = ModelFields
        /\ n.candidate = IF s.playback = m.committed THEN None ELSE candidate
        /\ n.pending = None /\ n.last_seen = s.playback /\ n.committed = m.committed
    BY <1>3 DEF ModelInv, ModelFields
  <2> HIDE DEF n
  <2>4. ModelInv(n)
    BY <1>6, <2>2, <2>3 DEF ModelInv, WorkInv, Live
  <2> QED
    BY <1>6, <2>1, <2>3, <2>4 DEF Observed, Live
<1>7. CASE Eligible(s.playback) /\ m.committed # None /\ s.playback = m.last_seen
  <2>1. r = Evaluate(ready, s)
    BY <1>7 DEF Observe, seen
  <2> HIDE DEF quiet
  <2>2. /\ ModelInv(ready) /\ ready.last_seen = m.last_seen
        /\ ready.candidate = None
        /\ Live(ready.pending) => Live(quiet.candidate) \/ Live(quiet.pending)
    <3>1. CASE quiet.candidate = None
      BY <1>3, <3>1
    <3>2. CASE quiet.candidate # None
      <4>1. /\ DOMAIN ready = ModelFields /\ ready.candidate = None
            /\ ready.pending = quiet.candidate /\ ready.last_seen = quiet.last_seen
            /\ ready.committed = s.playback
        BY <1>3, <3>2 DEF ModelInv, ModelFields
      <4>2. s.playback # None
        BY <1>7 DEF Eligible
      <4> HIDE DEF ready
      <4> QED
        BY <1>3, <4>1, <4>2 DEF ModelInv, WorkInv, Live
    <3> QED
      BY <3>1, <3>2
  <2> HIDE DEF ready
  <2>3. Live(ready.pending) => ~s.manual_active
    BY <1>3, <2>2 DEF Idle
  <2> DEFINE n == Evaluate(ready, s).model
             action == Evaluate(ready, s).action
  <2>4. s.playback = ready.last_seen
    BY <1>7, <2>2
  <2>5. Evaluated(ready, s, n, action)
    BY <2>2, <2>3, <2>4, EvaluateGives
  <2> HIDE DEF n, action
  <2>6. Observed(m, s, n, action)
    BY <1>3, <1>7, <2>2, <2>5 DEF Evaluated, Observed, Live, Idle
  <2> QED
    BY <2>1, <2>6 DEF n, action
<1> QED
  BY <1>4, <1>5, <1>6, <1>7

-------------------------------------------------------------------------------
(* The events of playback.                                                  *)

(* A BEGIN that was admitted: the fence is the serial of its own event.     *)
Begun(c, d) ==
    /\ CInv(d)
    /\ d.issued = None
    /\ ~Stirring(d)
    /\ PlayBegun(c.playback, d.playback)

(* An END: only one that nothing disturbed leaves a track to be seen.       *)
Ended(c, d) ==
    /\ CInv(d)
    /\ d.issued = None
    /\ d.playback.ticket = None
    /\ Brackets(c.playback, d.playback)
    /\ d.playback.revision = c.playback.revision
    /\ \/ ~Stirring(d)
       \/ d.serial = c.serial /\ c.playback.ticket # None /\ c.playback_fence = c.serial

(* A new playback and its fence do not concern the rest of the coordinator. *)
LEMMA PlaybackOnly ==
    ASSUME NEW c, PartsInv(c),
           NEW d, Same(c, d, {"playback", "playback_fence"}), PlayInv(d.playback),
           c.playback.error => d.playback.error,
           d.playback_fence # None => d.playback_fence = d.serial
    PROVE  PartsInv(d) /\ (ScopeInv(c) => ScopeInv(d))
<1>1. /\ DOMAIN d = CoFields /\ d.model = c.model /\ d.publication = c.publication
      /\ d.stage = c.stage /\ d.staging = c.staging /\ d.serial = c.serial
      /\ d.view = c.view /\ d.generation = c.generation /\ d.change = c.change
      /\ d.fatal = c.fatal /\ d.fill = c.fill
  BY DEF Same, CoFields
<1>2. d.serial \in 0 .. d.serial
  BY <1>1, Bounds DEF PartsInv, CoTypes, Serials
<1>3. CoTypes(d) /\ Behind(d)
  BY <1>1, <1>2 DEF PartsInv, CoTypes, Behind
<1>4. ScopeInv(c) => ScopeInv(d)
  BY <1>1 DEF ScopeInv
<1> QED
  BY <1>1, <1>3, <1>4 DEF PartsInv

LEMMA PlaybackBeginKeeps ==
    ASSUME CInv(co), NEW identity, NEW deferred \in BOOLEAN, PlaybackBegin(identity, deferred)
    PROVE  Outcome(co, co') \/ Begun(co, co')
<1> DEFINE c == Change(co)
           begun == BeginPlayback(c.playback, identity, deferred)
           fence == IF begun.ticket # None THEN c.serial ELSE None
           d == [c EXCEPT !.playback = begun, !.playback_fence = fence]
<1>1. CASE ~MayChange(co)
  BY <1>1, NoChangeGives DEF PlaybackBegin, Outcome
<1>2. CASE MayChange(co)
  <2>1. Taken(co, c) /\ co' = d
    BY <1>2, ChangeGives DEF CInv, PlaybackBegin
  <2> HIDE DEF c
  <2>2. /\ DOMAIN c = CoFields /\ c.playback = co.playback /\ c.publication = co.publication
        /\ c.stage = co.stage /\ c.view = co.view /\ c.generation = co.generation
        /\ c.change = co.change /\ c.fill = co.fill
    BY <2>1 DEF Taken, Same, CoFields
  <2>3. PlayBegun(c.playback, begun)
    BY <2>1, BeginPlaybackGives DEF Taken, PartsInv
  <2> HIDE DEF begun, fence
  <2>4. /\ Same(c, d, {"playback", "playback_fence"})
        /\ d.playback = begun /\ d.playback_fence = fence
    BY <2>2 DEF Same, CoFields
  <2> HIDE DEF d
  <2>5. d.issued = None /\ d.model = c.model /\ d.serial = c.serial
    BY <2>1, <2>4 DEF Same, CoFields, Taken
  <2>6. PartsInv(d) /\ (ScopeInv(c) => ScopeInv(d))
    <3>1. fence # None => fence = c.serial
      BY DEF fence
    <3> QED
      BY <2>1, <2>3, <2>4, <2>5, <3>1, PlaybackOnly DEF Taken, PlayBegun
  <2>7. ScopeInv(c)
    BY <2>2 DEF CInv, ScopeInv
  <2>8. ~Stirring(d)
    BY <2>1, <2>3, <2>4, <2>5 DEF Stirring, Unseen, PlayBegun, Taken, Idle
  <2>9. PlayBegun(co.playback, d.playback)
    BY <2>2, <2>3, <2>4
  <2>10. Begun(co, d)
    BY <2>5, <2>6, <2>7, <2>8, <2>9 DEF Begun, CInv
  <2> QED
    BY <2>1, <2>10
<1> QED
  BY <1>1, <1>2

(* What an END does with the publication it found.                          *)
LEMMA PlaybackFinishedGives ==
    ASSUME NEW c, CInv(c), c.issued # None => c.playback.ready,
           NEW playback, PlayEnded(c.playback, playback), NEW succeeded \in BOOLEAN
    PROVE  Ended(c, PlaybackFinished(c, playback, succeeded))
<1> DEFINE answered == [c EXCEPT !.playback = playback, !.playback_fence = None]
           moved == \/ playback.identity = None
                    \/ c.view = None
                    \/ c.generation = None
                    \/ ManualActive(c)
                    \/ c.playback_fence # c.serial
                    \/ ~succeeded
           d == PlaybackFinished(c, playback, succeeded)
<1>1. DOMAIN c = CoFields
  BY DEF CInv, PartsInv, CoTypes
<1>2. /\ Same(c, answered, {"playback", "playback_fence"})
      /\ answered.playback = playback /\ answered.playback_fence = None
  BY <1>1 DEF Same, CoFields
<1> HIDE DEF answered
<1>3. /\ answered.issued = c.issued /\ answered.serial = c.serial
      /\ answered.model = c.model
  BY <1>2 DEF Same, CoFields
<1>4. CInv(answered)
  BY <1>2, PlaybackOnly DEF CInv, PlayEnded
<1>5. CASE ~playback.ready
  <2> DEFINE e == Change(answered)
  <2>1. d = e
    BY <1>5 DEF PlaybackFinished, answered
  <2>2. CASE MayChange(answered)
    <3>1. Taken(answered, e)
      BY <1>4, <2>2, ChangeGives DEF CInv
    <3> HIDE DEF e
    <3>2. /\ e.playback = playback /\ e.issued = None /\ e.publication = answered.publication
          /\ e.view = answered.view /\ e.generation = answered.generation
          /\ e.change = answered.change /\ e.stage = answered.stage /\ e.fill = answered.fill
      BY <1>2, <3>1 DEF Taken, Same, CoFields
    <3>3. CInv(e)
      BY <1>4, <3>1, <3>2 DEF Taken, CInv, ScopeInv
    <3>4. ~Stirring(e)
      BY <1>5, <3>1, <3>2 DEF Stirring, Unseen, Taken, Idle
    <3> QED
      BY <2>1, <3>2, <3>3, <3>4 DEF Ended, PlayEnded
  <2>3. CASE ~MayChange(answered)
    <3>1. CInv(e) /\ Calm(answered, e) /\ Stopped(answered, e)
      BY <1>4, <2>3, ChangeGives, NoChangeGives DEF CInv
    <3> HIDE DEF e
    <3>2. /\ e.issued = None /\ ~Stirring(e)
          /\ e.playback.ticket = None /\ e.playback.error = TRUE
          /\ e.playback.revision = c.playback.revision
      BY <1>2, <3>1 DEF Stopped, Calm, Stirring, Idle, PlayFailed, PlayEnded
    <3> QED
      BY <2>1, <3>1, <3>2 DEF Ended, Brackets
  <2> QED
    BY <2>2, <2>3
<1>6. CASE playback.ready
  <2>1. c.playback.ticket # None
    BY <1>6 DEF PlayEnded
  <2>2. c.issued = None
    BY <2>1 DEF CInv, PartsInv, PlayInv
  <2>3. CASE moved
    <3> DEFINE e == Baseline(answered)
    <3>1. d = e
      BY <1>6, <2>3 DEF PlaybackFinished, answered
    <3>2. Rebased(answered, e)
      BY <1>4, BaselineGives DEF CInv
    <3> HIDE DEF e
    <3>3. /\ e.playback = playback /\ e.issued = None /\ e.publication = answered.publication
          /\ e.view = answered.view /\ e.generation = answered.generation
          /\ e.change = answered.change /\ e.stage = answered.stage /\ e.fill = answered.fill
      BY <1>2, <1>3, <2>2, <3>2 DEF Rebased, Same, CoFields
    <3>4. CInv(e)
      BY <1>4, <3>2, <3>3 DEF Rebased, CInv, ScopeInv
    <3>5. ~Stirring(e)
      BY <3>2 DEF Stirring, Unseen, Rebased, CaughtUp, Idle
    <3> QED
      BY <3>1, <3>3, <3>4, <3>5 DEF Ended, PlayEnded
  <2>4. CASE ~moved
    <3>1. d = answered
      BY <1>6, <2>4 DEF PlaybackFinished, answered
    <3>2. c.playback_fence = c.serial
      BY <2>4
    <3> QED
      BY <1>2, <1>3, <1>4, <2>1, <2>2, <3>1, <3>2 DEF Ended, PlayEnded
  <2> QED
    BY <2>3, <2>4
<1> QED
  BY <1>5, <1>6

LEMMA PlaybackFinishKeeps ==
    ASSUME CInv(co), co.issued # None => co.playback.ready, NEW t,
           \/ PlaybackFinish(t)
           \/ \E identity \in Identities, outcome \in Outcomes :
                 PlaybackUpdateFinish(t, identity, outcome)
    PROVE  Outcome(co, co') \/ Ended(co, co')
<1>1. PlayInv(co.playback)
  BY DEF CInv, PartsInv
<1>2. CASE PlaybackFinish(t)
  <2> DEFINE playback == FinishPlayback(co.playback, t, None, FALSE)
  <2>1. PlayEnded(co.playback, playback)
    BY <1>1, FinishPlaybackGives
  <2>2. co' = PlaybackFinished(co, playback, TRUE)
    BY <1>2 DEF PlaybackFinish
  <2> HIDE DEF playback
  <2> QED
    BY <2>1, <2>2, PlaybackFinishedGives
<1>3. ASSUME NEW identity \in Identities, NEW outcome \in Outcomes,
             PlaybackUpdateFinish(t, identity, outcome)
      PROVE  Outcome(co, co') \/ Ended(co, co')
  <2> DEFINE playback == FinishPlayback(co.playback, t, identity, TRUE)
             succeeded == outcome = "succeeded"
  <2>1. CASE outcome = "unknown"
    <3>1. co' = Disable(co, "unknown-playback-update-outcome")
      BY <1>3, <2>1 DEF PlaybackUpdateFinish
    <3> QED
      BY <3>1, DisableGives, StopsGive DEF CInv, Outcome
  <2>2. CASE outcome # "unknown"
    <3>1. PlayEnded(co.playback, playback)
      BY <1>1, FinishPlaybackGives
    <3>2. co' = PlaybackFinished(co, playback, succeeded) /\ succeeded \in BOOLEAN
      BY <1>3, <2>2 DEF PlaybackUpdateFinish
    <3> HIDE DEF playback, succeeded
    <3> QED
      BY <3>1, <3>2, PlaybackFinishedGives
  <2> QED
    BY <2>1, <2>2
<1> QED
  BY <1>2, <1>3

(* The events of input.                                                     *)
LEMMA InteractionKeeps ==
    ASSUME CInv(co), NEW state, Interaction(state)
    PROVE  Outcome(co, co')
<1> DEFINE c == Change(co)
           touched == [c EXCEPT !.manual_epoch = c.serial, !.interaction = state]
           d == Baseline(touched)
<1>1. CASE ~MayChange(co)
  BY <1>1, NoChangeGives DEF Interaction, Outcome
<1>2. CASE MayChange(co)
  <2>1. Taken(co, c) /\ co' = d
    BY <1>2, ChangeGives DEF CInv, Interaction
  <2> HIDE DEF c
  <2>2. Same(c, touched, {"manual_epoch", "interaction"})
    BY <2>1 DEF Taken, Same, CoFields
  <2> HIDE DEF touched
  <2>3. /\ DOMAIN touched = CoFields /\ touched.model = c.model
        /\ touched.playback = c.playback /\ touched.publication = c.publication
        /\ touched.staging = c.staging /\ touched.stage = c.stage
        /\ touched.serial = c.serial /\ touched.view = c.view
        /\ touched.generation = c.generation /\ touched.change = c.change
        /\ touched.fill = c.fill /\ touched.playback_fence = c.playback_fence
        /\ touched.fatal = c.fatal /\ touched.issued = c.issued
    BY <2>2 DEF Same, CoFields
  <2>4. PartsInv(touched)
    <3>1. CoTypes(touched) /\ Behind(touched)
      BY <2>1, <2>3 DEF Taken, PartsInv, CoTypes, Behind
    <3> QED
      BY <2>1, <2>3, <3>1 DEF Taken, PartsInv
  <2>5. Rebased(touched, d)
    BY <2>4, BaselineGives
  <2> HIDE DEF d
  <2>6. /\ d.playback = c.playback /\ d.serial = c.serial /\ d.issued = c.issued
        /\ d.playback_fence = c.playback_fence
        /\ d.publication = co.publication /\ d.view = co.view
        /\ d.generation = co.generation /\ d.change = co.change /\ d.stage = co.stage
        /\ d.fill = co.fill
    BY <2>1, <2>3, <2>5 DEF Taken, Rebased, Same, CoFields
  <2>7. ScopeInv(d)
    BY <2>6 DEF CInv, ScopeInv
  <2>8. Calm(co, d)
    BY <2>1, <2>5, <2>6, EventIsCalm DEF Rebased
  <2> QED
    BY <2>1, <2>5, <2>7, <2>8 DEF Outcome, CInv, Rebased
<1> QED
  BY <1>1, <1>2

LEMMA UncertainKeeps ==
    ASSUME CInv(co), Uncertain PROVE Outcome(co, co')
BY DisableGives, StopsGive DEF CInv, Uncertain, Outcome

(* A sample: what is proposed is what consume would find, and only work on  *)
(* a track that nothing disturbed is ever proposed.                         *)
Seen(c, d, proposed) ==
    /\ CInv(d)
    /\ Same(c, d, {"model", "issued"})
    /\ Stirring(d) => Stirring(c)
    /\ proposed => Stirring(c) /\ ~Stirring(d) /\ IssueHolds(d)
    /\ ~proposed => d.issued = None

(* The model and the proposal do not concern the rest of the coordinator.   *)
LEMMA ModelOnly ==
    ASSUME NEW c, CInv(c), NEW d, Same(c, d, {"model", "issued"}), ModelInv(d.model)
    PROVE  CInv(d)
<1>1. /\ DOMAIN d = CoFields /\ d.playback = c.playback /\ d.publication = c.publication
      /\ d.stage = c.stage /\ d.staging = c.staging /\ d.serial = c.serial
      /\ d.view = c.view /\ d.generation = c.generation /\ d.change = c.change
      /\ d.fatal = c.fatal /\ d.fill = c.fill /\ d.playback_fence = c.playback_fence
  BY DEF Same, CoFields
<1>2. CoTypes(d) /\ Behind(d)
  BY <1>1 DEF CInv, PartsInv, CoTypes, Behind
<1>3. ScopeInv(d)
  BY <1>1 DEF CInv, ScopeInv
<1> QED
  BY <1>1, <1>2, <1>3 DEF CInv, PartsInv

LEMMA ObserveViewKeeps ==
    ASSUME CInv(co), NEW v, NEW geometry \in Samples, ObserveView(v, geometry)
    PROVE  Seen(co, co', Observation(co, v, geometry).action # None)
<1> DEFINE seen == Observation(co, v, geometry)
           model == seen.model
           action == seen.action
           issue == [action |-> action, fence |-> co.serial,
                     revision |-> co.playback.revision]
           issued == IF action = None THEN None ELSE issue
           proposed == action # None
           d == co'
<1>1. d = [co EXCEPT !.model = model, !.issued = issued]
  BY DEF ObserveView
<1>2. DOMAIN co = CoFields
  BY DEF CInv, PartsInv, CoTypes
<1>3. issue.action = action /\ issue.fence = co.serial /\ issue.revision = co.playback.revision
  OBVIOUS
<1> HIDE DEF model, action, issue
<1>4. Same(co, d, {"model", "issued"}) /\ d.model = model /\ d.issued = issued
  BY <1>1, <1>2 DEF Same, CoFields
<1> HIDE DEF d
<1>5. /\ d.publication = co.publication /\ d.playback = co.playback /\ d.serial = co.serial
      /\ d.view = co.view /\ d.generation = co.generation /\ d.change = co.change
      /\ d.stage = co.stage /\ d.staging = co.staging /\ d.fatal = co.fatal
      /\ d.interaction = co.interaction /\ d.manual_epoch = co.manual_epoch
  BY <1>4 DEF Same, CoFields
<1>6. ModelInv(model) => CInv(d)
  BY <1>4, ModelOnly
<1>7. CASE Blocked(co, v)
  <2>1. model = co.model /\ action = None
    BY <1>7 DEF Observation, model, action
  <2> QED
    BY <1>4, <1>5, <1>6, <2>1 DEF Seen, Stirring, Unseen, CInv, PartsInv, d, action
<1>8. CASE ~Blocked(co, v) /\ geometry = None
  <2>1. model = Baseline(co).model /\ action = None
    BY <1>8 DEF Observation, model, action
  <2>2. Rebased(co, Baseline(co))
    BY BaselineGives DEF CInv
  <2>3. /\ ModelInv(model) /\ Idle(model)
        /\ co.playback.ready /\ Eligible(co.playback.identity) =>
              co.playback.identity = model.last_seen
    <3>1. Baseline(co).playback = co.playback
      BY <2>2 DEF Rebased, Same, CoFields
    <3> QED
      BY <2>1, <2>2, <3>1 DEF Rebased, PartsInv, CaughtUp
  <2> QED
    BY <1>4, <1>5, <1>6, <2>1, <2>3 DEF Seen, Stirring, Unseen, Idle, d, action
<1>9. CASE ~Blocked(co, v) /\ geometry # None
  <2> DEFINE s == Snapshot(co, geometry)
  <2>1. seen = Observe(co.model, s)
    BY <1>9 DEF Observation
  <2>2. /\ s.playback = co.playback.identity /\ s.rows = co.publication.rows
        /\ s.geometry = geometry /\ s.manual_active = ManualActive(co)
        /\ Snapshot(d, geometry) = s
    BY <1>5 DEF Snapshot, ManualActive
  <2> HIDE DEF s
  <2>3. Observed(co.model, s, model, action)
    BY <2>1, ObserveGives DEF CInv, PartsInv, model, action
  <2>4. /\ ~Erroneous(co) /\ co.view # None /\ co.generation # None /\ co.playback.ready
        /\ co.change = None /\ ~co.publication.error
    BY <1>9 DEF Blocked, Current, CInv, ScopeInv, Erroneous
  <2>5. ModelInv(model)
    BY <2>3 DEF Observed
  <2>6. Stirring(d) => Stirring(co)
    BY <1>4, <1>5, <2>2, <2>3, <2>4 DEF Observed, Stirring, Unseen
  <2>7. proposed => Stirring(co) /\ ~Stirring(d)
    BY <1>4, <1>5, <2>2, <2>3 DEF Observed, Stirring, Unseen, Idle
  <2>8. proposed => IssueHolds(d)
    <3>1. SUFFICES ASSUME proposed PROVE IssueHolds(d)
      OBVIOUS
    <3>2. d.issued = issue /\ ValidAction(action, s) /\ action.geometry = geometry
          /\ s.rows # None
      BY <1>4, <2>2, <2>3, <3>1 DEF Observed
    <3>3. ~s.manual_active
      BY <3>2 DEF ValidAction
    <3>4. ~Erroneous(d) /\ ~ManualActive(d)
      BY <1>5, <2>2, <2>4, <3>3 DEF Erroneous, ManualActive
    <3> QED
      BY <1>3, <1>5, <1>9, <2>2, <2>4, <3>2, <3>4 DEF IssueHolds
  <2>9. ~proposed => d.issued = None
    BY <1>4
  <2> QED
    BY <1>4, <1>6, <2>5, <2>6, <2>7, <2>8, <2>9 DEF Seen, d, action
<1> QED
  BY <1>7, <1>8, <1>9

LEMMA ConsumeKeeps ==
    ASSUME CInv(co), NEW r, NEW v, NEW geometry, Consume(r, v, geometry)
    PROVE  /\ CInv(co') /\ Same(co, co', {"issued"}) /\ co'.issued = None
<1> DEFINE d == co'
<1>1. DOMAIN co = CoFields
  BY DEF CInv, PartsInv, CoTypes
<1>2. Same(co, d, {"issued"}) /\ d.issued = None
  BY <1>1 DEF Consume, Same, CoFields
<1> HIDE DEF d
<1>3. Same(co, d, {"model", "issued"}) /\ d.model = co.model
  BY <1>2 DEF Same, CoFields
<1>4. CInv(d)
  BY <1>3, ModelOnly DEF CInv, PartsInv
<1> QED
  BY <1>2, <1>4 DEF d

-------------------------------------------------------------------------------
(* The histories.                                                           *)

LEMMA CalmHistories ==
    ASSUME RInv, CInv(co'), Calm(co, co'), Record(0, 0)
    PROVE  Histories(co', undisturbed', proposals', reveals')
<1> DEFINE d == co'
<1>1. /\ d.issued = None /\ ~Stirring(d)
      /\ d.playback.revision = co.playback.revision
      /\ d.playback.ticket # None =>
            d.playback.ticket = co.playback.ticket /\ d.playback_fence # d.serial
  BY DEF Calm, Stirring, Idle, PlayFailed
<1>2. /\ proposals \in Nat /\ reveals \in Nat /\ reveals <= proposals /\ proposals <= 1
      /\ co.playback.ticket # None => proposals = 0
      /\ undisturbed \in BOOLEAN
  BY DEF RInv, Histories
<1>3. proposals' = proposals /\ reveals' = reveals /\ undisturbed' \in BOOLEAN
  BY <1>1, <1>2 DEF Record
<1> QED
  BY <1>1, <1>2, <1>3 DEF Histories

(* Without a new ticket, the mutation is as undisturbed as the serial says. *)
LEMMA StillUndisturbed ==
    ASSUME NEW quiet \in BOOLEAN, NEW ticket, NEW new, new \in {None, ticket},
           NEW same \in BOOLEAN
    PROVE  (new \notin {None, ticket} \/ (quiet /\ same)) = (quiet /\ same)
OBVIOUS

LEMMA QuietHistories ==
    ASSUME RInv, Quiet(co, co'), Record(0, 0)
    PROVE  Histories(co', undisturbed', proposals', reveals')
<1> DEFINE d == co'
<1>1. /\ d.playback = co.playback /\ d.serial = co.serial /\ d.model = co.model
      /\ d.issued = co.issued /\ d.playback_fence = co.playback_fence
      /\ d.view = co.view /\ d.generation = co.generation /\ d.change = co.change
      /\ d.fatal = co.fatal /\ d.interaction = co.interaction
      /\ d.manual_epoch = co.manual_epoch
      /\ d.publication.error = co.publication.error
      /\ IssueHolds(co) => /\ d.publication = co.publication
                           /\ ~d.stage.error /\ ~d.staging.error
  BY DEF Quiet, Same, CoFields
<1>2. Histories(co, undisturbed, proposals, reveals)
  BY DEF RInv
<1>3. proposals \in Nat /\ reveals \in Nat /\ undisturbed \in BOOLEAN
  BY <1>2 DEF Histories
<1>4. d.playback.ticket = co.playback.ticket /\ d.playback.revision = co.playback.revision
  BY <1>1
<1>5. proposals' = proposals /\ reveals' = reveals
  BY <1>3, <1>4 DEF Record
<1>6. undisturbed' = undisturbed
  BY <1>1, <1>3, <1>4, StillUndisturbed DEF Record
<1> HIDE DEF d
<1>7. Stirring(d) = Stirring(co)
  BY <1>1 DEF Stirring, Unseen
<1>8. IssueHolds(co) => IssueHolds(d)
  BY <1>1 DEF IssueHolds, Erroneous, Snapshot, ManualActive
<1>9. Histories(d, undisturbed, proposals, reveals)
  BY <1>1, <1>2, <1>7, <1>8 DEF Histories
<1> QED
  BY <1>5, <1>6, <1>9 DEF d

LEMMA BegunHistories ==
    ASSUME RInv, Begun(co, co'), Record(0, 0)
    PROVE  Histories(co', undisturbed', proposals', reveals')
<1> DEFINE d == co'
<1>1. /\ d.issued = None /\ ~Stirring(d)
      /\ d.playback.ticket # None =>
            co.playback.ticket = None /\ d.playback.revision # co.playback.revision
  BY DEF Begun, PlayBegun
<1>2. /\ proposals \in Nat /\ reveals \in Nat /\ reveals <= proposals /\ proposals <= 1
      /\ undisturbed \in BOOLEAN
  BY DEF RInv, Histories
<1>3. /\ proposals' \in {0, proposals} /\ reveals' \in {0, reveals}
      /\ proposals' = 0 => reveals' = 0
      /\ proposals' # 0 => reveals' = reveals /\ proposals' = proposals
      /\ d.playback.ticket # None => undisturbed' /\ proposals' = 0
      /\ undisturbed' \in BOOLEAN
  BY <1>1, <1>2 DEF Record
<1> QED
  BY <1>1, <1>2, <1>3 DEF Histories

LEMMA EndedHistories ==
    ASSUME RInv, Ended(co, co'), Record(0, 0)
    PROVE  Histories(co', undisturbed', proposals', reveals')
<1> DEFINE d == co'
<1>1. /\ d.issued = None /\ d.playback.ticket = None
      /\ d.playback.revision = co.playback.revision
      /\ \/ ~Stirring(d)
         \/ d.serial = co.serial /\ co.playback.ticket # None /\ co.playback_fence = co.serial
  BY DEF Ended
<1>2. /\ proposals \in Nat /\ reveals \in Nat /\ reveals <= proposals /\ proposals <= 1
      /\ co.playback.ticket # None => proposals = 0
      /\ co.playback.ticket # None /\ co.playback_fence = co.serial => undisturbed
      /\ undisturbed \in BOOLEAN
  BY DEF RInv, Histories
<1>3. proposals' = proposals /\ reveals' = reveals
  BY <1>1, <1>2 DEF Record
<1>4. undisturbed' = (undisturbed /\ d.serial = co.serial)
  BY <1>1, <1>2, StillUndisturbed DEF Record
<1> QED
  BY <1>1, <1>2, <1>3, <1>4 DEF Histories

LEMMA SeenHistories ==
    ASSUME RInv, NEW proposed \in BOOLEAN, Seen(co, co', proposed),
           Record(IF proposed THEN 1 ELSE 0, 0)
    PROVE  Histories(co', undisturbed', proposals', reveals')
<1> DEFINE d == co'
<1>1. /\ d.playback = co.playback /\ d.serial = co.serial
      /\ d.playback_fence = co.playback_fence
      /\ Stirring(d) => Stirring(co)
      /\ proposed => Stirring(co) /\ ~Stirring(d) /\ IssueHolds(d)
      /\ ~proposed => d.issued = None
  BY DEF Seen, Same, CoFields
<1>2. /\ proposals \in Nat /\ reveals \in Nat /\ reveals <= proposals /\ proposals <= 1
      /\ co.playback.ticket # None => proposals = 0
      /\ co.playback.ticket # None /\ co.playback_fence = co.serial => undisturbed
      /\ Stirring(co) => undisturbed /\ proposals = 0
      /\ undisturbed \in BOOLEAN
  BY DEF RInv, Histories
<1>3. /\ proposals' = proposals + (IF proposed THEN 1 ELSE 0) /\ reveals' = reveals
      /\ undisturbed' = undisturbed
  <2>1. d.playback.ticket = co.playback.ticket
    BY <1>1
  <2>2. undisturbed' = undisturbed
    BY <1>1, <1>2, <2>1, StillUndisturbed DEF Record
  <2> QED
    BY <1>1, <1>2, <2>2 DEF Record
<1>4. proposed => d.playback.ticket = None
  <2>1. IssueHolds(d) => d.playback.ready
    BY DEF IssueHolds
  <2>2. PlayInv(d.playback)
    BY DEF Seen, CInv, PartsInv
  <2> QED
    BY <1>1, <2>1, <2>2 DEF PlayInv
<1> HIDE DEF d
<1>5. CASE proposed
  BY <1>1, <1>2, <1>3, <1>4, <1>5 DEF Histories, d
<1>6. CASE ~proposed
  BY <1>1, <1>2, <1>3, <1>6 DEF Histories, d
<1> QED
  BY <1>5, <1>6

LEMMA ConsumeHistories ==
    ASSUME RInv, NEW r, NEW v, NEW geometry, Consume(r, v, geometry),
           Record(0, IF Consumable(r, v, geometry) THEN 1 ELSE 0)
    PROVE  Histories(co', undisturbed', proposals', reveals')
<1> DEFINE d == co'
<1>1. /\ d.playback = co.playback /\ d.serial = co.serial /\ d.model = co.model
      /\ d.publication = co.publication
      /\ d.playback_fence = co.playback_fence /\ d.issued = None
  BY ConsumeKeeps DEF RInv, Same, CoFields
<1>2. /\ proposals \in Nat /\ reveals \in Nat /\ reveals <= proposals /\ proposals <= 1
      /\ co.playback.ticket # None => proposals = 0
      /\ co.playback.ticket # None /\ co.playback_fence = co.serial => undisturbed
      /\ Stirring(co) => undisturbed /\ proposals = 0
      /\ co.issued # None => proposals = 1 /\ reveals = 0
      /\ undisturbed \in BOOLEAN
  BY DEF RInv, Histories
<1>3. Consumable(r, v, geometry) => proposals = 1 /\ reveals = 0
  BY <1>2 DEF Consumable
<1>4. /\ proposals' = proposals
      /\ reveals' = reveals + (IF Consumable(r, v, geometry) THEN 1 ELSE 0)
      /\ undisturbed' = undisturbed
  <2>1. d.playback.ticket = co.playback.ticket
    BY <1>1
  <2>2. undisturbed' = undisturbed
    BY <1>1, <1>2, <2>1, StillUndisturbed DEF Record
  <2> QED
    BY <1>1, <1>2, <2>2 DEF Record
<1>5. reveals' \in Nat /\ reveals' <= proposals'
  BY <1>2, <1>3, <1>4
<1>6. Stirring(d) = Stirring(co)
  BY <1>1 DEF Stirring, Unseen
<1> QED
  BY <1>1, <1>2, <1>4, <1>5, <1>6 DEF Histories

-------------------------------------------------------------------------------
(* The steps.                                                               *)

(* Every call but a sample's has one of four outcomes.                      *)
LEMMA CallGives ==
    ASSUME RInv,
           \/ ViewStep
           \/ StagedStep
           \/ FillStep
           \/ PlaybackStep
           \/ \E state \in Interactions : Interaction(state)
           \/ Uncertain
    PROVE  Outcome(co, co') \/ Begun(co, co') \/ Ended(co, co')
<1>1. CInv(co)
  BY DEF RInv
<1>2. co.issued # None => co.playback.ready
  BY DEF RInv, Histories, IssueHolds
<1>3. CASE ViewStep
  <2>1. ASSUME NEW folder \in Scopes, Activate(folder) PROVE Outcome(co, co')
    BY <1>1, <2>1, ActivateKeeps DEF Outcome
  <2>2. ASSUME NEW v \in Views, NEW folder \in Scopes, ReplaceContents(v, folder)
        PROVE  Outcome(co, co')
    BY <1>1, <2>2, ReplaceKeeps DEF Outcome
  <2>3. ASSUME NEW v \in Views, BeginContentsChange(v) PROVE Outcome(co, co')
    BY <1>1, <2>3, BeginChangeKeeps DEF Outcome
  <2>4. ASSUME NEW v \in Views, Close(v) PROVE Outcome(co, co')
    BY <1>1, <2>4, CloseKeeps DEF Outcome
  <2>5. ASSUME NEW e \in Changes, NEW folder \in Scopes, NEW outcome \in Outcomes,
               FinishContentsChange(e, folder, outcome)
        PROVE  Outcome(co, co')
    BY <1>1, <2>5, FinishChangeKeeps DEF Outcome
  <2> QED
    BY <1>3, <2>1, <2>2, <2>3, <2>4, <2>5 DEF ViewStep
<1>4. CASE StagedStep
  <2>1. ASSUME NEW e \in Changes, NEW folder \in Scopes, NEW total \in Totals,
               NEW supported \in Confirmations,
               BeginStagedFill(e, folder, total, supported)
        PROVE  Outcome(co, co')
    BY <1>1, <2>1, BeginStagedKeeps
  <2>2. ASSUME NEW t \in StagedFills, NEW confirmed \in Confirmations,
               \/ \E identity \in Tracks : AppendStaged(t, identity, confirmed)
               \/ TerminalStaged(t, confirmed)
               \/ FinishStagedFill(t, confirmed)
        PROVE  Outcome(co, co')
    BY <1>1, <2>2, StagedRowKeeps
  <2>3. ASSUME NEW e \in Changes, InvalidateStagedFill(e) PROVE Outcome(co, co')
    BY <1>1, <2>3, InvalidateKeeps
  <2> QED
    BY <1>4, <2>1, <2>2, <2>3 DEF StagedStep
<1>5. CASE FillStep
  <2>1. ASSUME NEW e \in OpenGenerations, NEW total \in Totals,
               NEW supported \in Confirmations, BeginPublicFill(e, total, supported)
        PROVE  Outcome(co, co')
    BY <1>1, <2>1, BeginPublicKeeps
  <2>2. ASSUME NEW t \in Fills, NEW confirmed \in Confirmations,
               \/ \E identity \in Tracks : AppendPublic(t, identity, confirmed)
               \/ TerminalPublic(t, confirmed)
               \/ FinishPublic(t, confirmed)
        PROVE  Outcome(co, co')
    BY <1>1, <2>2, PublicRowKeeps
  <2> QED
    BY <1>5, <2>1, <2>2 DEF FillStep
<1>6. CASE PlaybackStep
  <2>1. ASSUME NEW identity, NEW deferred \in BOOLEAN, PlaybackBegin(identity, deferred)
        PROVE  Outcome(co, co') \/ Begun(co, co')
    BY <1>1, <2>1, PlaybackBeginKeeps
  <2>2. ASSUME NEW t \in Presented({co.playback.ticket}),
               \/ PlaybackFinish(t)
               \/ \E identity \in Identities, outcome \in Outcomes :
                     PlaybackUpdateFinish(t, identity, outcome)
        PROVE  Outcome(co, co') \/ Ended(co, co')
    BY <1>1, <1>2, <2>2, PlaybackFinishKeeps
  <2> QED
    BY <1>6, <2>1, <2>2 DEF PlaybackStep
<1>7. CASE \E state \in Interactions : Interaction(state)
  BY <1>1, <1>7, InteractionKeeps
<1>8. CASE Uncertain
  BY <1>1, <1>8, UncertainKeeps
<1> QED
  BY <1>3, <1>4, <1>5, <1>6, <1>7, <1>8

LEMMA SampleGives ==
    ASSUME RInv, NEW v, NEW geometry \in Samples, ObserveView(v, geometry),
           Record(IF Observation(co, v, geometry).action = None THEN 0 ELSE 1, 0)
    PROVE  RInv' /\ co'.playback = co.playback
<1> DEFINE proposed == Observation(co, v, geometry).action # None
<1>1. Seen(co, co', proposed)
  BY ObserveViewKeeps DEF RInv
<1>2. Record(IF proposed THEN 1 ELSE 0, 0) /\ proposed \in BOOLEAN
  BY DEF Record
<1> HIDE DEF proposed
<1>3. Histories(co', undisturbed', proposals', reveals')
  BY <1>1, <1>2, SeenHistories
<1> QED
  BY <1>1, <1>3 DEF RInv, Seen, Same, CoFields

LEMMA InitInvariant == Init => RInv
<1> SUFFICES ASSUME Init PROVE RInv
  OBVIOUS
<1>1. 0 \in Serials /\ -1 \in Int
  BY Bounds
<1>2. PubInv(NewPublication)
  BY <1>1 DEF NewPublication, PubInv, PubFields
<1>3. PlayInv(NewPlayback)
  BY <1>1 DEF NewPlayback, PlayInv, PlayFields
<1>4. ModelInv(NewModel) /\ Idle(NewModel)
  BY DEF NewModel, ModelInv, ModelFields, WorkInv, Live, Idle
<1>5. /\ DOMAIN co = CoFields
      /\ co.serial = 0 /\ co.fatal = None /\ co.model = NewModel
      /\ co.publication = NewPublication /\ co.staging = NewPublication
      /\ co.playback = NewPlayback /\ co.view = None /\ co.generation = None
      /\ co.fill = None /\ co.change = None /\ co.stage = NoStage /\ co.issued = None
      /\ co.playback_fence = None
  BY DEF Init, CoFields
<1>6. /\ NewPublication.view = None /\ NewPublication.epoch = -1
      /\ NewPublication.serial = 0
  BY DEF NewPublication
<1>7. NewPlayback.ready = FALSE /\ NewPlayback.ticket = None
  BY DEF NewPlayback
<1>8. CoTypes(co)
  BY <1>1, <1>5, NoneAssumption DEF CoTypes, NoStage, StageFields
<1>9. Behind(co) /\ ScopeInv(co)
  BY <1>5, <1>6 DEF Behind, ScopeInv, NoStage
<1>10. Histories(co, undisturbed, proposals, reveals)
  <2>1. undisturbed = FALSE /\ proposals = 0 /\ reveals = 0
    BY DEF Init
  <2>2. ~Stirring(co)
    BY <1>4, <1>5, <1>7 DEF Stirring, Unseen, Idle
  <2>3. undisturbed \in BOOLEAN
    BY <2>1
  <2>4. co.playback.ticket = None /\ co.issued = None
    BY <1>5, <1>7
  <2>5. proposals \in Nat /\ reveals \in Nat /\ reveals <= proposals /\ proposals <= 1
    BY <2>1
  <2> QED
    BY <2>2, <2>3, <2>4, <2>5 DEF Histories
<1> QED
  BY <1>2, <1>3, <1>4, <1>5, <1>8, <1>9, <1>10 DEF RInv, CInv, PartsInv

LEMMA StepKeeps == RInv /\ [Next]_vars => RInv'
<1> SUFFICES ASSUME RInv, [Next]_vars PROVE RInv'
  OBVIOUS
<1>1. CASE UNCHANGED vars
  BY <1>1 DEF vars, RInv
<1>2. ASSUME \/ ViewStep
             \/ StagedStep
             \/ FillStep
             \/ PlaybackStep
             \/ \E state \in Interactions : Interaction(state)
             \/ Uncertain,
             Record(0, 0)
      PROVE  RInv'
  <2>1. Outcome(co, co') \/ Begun(co, co') \/ Ended(co, co')
    BY <1>2, CallGives
  <2>2. CASE Outcome(co, co')
    BY <1>2, <2>2, CalmHistories, QuietHistories DEF Outcome, RInv
  <2>3. CASE Begun(co, co')
    BY <1>2, <2>3, BegunHistories DEF Begun, RInv
  <2>4. CASE Ended(co, co')
    BY <1>2, <2>4, EndedHistories DEF Ended, RInv
  <2> QED
    BY <2>1, <2>2, <2>3, <2>4
<1>3. ASSUME NEW v, NEW geometry \in Samples, ObserveView(v, geometry),
             Record(IF Observation(co, v, geometry).action = None THEN 0 ELSE 1, 0)
      PROVE  RInv'
  BY <1>3, SampleGives
<1>4. ASSUME NEW r, NEW v, NEW geometry, Consume(r, v, geometry),
             Record(0, IF Consumable(r, v, geometry) THEN 1 ELSE 0)
      PROVE  RInv'
  BY <1>4, ConsumeKeeps, ConsumeHistories DEF RInv
<1> QED
  BY <1>1, <1>2, <1>3, <1>4 DEF Next

(* The coordinator's invariant holds in every reachable state.              *)
THEOREM CoordinatorInvariant == Spec => []RInv
BY InitInvariant, StepKeeps, PTL DEF Spec

-------------------------------------------------------------------------------
(* The properties.                                                          *)

(* A proposal in force is one that consume accepts for the geometry it was  *)
(* computed from, and nothing has happened since the BEGIN of the mutation  *)
(* that published its track: _change withdraws it on every other event.     *)
THEOREM IssuedStaysCurrent == Spec => []IssuedIsCurrent
<1>1. RInv => IssuedIsCurrent
  BY DEF RInv, Histories, IssueHolds, IssuedIsCurrent, Consumable, Current
<1> QED
  BY <1>1, CoordinatorInvariant, PTL

(* Rows are public only for the current generation of the current owner,    *)
(* never during a contents change and never of a poisoned producer.         *)
THEOREM RowsAlwaysFollow == Spec => []RowsFollowGeneration
<1>1. RInv => RowsFollowGeneration
  BY DEF RInv, CInv, PartsInv, ScopeInv, PubInv, RowsFollowGeneration
<1> QED
  BY <1>1, CoordinatorInvariant, PTL

(* What passed the checks of the change's END is always promoted: the replay*)
(* of the staged rows in the public collector never fails, however many rows*)
(* there are and however close the serials are to their limit.              *)
THEOREM PromotionAlwaysWorks == Spec => []PromotionNeverFails
<1>1. RInv => PromotionNeverFails
  BY DEF RInv, CInv, PartsInv, CoTypes, PromotionNeverFails
<1> QED
  BY <1>1, CoordinatorInvariant, PTL

(* Each playback publication is proposed for at most once and acted on at   *)
(* most once, however often it is observed and its proposal presented.      *)
THEOREM RevealsOnce == Spec => []OneRevealPerPublication
<1>1. RInv => OneRevealPerPublication
  BY DEF RInv, Histories, OneRevealPerPublication
<1> QED
  BY <1>1, CoordinatorInvariant, PTL

LEMMA StepBrackets == RInv /\ [Next]_vars => Brackets(co.playback, co'.playback)
<1> SUFFICES ASSUME RInv, [Next]_vars PROVE Brackets(co.playback, co'.playback)
  OBVIOUS
<1>1. ASSUME co'.playback = co.playback PROVE Brackets(co.playback, co'.playback)
  BY <1>1 DEF Brackets
<1>2. CASE UNCHANGED vars
  BY <1>1, <1>2 DEF vars
<1>3. ASSUME Outcome(co, co') \/ Begun(co, co') \/ Ended(co, co')
      PROVE  Brackets(co.playback, co'.playback)
  <2>1. CASE Outcome(co, co')
    <3>1. CASE Calm(co, co')
      BY <1>1, <3>1 DEF Calm, PlayFailed, Brackets
    <3>2. CASE Quiet(co, co')
      BY <1>1, <3>2 DEF Quiet, Same, CoFields
    <3> QED
      BY <2>1, <3>1, <3>2 DEF Outcome
  <2> QED
    BY <1>3, <2>1 DEF Begun, Ended, PlayBegun
<1>4. ASSUME NEW r, NEW v, NEW geometry, Consume(r, v, geometry)
      PROVE  co'.playback = co.playback
  BY <1>4, ConsumeKeeps DEF RInv, Same, CoFields
<1> QED
  BY <1>1, <1>2, <1>3, <1>4, CallGives, SampleGives DEF Next

(* The playback publication implements the bracket of mutations under every *)
(* event of the coordinator: a BEGIN that is admitted opens a mutation under*)
(* a higher ticket, its END publishes it, and an error ends both for good.  *)
THEOREM PlaybackRefines == Spec => PlaybackBrackets
<1>1. Init => Bracket!Init
  BY DEF Init, NewPlayback, Bracket!Init
<1>2. RInv /\ [Next]_vars => [Bracket!Next]_Bracket!bracketVars
  <2> SUFFICES ASSUME RInv, [Next]_vars
               PROVE  [Bracket!Next]_Bracket!bracketVars
    OBVIOUS
  <2> DEFINE p == co.playback
             q == co'.playback
  <2>1. PlayInv(p) /\ PlayInv(q)
    BY StepKeeps DEF RInv, CInv, PartsInv
  <2>2. Brackets(p, q)
    BY StepBrackets
  <2>3. CASE q.ticket = p.ticket /\ q.revision = p.revision /\ q.error = p.error
    BY <2>3 DEF Bracket!bracketVars
  <2>4. CASE q.ticket = None /\ q.error = TRUE
    BY <2>4 DEF Bracket!Next, Bracket!Fail
  <2>5. CASE /\ p.ticket = None /\ p.error = FALSE /\ q.error = FALSE
             /\ q.ticket # None /\ q.revision = p.revision + 1 /\ q.revision \in Tickets
    <3>1. Bracket!Open(q.revision)
      BY <2>1, <2>5 DEF Bracket!Open, PlayInv, Serials
    <3> QED
      BY <2>5, <3>1 DEF Bracket!Next, Tickets
  <2>6. CASE /\ p.ticket # None /\ p.error = FALSE /\ q.error = FALSE
             /\ q.ticket = None /\ q.revision = p.revision
    BY <2>6 DEF Bracket!Next, Bracket!Publish
  <2> QED
    BY <2>2, <2>3, <2>4, <2>5, <2>6 DEF Brackets
<1> QED
  BY <1>1, <1>2, CoordinatorInvariant, PTL DEF Spec, PlaybackBrackets, Bracket!Spec

-------------------------------------------------------------------------------
(* The geometry core computes minimal_reveal for every word size, row bound *)
(* and input word, and what it computes is the least movement that shows    *)
(* the row.                                                                 *)

(* A quotient is zero, and a remainder the number itself, below the divisor.*)
LEMMA SmallDivision ==
    ASSUME NEW x \in Nat, NEW w \in Nat \ {0}
    PROVE  /\ x \div w = 0 <=> x < w
           /\ x < w => x % w = x
OBVIOUS

(* What the host compares by division the core compares by multiplication.  *)
LEMMA DivisionBound ==
    ASSUME NEW m \in Nat, NEW c \in Nat, NEW p \in Nat \ {0}
    PROVE  c <= m \div p <=> c * p <= m
<1> DEFINE q == m \div p
<1>1. q \in Nat /\ q * p <= m /\ m < (q + 1) * p
    OBVIOUS
<1>2. ASSUME c <= q PROVE c * p <= q * p
    BY <1>2, <1>1
<1>3. ASSUME c >= q + 1 PROVE (q + 1) * p <= c * p
    BY <1>3, <1>1
<1>4. QED
    BY <1>1, <1>2, <1>3

(* A row's two edges lie between the start and the end of the list.         *)
LEMMA RowWithin ==
    ASSUME NEW row \in Nat, NEW count \in Nat, NEW pitch \in Nat, row < count
    PROVE  /\ row * pitch \in Nat /\ (row + 1) * pitch \in Nat /\ count * pitch \in Nat
           /\ (row + 1) * pitch = row * pitch + pitch
           /\ (row + 1) * pitch <= count * pitch
<1>1. row + 1 <= count
    OBVIOUS
<1>2. (row + 1) * pitch <= count * pitch
    BY <1>1
<1>3. QED
    BY <1>2

(* subu, and addu of two non-negative words, seen as signed.                *)
LEMMA WordArithmetic ==
    ASSUME NEW a \in 0 .. IntMax, NEW b \in 0 .. IntMax
    PROVE  /\ a >= b => Sub(a, b) = a - b
           /\ a < b => Sub(a, b) = a - b + WordSize
           /\ Add(a, b) = a + b
           /\ Signed(Sub(a, b)) = a - b
<1>1. IntMax \in Nat
    BY IntMaxAssumption
<1>2. /\ a >= b => (a - b) % (2 * (IntMax + 1)) = a - b
      /\ a < b => (a - b) % (2 * (IntMax + 1)) = a - b + 2 * (IntMax + 1)
      /\ (a + b) % (2 * (IntMax + 1)) = a + b
    BY <1>1
<1>3. QED
    BY <1>1, <1>2 DEF Sub, Add, Signed, WordSize

(* The words of a call for which none of the comparisons fails.             *)
Plain(row, count, pitch, height, scroll_y) ==
    /\ count # 0 /\ count <= MaxRows /\ row < count
    /\ Signed(pitch) > 0 /\ Signed(height) >= Signed(pitch) /\ Signed(scroll_y) >= 0

(* Such words are not negative when read as signed.                         *)
LEMMA PlainWords ==
    ASSUME NEW row \in Words, NEW count \in Words, NEW pitch \in Words,
           NEW height \in Words, NEW scroll_y \in Words,
           Plain(row, count, pitch, height, scroll_y)
    PROVE  /\ row \in 0 .. IntMax /\ count \in 1 .. IntMax
           /\ pitch \in 1 .. IntMax /\ height \in pitch .. IntMax
           /\ scroll_y \in 0 .. IntMax
           /\ Signed(row) = row /\ Signed(count) = count /\ Signed(pitch) = pitch
           /\ Signed(height) = height /\ Signed(scroll_y) = scroll_y
           /\ count <= MaxRows /\ row < count
BY IntMaxAssumption, MaxRowsAssumption, WordAssumption
   DEF Plain, Words, WordSize, Signed

(* The extent: the branches on mfhi and mflo admit what the division admits,*)
(* and then the limit register holds the last scroll position.              *)
LEMMA ExtentAgrees ==
    ASSUME NEW count \in 1 .. IntMax, NEW pitch \in 1 .. IntMax,
           NEW height \in pitch .. IntMax, NEW y0 \in 0 .. IntMax
    PROVE  /\ (Hi(count, pitch) = 0 /\ Signed(Lo(count, pitch)) >= 0)
                 <=> count <= IntMax \div pitch
           /\ count <= IntMax \div pitch =>
                 CoreLimit(count, pitch, height) =
                     ScrollLimit(count, Geometry(y0, pitch, height))
<1> DEFINE extent == count * pitch
<1>1. IntMax \in Nat /\ extent \in Nat /\ WordSize \in Nat \ {0}
    BY IntMaxAssumption DEF WordSize
<1>2. count <= IntMax \div pitch <=> extent <= IntMax
    BY DivisionBound, <1>1
<1>3. /\ extent \div WordSize = 0 <=> extent < WordSize
      /\ extent < WordSize => extent % WordSize = extent
    BY SmallDivision, <1>1
<1> HIDE DEF extent
<1>4. Hi(count, pitch) = extent \div WordSize /\ Lo(count, pitch) = extent % WordSize
    BY DEF Hi, Lo, extent
<1>5. (Hi(count, pitch) = 0 /\ Signed(Lo(count, pitch)) >= 0) <=> extent <= IntMax
    BY <1>1, <1>3, <1>4 DEF Signed, WordSize
<1>6. ASSUME extent <= IntMax
      PROVE  CoreLimit(count, pitch, height) =
                 ScrollLimit(count, Geometry(y0, pitch, height))
    <2>1. Lo(count, pitch) = extent /\ extent \in 0 .. IntMax /\ height \in 0 .. IntMax
        BY <1>1, <1>3, <1>4, <1>6 DEF WordSize
    <2>2. /\ extent >= height => Sub(extent, height) = extent - height
          /\ Signed(Sub(extent, height)) = extent - height
        BY <2>1, WordArithmetic
    <2>3. ScrollLimit(count, Geometry(y0, pitch, height)) =
              IF extent > height THEN extent - height ELSE 0
        BY DEF ScrollLimit, Geometry, extent
    <2>4. QED
        BY <2>1, <2>2, <2>3 DEF CoreLimit
<1>7. QED
    BY <1>2, <1>5, <1>6

(* The core refuses exactly what minimal_reveal refuses.                    *)
LEMMA AcceptsWhatIsSupported ==
    ASSUME NEW row \in Words, NEW count \in Words, NEW pitch \in Words,
           NEW height \in Words, NEW scroll_y \in Words
    PROVE  CoreAccepts(row, count, pitch, height, scroll_y) <=>
             Supported(Signed(row), Signed(count),
                       Geometry(Signed(scroll_y), Signed(pitch), Signed(height)))
<1> DEFINE g == Geometry(Signed(scroll_y), Signed(pitch), Signed(height))
<1>1. CASE ~Plain(row, count, pitch, height, scroll_y)
    <2>1. ~CoreAccepts(row, count, pitch, height, scroll_y)
        BY <1>1 DEF CoreAccepts, Plain
    <2>2. ~Supported(Signed(row), Signed(count), g)
        BY <1>1, IntMaxAssumption, MaxRowsAssumption, WordAssumption
           DEF Plain, Supported, Geometry, IsWord, Signed, Words, WordSize
    <2>3. QED
        BY <2>1, <2>2
<1>2. CASE Plain(row, count, pitch, height, scroll_y)
    <2>1. /\ row \in 0 .. IntMax /\ count \in 1 .. IntMax
          /\ pitch \in 1 .. IntMax /\ height \in pitch .. IntMax
          /\ scroll_y \in 0 .. IntMax
          /\ Signed(row) = row /\ Signed(count) = count
          /\ count <= MaxRows /\ row < count
          /\ g = Geometry(scroll_y, pitch, height)
        BY <1>2, PlainWords
    <2>2. /\ Add(scroll_y, height) = scroll_y + height
          /\ Signed(Add(scroll_y, height)) >= 0 <=> scroll_y <= IntMax - height
        BY <2>1, WordArithmetic, IntMaxAssumption DEF Signed, WordSize
    <2>3. CoreAccepts(row, count, pitch, height, scroll_y) <=>
            /\ Hi(count, pitch) = 0 /\ Signed(Lo(count, pitch)) >= 0
            /\ scroll_y <= CoreLimit(count, pitch, height)
            /\ Signed(Add(scroll_y, height)) >= 0
        BY <1>2 DEF CoreAccepts, Plain
    <2>4. Supported(row, count, g) <=>
            /\ count <= IntMax \div pitch
            /\ scroll_y <= ScrollLimit(count, g)
            /\ scroll_y <= IntMax - height
        BY <2>1, IntMaxAssumption, MaxRowsAssumption
           DEF Supported, Geometry, IsWord
    <2>5. /\ (Hi(count, pitch) = 0 /\ Signed(Lo(count, pitch)) >= 0)
                <=> count <= IntMax \div pitch
          /\ count <= IntMax \div pitch =>
                CoreLimit(count, pitch, height) = ScrollLimit(count, g)
        BY <2>1, ExtentAgrees
    <2>6. QED
        BY <2>1, <2>2, <2>3, <2>4, <2>5
<1>3. QED
    BY <1>1, <1>2

(* What is known of the words of an accepted call: the row lies within the  *)
(* extent, the extent and the visible end within signed words.              *)
LEMMA AcceptedCall ==
    ASSUME NEW row \in Words, NEW count \in Words, NEW pitch \in Words,
           NEW height \in Words, NEW scroll_y \in Words,
           CoreAccepts(row, count, pitch, height, scroll_y)
    PROVE  /\ row \in 0 .. IntMax /\ count \in 1 .. IntMax
           /\ pitch \in 1 .. IntMax /\ height \in pitch .. IntMax
           /\ Signed(row) = row /\ Signed(count) = count
           /\ Geometry(Signed(scroll_y), Signed(pitch), Signed(height))
                = Geometry(scroll_y, pitch, height)
           /\ row * pitch \in Nat /\ (row + 1) * pitch = row * pitch + pitch
           /\ row * pitch + pitch <= count * pitch
           /\ count * pitch \in 0 .. IntMax
           /\ scroll_y \in 0 .. IntMax - height
           /\ scroll_y <= ScrollLimit(count, Geometry(scroll_y, pitch, height))
<1> DEFINE g == Geometry(scroll_y, pitch, height)
<1>1. Plain(row, count, pitch, height, scroll_y)
    BY DEF CoreAccepts, Plain
<1>2. /\ row \in 0 .. IntMax /\ count \in 1 .. IntMax
      /\ pitch \in 1 .. IntMax /\ height \in pitch .. IntMax
      /\ scroll_y \in 0 .. IntMax /\ row < count
      /\ Signed(row) = row /\ Signed(count) = count
      /\ Geometry(Signed(scroll_y), Signed(pitch), Signed(height)) = g
    BY <1>1, PlainWords
<1>3. Supported(row, count, g)
    BY <1>2, AcceptsWhatIsSupported
<1>4. /\ count <= IntMax \div pitch
      /\ scroll_y <= ScrollLimit(count, g)
      /\ scroll_y <= IntMax - height
    BY <1>3 DEF Supported, Geometry
<1>5. count * pitch <= IntMax
    BY <1>2, <1>4, DivisionBound, IntMaxAssumption
<1>6. /\ row * pitch \in Nat /\ (row + 1) * pitch = row * pitch + pitch
      /\ row * pitch + pitch <= count * pitch /\ count * pitch \in Nat
    BY <1>2, RowWithin
<1>7. QED
    BY <1>2, <1>4, <1>5, <1>6, IntMaxAssumption

(* The registers of an accepted call hold the numbers themselves: nothing   *)
(* wraps on the way to the answer.                                          *)
LEMMA AcceptedTarget ==
    ASSUME NEW row \in Words, NEW count \in Words, NEW pitch \in Words,
           NEW height \in Words, NEW scroll_y \in Words,
           CoreAccepts(row, count, pitch, height, scroll_y)
    PROVE  CoreTarget(row, pitch, height, scroll_y) =
             CASE row * pitch < scroll_y -> row * pitch
               [] row * pitch >= scroll_y
                  /\ scroll_y + height < row * pitch + pitch ->
                      row * pitch + pitch - height
               [] OTHER -> scroll_y
<1> DEFINE top == row * pitch
<1>1. /\ pitch \in 1 .. IntMax /\ height \in pitch .. IntMax
      /\ top \in Nat /\ top + pitch <= count * pitch /\ count * pitch \in 0 .. IntMax
      /\ scroll_y \in 0 .. IntMax - height
    BY AcceptedCall
<1> HIDE DEF top
<1>2. IntMax \in Nat /\ WordSize = 2 * (IntMax + 1)
    BY IntMaxAssumption DEF WordSize
<1>3. top \in 0 .. IntMax /\ top + pitch \in 0 .. IntMax /\ height \in 0 .. IntMax
    BY <1>1, <1>2
<1>4. Lo(row, pitch) = top
    <2>1. top % WordSize = top
        BY <1>2, <1>3, SmallDivision
    <2>2. QED
        BY <2>1 DEF Lo, top
<1>5. Add(top, pitch) = top + pitch
    BY <1>1, <1>3, WordArithmetic
<1>6. Add(scroll_y, height) = scroll_y + height
    BY <1>1, <1>2, <1>3, WordArithmetic
<1>7. top + pitch >= height => Sub(top + pitch, height) = top + pitch - height
    BY <1>3, WordArithmetic
<1>8. QED
    BY <1>1, <1>3, <1>4, <1>5, <1>6, <1>7 DEF CoreTarget, top

(* minimal_reveal's clamp never has anything to cut off.                    *)
LEMMA TargetAgrees ==
    ASSUME NEW row \in Words, NEW count \in Words, NEW pitch \in Words,
           NEW height \in Words, NEW scroll_y \in Words,
           CoreAccepts(row, count, pitch, height, scroll_y)
    PROVE  /\ CoreTarget(row, pitch, height, scroll_y) =
                 MinimalReveal(row, count, Geometry(scroll_y, pitch, height))
           /\ CoreTarget(row, pitch, height, scroll_y)
                 \in 0 .. ScrollLimit(count, Geometry(scroll_y, pitch, height))
           /\ CoreTarget(row, pitch, height, scroll_y) \in 0 .. IntMax
<1> DEFINE g == Geometry(scroll_y, pitch, height)
           top == row * pitch
           extent == count * pitch
           limit == IF extent > height THEN extent - height ELSE 0
<1>1. /\ pitch \in 1 .. IntMax /\ height \in pitch .. IntMax
      /\ top \in Nat /\ (row + 1) * pitch = top + pitch
      /\ top + pitch <= extent /\ extent \in 0 .. IntMax
      /\ scroll_y \in 0 .. IntMax - height
      /\ scroll_y <= ScrollLimit(count, g)
      /\ Signed(row) = row /\ Signed(count) = count
      /\ Geometry(Signed(scroll_y), Signed(pitch), Signed(height)) = g
    BY AcceptedCall
<1>2. Supported(row, count, g)
    BY <1>1, AcceptsWhatIsSupported
<1>3. /\ RowTop(row, g) = top /\ RowBottom(row, g) = top + pitch
      /\ ScrollLimit(count, g) = limit
      /\ g.scroll_y = scroll_y /\ g.height = height
    BY <1>1 DEF RowTop, RowBottom, ScrollLimit, Geometry
<1>4. CoreTarget(row, pitch, height, scroll_y) =
        CASE top < scroll_y -> top
          [] top >= scroll_y /\ scroll_y + height < top + pitch -> top + pitch - height
          [] OTHER -> scroll_y
    BY AcceptedTarget
<1>5. MinimalReveal(row, count, g) =
        CASE top < scroll_y -> Clamp(top, limit)
          [] top >= scroll_y /\ top + pitch > scroll_y + height ->
               Clamp(top + pitch - height, limit)
          [] OTHER -> scroll_y
    <2> HIDE DEF g, top, limit, extent
    <2>1. top \in Int /\ scroll_y \in Int /\ pitch \in Int /\ height \in Int
        BY <1>1, IntMaxAssumption
    <2>2. QED
        BY <1>2, <1>3, <2>1 DEF MinimalReveal
<1> HIDE DEF top, extent
<1>6. IntMax \in Nat
    BY IntMaxAssumption
<1>7. CASE top < scroll_y
    <2>1. top \in 0 .. limit /\ Clamp(top, limit) = top
        BY <1>1, <1>3, <1>6, <1>7 DEF Clamp
    <2>2. QED
        BY <1>1, <1>3, <1>4, <1>5, <1>6, <1>7, <2>1
<1>8. CASE top >= scroll_y /\ scroll_y + height < top + pitch
    <2>1. /\ top + pitch - height \in 0 .. limit
          /\ Clamp(top + pitch - height, limit) = top + pitch - height
        BY <1>1, <1>6, <1>8 DEF Clamp
    <2>2. QED
        BY <1>1, <1>3, <1>4, <1>5, <1>6, <1>8, <2>1
<1>9. CASE top >= scroll_y /\ ~(scroll_y + height < top + pitch)
    BY <1>1, <1>3, <1>4, <1>5, <1>6, <1>9
<1>10. QED
    BY <1>1, <1>6, <1>7, <1>8, <1>9

(* For all argument words, the core's answer read as signed is what         *)
(* minimal_reveal returns for the arguments read as signed.                 *)
THEOREM CoreComputesMinimalReveal ==
    ASSUME NEW row \in Words, NEW count \in Words, NEW pitch \in Words,
           NEW height \in Words, NEW scroll_y \in Words
    PROVE  Signed(CoreReveal(row, count, pitch, height, scroll_y)) =
             MinimalReveal(Signed(row), Signed(count),
                 Geometry(Signed(scroll_y), Signed(pitch), Signed(height)))
<1> DEFINE g == Geometry(Signed(scroll_y), Signed(pitch), Signed(height))
<1>1. CASE CoreAccepts(row, count, pitch, height, scroll_y)
    <2>1. /\ Signed(row) = row /\ Signed(count) = count
          /\ g = Geometry(scroll_y, pitch, height)
        BY <1>1, AcceptedCall
    <2>2. CoreTarget(row, pitch, height, scroll_y) \in 0 .. IntMax
        BY <1>1, TargetAgrees
    <2>3. Signed(CoreTarget(row, pitch, height, scroll_y)) =
              CoreTarget(row, pitch, height, scroll_y)
        BY <2>2, IntMaxAssumption DEF Signed
    <2>4. QED
        BY <1>1, <2>1, <2>3, TargetAgrees DEF CoreReveal
<1>2. CASE ~CoreAccepts(row, count, pitch, height, scroll_y)
    <2>1. ~Supported(Signed(row), Signed(count), g)
        BY <1>2, AcceptsWhatIsSupported
    <2>2. MinimalReveal(Signed(row), Signed(count), g) = -1
        BY <2>1 DEF MinimalReveal, Unrevealed
    <2>3. Signed(WordSize - 1) = -1
        BY IntMaxAssumption DEF Signed, WordSize
    <2>4. QED
        BY <1>2, <2>2, <2>3 DEF CoreReveal
<1>3. QED
    BY <1>1, <1>2

-------------------------------------------------------------------------------
(* The registers of the view hold words.                                    *)
Registers ==
    /\ list \in [count : Words, pitch : Words, height : Words]
    /\ y \in Words

(* The core returns a word.                                                 *)
LEMMA AnswerIsWord ==
    ASSUME Registers, NEW row \in Words PROVE Answer(row) \in Words
<1>1. /\ list.count \in Words /\ list.pitch \in Words
      /\ list.height \in Words /\ y \in Words
    BY DEF Registers
<1>2. CASE CoreAccepts(row, list.count, list.pitch, list.height, y)
    <2>1. CoreTarget(row, list.pitch, list.height, y) \in 0 .. IntMax
        BY <1>1, <1>2, TargetAgrees
    <2>2. QED
        BY <1>2, <2>1, IntMaxAssumption DEF Answer, CoreReveal, Words, WordSize
<1>3. CASE ~CoreAccepts(row, list.count, list.pitch, list.height, y)
    BY <1>3, IntMaxAssumption DEF Answer, CoreReveal, Words, WordSize
<1>4. QED
    BY <1>2, <1>3

(* Reveals and the user leave words in the registers.                       *)
LEMMA RegistersHoldWords == ListSpec => []Registers
<1>1. ListInit => Registers
    BY IntMaxAssumption DEF ListInit, Registers, Words, WordSize
<1>2. Registers /\ [ListNext]_listVars => Registers'
    <2> SUFFICES ASSUME Registers, [ListNext]_listVars PROVE Registers'
        OBVIOUS
    <2>1. ASSUME NEW w \in Words, Reveal(w) PROVE Registers'
        BY <2>1, AnswerIsWord DEF Reveal, Registers
    <2>2. ASSUME NEW w \in Words, Scroll(w) PROVE Registers'
        BY <2>2 DEF Scroll, Registers
    <2>3. CASE UNCHANGED listVars
        BY <2>3 DEF listVars, Registers
    <2>4. QED
        BY <2>1, <2>2, <2>3 DEF ListNext
<1>3. QED
    BY <1>1, <1>2, PTL DEF ListSpec

(* The core and minimal_reveal agree whatever was measured and scrolled.    *)
THEOREM CoreAgreesAlways == ListSpec => []CoreAgrees
<1>1. Registers => CoreAgrees
    BY CoreComputesMinimalReveal DEF Registers, CoreAgrees, Answer, Measured
<1>2. QED
    BY <1>1, RegistersHoldWords, PTL

(* The answer of an accepted call, from any position it is called at: it    *)
(* shows the row and no position that shows it is nearer.                   *)
LEMMA AcceptedIsMinimal ==
    ASSUME Registers, NEW row \in Words,
           CoreAccepts(row, list.count, list.pitch, list.height, y)
    PROVE  /\ Answer(row) \in 0 .. ScrollLimit(list.count, Measured)
           /\ Answer(row) \in 0 .. IntMax
           /\ Shows(Answer(row), row)
           /\ \A p \in 0 .. ScrollLimit(list.count, Measured) :
                 Shows(p, row) => Distance(y, Answer(row)) <= Distance(y, p)
<1> DEFINE top == row * list.pitch
           limit == ScrollLimit(list.count, Measured)
<1>1. /\ list.count \in Words /\ list.pitch \in Words
      /\ list.height \in Words /\ y \in Words
    BY DEF Registers
<1>2. /\ list.pitch \in 1 .. IntMax /\ list.height \in list.pitch .. IntMax
      /\ Measured = Geometry(y, list.pitch, list.height)
      /\ top \in Nat /\ (row + 1) * list.pitch = top + list.pitch
      /\ y \in 0 .. IntMax - list.height
    BY <1>1, AcceptedCall DEF Measured
<1>3. /\ Answer(row) = CoreTarget(row, list.pitch, list.height, y)
      /\ Answer(row) \in 0 .. limit /\ Answer(row) \in 0 .. IntMax
    BY <1>1, <1>2, TargetAgrees DEF Answer, CoreReveal
<1>4. Answer(row) =
        CASE top < y -> top
          [] top >= y /\ y + list.height < top + list.pitch ->
               top + list.pitch - list.height
          [] OTHER -> y
    BY <1>1, <1>3, AcceptedTarget
<1>5. Signed(list.height) = list.height
    BY <1>2, IntMaxAssumption DEF Signed
<1>6. \A p : Shows(p, row) <=> p <= top /\ top + list.pitch <= p + list.height
    BY <1>2, <1>5 DEF Shows, RowTop, RowBottom, Geometry
<1> HIDE DEF top, limit
<1>7. IntMax \in Nat
    BY IntMaxAssumption
<1>8. Shows(Answer(row), row)
    BY <1>2, <1>4, <1>6, <1>7
<1>9. ASSUME NEW p \in 0 .. limit, Shows(p, row)
      PROVE  Distance(y, Answer(row)) <= Distance(y, p)
    <2>1. p \in Int
        BY <1>9, <1>3
    <2>2. p <= top /\ top + list.pitch <= p + list.height
        BY <1>6, <1>9
    <2>3. QED
        BY <1>2, <1>4, <1>7, <2>1, <2>2 DEF Distance
<1>10. QED
    BY <1>3, <1>8, <1>9 DEF limit

(* Asked again from its own answer, the core leaves the list where it is.   *)
LEMMA AnswerIsStable ==
    ASSUME Registers, NEW row \in Words,
           CoreAccepts(row, list.count, list.pitch, list.height, y)
    PROVE  CoreReveal(row, list.count, list.pitch, list.height, Answer(row)) = Answer(row)
<1> DEFINE a == Answer(row)
           there == Geometry(a, list.pitch, list.height)
           top == row * list.pitch
           extent == list.count * list.pitch
<1>1. /\ list.count \in Words /\ list.pitch \in Words
      /\ list.height \in Words /\ y \in Words /\ a \in Words
    BY AnswerIsWord DEF Registers
<1>2. /\ row \in 0 .. IntMax /\ list.count \in 1 .. IntMax
      /\ list.pitch \in 1 .. IntMax /\ list.height \in list.pitch .. IntMax
      /\ Measured = Geometry(y, list.pitch, list.height)
      /\ Signed(row) = row /\ Signed(list.count) = list.count
      /\ top \in Nat /\ (row + 1) * list.pitch = top + list.pitch
      /\ extent \in 0 .. IntMax
    BY SMTT(30), <1>1, AcceptedCall DEF Measured
<1>3. /\ a \in 0 .. ScrollLimit(list.count, Measured)
      /\ a \in 0 .. IntMax
      /\ Shows(a, row)
    BY AcceptedIsMinimal
<1>4. Supported(row, list.count, Measured)
    BY <1>1, <1>2, AcceptsWhatIsSupported DEF Measured
<1>5. ScrollLimit(list.count, there) = ScrollLimit(list.count, Measured)
      /\ ScrollLimit(list.count, there) =
           IF extent > list.height THEN extent - list.height ELSE 0
    BY <1>2 DEF ScrollLimit, Geometry
<1>6. a <= IntMax - list.height
    <2> HIDE DEF a, extent, there
    <2>1. QED
        BY <1>2, <1>3, <1>5, IntMaxAssumption
<1>7. Supported(row, list.count, there)
    BY <1>2, <1>3, <1>4, <1>5, <1>6 DEF Supported, Geometry, IsWord
<1>8. /\ Signed(a) = a /\ Signed(list.pitch) = list.pitch
      /\ Signed(list.height) = list.height
    BY <1>2, <1>3, IntMaxAssumption DEF Signed
<1>9. CoreAccepts(row, list.count, list.pitch, list.height, a)
    BY <1>1, <1>2, <1>7, <1>8, AcceptsWhatIsSupported
<1>10. a <= top /\ top + list.pitch <= a + list.height
    BY <1>2, <1>3, <1>8 DEF Shows, RowTop, RowBottom, Geometry
<1>11. CoreTarget(row, list.pitch, list.height, a) =
         CASE top < a -> top
           [] top >= a /\ a + list.height < top + list.pitch ->
                top + list.pitch - list.height
           [] OTHER -> a
    BY <1>1, <1>9, AcceptedTarget
<1>12. CoreTarget(row, list.pitch, list.height, a) = a
    <2> HIDE DEF a, top
    <2>1. QED
        BY <1>2, <1>3, <1>10, <1>11, IntMaxAssumption
<1>13. QED
    BY <1>9, <1>12 DEF CoreReveal

(* Every answer that asks for a position asks for the nearest one that shows*)
(* the whole row, within the list, and asking again changes nothing.        *)
THEOREM RevealsMinimallyAlways == ListSpec => []RevealsMinimally
<1>1. Registers => RevealsMinimally
    <2> SUFFICES ASSUME Registers, NEW row \in Words, Signed(Answer(row)) >= 0
                 PROVE  /\ Answer(row) \in 0 .. ScrollLimit(list.count, Measured)
                        /\ Shows(Answer(row), row)
                        /\ \A p \in 0 .. ScrollLimit(list.count, Measured) :
                              Shows(p, row) => Distance(y, Answer(row)) <= Distance(y, p)
                        /\ CoreReveal(row, list.count, list.pitch, list.height,
                                      Answer(row)) = Answer(row)
        BY DEF RevealsMinimally
    <2>1. CoreAccepts(row, list.count, list.pitch, list.height, y)
        BY IntMaxAssumption DEF Answer, CoreReveal, Signed, WordSize
    <2>2. QED
        BY <2>1, AcceptedIsMinimal, AnswerIsStable
<1>2. QED
    BY <1>1, RegistersHoldWords, PTL

-------------------------------------------------------------------------------
(* The two together.                                                        *)

(* The native core would move the list to where the proposal moves it.      *)
ProposedByTheCore ==
    co.issued # None =>
        LET a == co.issued.action
            g == a.geometry
        IN  CoreReveal(a.row, Len(a.rows.entries), g.pitch, g.height, g.scroll_y)
              = a.target_y

(* A supported call is one of words, and the core answers it like the host. *)
LEMMA CoreOfSupported ==
    ASSUME NEW row \in Int, NEW count \in Nat, NEW pitch \in Int, NEW height \in Int,
           NEW scroll_y \in Int, Supported(row, count, Geometry(scroll_y, pitch, height))
    PROVE  CoreReveal(row, count, pitch, height, scroll_y)
             = MinimalReveal(row, count, Geometry(scroll_y, pitch, height))
<1> DEFINE g == Geometry(scroll_y, pitch, height)
<1>1. /\ g.scroll_y = scroll_y /\ g.pitch = pitch /\ g.height = height
  BY DEF Geometry
<1>2. /\ row \in 0 .. IntMax /\ count \in 0 .. IntMax /\ pitch \in 0 .. IntMax
      /\ height \in 0 .. IntMax /\ scroll_y \in 0 .. IntMax
  BY <1>1, IntMaxAssumption, MaxRowsAssumption, WordAssumption DEF Supported, IsWord
<1>3. /\ row \in Words /\ count \in Words /\ pitch \in Words
      /\ height \in Words /\ scroll_y \in Words
  BY <1>2, IntMaxAssumption DEF Words, WordSize
<1>4. /\ Signed(row) = row /\ Signed(count) = count /\ Signed(pitch) = pitch
      /\ Signed(height) = height /\ Signed(scroll_y) = scroll_y
  BY <1>2 DEF Signed
<1>5. CoreAccepts(row, count, pitch, height, scroll_y)
  BY <1>3, <1>4, AcceptsWhatIsSupported
<1> QED
  BY <1>3, <1>5, TargetAgrees DEF CoreReveal

(* Every proposal in force moves the list by what the emitted core computes *)
(* from the words of its geometry: the host's decisions and the native      *)
(* arithmetic meet although neither is checked against the other's states.  *)
THEOREM CoreComputesProposals == Spec => []ProposedByTheCore
<1>1. RInv => ProposedByTheCore
  <2> SUFFICES ASSUME RInv, co.issued # None PROVE ProposedByTheCore
    BY DEF ProposedByTheCore
  <2> DEFINE a == co.issued.action
             g == a.geometry
             entries == a.rows.entries
  <2>1. ValidAction(a, Snapshot(co, g)) /\ g \in Samples /\ g # None
        /\ co.publication.rows # None /\ PubInv(co.publication)
    BY DEF RInv, Histories, IssueHolds, CInv, PartsInv
  <2>2. /\ a.target_y = MinimalReveal(a.row, Len(entries), g)
        /\ a.target_y # Unrevealed
        /\ a.rows = co.publication.rows
        /\ Listed(a.rows, a.identity) /\ Locate(a.rows, a.identity) = a.row
    BY <2>1 DEF ValidAction, Snapshot
  <2>3. entries \in Seq(Tracks)
    BY <2>1, <2>2 DEF PubInv
  <2>4. Len(entries) \in Nat /\ DOMAIN entries = 1 .. Len(entries)
    BY <2>3, LenProperties
  <2>5. a.row \in Int
    <3>1. \E i \in DOMAIN entries : entries[i] = a.identity
      BY <2>2 DEF Listed, Range
    <3>2. (CHOOSE i \in DOMAIN entries : entries[i] = a.identity) \in DOMAIN entries
      BY <3>1
    <3> QED
      BY <2>2, <2>4, <3>2 DEF Locate
  <2>6. /\ g.pitch \in Int /\ g.height \in Int /\ g.scroll_y \in Int
        /\ g = Geometry(g.scroll_y, g.pitch, g.height)
    BY <2>1, InputAssumption DEF Geometry
  <2>7. Supported(a.row, Len(entries), g)
    BY <2>2 DEF MinimalReveal
  <2> HIDE DEF a, g, entries
  <2>8. CoreReveal(a.row, Len(entries), g.pitch, g.height, g.scroll_y) = a.target_y
    BY <2>2, <2>4, <2>5, <2>6, <2>7, CoreOfSupported, SMTT(30)
  <2> QED
    BY <2>8 DEF ProposedByTheCore, a, g, entries
<1> QED
  BY <1>1, CoordinatorInvariant, PTL

-----------------------------------------------------------------------------
(* The mutation guard: its invariants, the finality of FAULT and the        *)
(* refinement of MutationBracket.                                           *)


(* What a standing reservation tells its thread: the word is still the one  *)
(* it loaded, so the store the thread is about to make fits it.             *)
ReservationsHold ==
    \A p \in Threads : link[p] =>
        /\ pc[p] = "begin_sc" => ~word.writer /\ held[p] = word.ticket + 1
        /\ pc[p] = "finish_sc" => word = Writer(held[p])

(* The registers of a thread between its entry point and its store.         *)
RegistersHold ==
    \A p \in Threads :
        /\ pc[p] \in {"begin_ll", "begin_sc", "finish_ll", "finish_sc"} => attempts[p] >= 1
        /\ pc[p] \in {"begin_sc", "finish_ll", "finish_sc"} => held[p] \in GuardTickets

GuardInv ==
    /\ TypeOK
    /\ OneOpenMutation
    /\ WordTellsTheTruth
    /\ ReservationsHold
    /\ RegistersHold

(* The two constructors of words determine their fields.                    *)
LEMMA WordFields ==
    /\ \A t : Writer(t).writer = TRUE /\ Writer(t).ticket = t
    /\ \A t : Ready(t).writer = FALSE /\ Ready(t).ticket = t
    /\ FAULT.writer = TRUE /\ FAULT.ticket = 0
    /\ EMPTY.writer = FALSE /\ EMPTY.ticket = 0
    /\ EMPTY # FAULT
    /\ \A t \in GuardTickets : Writer(t) # FAULT /\ Ready(t) # FAULT
BY DEF Writer, Ready, FAULT, EMPTY, Word, GuardTickets

(* The initial word is EMPTY and no ticket has been issued.                 *)
LEMMA GuardInitInvariant == GuardInit => GuardInv
BY TicketLimitAssumption, RetriesAssumption, WordFields
   DEF GuardInit, GuardInv, TypeOK, OneOpenMutation, WordTellsTheTruth, ReservationsHold,
       RegistersHold, GuardWords, GuardTickets, Arguments, Labels, EMPTY, Word

(* The open ticket is the only one issued and not published; with no open   *)
(* ticket there is none.                                                    *)
LEMMA IssuedOrPublished ==
    ASSUME GuardInv
    PROVE  /\ ~word.writer => handedOut = published
           /\ word # FAULT /\ word.writer =>
                /\ word.ticket \in handedOut
                /\ word.ticket \notin published
                /\ handedOut = published \cup {word.ticket}
<1> USE DEF GuardInv, TypeOK, GuardWords, GuardTickets
<1>1. ~word.writer => word # FAULT
  BY WordFields
<1>2. ASSUME ~word.writer PROVE handedOut \subseteq published
  <2> SUFFICES ASSUME NEW t \in handedOut PROVE t \in published
    OBVIOUS
  <2>1. t <= word.ticket /\ word.ticket # 0
    BY <1>1, <1>2 DEF WordTellsTheTruth
  <2>2. word.ticket \in handedOut /\ word.ticket \in published
    BY <1>1, <1>2, <2>1 DEF WordTellsTheTruth
  <2> QED
    BY <2>1, <2>2, TicketLimitAssumption DEF OneOpenMutation
<1>3. ASSUME word # FAULT, word.writer
      PROVE  /\ word.ticket \in handedOut
             /\ word.ticket \notin published
             /\ handedOut = published \cup {word.ticket}
  <2>1. word.ticket # 0
    BY <1>3 DEF FAULT, Word
  <2>2. word.ticket \in handedOut /\ word.ticket \notin published
    BY <1>3, <2>1 DEF WordTellsTheTruth
  <2>3. ASSUME NEW t \in handedOut PROVE t \in published \/ t = word.ticket
    <3>1. t <= word.ticket
      BY <1>3 DEF WordTellsTheTruth
    <3> QED
      BY <3>1, <2>2, TicketLimitAssumption DEF OneOpenMutation
  <2> QED
    BY <2>2, <2>3 DEF OneOpenMutation
<1> QED
  BY <1>2, <1>3 DEF OneOpenMutation

(* A step that leaves the word and the history alone keeps what relates     *)
(* them; only the registers of the thread that moves are left to check.     *)
LEMMA WordUnchanged ==
    ASSUME GuardInv, UNCHANGED <<word, handedOut, published>>
    PROVE  OneOpenMutation' /\ WordTellsTheTruth'
BY DEF GuardInv, OneOpenMutation, WordTellsTheTruth

(* Every step keeps the invariant: one step per action.                     *)
LEMMA GuardStepInvariant == GuardInv /\ [GuardNext]_guardVars => GuardInv'
<1> SUFFICES ASSUME GuardInv, [GuardNext]_guardVars PROVE GuardInv'
  OBVIOUS
<1> USE TicketLimitAssumption, RetriesAssumption DEF GuardInv
<1>1. ASSUME UNCHANGED guardVars PROVE GuardInv'
  BY <1>1 DEF guardVars, TypeOK, OneOpenMutation, WordTellsTheTruth,
              ReservationsHold, RegistersHold
<1>2. ASSUME NEW p \in Threads, CallBegin(p) PROVE GuardInv'
  <2>1. TypeOK' /\ ReservationsHold' /\ RegistersHold'
    BY <1>2 DEF CallBegin, TypeOK, ReservationsHold, RegistersHold, Labels
  <2> QED
    BY <1>2, <2>1, WordUnchanged DEF CallBegin
<1>3. ASSUME NEW p \in Threads, NEW t \in Arguments, CallFinish(p, t) PROVE GuardInv'
  <2>1. TypeOK' /\ ReservationsHold' /\ RegistersHold'
    BY <1>3 DEF CallFinish, TypeOK, ReservationsHold, RegistersHold, Labels
  <2> QED
    BY <1>3, <2>1, WordUnchanged DEF CallFinish
<1>4. ASSUME NEW p \in Threads, CallInvalidate(p) PROVE GuardInv'
  <2>1. TypeOK' /\ ReservationsHold' /\ RegistersHold'
    BY <1>4 DEF CallInvalidate, TypeOK, ReservationsHold, RegistersHold, Labels
  <2> QED
    BY <1>4, <2>1, WordUnchanged DEF CallInvalidate
<1>5. ASSUME NEW p \in Threads, BeginLL(p) PROVE GuardInv'
  <2>1. TypeOK' /\ ReservationsHold' /\ RegistersHold'
    <3>1. CASE Refused(word)
      BY <1>5, <3>1 DEF BeginLL, TypeOK, ReservationsHold, RegistersHold, Labels
    <3>2. CASE ~Refused(word)
      <4>1. word.ticket + 1 \in GuardTickets /\ word.ticket + 1 \in Arguments
        BY <3>2 DEF Refused, TypeOK, GuardWords, GuardTickets, Arguments
      <4> QED
        BY <1>5, <3>2, <4>1 DEF Refused, BeginLL, TypeOK, ReservationsHold, RegistersHold, Labels
    <3> QED
      BY <3>1, <3>2
  <2> QED
    BY <1>5, <2>1, WordUnchanged DEF BeginLL
<1>6. ASSUME NEW p \in Threads, FinishLL(p) PROVE GuardInv'
  <2>1. TypeOK' /\ ReservationsHold' /\ RegistersHold'
    BY <1>6 DEF FinishLL, Expected, TypeOK, ReservationsHold, RegistersHold, Labels
  <2> QED
    BY <1>6, <2>1, WordUnchanged DEF FinishLL
<1>7. ASSUME NEW p \in Threads, BeginSC(p) PROVE GuardInv'
  <2> DEFINE t == held[p]
  <2>1. t \in GuardTickets /\ ~word.writer /\ t = word.ticket + 1 /\ word # FAULT
    BY <1>7, WordFields DEF BeginSC, Reserved, ReservationsHold, RegistersHold
  <2>2. word' = Writer(t) /\ handedOut' = handedOut \cup {t} /\ published' = published
    BY <1>7 DEF BeginSC, Store
  <2>3. handedOut = published
    BY <2>1, IssuedOrPublished
  <2>4. \A s \in handedOut : s < t
    BY <2>1 DEF WordTellsTheTruth, TypeOK, GuardWords, GuardTickets
  <2>5. /\ TypeOK'
        /\ ReservationsHold'
        /\ RegistersHold'
    <3>1. Writer(t) \in GuardWords
      BY <2>1 DEF GuardWords, Writer, Word, GuardTickets
    <3>2. TypeOK'
      BY <1>7, <2>1, <2>2, <3>1 DEF BeginSC, Store, Return, TypeOK, Labels, Arguments
    <3>3. ReservationsHold'
      BY <1>7 DEF BeginSC, Store, TypeOK, ReservationsHold
    <3>4. RegistersHold'
      BY <1>7 DEF BeginSC, Return, TypeOK, RegistersHold
    <3> QED
      BY <3>2, <3>3, <3>4
  <2>6. OneOpenMutation'
    BY <2>1, <2>2, <2>3, <2>4 DEF OneOpenMutation, TypeOK, GuardTickets
  <2>7. WordTellsTheTruth'
    BY <2>1, <2>2, <2>3, <2>4, WordFields DEF WordTellsTheTruth, TypeOK, GuardTickets
  <2> QED
    BY <2>5, <2>6, <2>7
<1>8. ASSUME NEW p \in Threads, FinishSC(p) PROVE GuardInv'
  <2> DEFINE t == held[p]
  <2>1. t \in GuardTickets /\ word = Writer(t) /\ word # FAULT
    BY <1>8, WordFields DEF FinishSC, Reserved, ReservationsHold, RegistersHold
  <2>2. word' = Ready(t) /\ handedOut' = handedOut /\ published' = published \cup {t}
    BY <1>8 DEF FinishSC, Store
  <2>3. t \in handedOut /\ handedOut = published \cup {t}
    BY <2>1, IssuedOrPublished, WordFields
  <2>4. /\ TypeOK'
        /\ ReservationsHold'
        /\ RegistersHold'
    <3>1. Ready(t) \in GuardWords
      BY <2>1 DEF GuardWords, Ready, Word, GuardTickets
    <3>2. TypeOK'
      BY <1>8, <2>1, <2>2, <3>1 DEF FinishSC, Store, Return, TypeOK, Labels, Arguments
    <3>3. ReservationsHold'
      BY <1>8 DEF FinishSC, Store, TypeOK, ReservationsHold
    <3>4. RegistersHold'
      BY <1>8 DEF FinishSC, Return, TypeOK, RegistersHold
    <3> QED
      BY <3>2, <3>3, <3>4
  <2>5. OneOpenMutation'
    BY <2>2, <2>3 DEF OneOpenMutation
  <2>6. WordTellsTheTruth'
    BY <2>1, <2>2, <2>3, WordFields DEF WordTellsTheTruth, TypeOK, GuardTickets
  <2> QED
    BY <2>4, <2>5, <2>6
<1>9. ASSUME NEW p \in Threads, BeginSCFails(p) PROVE GuardInv'
  <2>1. TypeOK' /\ ReservationsHold' /\ RegistersHold'
    BY <1>9 DEF BeginSCFails, Retry, TypeOK, ReservationsHold, RegistersHold, Labels
  <2> QED
    BY <1>9, <2>1, WordUnchanged DEF BeginSCFails, Retry
<1>10. ASSUME NEW p \in Threads, FinishSCFails(p) PROVE GuardInv'
  <2>1. TypeOK' /\ ReservationsHold' /\ RegistersHold'
    BY <1>10 DEF FinishSCFails, Retry, TypeOK, ReservationsHold, RegistersHold, Labels
  <2> QED
    BY <1>10, <2>1, WordUnchanged DEF FinishSCFails, Retry
<1>11. ASSUME NEW p \in Threads, FaultStore(p) PROVE GuardInv'
  <2>1. word' = FAULT /\ UNCHANGED <<handedOut, published>>
    BY <1>11 DEF FaultStore, Store
  <2>2. TypeOK' /\ ReservationsHold' /\ RegistersHold'
    BY <1>11, <2>1 DEF FaultStore, Store, Return, TypeOK, ReservationsHold,
       RegistersHold, Labels, GuardWords, FAULT, Word, Arguments
  <2>3. OneOpenMutation' /\ WordTellsTheTruth'
    BY <2>1 DEF OneOpenMutation, WordTellsTheTruth
  <2> QED
    BY <2>2, <2>3
<1> QED
  BY <1>1, <1>2, <1>3, <1>4, <1>5, <1>6, <1>7, <1>8, <1>9, <1>10, <1>11
     DEF GuardNext, Call, Routine

(* The inductive invariant holds in every reachable state.                  *)
THEOREM GuardInvariant == GuardSpec => []GuardInv
BY GuardInitInvariant, GuardStepInvariant, PTL DEF GuardSpec

(* The registers and the word stay in their ranges: no ticket passes the    *)
(* limit, no call has more attempts than it was given.                      *)
THEOREM GuardTypeCorrect == GuardSpec => []TypeOK
<1>1. GuardInv => TypeOK
  BY DEF GuardInv
<1> QED
  BY <1>1, GuardInvariant, PTL

(* At most one mutation is open at a time, for every number of threads.     *)
THEOREM OneOpenMutationHolds == GuardSpec => []OneOpenMutation
<1>1. GuardInv => OneOpenMutation
  BY DEF GuardInv
<1> QED
  BY <1>1, GuardInvariant, PTL

(* READY and WRITER report the state of the newest ticket.                  *)
THEOREM WordTellsTheTruthHolds == GuardSpec => []WordTellsTheTruth
<1>1. GuardInv => WordTellsTheTruth
  BY DEF GuardInv
<1> QED
  BY <1>1, GuardInvariant, PTL

(* No ticket is handed out twice: a reservation still stands on the word    *)
(* that was loaded, and every issued ticket is at most that word's.         *)
THEOREM TicketsAreFresh == GuardSpec => TicketsAreNew
<1> DEFINE Fresh == \A p \in Threads :
                pc[p] = "begin_sc" /\ pc'[p] = "idle" => held[p] \notin handedOut
<1>1. GuardInv /\ [GuardNext]_guardVars => [Fresh]_guardVars
  <2> SUFFICES ASSUME GuardInv, GuardNext, NEW p \in Threads, pc[p] = "begin_sc", pc'[p] = "idle"
               PROVE  held[p] \notin handedOut
    BY DEF guardVars
  <2>1. BeginSC(p)
    <3>1. PICK q \in Threads : Call(q) \/ Routine(q)
      BY DEF GuardNext
    <3>2. pc \in [Threads -> Labels]
      BY DEF GuardInv, TypeOK
    <3>3. ~Call(q)
      BY <3>2 DEF Call, CallBegin, CallFinish, CallInvalidate
    <3>4. ~(BeginLL(q) \/ FinishLL(q) \/ FinishSC(q) \/ FaultStore(q))
      BY <3>2 DEF BeginLL, FinishLL, FinishSC, FaultStore, Return
    <3>5. ~(BeginSCFails(q) \/ FinishSCFails(q))
      BY <3>2 DEF BeginSCFails, FinishSCFails, Retry
    <3>6. BeginSC(q)
      BY <3>1, <3>3, <3>4, <3>5 DEF Routine
    <3> QED
      BY <3>2, <3>6 DEF BeginSC, Return
  <2>2. word # FAULT /\ held[p] = word.ticket + 1 /\ word.ticket \in Nat
    BY <2>1, WordFields DEF BeginSC, Reserved, GuardInv, ReservationsHold, TypeOK, GuardWords
  <2>3. \A t \in handedOut : t \in Nat /\ t <= word.ticket
    BY <2>2 DEF GuardInv, TypeOK, GuardTickets, WordTellsTheTruth
  <2> QED
    BY <2>2, <2>3
<1> QED
  BY <1>1, GuardInvariant, PTL DEF GuardSpec, TicketsAreNew

(* FAULT is final: the reservation of a store conditional that is still to  *)
(* come was ended by the fault store, or was made on the FAULT word itself. *)
THEOREM FaultStays == GuardSpec => FaultIsFinal
<1>1. GuardInv /\ [GuardNext]_guardVars => [word = FAULT => UNCHANGED <<word, handedOut, published>>]_guardVars
  <2> SUFFICES ASSUME GuardInv, GuardNext, word = FAULT
               PROVE  UNCHANGED <<word, handedOut, published>>
    BY DEF guardVars
  <2>1. ASSUME NEW p \in Threads, Call(p) PROVE UNCHANGED <<word, handedOut, published>>
    BY <2>1 DEF Call, CallBegin, CallFinish, CallInvalidate
  <2>2. ASSUME NEW p \in Threads, Routine(p) PROVE UNCHANGED <<word, handedOut, published>>
    <3>1. ~BeginSC(p)
      BY WordFields DEF BeginSC, Reserved, GuardInv, ReservationsHold
    <3>2. ~FinishSC(p)
      BY WordFields DEF FinishSC, Reserved, GuardInv, ReservationsHold, RegistersHold
    <3> QED
      BY <2>2, <3>1, <3>2 DEF Routine, BeginLL, FinishLL, BeginSCFails, FinishSCFails,
         Retry, FaultStore, Store
  <2> QED
    BY <2>1, <2>2 DEF GuardNext
<1> QED
  BY <1>1, GuardInvariant, PTL DEF GuardSpec, FaultIsFinal

(* The guard implements the bracket: a begin's store opens a mutation, a    *)
(* finish's store publishes it, a fault store fails, all else stutters.     *)
THEOREM ImplementsBracket == GuardSpec => BracketSpec
<1>1. GuardInit => GuardBracket!Init
  BY WordFields DEF GuardInit, GuardBracket!Init
<1>2. GuardInv /\ [GuardNext]_guardVars => [GuardBracket!Next]_GuardBracket!bracketVars
  <2> SUFFICES ASSUME GuardInv, [GuardNext]_guardVars
               PROVE  [GuardBracket!Next]_GuardBracket!bracketVars
    OBVIOUS
  <2> USE DEF GuardBracket!bracketVars
  <2>1. ASSUME UNCHANGED word
        PROVE  UNCHANGED GuardBracket!bracketVars
    BY <2>1
  <2>2. ASSUME NEW p \in Threads, Call(p) PROVE UNCHANGED GuardBracket!bracketVars
    BY <2>1, <2>2 DEF Call, CallBegin, CallFinish, CallInvalidate
  <2>3. ASSUME NEW p \in Threads, BeginSC(p) PROVE GuardBracket!Next
    <3> DEFINE t == held[p]
    <3>1. t \in GuardTickets /\ ~word.writer /\ t = word.ticket + 1 /\ word # FAULT
      BY <2>3, WordFields DEF BeginSC, Reserved, GuardInv, ReservationsHold, RegistersHold
    <3>2. word' = Writer(t)
      BY <2>3 DEF BeginSC, Store
    <3>3. word.ticket \in Nat
      BY TicketLimitAssumption DEF GuardInv, TypeOK, GuardWords
    <3>4. GuardBracket!Open(t)
      BY <3>1, <3>2, <3>3, WordFields DEF GuardBracket!Open
    <3> QED
      BY <3>1, <3>4 DEF GuardBracket!Next, GuardTickets
  <2>4. ASSUME NEW p \in Threads, FinishSC(p) PROVE GuardBracket!Next
    <3> DEFINE t == held[p]
    <3>1. t \in GuardTickets /\ word = Writer(t) /\ word # FAULT
      BY <2>4, WordFields DEF FinishSC, Reserved, GuardInv, ReservationsHold, RegistersHold
    <3>2. word' = Ready(t)
      BY <2>4 DEF FinishSC, Store
    <3>3. GuardBracket!Publish
      BY <3>1, <3>2, WordFields DEF GuardBracket!Publish
    <3> QED
      BY <3>3 DEF GuardBracket!Next
  <2>5. ASSUME NEW p \in Threads, FaultStore(p) PROVE GuardBracket!Next
    BY <2>5, WordFields DEF FaultStore, Store, GuardBracket!Next, GuardBracket!Fail
  <2>6. ASSUME NEW p \in Threads,
               BeginLL(p) \/ FinishLL(p) \/ BeginSCFails(p) \/ FinishSCFails(p)
        PROVE  UNCHANGED GuardBracket!bracketVars
    BY <2>1, <2>6 DEF BeginLL, FinishLL, BeginSCFails, FinishSCFails, Retry
  <2>7. CASE UNCHANGED guardVars
    BY <2>1, <2>7 DEF guardVars
  <2> QED
    BY <2>2, <2>3, <2>4, <2>5, <2>6, <2>7 DEF GuardNext, Routine
<1> QED
  BY <1>1, <1>2, GuardInvariant, PTL DEF GuardSpec, BracketSpec, GuardBracket!Spec
===============================================================================
