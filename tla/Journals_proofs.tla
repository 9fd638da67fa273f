-------------------------- MODULE Journals_proofs --------------------------
(****************************************************************************)
(* The two journal stages, for any threads, nodes, capacities, limits and   *)
(* bounds.                                                                  *)
(*                                                                          *)
(* The action-link stage first: what the decoders may conclude from its     *)
(* journals. The invariant says of every event whose child it is, of every  *)
(* ticket that some thread, list or node still holds which event it names,  *)
(* and of every request that its contents moved only if a word moved that   *)
(* its birth has sampled.                                                   *)
(*                                                                          *)
(* Then the native-scope stage: its journals lose nothing and its count is  *)
(* true. The invariant says which hook holds which unpublished record. And  *)
(* what decodes as complete was not disturbed: a second invariant says how  *)
(* far the contents are past the entry of each rendering under way.         *)
(****************************************************************************)
EXTENDS DecodedCause, DecodedLineage, FiniteSetTheorems, WellFoundedInduction, TLAPS

Names6 == {"dispatch", "action", "birth", "transport", "renderer", "lineage"}
Kinds == {"DISPATCH", "SOURCE", "DELIVERY", "EXPLORER", "PAINT", "PAINT_DELIVERY",
          "BIRTH_LINK", "BIRTH", "ENQUEUE_BEGIN", "RETURN", "INSTALL", "BORROW",
          "HELPER", "CALLBACK", "OUTER", "RENDER", "ROOT"}

\* The events of one request, from its birth to its rendering.
RequestKinds == {"BIRTH", "ENQUEUE_BEGIN", "RETURN", "INSTALL", "BORROW", "HELPER",
                 "CALLBACK", "OUTER", "RENDER"}

Addresses == Nodes \cup {0}
Events == [kind : Kinds, parent : Nat, origin : Nat, refer : Nat, node : Addresses,
           revision : Nat \cup {FAULT}, issued : Nat, active : Nat, entry : Nat,
           published : BOOLEAN, cause : Nat, touched : BOOLEAN]
Journals == [log : Seq(Events), fault : BOOLEAN]
Works == [at : Nat, slot : Nat, token : Nat, link : Nat, root : Nat, entry : Nat,
          node : Addresses, cause : Nat, touched : BOOLEAN]
Behinds == [cause : Nat, touched : BOOLEAN]
Tickets == [token : Nat, cause : Nat]

TypeOK ==
    /\ journals \in [Names6 -> Journals]
    /\ clock \in Nat \cup {FAULT}
    /\ scopes \in [issued : Nat, active : Nat, fault : BOOLEAN]
    /\ actions \in Seq(Tickets) /\ paints \in Seq(Tickets) /\ queue \in Seq(Nodes)
    /\ tail \in [Nodes -> Nat]
    /\ behind \in [Nodes -> Behinds]
    /\ thread \in [Threads -> Works]
    /\ \A t \in Threads : thread[t].at \in 1 .. Len(Route[t])
    /\ causes \in Nat

-----------------------------------------------------------------------------
(* What an event says of others. *)

Listed(kind, i) ==
    /\ i \in DOMAIN journals[JournalOf(kind)].log
    /\ Event(kind, i).kind = kind

\* Its parent was published before it, by a hook that worked for the same
\* notification, and what the two have sampled is in order.
Descends(i, e) ==
    LET p == Event(ParentOf(e.kind), e.parent) IN
    /\ Names(ParentOf(e.kind), e.parent)
    /\ JournalOf(ParentOf(e.kind)) = JournalOf(e.kind) => e.parent < i
    /\ e.cause = p.cause /\ e.origin = p.origin
    /\ e.kind \in {"BORROW", "HELPER", "CALLBACK"} => e.node = p.node
    /\ JournalOf(e.kind) \in Sampling => e.revision >= p.revision /\ e.issued >= p.issued

\* No sample is from the future.
Sampled(e) ==
    JournalOf(e.kind) \in Sampling =>
        /\ e.revision \in Nat
        /\ clock # FAULT => e.revision <= clock
        /\ e.issued <= scopes.issued

\* A birth link names a birth, a rendering a root with an entry in order; and
\* a rendering whose contents moved shows it.
RefersWell(e) ==
    /\ e.kind = "BIRTH_LINK" => Names("BIRTH", e.refer)
    /\ e.kind = "RENDER" =>
         LET entry == Event("ROOT", e.refer).entry
             birth == Event("BIRTH", e.origin)
         IN  /\ Names("ROOT", e.refer)
             /\ entry <= e.revision
             /\ entry # 0 => entry >= Event("OUTER", e.parent).revision
             /\ e.touched => birth.active > 0 \/ e.revision > birth.revision + 1
                                              \/ e.issued > birth.issued

EventFits(j, i, e) ==
    /\ JournalOf(e.kind) = j
    /\ e.kind \in Roots => e.parent = 0 /\ e.origin = i
    /\ e.kind \notin Roots => Descends(i, e)
    /\ e.kind \in RequestKinds => Listed("BIRTH", e.origin)
    /\ Sampled(e)
    /\ RefersWell(e)

EventsFit ==
    \A j \in Names6 : \A i \in DOMAIN journals[j].log : \A e \in Events :
        e = journals[j].log[i] => EventFits(j, i, e)

-----------------------------------------------------------------------------
(* What a ticket is worth where it is kept. *)

\* A word that the birth has sampled moved further than by the steps of the
\* renderer's own entry.
Disturbed(birth, steps) ==
    LET b == Event("BIRTH", birth) IN
    \/ b.active > 0 \/ clock = FAULT \/ clock > b.revision + steps
    \/ scopes.fault \/ scopes.issued > b.issued

\* Ticket i of that kind, kept by whoever works for that cause.
Good(kind, i, cause) == Names(kind, i) /\ Event(kind, i).cause = cause
Marked(kind, i, touched, steps) ==
    touched => \A o \in Nat : o = Event(kind, i).origin => Disturbed(o, steps)

\* Whose ticket the token is, by place.
Held == [post |-> "SOURCE", DELIVERY |-> "SOURCE", EXPLORER |-> "DELIVERY",
         PAINT |-> "EXPLORER", post_paint |-> "PAINT", PAINT_DELIVERY |-> "PAINT",
         BIRTH_LINK |-> "BIRTH", ENQUEUE_BEGIN |-> "BIRTH", allocate |-> "ENQUEUE_BEGIN",
         INSTALL |-> "ENQUEUE_BEGIN", append |-> "ENQUEUE_BEGIN", RETURN |-> "ENQUEUE_BEGIN",
         BORROW |-> "INSTALL", HELPER |-> "BORROW", CALLBACK |-> "HELPER",
         OUTER |-> "CALLBACK", enter |-> "OUTER", ROOT |-> "OUTER", RENDER |-> "OUTER"]

Entered == {"ROOT", "RENDER"}
Steps(place) == IF place \in Entered THEN 1 ELSE 0

TokenFits(place, k) ==
    place \in DOMAIN Held /\ k.token # 0 =>
        /\ Good(Held[place], k.token, k.cause)
        /\ Held[place] \in RequestKinds => Marked(Held[place], k.token, k.touched, Steps(place))

\* The renderer's entry, once it has one.
EntryFits(place, k) ==
    place \in Entered =>
        /\ clock # FAULT => k.entry <= clock
        /\ k.token # 0 =>
             /\ k.entry # 0 => k.entry >= Event("OUTER", k.token).revision
             /\ clock # FAULT => clock > Event("BIRTH", Event("OUTER", k.token).origin).revision
        /\ place = "RENDER" /\ k.root # 0 =>
             Names("ROOT", k.root) /\ Event("ROOT", k.root).entry = k.entry

LinkFits(place, k) ==
    place \in {"BIRTH", "BIRTH_LINK"} /\ k.link # 0 => Good("PAINT_DELIVERY", k.link, k.cause)

\* A slot that is reserved and not yet published.
SlotFits(place, k) ==
    k.slot # 0 =>
        LET e == Event(place, k.slot) IN
        /\ place \in Kinds /\ Carries(k, place)
        /\ Listed(place, k.slot) /\ ~e.published
        /\ e.cause = k.cause
        /\ place \notin Roots => e.parent = Parent(k, place)
        /\ place = "BIRTH" => Marked("BIRTH", k.slot, k.touched, 0)
        /\ place = "ROOT" => e.entry = k.entry

WorkFits(place, k) ==
    TokenFits(place, k) /\ EntryFits(place, k) /\ LinkFits(place, k) /\ SlotFits(place, k)

Place(t, k) == Route[t][k.at]
WorksFit ==
    \A t \in Threads : \A k \in Works : k = thread[t] => WorkFits(Place(t, k), k)

ListsFit ==
    /\ \A a \in Range(actions) : a.token # 0 => Good("SOURCE", a.token, a.cause)
    /\ \A a \in Range(paints) : a.token # 0 => Good("PAINT", a.token, a.cause)

\* The tail word of a node that is on its way to the consumer, and what is
\* really behind the node.
TailFits(i, b) ==
    i # 0 => Good("INSTALL", i, b.cause) /\ Marked("INSTALL", i, b.touched, 0)

NodesFit ==
    /\ \A n \in Range(queue) : \A i \in Nat, b \in Behinds :
          i = tail[n] /\ b = behind[n] => TailFits(i, b)
    /\ \A k \in Works : k = thread["painter"] =>
          /\ Place("painter", k) \in {"INSTALL", "append"} =>
                k.node \in Nodes /\ k.node \notin Range(queue)
          /\ Place("painter", k) = "INSTALL" => tail[k.node] = 0
          /\ Place("painter", k) = "append" => \A i \in Nat :
                i = tail[k.node] => TailFits(i, [cause |-> k.cause, touched |-> k.touched])

-----------------------------------------------------------------------------
(* What happens at most once to a ticket. *)

Unused(kind, field, i) ==
    \A n \in DOMAIN journals[JournalOf(kind)].log :
        Event(kind, n).kind = kind => Event(kind, n)[field] # i

\* A birth is linked, a root rendered and an enqueue returned from once.
NotYet(place, k) ==
    /\ place = "BIRTH_LINK" /\ k.slot = 0 => Unused("BIRTH_LINK", "refer", k.token)
    /\ place = "RENDER" /\ k.slot = 0 => Unused("RENDER", "refer", k.root)
    /\ place \in {"allocate", "INSTALL", "append", "RETURN"} /\ (place = "RETURN" => k.slot = 0) =>
          Unused("RETURN", "parent", k.token)

ReferredOnce(kind) ==
    \A i, n \in DOMAIN journals[JournalOf(kind)].log :
        /\ Event(kind, i).kind = kind /\ Event(kind, n).kind = kind
        /\ Event(kind, i).refer = Event(kind, n).refer
        => i = n

\* An append returns after what it appended was installed.
ReturnsInOrder ==
    \A r \in DOMAIN journals["birth"].log : \A i \in DOMAIN journals["transport"].log :
        LET e == journals["birth"].log[r]
            f == journals["transport"].log[i]
        IN  e.kind = "RETURN" /\ f.kind = "INSTALL" /\ e.parent = f.parent =>
                e.revision >= f.revision /\ e.issued >= f.issued

Once ==
    /\ \A t \in Threads : \A k \in Works : k = thread[t] => NotYet(Place(t, k), k)
    /\ ReferredOnce("BIRTH_LINK") /\ ReferredOnce("RENDER")
    /\ ReturnsInOrder

IInv == TypeOK /\ EventsFit /\ WorksFit /\ ListsFit /\ NodesFit /\ Once

-----------------------------------------------------------------------------
(* The tables. *)

(* Where each kind is written, and whose child it is.                       *)
LEMMA KindTable ==
    /\ \A k \in {"SOURCE", "DELIVERY", "EXPLORER", "PAINT", "PAINT_DELIVERY", "BIRTH_LINK"} :
          JournalOf(k) = "action"
    /\ \A k \in {"BIRTH", "ENQUEUE_BEGIN", "RETURN"} : JournalOf(k) = "birth"
    /\ \A k \in {"INSTALL", "BORROW", "HELPER", "CALLBACK"} : JournalOf(k) = "transport"
    /\ \A k \in {"OUTER", "RENDER"} : JournalOf(k) = "renderer"
    /\ JournalOf("DISPATCH") = "dispatch" /\ JournalOf("ROOT") = "lineage"
    /\ \A k \in {"idle", "post", "post_paint", "allocate", "append", "remove", "enter", "free"} :
          JournalOf(k) = "lineage"
BY DEF JournalOf, ActionKinds, BirthKinds, TransportKinds, RendererKinds

LEMMA ParentTable ==
    /\ ParentOf("DISPATCH") = "none" /\ ParentOf("SOURCE") = "none"
    /\ ParentOf("BIRTH") = "none" /\ ParentOf("ROOT") = "none"
    /\ ParentOf("DELIVERY") = "SOURCE" /\ ParentOf("EXPLORER") = "DELIVERY"
    /\ ParentOf("PAINT") = "EXPLORER" /\ ParentOf("PAINT_DELIVERY") = "PAINT"
    /\ ParentOf("BIRTH_LINK") = "PAINT_DELIVERY"
    /\ ParentOf("ENQUEUE_BEGIN") = "BIRTH" /\ ParentOf("RETURN") = "ENQUEUE_BEGIN"
    /\ ParentOf("INSTALL") = "ENQUEUE_BEGIN" /\ ParentOf("BORROW") = "INSTALL"
    /\ ParentOf("HELPER") = "BORROW" /\ ParentOf("CALLBACK") = "HELPER"
    /\ ParentOf("OUTER") = "CALLBACK" /\ ParentOf("RENDER") = "OUTER"
BY DEF ParentOf, ActionKinds, BirthKinds, TransportKinds, RendererKinds

(* Every place of a thread, and the one that follows it.                    *)
LEMMA Places ==
    ASSUME NEW t \in Threads, NEW k, k.at \in 1 .. Len(Route[t])
    PROVE  /\ t = "notifier" => Place(t, k) \in {"idle", "DISPATCH", "SOURCE", "post"}
           /\ t = "worker" => Place(t, k) \in {"idle", "DELIVERY", "EXPLORER", "PAINT", "post_paint"}
           /\ t = "painter" => Place(t, k) \in {"idle", "PAINT_DELIVERY", "BIRTH", "BIRTH_LINK",
                 "ENQUEUE_BEGIN", "allocate", "INSTALL", "append", "RETURN", "remove"}
           /\ t = "consumer" => Place(t, k) \in {"idle", "BORROW", "HELPER", "CALLBACK", "OUTER",
                 "enter", "ROOT", "RENDER", "free"}
<1>1. CASE t = "notifier"
  BY <1>1 DEF Place, Route, Notifier
<1>2. CASE t = "worker"
  BY <1>2 DEF Place, Route, Worker
<1>3. CASE t = "painter"
  BY <1>3 DEF Place, Route, Painter
<1>4. CASE t = "consumer"
  BY <1>4 DEF Place, Route, Consumer
<1> QED
  BY <1>1, <1>2, <1>3, <1>4 DEF Threads

Following == [DISPATCH |-> "SOURCE", SOURCE |-> "post",
              DELIVERY |-> "EXPLORER", EXPLORER |-> "PAINT", PAINT |-> "post_paint",
              PAINT_DELIVERY |-> "BIRTH", BIRTH |-> "BIRTH_LINK",
              BIRTH_LINK |-> "ENQUEUE_BEGIN", ENQUEUE_BEGIN |-> "allocate",
              allocate |-> "INSTALL", INSTALL |-> "append", append |-> "RETURN",
              RETURN |-> "remove",
              BORROW |-> "HELPER", HELPER |-> "CALLBACK", CALLBACK |-> "OUTER",
              OUTER |-> "enter", enter |-> "ROOT", ROOT |-> "RENDER", RENDER |-> "free"]
First == [notifier |-> "DISPATCH", worker |-> "DELIVERY", painter |-> "PAINT_DELIVERY",
          consumer |-> "BORROW"]

LEMMA OnwardGoes ==
    ASSUME NEW t \in Threads, NEW k \in Works, k.at \in 1 .. Len(Route[t])
    PROVE  /\ Onward(t, k) \in Works
           /\ Onward(t, k).at \in 1 .. Len(Route[t])
           /\ Onward(t, k) = [k EXCEPT !.at = Onward(t, k).at, !.slot = 0]
           /\ Place(t, k) \in DOMAIN Following => Place(t, Onward(t, k)) = Following[Place(t, k)]
           /\ Place(t, k) = "idle" => Place(t, Onward(t, k)) = First[t]
<1> DEFINE m == Onward(t, k)
<1>1. Len(Route[t]) \in Nat \ {0}
  BY DEF Threads, Route, Notifier, Worker, Painter, Consumer
<1>2. (k.at % Len(Route[t])) + 1 \in 1 .. Len(Route[t])
  BY <1>1
<1>3. /\ m \in Works /\ m.at = (k.at % Len(Route[t])) + 1
      /\ m = [k EXCEPT !.at = m.at, !.slot = 0]
  <2> DEFINE a == (k.at % Len(Route[t])) + 1
  <2>1. a \in Nat
    BY <1>2
  <2>2. m = [k EXCEPT !.at = a, !.slot = 0]
    BY DEF Onward
  <2> HIDE DEF a, m
  <2>3. m \in Works /\ m.at = a
    BY <2>1, <2>2 DEF Works
  <2> QED
    BY <2>2, <2>3 DEF a
<1>4. /\ Place(t, k) \in DOMAIN Following => Place(t, m) = Following[Place(t, k)]
      /\ Place(t, k) = "idle" => Place(t, m) = First[t]
  <2>1. CASE t = "notifier"
    <3>1. k.at \in {1, 2, 3, 4}
      BY <2>1 DEF Route, Notifier
    <3> QED
      BY <3>1, <2>1, <1>3 DEF Place, Route, Notifier, Following, First
  <2>2. CASE t = "worker"
    <3>1. k.at \in {1, 2, 3, 4, 5}
      BY <2>2 DEF Route, Worker
    <3> QED
      BY <3>1, <2>2, <1>3 DEF Place, Route, Worker, Following, First
  <2>3. CASE t = "painter"
    <3>1. k.at \in {1, 2, 3, 4, 5, 6, 7, 8, 9, 10}
      BY <2>3 DEF Route, Painter
    <3> QED
      BY <3>1, <2>3, <1>3 DEF Place, Route, Painter, Following, First
  <2>4. CASE t = "consumer"
    <3>1. k.at \in {1, 2, 3, 4, 5, 6, 7, 8, 9}
      BY <2>4 DEF Route, Consumer
    <3> QED
      BY <3>1, <2>4, <1>3 DEF Place, Route, Consumer, Following, First
  <2> QED
    BY <2>1, <2>2, <2>3, <2>4 DEF Threads
<1> QED
  BY <1>2, <1>3, <1>4

-----------------------------------------------------------------------------
(* What every step leaves as it was. *)

\* Of an event only the magic word is still to come.
Kept(e, f) ==
    /\ f.kind = e.kind /\ f.parent = e.parent /\ f.origin = e.origin /\ f.refer = e.refer
    /\ f.node = e.node /\ f.revision = e.revision /\ f.issued = e.issued
    /\ f.active = e.active /\ f.entry = e.entry /\ f.cause = e.cause
    /\ f.touched = e.touched
    /\ e.published => f.published

Grows ==
    \A j \in Names6 : \A i \in DOMAIN journals[j].log :
        i \in DOMAIN journals'[j].log /\ Kept(journals[j].log[i], journals'[j].log[i])

NoNews == \A j \in Names6 : DOMAIN journals'[j].log = DOMAIN journals[j].log

Ahead ==
    /\ clock = FAULT => clock' = FAULT
    /\ clock # FAULT /\ clock' # FAULT => clock' >= clock
    /\ scopes'.issued >= scopes.issued
    /\ scopes.fault => scopes'.fault

LEMMA JournalNames ==
    /\ \A kind \in Kinds : JournalOf(kind) \in Names6
    /\ \A kind \in Kinds \ Roots : ParentOf(kind) \in Kinds
    /\ \A kind \in Roots : kind \in Kinds /\ ParentOf(kind) = "none"
BY KindTable, ParentTable, SMTT(20) DEF Kinds, Roots, Names6

(* A ticket keeps its event, and what the event is worth.                   *)
LEMMA TicketsKeep ==
    ASSUME TypeOK, TypeOK', Grows, NEW kind \in Kinds, NEW i
    PROVE  /\ Listed(kind, i) => Listed(kind, i)' /\ Kept(Event(kind, i), Event(kind, i)')
           /\ Names(kind, i) => Names(kind, i)'
           /\ \A cause : Good(kind, i, cause) => Good(kind, i, cause)'
<1>1. JournalOf(kind) \in Names6
  BY JournalNames
<1>2. ASSUME Listed(kind, i)
      PROVE  Listed(kind, i)' /\ Kept(Event(kind, i), Event(kind, i)')
  <2>1. /\ i \in DOMAIN journals'[JournalOf(kind)].log
        /\ Kept(journals[JournalOf(kind)].log[i], journals'[JournalOf(kind)].log[i])
    BY <1>1, <1>2 DEF Grows, Listed
  <2> QED
    BY <2>1, <1>2 DEF Listed, Event, Kept
<1>3. Names(kind, i) => Names(kind, i)'
  BY <1>2 DEF Names, Listed, Kept
<1>4. \A cause : Good(kind, i, cause) => Good(kind, i, cause)'
  BY <1>2, <1>3 DEF Good, Names, Listed, Kept
<1> QED
  BY <1>2, <1>3, <1>4

LEMMA EventTyped ==
    ASSUME TypeOK, NEW kind \in Kinds, NEW i, Listed(kind, i)
    PROVE  Event(kind, i) \in Events /\ i \in Nat \ {0}
<1>1. journals[JournalOf(kind)] \in Journals
  BY JournalNames DEF TypeOK
<1>2. journals[JournalOf(kind)].log \in Seq(Events)
  BY <1>1 DEF Journals
<1> QED
  BY <1>2 DEF Listed, Event

(* What has been disturbed stays so: no word goes back.                     *)
LEMMA MarksKeep ==
    ASSUME TypeOK, TypeOK', Grows, Ahead, NEW o, NEW n \in Nat, Listed("BIRTH", o), Disturbed(o, n)
    PROVE  Disturbed(o, n)'
<1>1. Kept(Event("BIRTH", o), Event("BIRTH", o)')
  BY TicketsKeep DEF Kinds
<1>2. Event("BIRTH", o) \in Events
  BY EventTyped DEF Kinds
<1>3. Event("BIRTH", o).revision \in Int /\ Event("BIRTH", o).issued \in Nat
  BY <1>2 DEF Events, FAULT
<1>4. /\ clock \in Int /\ clock' \in Int /\ scopes.issued \in Nat /\ scopes'.issued \in Nat
  BY DEF TypeOK, FAULT
<1> QED
  BY <1>1, <1>3, <1>4, SMTT(20) DEF Disturbed, Kept, Ahead

(* An event that was in order stays so.                                     *)
LEMMA EventsKeep ==
    ASSUME TypeOK, TypeOK', Grows, Ahead, NEW j, NEW i,
           NEW e \in Events, NEW f \in Events, Kept(e, f), EventFits(j, i, e)
    PROVE  EventFits(j, i, f)'
<1>1. e.kind \in Kinds /\ f.kind = e.kind
  BY DEF Events, Kept
<1>2. ASSUME e.kind \notin Roots PROVE Descends(i, f)'
  <2> DEFINE pk == ParentOf(e.kind)
  <2>1. pk \in Kinds
    BY <1>1, <1>2, JournalNames
  <2>2. Descends(i, e)
    BY <1>2 DEF EventFits
  <2>3. Names(pk, e.parent)
    BY <2>2 DEF Descends
  <2>4. Listed(pk, e.parent)
    BY <2>3 DEF Names, Listed
  <2>5. Names(pk, e.parent)' /\ Kept(Event(pk, e.parent), Event(pk, e.parent)')
    BY <2>1, <2>3, <2>4, TicketsKeep
  <2> QED
    BY <1>1, <2>2, <2>5 DEF Descends, Kept
<1>3. e.kind \in RequestKinds => Listed("BIRTH", f.origin)'
  <2>1. "BIRTH" \in Kinds
    BY DEF Kinds
  <2>2. e.kind \in RequestKinds => Listed("BIRTH", e.origin)
    BY DEF EventFits
  <2> QED
    BY <2>1, <2>2, TicketsKeep DEF Kept
<1>4. Sampled(f)'
  <2>1. Sampled(e)
    BY DEF EventFits
  <2>2. f.revision = e.revision /\ f.issued = e.issued /\ e.issued \in Nat
    BY DEF Kept, Events
  <2>3. clock \in Int /\ clock' \in Int /\ scopes.issued \in Nat /\ scopes'.issued \in Nat
    BY DEF TypeOK, FAULT
  <2> QED
    BY <1>1, <2>1, <2>2, <2>3 DEF Sampled, Ahead
<1>5. RefersWell(f)'
  <2>1. e.kind = "BIRTH_LINK" => Names("BIRTH", f.refer)'
    BY TicketsKeep DEF EventFits, RefersWell, Kept, Kinds
  <2>2. ASSUME e.kind = "RENDER"
        PROVE  /\ Names("ROOT", f.refer)'
               /\ Kept(Event("ROOT", e.refer), Event("ROOT", e.refer)')
               /\ Kept(Event("OUTER", e.parent), Event("OUTER", e.parent)')
               /\ Kept(Event("BIRTH", e.origin), Event("BIRTH", e.origin)')
    <3>1. Names("ROOT", e.refer)
      BY <2>2 DEF EventFits, RefersWell
    <3>2. Names("OUTER", e.parent)
      BY <2>2, ParentTable DEF EventFits, Descends, Roots
    <3>3. Listed("BIRTH", e.origin)
      BY <2>2 DEF EventFits, RequestKinds
    <3>4. Listed("ROOT", e.refer) /\ Listed("OUTER", e.parent)
      BY <3>1, <3>2 DEF Names, Listed
    <3> QED
      BY <3>1, <3>3, <3>4, TicketsKeep DEF Kinds, Kept
  <2> QED
    BY <1>1, <2>1, <2>2 DEF EventFits, RefersWell, Kept
<1> QED
  BY <1>1, <1>2, <1>3, <1>4, <1>5 DEF EventFits, Kept

(* So only what is new has to be looked at.                                 *)
LEMMA OldEventsFit ==
    ASSUME TypeOK, TypeOK', EventsFit, Grows, Ahead,
           NEW j \in Names6, NEW i \in DOMAIN journals[j].log,
           NEW f \in Events, f = journals'[j].log[i]
    PROVE  EventFits(j, i, f)'
<1>1. journals[j].log[i] \in Events
  BY DEF TypeOK, Journals
<1>2. PICK e \in Events : e = journals[j].log[i]
  BY <1>1
<1>3. EventFits(j, i, e) /\ Kept(e, f)
  BY <1>2 DEF EventsFit, Grows
<1> QED
  BY <1>3, EventsKeep

-----------------------------------------------------------------------------
(* Validation: what a hook knows when it reserves. *)

LEMMA BoundNames ==
    ASSUME NEW k, NEW kind \in Kinds, Bound(k, kind)
    PROVE  /\ kind \notin Roots => Names(ParentOf(kind), Parent(k, kind))
           /\ kind \in {"BORROW", "HELPER", "CALLBACK"} =>
                 Event(ParentOf(kind), Parent(k, kind)).node = k.node
           /\ kind = "BIRTH_LINK" => Names("BIRTH", k.token)
           /\ kind = "RENDER" => Names("ROOT", k.root)
           /\ JournalOf(kind) \in Sampling => Clocked
<1> USE KindTable, ParentTable
<1>1. CASE kind \in {"SOURCE", "DELIVERY", "EXPLORER", "PAINT", "PAINT_DELIVERY", "BIRTH_LINK"}
  <2>1. JournalOf(kind) = "action" /\ ActionBound(k, kind)
    BY <1>1 DEF Bound
  <2>2. kind # "SOURCE" => Names(ParentOf(kind), Parent(k, kind))
    BY <1>1, <2>1 DEF ActionBound, ActionKinds, ValidAction, Parent
  <2>3. kind = "BIRTH_LINK" => Names("BIRTH", k.token)
    BY <2>1 DEF ActionBound, ValidBirth
  <2> QED
    BY <1>1, <2>1, <2>2, <2>3 DEF Roots, Sampling
<1>2. CASE kind \in {"BIRTH", "ENQUEUE_BEGIN", "RETURN"}
  <2>1. JournalOf(kind) = "birth" /\ BirthBound(k, kind)
    BY <1>2 DEF Bound
  <2>2. kind # "BIRTH" => Names(ParentOf(kind), Parent(k, kind))
    BY <1>2, <2>1 DEF BirthBound, BirthKinds, ValidBirth, Parent
  <2> QED
    BY <1>2, <2>1, <2>2 DEF Roots, Sampling, BirthBound
<1>3. CASE kind \in {"INSTALL", "BORROW", "HELPER", "CALLBACK"}
  <2>1. JournalOf(kind) = "transport" /\ TransportBound(k, kind)
    BY <1>3 DEF Bound
  <2>2. Names(ParentOf(kind), Parent(k, kind))
    BY <1>3, <2>1 DEF TransportBound, TransportKinds, ValidBirth, ValidTransport, Parent
  <2>3. kind # "INSTALL" => Event(ParentOf(kind), Parent(k, kind)).node = k.node
    BY <1>3, <2>1 DEF TransportBound, TransportKinds, Parent
  <2> QED
    BY <1>3, <2>1, <2>2, <2>3 DEF Roots, Sampling, TransportBound
<1>4. CASE kind \in {"OUTER", "RENDER"}
  <2>1. JournalOf(kind) = "renderer" /\ RendererBound(k, kind)
    BY <1>4 DEF Bound
  <2>2. Names(ParentOf(kind), Parent(k, kind)) /\ (kind = "RENDER" => Names("ROOT", k.root))
    BY <1>4, <2>1 DEF RendererBound, ValidTransport, ValidRenderer, Parent
  <2> QED
    BY <1>4, <2>1, <2>2 DEF Roots, Sampling, RendererBound
<1>5. CASE kind \in {"DISPATCH", "ROOT"}
  BY <1>5 DEF Roots, Sampling
<1> QED
  BY <1>1, <1>2, <1>3, <1>4, <1>5 DEF Kinds

(* The place of a thread is a hook or a step of its stock code.             *)
LEMMA PlaceIsAt ==
    ASSUME NEW t \in Threads
    PROVE  Place(t, thread[t]) = At(t)
BY DEF Place, At

LEMMA HookKind ==
    ASSUME TypeOK, NEW t \in Threads, AtHook(t)
    PROVE  At(t) \in Kinds
<1>1. thread[t].at \in 1 .. Len(Route[t])
  BY DEF TypeOK
<1> QED
  BY <1>1, Places, PlaceIsAt, KindTable DEF AtHook, Kinds, Threads

LEMMA NewEventTyped ==
    ASSUME TypeOK, NEW k \in Works, NEW kind \in Kinds, Bound(k, kind), NEW i \in Nat
    PROVE  NewEvent(k, kind, i) \in Events
<1>1. Parent(k, kind) \in Nat
  BY DEF Parent, Works
<1>2. Origin(k, kind, i) \in Nat
  <2>1. CASE kind \in Roots
    BY <2>1, JournalNames DEF Origin
  <2>2. CASE kind \notin Roots
    <3>1. Listed(ParentOf(kind), Parent(k, kind)) /\ ParentOf(kind) \in Kinds
      BY <2>2, BoundNames, JournalNames DEF Names, Listed
    <3>2. Event(ParentOf(kind), Parent(k, kind)).origin \in Nat
      BY <3>1, EventTyped DEF Events
    <3> QED
      BY <2>2, <3>2 DEF Origin
  <2> QED
    BY <2>1, <2>2
<1>3. (CASE kind = "BIRTH_LINK" -> k.token [] kind = "RENDER" -> k.root [] OTHER -> 0) \in Nat
  BY DEF Works
<1>4. Touches(k, kind) \in BOOLEAN
  <2>1. k.touched \in BOOLEAN /\ (scopes.active > 0) \in BOOLEAN
    BY DEF Works
  <2> QED
    BY <2>1 DEF Touches
<1>5. /\ k.node \in Addresses /\ k.entry \in Nat /\ k.cause \in Nat
      /\ clock \in Nat \cup {FAULT} /\ scopes.issued \in Nat /\ scopes.active \in Nat
  BY DEF Works, TypeOK
<1> QED
  BY <1>1, <1>2, <1>3, <1>4, <1>5 DEF NewEvent, Events, Addresses

-----------------------------------------------------------------------------
(* How a step of a hook changes the journals. *)

LEMMA JournalOps ==
    ASSUME NEW J \in Journals, NEW e \in Events
    PROVE  /\ Reserved(J, e) \in Journals
           /\ Reserved(J, e).log = Append(J.log, e)
           /\ Invalidated(J) \in Journals /\ Invalidated(J).log = J.log
           /\ \A i \in DOMAIN J.log :
                /\ Published(J, i, e) \in Journals
                /\ DOMAIN Published(J, i, e).log = DOMAIN J.log
                /\ Published(J, i, e).log[i] = e
                /\ \A n \in DOMAIN J.log \ {i} : Published(J, i, e).log[n] = J.log[n]
<1>1. J.log \in Seq(Events) /\ J.fault \in BOOLEAN /\ J = [log |-> J.log, fault |-> J.fault]
  BY DEF Journals
<1>2. Append(J.log, e) \in Seq(Events)
  BY <1>1
<1>3. /\ Reserved(J, e) \in Journals
      /\ Reserved(J, e).log = Append(J.log, e)
  BY <1>1, <1>2 DEF Reserved, Journals
<1>4. Invalidated(J) \in Journals /\ Invalidated(J).log = J.log
  BY <1>1 DEF Invalidated, Journals
<1>5. ASSUME NEW i \in DOMAIN J.log
      PROVE  /\ Published(J, i, e) \in Journals
             /\ Published(J, i, e).log = [J.log EXCEPT ![i] = e]
  <2>1. [J.log EXCEPT ![i] = e] \in Seq(Events)
    BY <1>1
  <2>2. Published(J, i, e) = [log |-> [J.log EXCEPT ![i] = e], fault |-> J.fault]
    BY <1>1 DEF Published
  <2> QED
    BY <1>1, <2>1, <2>2 DEF Journals
<1> QED
  BY <1>3, <1>4, <1>5

(* A reservation: one event more, at the end.                               *)
LEMMA ReserveGrows ==
    ASSUME TypeOK, NEW j \in Names6, NEW e \in Events,
           journals' = [journals EXCEPT ![j] = Reserved(@, e)]
    PROVE  /\ journals' \in [Names6 -> Journals]
           /\ Grows
           /\ DOMAIN journals'[j].log = DOMAIN journals[j].log \cup {Len(journals[j].log) + 1}
           /\ journals'[j].log[Len(journals[j].log) + 1] = e
           /\ Len(journals[j].log) + 1 \notin DOMAIN journals[j].log
           /\ \A m \in Names6 \ {j} : journals'[m] = journals[m]
           /\ \A i \in DOMAIN journals[j].log : journals'[j].log[i] = journals[j].log[i]
<1>1. journals \in [Names6 -> Journals] /\ journals[j] \in Journals
  BY DEF TypeOK
<1>2. journals'[j] = Reserved(journals[j], e) /\ \A m \in Names6 \ {j} : journals'[m] = journals[m]
  BY <1>1
<1>3. journals'[j].log = Append(journals[j].log, e) /\ journals'[j] \in Journals
  BY <1>1, <1>2, JournalOps
<1>4. journals[j].log \in Seq(Events)
  BY <1>1 DEF Journals
<1>5. /\ DOMAIN journals'[j].log = DOMAIN journals[j].log \cup {Len(journals[j].log) + 1}
      /\ journals'[j].log[Len(journals[j].log) + 1] = e
      /\ Len(journals[j].log) + 1 \notin DOMAIN journals[j].log
      /\ \A i \in DOMAIN journals[j].log : journals'[j].log[i] = journals[j].log[i]
  BY <1>3, <1>4, SMTT(30)
<1>6. Grows
  BY <1>2, <1>5 DEF Grows, Kept
<1> QED
  BY <1>1, <1>2, <1>3, <1>5, <1>6

(* A publication: the magic word, and nothing else.                         *)
LEMMA PublishGrows ==
    ASSUME TypeOK, NEW j \in Names6, NEW i \in DOMAIN journals[j].log,
           journals' = [journals EXCEPT ![j] =
               Published(@, i, [@.log[i] EXCEPT !.published = TRUE])]
    PROVE  /\ journals' \in [Names6 -> Journals]
           /\ Grows /\ NoNews
           /\ journals'[j].log[i] = [journals[j].log[i] EXCEPT !.published = TRUE]
<1> DEFINE e == [journals[j].log[i] EXCEPT !.published = TRUE]
<1>1. journals \in [Names6 -> Journals] /\ journals[j] \in Journals
  BY DEF TypeOK
<1>2. journals[j].log[i] \in Events
  BY <1>1 DEF Journals
<1>3. e \in Events /\ Kept(journals[j].log[i], e)
  BY <1>2 DEF Events, Kept
<1>4. journals'[j] = Published(journals[j], i, e) /\ \A m \in Names6 \ {j} : journals'[m] = journals[m]
  BY <1>1
<1>5. /\ journals'[j] \in Journals
      /\ DOMAIN journals'[j].log = DOMAIN journals[j].log
      /\ journals'[j].log[i] = e
      /\ \A n \in DOMAIN journals[j].log \ {i} : journals'[j].log[n] = journals[j].log[n]
  <2> HIDE DEF e
  <2>1. /\ Published(journals[j], i, e) \in Journals
        /\ DOMAIN Published(journals[j], i, e).log = DOMAIN journals[j].log
        /\ Published(journals[j], i, e).log[i] = e
        /\ \A n \in DOMAIN journals[j].log \ {i} :
              Published(journals[j], i, e).log[n] = journals[j].log[n]
    BY <1>1, <1>3, JournalOps
  <2> QED
    BY <1>4, <2>1
<1>6. Grows
  <2>1. ASSUME NEW m \in Names6, NEW n \in DOMAIN journals[m].log
        PROVE  n \in DOMAIN journals'[m].log /\ Kept(journals[m].log[n], journals'[m].log[n])
    <3>1. CASE m = j /\ n = i
      BY <3>1, <1>3, <1>5
    <3>2. CASE ~(m = j /\ n = i)
      BY <3>2, <1>4, <1>5 DEF Kept
    <3> QED
      BY <3>1, <3>2
  <2> QED
    BY <2>1 DEF Grows
<1>7. NoNews
  BY <1>4, <1>5 DEF NoNews
<1> QED
  BY <1>1, <1>4, <1>5, <1>6, <1>7

(* A fault leaves every event where it is.                                  *)
LEMMA InvalidateGrows ==
    ASSUME TypeOK, NEW j \in Names6,
           journals' = [journals EXCEPT ![j] = Invalidated(@)]
    PROVE  /\ journals' \in [Names6 -> Journals]
           /\ Grows /\ NoNews
<1>1. journals \in [Names6 -> Journals] /\ journals[j] \in Journals
  BY DEF TypeOK
<1>2. journals'[j] = Invalidated(journals[j]) /\ \A m \in Names6 \ {j} : journals'[m] = journals[m]
  BY <1>1
<1>3. Invalidated(journals[j]) \in Journals /\ Invalidated(journals[j]).log = journals[j].log
  <2>1. journals[j].log \in Seq(Events) /\ journals[j].fault \in BOOLEAN
        /\ journals[j] = [log |-> journals[j].log, fault |-> journals[j].fault]
    BY <1>1 DEF Journals
  <2> QED
    BY <2>1 DEF Invalidated, Journals
<1>4. \A m \in Names6 : journals'[m] \in Journals /\ journals'[m].log = journals[m].log
  BY <1>1, <1>2, <1>3
<1> QED
  BY <1>1, <1>4 DEF Grows, NoNews, Kept

LEMMA StillGrows ==
    ASSUME UNCHANGED journals
    PROVE  Grows /\ NoNews
BY DEF Grows, NoNews, Kept

-----------------------------------------------------------------------------
(* A thread that goes on, and those that stay. *)

LEMMA MovesOn ==
    ASSUME TypeOK, NEW t \in Threads, NEW m \in Works, m.at = thread[t].at,
           thread' = [thread EXCEPT ![t] = Onward(t, m)]
    PROVE  /\ thread' \in [Threads -> Works]
           /\ \A u \in Threads : thread'[u].at \in 1 .. Len(Route[u])
           /\ \A u \in Threads \ {t} : thread'[u] = thread[u]
           /\ thread'[t] = [m EXCEPT !.at = thread'[t].at, !.slot = 0]
           /\ Place(t, m) = At(t)
           /\ At(t) \in DOMAIN Following => Place(t, thread'[t]) = Following[At(t)]
           /\ At(t) = "idle" => Place(t, thread'[t]) = First[t]
<1>1. thread \in [Threads -> Works] /\ \A u \in Threads : thread[u].at \in 1 .. Len(Route[u])
  BY DEF TypeOK
<1>2. thread'[t] = Onward(t, m) /\ \A u \in Threads \ {t} : thread'[u] = thread[u]
  BY <1>1
<1>3. Place(t, m) = At(t)
  BY DEF Place, At
<1>4. m.at \in 1 .. Len(Route[t])
  BY <1>1
<1>5. /\ thread'[t] \in Works /\ thread'[t].at \in 1 .. Len(Route[t])
      /\ thread'[t] = [m EXCEPT !.at = thread'[t].at, !.slot = 0]
      /\ At(t) \in DOMAIN Following => Place(t, thread'[t]) = Following[At(t)]
      /\ At(t) = "idle" => Place(t, thread'[t]) = First[t]
  <2> DEFINE o == Onward(t, m)
  <2>1. /\ o \in Works /\ o.at \in 1 .. Len(Route[t])
        /\ o = [m EXCEPT !.at = o.at, !.slot = 0]
        /\ Place(t, m) \in DOMAIN Following => Place(t, o) = Following[Place(t, m)]
        /\ Place(t, m) = "idle" => Place(t, o) = First[t]
    BY <1>4, OnwardGoes
  <2>2. thread'[t] = o
    BY <1>2
  <2> HIDE DEF o
  <2> QED
    BY <2>1, <2>2, <1>3
<1>6. DOMAIN thread' = Threads
  BY <1>1
<1> QED
  BY <1>1, <1>2, <1>3, <1>5, <1>6

(* The birth that a ticket of a request goes back to.                       *)
LEMMA OriginsKeep ==
    ASSUME TypeOK, TypeOK', EventsFit, Grows, Ahead,
           NEW kind \in RequestKinds, NEW i, Listed(kind, i)
    PROVE  /\ Event(kind, i).origin \in Nat
           /\ Listed("BIRTH", Event(kind, i).origin)
           /\ Kept(Event(kind, i), Event(kind, i)')
           /\ Kept(Event("BIRTH", Event(kind, i).origin), Event("BIRTH", Event(kind, i).origin)')
           /\ \A touched : \A n \in Nat :
                 Marked(kind, i, touched, n) => Marked(kind, i, touched, n)'
<1>1. kind \in Kinds /\ JournalOf(kind) \in Names6 /\ "BIRTH" \in Kinds
  BY JournalNames DEF RequestKinds, Kinds
<1>2. Event(kind, i) \in Events
  BY <1>1, EventTyped
<1>3. PICK o \in Nat : o = Event(kind, i).origin
  BY <1>2 DEF Events
<1>4. Listed("BIRTH", o)
  BY <1>1, <1>2, <1>3 DEF EventsFit, EventFits, Listed, Event
<1>5. Kept(Event(kind, i), Event(kind, i)')
  BY <1>1, TicketsKeep
<1>6. Kept(Event("BIRTH", o), Event("BIRTH", o)')
  BY <1>1, <1>4, TicketsKeep
<1>7. Event(kind, i)'.origin = o
  BY <1>3, <1>5 DEF Kept
<1>8. ASSUME NEW touched, NEW n \in Nat, Marked(kind, i, touched, n)
      PROVE  Marked(kind, i, touched, n)'
  <2>1. ASSUME touched PROVE Disturbed(o, n)'
    BY <2>1, <1>3, <1>4, <1>8, MarksKeep DEF Marked
  <2> QED
    BY <2>1, <1>7 DEF Marked
<1> QED
  BY <1>3, <1>4, <1>5, <1>6, <1>7, <1>8 DEF Event

(* Whoever stays finds his tickets as good as they were.                    *)
LEMMA WorkKeeps ==
    ASSUME TypeOK, TypeOK', EventsFit, Grows, Ahead, NEW place, NEW k \in Works,
           TokenFits(place, k), EntryFits(place, k), LinkFits(place, k)
    PROVE  TokenFits(place, k)' /\ EntryFits(place, k)' /\ LinkFits(place, k)'
<1>1. TokenFits(place, k)'
  <2> SUFFICES ASSUME place \in DOMAIN Held, k.token # 0
               PROVE  /\ Good(Held[place], k.token, k.cause)'
                      /\ Held[place] \in RequestKinds =>
                            Marked(Held[place], k.token, k.touched, Steps(place))'
    BY DEF TokenFits, Steps
  <2>1. Good(Held[place], k.token, k.cause) /\ Held[place] \in Kinds
    BY DEF TokenFits, Held, Kinds
  <2>2. Good(Held[place], k.token, k.cause)'
    BY <2>1, TicketsKeep
  <2>3. Listed(Held[place], k.token) /\ Steps(place) \in Nat
    BY <2>1 DEF Good, Names, Listed, Steps
  <2> QED
    BY <2>2, <2>3, OriginsKeep DEF TokenFits
<1>2. EntryFits(place, k)'
  <2> SUFFICES ASSUME place \in Entered PROVE EntryFits(place, k)'
    BY DEF EntryFits
  <2>1. clock' # FAULT => clock # FAULT /\ clock' >= clock
    BY DEF Ahead
  <2>2. clock \in Int /\ clock' \in Int /\ k.entry \in Nat
    BY DEF TypeOK, FAULT, Works
  <2>3. clock' # FAULT => k.entry <= clock'
    BY <2>1, <2>2 DEF EntryFits
  <2>4. ASSUME k.token # 0
        PROVE  /\ k.entry # 0 => k.entry >= Event("OUTER", k.token)'.revision
               /\ clock' # FAULT => clock' > Event("BIRTH", Event("OUTER", k.token).origin)'.revision
    <3>1. Good("OUTER", k.token, k.cause)
      BY <2>4 DEF TokenFits, Held, Entered
    <3>2. Listed("OUTER", k.token)
      BY <3>1 DEF Good, Names, Listed
    <3>3. PICK o \in Nat : o = Event("OUTER", k.token).origin
      BY <3>2, OriginsKeep DEF RequestKinds
    <3>4. /\ Event("OUTER", k.token)'.revision = Event("OUTER", k.token).revision
          /\ Event("OUTER", k.token)'.origin = o
          /\ Listed("BIRTH", o)
          /\ Event("BIRTH", o)'.revision = Event("BIRTH", o).revision
      BY <3>2, <3>3, OriginsKeep DEF RequestKinds, Kept
    <3>5. Event("BIRTH", o).revision \in Int
      BY <3>4, EventTyped DEF Kinds, Events, FAULT
    <3>6. Event("BIRTH", Event("OUTER", k.token).origin)' = Event("BIRTH", o)'
      BY <3>4 DEF Event
    <3>7. k.entry # 0 => k.entry >= Event("OUTER", k.token)'.revision
      BY <2>4, <3>4 DEF EntryFits
    <3>8. clock # FAULT => clock > Event("BIRTH", o).revision
      BY <2>4, <3>3 DEF EntryFits
    <3>9. clock' # FAULT => clock' > Event("BIRTH", o)'.revision
      BY <2>1, <2>2, <3>4, <3>5, <3>8
    <3> QED
      BY <3>6, <3>7, <3>9
  <2>5. place = "RENDER" /\ k.root # 0 =>
            Names("ROOT", k.root)' /\ Event("ROOT", k.root)'.entry = k.entry
    <3>1. "ROOT" \in Kinds
      BY DEF Kinds
    <3> QED
      BY <3>1, TicketsKeep DEF EntryFits, Names, Listed, Kept
  <2> QED
    BY <2>3, <2>4, <2>5 DEF EntryFits
<1>3. LinkFits(place, k)'
  BY TicketsKeep DEF LinkFits, Kinds
<1> QED
  BY <1>1, <1>2, <1>3

(* What is left alone by a step that reserves nothing.                      *)
LEMMA OnceKeeps ==
    ASSUME TypeOK, TypeOK', Grows, NoNews
    PROVE  /\ \A kind \in Kinds : \A field \in {"refer", "parent"} : \A i :
                 Unused(kind, field, i) => Unused(kind, field, i)'
           /\ \A kind \in Kinds : ReferredOnce(kind) => ReferredOnce(kind)'
           /\ ReturnsInOrder => ReturnsInOrder'
<1>1. ASSUME NEW kind \in Kinds, NEW i \in DOMAIN journals'[JournalOf(kind)].log
      PROVE  /\ i \in DOMAIN journals[JournalOf(kind)].log
             /\ Event(kind, i)'.kind = Event(kind, i).kind
             /\ Event(kind, i)'.refer = Event(kind, i).refer
             /\ Event(kind, i)'.parent = Event(kind, i).parent
  BY JournalNames DEF NoNews, Grows, Kept, Event
<1>2. ASSUME NEW kind \in Kinds, NEW field \in {"refer", "parent"}, NEW i, Unused(kind, field, i)
      PROVE  Unused(kind, field, i)'
  <2>1. CASE field = "refer"
    BY <2>1, <1>1, <1>2 DEF Unused
  <2>2. CASE field = "parent"
    BY <2>2, <1>1, <1>2 DEF Unused
  <2> QED
    BY <2>1, <2>2
<1>3. ASSUME NEW kind \in Kinds, ReferredOnce(kind)
      PROVE  ReferredOnce(kind)'
  BY <1>1, <1>3 DEF ReferredOnce
<1>4. ASSUME ReturnsInOrder PROVE ReturnsInOrder'
  <2> SUFFICES ASSUME NEW r \in DOMAIN journals'["birth"].log,
                      NEW i \in DOMAIN journals'["transport"].log,
                      journals'["birth"].log[r].kind = "RETURN",
                      journals'["transport"].log[i].kind = "INSTALL",
                      journals'["birth"].log[r].parent = journals'["transport"].log[i].parent
               PROVE  /\ journals'["birth"].log[r].revision >= journals'["transport"].log[i].revision
                      /\ journals'["birth"].log[r].issued >= journals'["transport"].log[i].issued
    BY DEF ReturnsInOrder
  <2>1. /\ r \in DOMAIN journals["birth"].log /\ i \in DOMAIN journals["transport"].log
        /\ Kept(journals["birth"].log[r], journals'["birth"].log[r])
        /\ Kept(journals["transport"].log[i], journals'["transport"].log[i])
    BY DEF NoNews, Grows, Names6
  <2> QED
    BY <2>1, <1>4 DEF ReturnsInOrder, Kept
<1> QED
  BY <1>2, <1>3, <1>4

(* A slot stays its owner's until he publishes it.                          *)
LEMMA SlotKeeps ==
    ASSUME TypeOK, TypeOK', EventsFit, Grows, Ahead, NEW place, NEW k \in Works,
           SlotFits(place, k), k.slot # 0 => ~Event(place, k.slot)'.published
    PROVE  SlotFits(place, k)'
<1> SUFFICES ASSUME k.slot # 0 PROVE SlotFits(place, k)'
  BY DEF SlotFits
<1>1. Listed(place, k.slot) /\ place \in Kinds
  BY DEF SlotFits
<1>2. Listed(place, k.slot)' /\ Kept(Event(place, k.slot), Event(place, k.slot)')
  BY <1>1, TicketsKeep
<1>3. place = "BIRTH" => Marked("BIRTH", k.slot, k.touched, 0)'
  BY <1>1, OriginsKeep DEF SlotFits, RequestKinds
<1> QED
  BY <1>1, <1>2, <1>3 DEF SlotFits, Kept

LEMMA TailKeeps ==
    ASSUME TypeOK, TypeOK', EventsFit, Grows, Ahead, NEW i, NEW b, TailFits(i, b)
    PROVE  TailFits(i, b)'
<1> SUFFICES ASSUME i # 0 PROVE Good("INSTALL", i, b.cause)' /\ Marked("INSTALL", i, b.touched, 0)'
  BY DEF TailFits
<1>1. Good("INSTALL", i, b.cause) /\ Marked("INSTALL", i, b.touched, 0) /\ Listed("INSTALL", i)
  BY DEF TailFits, Good, Names, Listed
<1> QED
  BY <1>1, TicketsKeep, OriginsKeep DEF Kinds, RequestKinds

LEMMA ListsKeep ==
    ASSUME TypeOK, TypeOK', Grows, ListsFit, UNCHANGED <<actions, paints>>
    PROVE  ListsFit'
BY TicketsKeep DEF ListsFit, Kinds

(* No parent and no reference names a slot that is not published.           *)
LEMMA UnpublishedIsUnused ==
    ASSUME TypeOK, EventsFit, NEW i
    PROVE  /\ ~Names("BIRTH", i) => Unused("BIRTH_LINK", "refer", i)
           /\ ~Names("ROOT", i) => Unused("RENDER", "refer", i)
           /\ ~Names("ENQUEUE_BEGIN", i) => Unused("RETURN", "parent", i)
<1>1. ASSUME NEW kind \in Kinds, NEW n \in DOMAIN journals[JournalOf(kind)].log
      PROVE  EventFits(JournalOf(kind), n, Event(kind, n))
  <2>1. JournalOf(kind) \in Names6
    BY JournalNames
  <2>2. Event(kind, n) \in Events
    BY <2>1 DEF TypeOK, Journals, Event
  <2> QED
    BY <2>1, <2>2 DEF EventsFit, Event
<1>2. ~Names("BIRTH", i) => Unused("BIRTH_LINK", "refer", i)
  BY <1>1 DEF Unused, EventFits, RefersWell, Kinds
<1>3. ~Names("ROOT", i) => Unused("RENDER", "refer", i)
  BY <1>1 DEF Unused, EventFits, RefersWell, Kinds
<1>4. ~Names("ENQUEUE_BEGIN", i) => Unused("RETURN", "parent", i)
  BY <1>1, ParentTable DEF Unused, EventFits, Descends, Kinds, Roots
<1> QED
  BY <1>2, <1>3, <1>4

LEMMA ZeroNamesNothing ==
    ASSUME TypeOK, NEW kind \in Kinds
    PROVE  ~Names(kind, 0) /\ ~Listed(kind, 0)
BY EventTyped DEF Names, Listed

-----------------------------------------------------------------------------
(* What a hook leaves behind. *)

(* A published slot is the ticket that the next hook expects.               *)
LEMMA OwnTicket ==
    ASSUME TypeOK, TypeOK', EventsFit, Grows, Ahead, NEW kind \in Kinds, NEW k \in Works,
           WorkFits(kind, k), k.slot # 0, Names(kind, k.slot)'
    PROVE  /\ Good(kind, k.slot, k.cause)'
           /\ kind \in RequestKinds \ {"RENDER"} => Marked(kind, k.slot, k.touched, 0)'
<1>1. Listed(kind, k.slot) /\ SlotFits(kind, k) /\ JournalOf(kind) \in Names6
  BY JournalNames DEF WorkFits, SlotFits
<1>2. Kept(Event(kind, k.slot), Event(kind, k.slot)')
  BY <1>1, TicketsKeep
<1>3. Good(kind, k.slot, k.cause)'
  BY <1>1, <1>2 DEF Good, SlotFits, Kept
<1>4. ASSUME kind \in RequestKinds \ {"RENDER"} PROVE Marked(kind, k.slot, k.touched, 0)'
  <2>1. CASE kind = "BIRTH"
    BY <2>1, <1>1, <1>4, OriginsKeep DEF SlotFits
  <2>2. CASE kind # "BIRTH"
    <3> DEFINE pk == ParentOf(kind)
    <3>1. /\ kind \notin Roots /\ kind \notin Entered
          /\ kind \in DOMAIN Held /\ Held[kind] = pk /\ Parent(k, kind) = k.token
          /\ pk \in RequestKinds
          /\ (Carries(k, kind) => k.token # 0)
      BY <1>4, <2>2, ParentTable DEF RequestKinds, Roots, Entered, Held, Parent, Carries
    <3>2. Marked(pk, k.token, k.touched, 0)
      BY <1>1, <3>1 DEF WorkFits, TokenFits, SlotFits, Steps
    <3>3. Event(kind, k.slot) \in Events
      BY <1>1, EventTyped
    <3>4. EventFits(JournalOf(kind), k.slot, Event(kind, k.slot))
      BY <1>1, <3>3 DEF EventsFit, Listed, Event
    <3>5. Event(kind, k.slot).origin = Event(pk, k.token).origin
      BY <1>1, <3>1, <3>4 DEF EventFits, Descends, SlotFits, Listed
    <3>6. Marked(kind, k.slot, k.touched, 0)
      BY <3>2, <3>5 DEF Marked
    <3> QED
      BY <1>1, <1>4, <3>6, OriginsKeep
  <2> QED
    BY <2>1, <2>2
<1> QED
  BY <1>3, <1>4

LEMMA LeftFits ==
    ASSUME TypeOK, TypeOK', EventsFit, Grows, Ahead, NEW kind \in Kinds, NEW k \in Works,
           WorkFits(kind, k), NEW result \in Nat,
           result # 0 => result = k.slot /\ Names(kind, result)',
           NEW m \in Works, m = [Left(k, kind, result) EXCEPT !.at = m.at, !.slot = 0],
           NEW place, kind \in DOMAIN Following => place = Following[kind]
    PROVE  WorkFits(place, m)'
<1>1. /\ TokenFits(kind, k)' /\ EntryFits(kind, k)' /\ LinkFits(kind, k)'
  BY WorkKeeps DEF WorkFits
<1>2. /\ m.slot = 0 /\ m.cause = k.cause /\ m.touched = k.touched /\ m.entry = k.entry
      /\ kind \in DOMAIN Following
  BY DEF Left, Works, Kinds, Following
<1>3. SlotFits(place, m)'
  BY <1>2 DEF SlotFits
<1>4. result # 0 => /\ Good(kind, result, k.cause)'
                    /\ kind \in RequestKinds \ {"RENDER"} => Marked(kind, result, k.touched, 0)'
  BY OwnTicket
<1>5. CASE kind \in {"SOURCE", "DELIVERY", "EXPLORER", "PAINT", "BIRTH", "ENQUEUE_BEGIN",
                    "BORROW", "HELPER", "CALLBACK", "OUTER"}
  <2>1. m.token = result /\ m.link = k.link
    BY <1>5 DEF Left, Works
  <2>2. /\ place \in DOMAIN Held /\ Held[place] = kind /\ place \notin Entered
        /\ place = "BIRTH_LINK" => kind = "BIRTH"
        /\ place # "BIRTH" /\ kind # "RENDER"
    BY <1>5, <1>2 DEF Following, Held, Entered
  <2>3. TokenFits(place, m)'
    BY <1>2, <1>4, <2>1, <2>2 DEF TokenFits, Steps
  <2>4. LinkFits(place, m)'
    BY <1>1, <1>2, <2>1, <2>2 DEF LinkFits
  <2> QED
    BY <1>3, <2>2, <2>3, <2>4 DEF WorkFits, EntryFits
<1>6. CASE kind = "PAINT_DELIVERY"
  <2>1. m.link = result /\ place = "BIRTH"
    BY <1>6, <1>2 DEF Left, Works, Following
  <2> QED
    BY <1>2, <1>3, <1>4, <1>6, <2>1 DEF WorkFits, TokenFits, EntryFits, LinkFits, Held, Entered
<1>7. CASE kind = "ROOT"
  <2>1. m.root = result /\ m.token = k.token /\ place = "RENDER"
    BY <1>7, <1>2 DEF Left, Works, Following
  <2>2. TokenFits(place, m)'
    BY <1>1, <1>2, <1>7, <2>1 DEF TokenFits, Held, Steps, Entered
  <2>3. result # 0 => Names("ROOT", result)' /\ Event("ROOT", result)'.entry = k.entry
    <3>1. (Listed("ROOT", k.slot) /\ Event("ROOT", k.slot).entry = k.entry) \/ result = 0
      BY <1>7 DEF WorkFits, SlotFits
    <3> QED
      BY <3>1, <1>7, TicketsKeep DEF Kept
  <2>4. EntryFits(place, m)'
    BY <1>1, <1>2, <1>7, <2>1, <2>3 DEF EntryFits, Entered
  <2> QED
    BY <1>3, <2>1, <2>2, <2>4 DEF WorkFits, LinkFits
<1>8. CASE kind \in {"BIRTH_LINK", "INSTALL"}
  <2>1. m.token = k.token /\ place \in {"ENQUEUE_BEGIN", "append"}
        /\ Held[place] = Held[kind] /\ kind \in DOMAIN Held /\ place \in DOMAIN Held
        /\ Steps(place) = Steps(kind)
    <3>1. m.token = k.token
      BY <1>8 DEF Left, Works
    <3>2. CASE kind = "BIRTH_LINK"
      BY <3>1, <3>2, <1>2 DEF Following, Held, Steps, Entered
    <3>3. CASE kind = "INSTALL"
      BY <3>1, <3>3, <1>2 DEF Following, Held, Steps, Entered
    <3> QED
      BY <3>2, <3>3, <1>8
  <2>2. TokenFits(place, m)'
    BY <1>1, <1>2, <2>1 DEF TokenFits, Steps
  <2> QED
    BY <1>3, <2>1, <2>2 DEF WorkFits, EntryFits, LinkFits, Entered
<1>9. CASE kind \in {"DISPATCH", "RETURN", "RENDER"}
  <2>1. place \in {"SOURCE", "remove", "free"}
    BY <1>9, <1>2 DEF Following
  <2> QED
    BY <1>3, <2>1 DEF WorkFits, TokenFits, EntryFits, LinkFits, Held, Entered
<1> QED
  BY <1>5, <1>6, <1>7, <1>8, <1>9 DEF Kinds

LEMMA LeftNotYet ==
    ASSUME TypeOK, TypeOK', EventsFit, Grows, NoNews, NEW kind \in Kinds, NEW k \in Works,
           SlotFits(kind, k), NotYet(kind, k), NEW result \in Nat, result \in {0, k.slot},
           NEW m \in Works, m = [Left(k, kind, result) EXCEPT !.at = m.at, !.slot = 0],
           NEW place, kind \in DOMAIN Following => place = Following[kind]
    PROVE  NotYet(place, m)'
<1>1. kind \in DOMAIN Following /\ place = Following[kind]
  BY DEF Kinds, Following
<1>2. ~Names(kind, result)
  BY ZeroNamesNothing DEF SlotFits, Names
<1>3. {"BIRTH_LINK", "RENDER", "RETURN"} \subseteq Kinds
  BY DEF Kinds
<1>4. CASE kind = "BIRTH"
  <2>1. place = "BIRTH_LINK" /\ m.token = result
    BY <1>1, <1>4 DEF Following, Left, Works
  <2>2. Unused("BIRTH_LINK", "refer", m.token)'
    BY <1>2, <1>3, <1>4, <2>1, UnpublishedIsUnused, OnceKeeps
  <2> QED
    BY <2>1, <2>2 DEF NotYet
<1>5. CASE kind = "ROOT"
  <2>1. place = "RENDER" /\ m.root = result
    BY <1>1, <1>5 DEF Following, Left, Works
  <2>2. Unused("RENDER", "refer", m.root)'
    BY <1>2, <1>3, <1>5, <2>1, UnpublishedIsUnused, OnceKeeps
  <2> QED
    BY <2>1, <2>2 DEF NotYet
<1>6. CASE kind = "ENQUEUE_BEGIN"
  <2>1. place = "allocate" /\ m.token = result
    BY <1>1, <1>6 DEF Following, Left, Works
  <2>2. Unused("RETURN", "parent", m.token)'
    BY <1>2, <1>3, <1>6, <2>1, UnpublishedIsUnused, OnceKeeps
  <2> QED
    BY <2>1, <2>2 DEF NotYet
<1>7. CASE kind = "INSTALL"
  <2>1. place = "append" /\ m.token = k.token
    BY <1>1, <1>7 DEF Following, Left, Works
  <2>2. Unused("RETURN", "parent", k.token)
    BY <1>7 DEF NotYet
  <2>3. Unused("RETURN", "parent", m.token)'
    BY <1>3, <2>1, <2>2, OnceKeeps
  <2> QED
    BY <2>1, <2>3 DEF NotYet
<1>8. CASE kind \notin {"BIRTH", "ROOT", "ENQUEUE_BEGIN", "INSTALL"}
  <2>1. place \notin {"BIRTH_LINK", "RENDER", "allocate", "INSTALL", "append", "RETURN"}
    BY <1>1, <1>8 DEF Following, Kinds
  <2> QED
    BY <2>1 DEF NotYet
<1> QED
  BY <1>4, <1>5, <1>6, <1>7, <1>8

LEMMA NotYetKeeps ==
    ASSUME TypeOK, TypeOK', Grows, NoNews, NEW place, NEW k \in Works, NotYet(place, k)
    PROVE  NotYet(place, k)'
<1>1. {"BIRTH_LINK", "RENDER", "RETURN"} \subseteq Kinds
  BY DEF Kinds
<1> QED
  BY <1>1, OnceKeeps DEF NotYet

(* A hook that publishes its slot, or gives up.                             *)
LEMMA HookLeaves ==
    ASSUME IInv, TypeOK', Grows, Ahead, NoNews,
           NEW t \in Threads, NEW h \in Kinds, h = At(t),
           NEW result \in Nat, Leave(t, h, result),
           result # 0 => result = thread[t].slot /\ Names(h, result)',
           UNCHANGED <<actions, paints, queue, behind>>,
           \A u \in Threads \ {t} : \A place \in Kinds : \A i \in Nat :
               place = At(u) /\ i = thread[u].slot /\ i # 0 => ~Event(place, i)'.published
    PROVE  WorksFit' /\ ListsFit' /\ NodesFit' /\ Once'
<1> DEFINE k == thread[t]
<1> USE DEF IInv
<1>1. /\ k \in Works /\ h = Place(t, k) /\ WorkFits(h, k) /\ NotYet(h, k)
      /\ thread \in [Threads -> Works] /\ tail \in [Nodes -> Nat]
  BY PlaceIsAt DEF TypeOK, WorksFit, Once
<1>2. Left(k, h, result) \in Works /\ Left(k, h, result).at = k.at
  BY <1>1 DEF Left, Works
<1>3. thread' = [thread EXCEPT ![t] = Onward(t, Left(k, h, result))]
  BY DEF Leave
<1>4. /\ \A u \in Threads \ {t} : thread'[u] = thread[u]
      /\ thread'[t] = [Left(k, h, result) EXCEPT !.at = thread'[t].at, !.slot = 0]
      /\ thread'[t] \in Works
      /\ h \in DOMAIN Following => Place(t, thread'[t]) = Following[h]
  BY <1>2, <1>3, MovesOn
<1>5. PICK m \in Works : m = thread'[t]
  BY <1>4
<1>6. PICK q \in Works : q = k
  BY <1>1
<1>8. PICK p : p = Place(t, m)
  OBVIOUS
<1>9. /\ m = [Left(q, h, result) EXCEPT !.at = m.at, !.slot = 0]
      /\ WorkFits(h, q) /\ NotYet(h, q) /\ SlotFits(h, q)
      /\ result # 0 => result = q.slot /\ Names(h, result)'
      /\ h \in DOMAIN Following => p = Following[h]
  BY <1>1, <1>4, <1>5, <1>6, <1>8 DEF WorkFits
<1>10. WorkFits(p, m)'
  BY <1>9, LeftFits
<1>11. NotYet(p, m)'
  <2>1. result \in {0, q.slot}
    BY <1>9
  <2> QED
    BY <1>9, <2>1, LeftNotYet
<1>12. ASSUME NEW u \in Threads, NEW w \in Works, w = thread'[u]
       PROVE  WorkFits(Place(u, w), w)' /\ NotYet(Place(u, w), w)'
  <2>1. CASE u = t
    BY <2>1, <1>5, <1>8, <1>10, <1>11, <1>12
  <2>2. CASE u # t
    <3>1. w = thread[u] /\ WorkFits(Place(u, w), w) /\ NotYet(Place(u, w), w)
      BY <2>2, <1>4, <1>12 DEF WorksFit, Once
    <3>2. PICK x : x = Place(u, w)
      OBVIOUS
    <3>3. x = At(u)
      BY <3>1, <3>2, PlaceIsAt
    <3>4. w.slot # 0 => ~Event(x, w.slot)'.published
      <4> SUFFICES ASSUME w.slot # 0 PROVE ~Event(x, w.slot)'.published
        OBVIOUS
      <4>1. x \in Kinds
        BY <3>1, <3>2 DEF WorkFits, SlotFits
      <4>2. w.slot \in Nat
        BY DEF Works
      <4> QED
        BY <2>2, <3>1, <3>3, <4>1, <4>2
    <3>5. WorkFits(x, w)' /\ NotYet(x, w)'
      BY <3>1, <3>2, <3>4, WorkKeeps, SlotKeeps, NotYetKeeps DEF WorkFits
    <3> QED
      BY <3>2, <3>5
  <2> QED
    BY <2>1, <2>2
<1>13. WorksFit'
  BY <1>12 DEF WorksFit
<1>14. Once'
  <2>1. {"BIRTH_LINK", "RENDER"} \subseteq Kinds
    BY DEF Kinds
  <2> QED
    BY <1>12, <2>1, OnceKeeps DEF Once
<1>15. ListsFit'
  BY ListsKeep
<1>16. NodesFit'
  <2>1. CASE h = "INSTALL"
    <3>1. t = "painter" /\ p = "append" /\ m.node = q.node /\ m.cause = q.cause
          /\ m.touched = q.touched
      <4>1. q.at \in 1 .. Len(Route[t])
        BY <1>6 DEF TypeOK
      <4>2. t = "painter"
        BY <2>1, <4>1, <1>1, <1>6, Places DEF Threads
      <4> QED
        <5>1. Left(q, h, result) = q
          BY <2>1 DEF Left
        <5>2. m.node = q.node /\ m.cause = q.cause /\ m.touched = q.touched
          BY <5>1, <1>9 DEF Works
        <5>3. p = "append"
          BY <2>1, <1>9 DEF Following
        <5> QED
          BY <4>2, <5>2, <5>3
    <3>2. q.node \in Nodes /\ q.node \notin Range(queue)
      BY <2>1, <3>1, <1>1, <1>6 DEF NodesFit
    <3>3. tail' = [tail EXCEPT ![q.node] = result]
      BY <2>1, <1>6 DEF Leave
    <3>4. ASSUME NEW n \in Range(queue), NEW i \in Nat, NEW b \in Behinds, i = tail'[n], b = behind[n]
          PROVE  TailFits(i, b)'
      <4>1. i = tail[n]
        BY <3>2, <3>3, <3>4, <1>1
      <4>2. TailFits(i, b)
        BY <3>4, <4>1 DEF NodesFit
      <4> QED
        BY <4>2, TailKeeps
    <3>5. tail'[q.node] = result
      BY <3>2, <3>3, <1>1
    <3>6. TailFits(result, [cause |-> q.cause, touched |-> q.touched])'
      <4>1. PICK b : b = [cause |-> q.cause, touched |-> q.touched]
        OBVIOUS
      <4>2. result # 0 => Good("INSTALL", result, q.cause)' /\ Marked("INSTALL", result, q.touched, 0)'
        BY <2>1, <1>9, OwnTicket DEF RequestKinds
      <4> QED
        BY <4>1, <4>2 DEF TailFits
    <3>7. Place("painter", m) = "append" /\ m = thread'["painter"]
      BY <3>1, <1>5, <1>8
    <3> QED
      BY <3>1, <3>2, <3>4, <3>5, <3>6, <3>7 DEF NodesFit
  <2>2. CASE h # "INSTALL"
    <3>1. tail' = tail
      BY <2>2 DEF Leave
    <3>2. ASSUME NEW n \in Range(queue), NEW i \in Nat, NEW b \in Behinds, i = tail[n], b = behind[n]
          PROVE  TailFits(i, b)'
      BY <3>2, TailKeeps DEF NodesFit
    <3>3. ASSUME NEW w \in Works, w = thread'["painter"]
          PROVE  /\ Place("painter", w) \in {"INSTALL", "append"} =>
                       w.node \in Nodes /\ w.node \notin Range(queue)
                 /\ Place("painter", w) = "INSTALL" => tail[w.node] = 0
                 /\ Place("painter", w) = "append" => \A i \in Nat : i = tail[w.node] =>
                       TailFits(i, [cause |-> w.cause, touched |-> w.touched])'
      <4>1. CASE t = "painter"
        <5>1. Place("painter", w) = p
          BY <3>3, <4>1, <1>5, <1>8
        <5>2. p \notin {"INSTALL", "append"}
          BY <2>2, <1>9 DEF Kinds, Following
        <5> QED
          BY <5>1, <5>2
      <4>2. CASE t # "painter"
        <5>1. w = thread["painter"]
          BY <3>3, <4>2, <1>4 DEF Threads
        <5>2. PICK b : b = [cause |-> w.cause, touched |-> w.touched]
          OBVIOUS
        <5>3. Place("painter", w) = "append" => \A i \in Nat : i = tail[w.node] => TailFits(i, b)'
          BY <5>1, <5>2, TailKeeps DEF NodesFit
        <5> QED
          BY <5>1, <5>2, <5>3 DEF NodesFit
      <4> QED
        BY <4>1, <4>2
    <3> QED
      BY <3>1, <3>2, <3>3 DEF NodesFit
  <2> QED
    BY <2>1, <2>2
<1> QED
  BY <1>13, <1>14, <1>15, <1>16

LEMMA NoNewsEventsFit ==
    ASSUME TypeOK, TypeOK', EventsFit, Grows, Ahead, NoNews
    PROVE  EventsFit'
<1> SUFFICES ASSUME NEW j \in Names6, NEW i \in DOMAIN journals'[j].log, NEW e \in Events,
                    e = journals'[j].log[i]
             PROVE  EventFits(j, i, e)'
  BY DEF EventsFit
<1>1. i \in DOMAIN journals[j].log
  BY DEF NoNews
<1> QED
  BY <1>1, OldEventsFit

LEMMA LeaveTyped ==
    ASSUME TypeOK, NEW t \in Threads, NEW h \in Kinds, h = At(t), NEW result \in Nat,
           Leave(t, h, result)
    PROVE  /\ thread' \in [Threads -> Works] /\ tail' \in [Nodes -> Nat]
           /\ \A u \in Threads : thread'[u].at \in 1 .. Len(Route[u])
           /\ \A u \in Threads \ {t} : thread'[u] = thread[u]
<1>1. thread[t] \in Works
  BY DEF TypeOK
<1>2. Left(thread[t], h, result) \in Works /\ Left(thread[t], h, result).at = thread[t].at
  BY <1>1 DEF Left, Works
<1>3. thread' = [thread EXCEPT ![t] = Onward(t, Left(thread[t], h, result))]
  BY <1>1 DEF Leave
<1>4. tail' \in [Nodes -> Nat]
  BY DEF Leave, TypeOK
<1> QED
  BY <1>2, <1>3, <1>4, MovesOn

(* Kinds of different threads are different, so no two share a slot.        *)
LEMMA OwnKinds ==
    ASSUME TypeOK, NEW t \in Threads, NEW u \in Threads, t # u, At(t) \in Kinds
    PROVE  At(u) # At(t)
<1>1. thread[t].at \in 1 .. Len(Route[t]) /\ thread[u].at \in 1 .. Len(Route[u])
  BY DEF TypeOK
<1> QED
  BY <1>1, Places, PlaceIsAt DEF Threads, Kinds

(* A slot of another thread is not published by this one.                   *)
LEMMA OthersUnpublished ==
    ASSUME TypeOK, WorksFit, NEW t \in Threads, NEW h \in Kinds, h = At(t),
           \/ \A j \in Names6 : journals'[j].log = journals[j].log
           \/ \E s \in DOMAIN journals[JournalOf(h)].log :
                /\ Event(h, s).kind = h
                /\ \A j \in Names6 : \A i \in DOMAIN journals[j].log :
                      ~(j = JournalOf(h) /\ i = s) => journals'[j].log[i] = journals[j].log[i]
    PROVE  \A u \in Threads \ {t} : \A place \in Kinds : \A i \in Nat :
               place = At(u) /\ i = thread[u].slot /\ i # 0 => ~Event(place, i)'.published
<1> SUFFICES ASSUME NEW u \in Threads \ {t}, NEW place \in Kinds, NEW i \in Nat,
                    place = At(u), i = thread[u].slot, i # 0
             PROVE  ~Event(place, i)'.published
  OBVIOUS
<1>1. thread[u] \in Works /\ place = Place(u, thread[u])
  BY PlaceIsAt DEF TypeOK
<1>2. PICK k \in Works : k = thread[u]
  BY <1>1
<1>3. Listed(place, i) /\ ~Event(place, i).published
  BY <1>1, <1>2 DEF WorksFit, WorkFits, SlotFits
<1>4. place # h /\ JournalOf(place) \in Names6 /\ JournalOf(h) \in Names6
  BY OwnKinds, JournalNames
<1>5. Event(place, i)' = Event(place, i)
  BY <1>3, <1>4 DEF Listed, Event
<1> QED
  BY <1>3, <1>5

LEMMA QuietWords ==
    ASSUME TypeOK, UNCHANGED <<clock, scopes>>
    PROVE  Ahead
BY DEF Ahead, TypeOK, FAULT

(* Hooks that reserve nothing. *)
LEMMA UnmatchedStep ==
    ASSUME IInv, NEW t \in Threads, Unmatched(t)
    PROVE  IInv'
<1>1. PICK h \in Kinds : h = At(t)
  BY HookKind DEF Unmatched, IInv
<1>2. Leave(t, h, 0) /\ UNCHANGED <<journals, clock, scopes, actions, paints, queue, behind, causes>>
  BY <1>1 DEF Unmatched
<1>3. TypeOK'
  BY <1>1, <1>2, LeaveTyped DEF TypeOK, IInv
<1>4. Grows /\ NoNews /\ Ahead
  BY <1>2, StillGrows, QuietWords DEF IInv
<1>5. \A u \in Threads \ {t} : \A place \in Kinds : \A i \in Nat :
          place = At(u) /\ i = thread[u].slot /\ i # 0 => ~Event(place, i)'.published
  BY <1>1, <1>2, OthersUnpublished DEF IInv
<1>6. WorksFit' /\ ListsFit' /\ NodesFit' /\ Once'
  BY <1>1, <1>2, <1>3, <1>4, <1>5, HookLeaves
<1> QED
  BY <1>3, <1>4, <1>6, NoNewsEventsFit DEF IInv

LEMMA PublishStep ==
    ASSUME IInv, NEW t \in Threads, Publish(t)
    PROVE  IInv'
<1> USE DEF IInv
<1>1. thread[t] \in Works /\ At(t) = Place(t, thread[t])
  BY PlaceIsAt DEF TypeOK
<1>2. PICK k \in Works : k = thread[t]
  BY <1>1
<1>3. PICK h : h = At(t)
  OBVIOUS
<1>4. h \in Kinds /\ SlotFits(h, k) /\ k.slot # 0 /\ k.slot \in Nat
  BY <1>1, <1>2, <1>3 DEF Publish, WorksFit, WorkFits, SlotFits, Works
<1>5. /\ JournalOf(h) \in Names6 /\ Listed(h, k.slot)
      /\ k.slot \in DOMAIN journals[JournalOf(h)].log
      /\ UNCHANGED <<clock, scopes, actions, paints, queue, behind, causes, mishaps>>
  BY <1>2, <1>3, <1>4, JournalNames DEF Publish, SlotFits, Listed
<1>6. Ahead
  BY <1>5, QuietWords
<1>7. CASE Stands(h)
  <2>1. /\ journals' = [journals EXCEPT ![JournalOf(h)] =
              Published(@, k.slot, [@.log[k.slot] EXCEPT !.published = TRUE])]
        /\ Leave(t, h, k.slot)
    BY <1>2, <1>3, <1>7 DEF Publish
  <2>2. /\ journals' \in [Names6 -> Journals] /\ Grows /\ NoNews
        /\ journals'[JournalOf(h)].log[k.slot] =
              [journals[JournalOf(h)].log[k.slot] EXCEPT !.published = TRUE]
    BY <1>5, <2>1, PublishGrows
  <2>3. TypeOK'
    BY <1>3, <1>4, <1>5, <2>1, <2>2, LeaveTyped DEF TypeOK
  <2>4. Names(h, k.slot)'
    <3>1. journals[JournalOf(h)].log[k.slot] \in Events
      BY <1>4, <1>5, EventTyped DEF Event
    <3>2. Event(h, k.slot)'.published
      BY <2>2, <3>1 DEF Event, Events
    <3> QED
      BY <1>4, <1>5, <2>2, <2>3, <3>2, TicketsKeep DEF Names, Listed
  <2>5. \A j \in Names6 : \A i \in DOMAIN journals[j].log :
            ~(j = JournalOf(h) /\ i = k.slot) => journals'[j].log[i] = journals[j].log[i]
    <3>1. \A j \in Names6 : j # JournalOf(h) => journals'[j] = journals[j]
      BY <2>1 DEF TypeOK
    <3>2. /\ journals'[JournalOf(h)] = Published(journals[JournalOf(h)], k.slot,
                [journals[JournalOf(h)].log[k.slot] EXCEPT !.published = TRUE])
          /\ journals[JournalOf(h)] \in Journals
      BY <1>5, <2>1 DEF TypeOK
    <3>3. journals'[JournalOf(h)].log = [journals[JournalOf(h)].log EXCEPT
                ![k.slot] = [journals[JournalOf(h)].log[k.slot] EXCEPT !.published = TRUE]]
      BY <3>2 DEF Published, Journals
    <3> QED
      BY <3>1, <3>3
  <2>6. \A u \in Threads \ {t} : \A place \in Kinds : \A i \in Nat :
            place = At(u) /\ i = thread[u].slot /\ i # 0 => ~Event(place, i)'.published
    BY <1>3, <1>4, <1>5, <2>5, OthersUnpublished DEF Listed
  <2>7. WorksFit' /\ ListsFit' /\ NodesFit' /\ Once'
    BY <1>2, <1>3, <1>4, <1>5, <1>6, <2>1, <2>2, <2>3, <2>4, <2>6, HookLeaves
  <2> QED
    BY <1>6, <2>2, <2>3, <2>7, NoNewsEventsFit
<1>8. CASE ~Stands(h)
  <2>1. journals' = [journals EXCEPT ![JournalOf(h)] = Invalidated(@)] /\ Leave(t, h, 0)
    BY <1>2, <1>3, <1>8 DEF Publish
  <2>2. journals' \in [Names6 -> Journals] /\ Grows /\ NoNews
    BY <1>5, <2>1, InvalidateGrows
  <2>3. TypeOK'
    BY <1>3, <1>4, <1>5, <2>1, <2>2, LeaveTyped DEF TypeOK
  <2>4. \A j \in Names6 : journals'[j].log = journals[j].log
    BY <1>5, <2>1 DEF TypeOK, Journals, Invalidated
  <2>5. \A u \in Threads \ {t} : \A place \in Kinds : \A i \in Nat :
            place = At(u) /\ i = thread[u].slot /\ i # 0 => ~Event(place, i)'.published
    BY <1>3, <1>4, <2>4, OthersUnpublished
  <2>6. WorksFit' /\ ListsFit' /\ NodesFit' /\ Once'
    BY <1>3, <1>4, <1>5, <1>6, <2>1, <2>2, <2>3, <2>5, HookLeaves
  <2> QED
    BY <1>6, <2>2, <2>3, <2>6, NoNewsEventsFit
<1> QED
  BY <1>7, <1>8

LEMMA GivesUp ==
    ASSUME IInv, NEW t \in Threads, NEW h \in Kinds, h = At(t), Leave(t, h, 0),
           UNCHANGED <<clock, scopes, actions, paints, queue, behind, causes>>,
           \/ UNCHANGED journals
           \/ \E j \in Names6 : journals' = [journals EXCEPT ![j] = Invalidated(@)]
    PROVE  IInv'
<1> USE DEF IInv
<1>1. /\ journals' \in [Names6 -> Journals] /\ Grows /\ NoNews
      /\ \A j \in Names6 : journals'[j].log = journals[j].log
  <2>1. CASE UNCHANGED journals
    BY <2>1, StillGrows DEF TypeOK
  <2>2. CASE \E j \in Names6 : journals' = [journals EXCEPT ![j] = Invalidated(@)]
    <3>1. PICK j \in Names6 : journals' = [journals EXCEPT ![j] = Invalidated(@)]
      BY <2>2
    <3>2. journals' \in [Names6 -> Journals] /\ Grows /\ NoNews
      BY <3>1, InvalidateGrows
    <3> QED
      BY <3>1, <3>2 DEF TypeOK, Journals, Invalidated
  <2> QED
    BY <2>1, <2>2
<1>2. TypeOK'
  BY <1>1, LeaveTyped DEF TypeOK
<1>3. Ahead
  BY QuietWords
<1>4. \A u \in Threads \ {t} : \A place \in Kinds : \A i \in Nat :
          place = At(u) /\ i = thread[u].slot /\ i # 0 => ~Event(place, i)'.published
  BY <1>1, OthersUnpublished
<1>5. WorksFit' /\ ListsFit' /\ NodesFit' /\ Once'
  BY <1>1, <1>2, <1>3, <1>4, HookLeaves
<1> QED
  BY <1>1, <1>2, <1>3, <1>5, NoNewsEventsFit

-----------------------------------------------------------------------------
(* A reservation. *)

(* A ticket's event and its birth, as they are.                             *)
LEMMA EventIsFit ==
    ASSUME TypeOK, EventsFit, NEW kind \in Kinds, NEW i, Listed(kind, i)
    PROVE  EventFits(JournalOf(kind), i, Event(kind, i)) /\ Event(kind, i) \in Events
           /\ Event(kind, i).kind = kind
<1>1. Event(kind, i) \in Events /\ JournalOf(kind) \in Names6
  BY EventTyped, JournalNames
<1> QED
  BY <1>1 DEF EventsFit, Listed, Event

(* The event a hook writes is a child of its parent, in order, and refers   *)
(* to what it should.                                                       *)
LEMMA NewEventFits ==
    ASSUME IInv, NEW t \in Threads, NEW k \in Works, k = thread[t],
           NEW h \in Kinds, h = At(t), h # "BIRTH", Bound(k, h), Carries(k, h),
           NEW n \in Nat, n = Len(journals[JournalOf(h)].log) + 1,
           NEW e \in Events, e = NewEvent(k, h, n)
    PROVE  EventFits(JournalOf(h), n, e)
<1> USE DEF IInv
<1>1. /\ e.kind = h /\ e.parent = Parent(k, h) /\ e.origin = Origin(k, h, n)
      /\ e.cause = k.cause /\ e.touched = k.touched /\ e.revision = clock
      /\ e.issued = scopes.issued
      /\ h = "BIRTH_LINK" => e.refer = k.token
      /\ h = "RENDER" => e.refer = k.root
      /\ JournalOf(h) = "transport" => e.node = k.node
  BY DEF NewEvent, Touches
<1>2. WorkFits(h, k)
  BY PlaceIsAt DEF WorksFit
<1>3. /\ clock \in Int /\ scopes.issued \in Nat
      /\ JournalOf(h) \in Sampling => clock # FAULT /\ clock \in Nat /\ ~scopes.fault
  BY BoundNames DEF TypeOK, FAULT, Clocked
<1>4. h \in Roots => e.parent = 0 /\ e.origin = n
  BY <1>1, JournalNames DEF Parent, Origin, Roots
<1> DEFINE pk == ParentOf(h)
           p == Event(pk, Parent(k, h))
<1>5. ASSUME h \notin Roots
      PROVE  /\ pk \in Kinds /\ pk # "none" /\ Names(pk, Parent(k, h)) /\ Listed(pk, Parent(k, h))
             /\ EventFits(JournalOf(pk), Parent(k, h), p) /\ p \in Events /\ p.kind = pk
             /\ e.origin = p.origin
  <2>1. pk \in Kinds /\ Names(pk, Parent(k, h)) /\ pk # "none"
    BY <1>5, BoundNames, JournalNames DEF Kinds
  <2>2. Listed(pk, Parent(k, h))
    BY <2>1 DEF Names, Listed
  <2> QED
    BY <2>1, <2>2, <1>1, EventIsFit DEF Origin
<1>6. ASSUME h \notin Roots PROVE Descends(n, e)
  <2>1. JournalOf(pk) = JournalOf(h) => Parent(k, h) < n
    <3>1. journals[JournalOf(h)].log \in Seq(Events)
      BY JournalNames DEF TypeOK, Journals
    <3> QED
      BY <1>5, <1>6, <3>1 DEF Names
  <2>2. k.cause = p.cause
    <3>1. CASE h = "BIRTH_LINK"
      <4>1. Parent(k, h) = k.link /\ k.link # 0 /\ pk = "PAINT_DELIVERY"
        BY <3>1, ParentTable DEF Parent, Carries
      <4> QED
        BY <4>1, <3>1, <1>2 DEF WorkFits, LinkFits, Good
    <3>2. CASE h # "BIRTH_LINK"
      <4>1. /\ Parent(k, h) = k.token /\ k.token # 0
        BY <3>2, <1>5, <1>6 DEF Parent, Carries
      <4>2. h \in DOMAIN Held /\ Held[h] = pk
        BY <3>2, <1>6, ParentTable DEF Held, Kinds, Roots
      <4> QED
        BY <4>1, <4>2, <1>2 DEF WorkFits, TokenFits, Good
    <3> QED
      BY <3>1, <3>2
  <2>3. h \in {"BORROW", "HELPER", "CALLBACK"} => e.node = p.node
    BY <1>1, KindTable, BoundNames
  <2>4. ASSUME JournalOf(h) \in Sampling
        PROVE  e.revision >= p.revision /\ e.issued >= p.issued
    <3>1. JournalOf(pk) \in Sampling
      BY <2>4, <1>6, KindTable, ParentTable DEF Sampling, Kinds, Roots
    <3>2. Sampled(p)
      BY <1>5, <1>6 DEF EventFits
    <3>3. p.revision \in Nat /\ p.revision <= clock /\ p.issued <= scopes.issued
      BY <3>1, <3>2, <1>3, <1>5, <1>6, <2>4 DEF Sampled
    <3> QED
      BY <3>3, <1>1, <1>3, <1>5, <1>6, <2>4 DEF Events
  <2> QED
    BY <1>1, <1>5, <1>6, <2>1, <2>2, <2>3, <2>4 DEF Descends
<1>7. h \in RequestKinds => Listed("BIRTH", e.origin)
  <2> SUFFICES ASSUME h \in RequestKinds PROVE Listed("BIRTH", e.origin)
    OBVIOUS
  <2>1. h \notin Roots /\ pk \in RequestKinds
    BY ParentTable DEF RequestKinds, Roots
  <2> QED
    BY <2>1, <1>5 DEF EventFits
<1>8. Sampled(e)
  BY <1>1, <1>3 DEF Sampled
<1>9. RefersWell(e)
  <2>1. h = "BIRTH_LINK" => Names("BIRTH", e.refer)
    BY <1>1, BoundNames
  <2>2. ASSUME h = "RENDER"
        PROVE  LET entry == Event("ROOT", e.refer).entry
                   birth == Event("BIRTH", e.origin)
               IN  /\ Names("ROOT", e.refer)
                   /\ entry <= e.revision
                   /\ entry # 0 => entry >= Event("OUTER", e.parent).revision
                   /\ e.touched => birth.active > 0 \/ e.revision > birth.revision + 1
                                                    \/ e.issued > birth.issued
    <3>1. /\ Names("ROOT", k.root) /\ k.root # 0 /\ k.token # 0 /\ Parent(k, h) = k.token
          /\ pk = "OUTER" /\ h \in Entered /\ h \in DOMAIN Held /\ Held[h] = "OUTER"
          /\ Steps(h) = 1 /\ JournalOf(h) \in Sampling /\ h \notin Roots
      BY <2>2, BoundNames, ParentTable, KindTable
      DEF Carries, Parent, Entered, Held, Steps, Sampling, Roots
    <3>2. Event("ROOT", k.root).entry = k.entry /\ k.entry <= clock
      BY <2>2, <3>1, <1>2, <1>3 DEF WorkFits, EntryFits
    <3>3. k.entry # 0 => k.entry >= Event("OUTER", k.token).revision
      BY <2>2, <3>1, <1>2 DEF WorkFits, EntryFits
    <3>4. PICK o \in Nat : o = e.origin
      BY DEF Events
    <3>5. k.touched => Disturbed(o, 1)
      BY <3>1, <3>4, <1>2, <1>5 DEF WorkFits, TokenFits, Marked, RequestKinds
    <3>6. e.touched => \/ Event("BIRTH", o).active > 0 \/ e.revision > Event("BIRTH", o).revision + 1
                       \/ e.issued > Event("BIRTH", o).issued
      BY <3>1, <3>5, <1>1, <1>3 DEF Disturbed
    <3> QED
      BY <2>2, <3>1, <3>2, <3>3, <3>4, <3>6, <1>1
  <2> QED
    BY <1>1, <2>1, <2>2 DEF RefersWell
<1> QED
  BY <1>1, <1>4, <1>6, <1>7, <1>8, <1>9 DEF EventFits

(* With one event of kind h more, at n, the others are used as before.      *)
LEMMA OthersUnused ==
    ASSUME TypeOK, NEW h \in Kinds, NEW n, n = Len(journals[JournalOf(h)].log) + 1,
           NEW e \in Events, e.kind = h,
           journals' = [journals EXCEPT ![JournalOf(h)] = Reserved(@, e)]
    PROVE  /\ \A kind \in Kinds \ {h} : \A field \in {"refer", "parent"} : \A i :
                 Unused(kind, field, i) => Unused(kind, field, i)'
           /\ \A kind \in Kinds \ {h} : ReferredOnce(kind) => ReferredOnce(kind)'
           /\ h \in {"BIRTH_LINK", "RENDER"} /\ Unused(h, "refer", e.refer) /\ ReferredOnce(h)
                 => ReferredOnce(h)'
<1>1. JournalOf(h) \in Names6
  BY JournalNames
<1>2. /\ DOMAIN journals'[JournalOf(h)].log = DOMAIN journals[JournalOf(h)].log \cup {n}
      /\ journals'[JournalOf(h)].log[n] = e
      /\ \A m \in Names6 \ {JournalOf(h)} : journals'[m] = journals[m]
      /\ \A i \in DOMAIN journals[JournalOf(h)].log :
            journals'[JournalOf(h)].log[i] = journals[JournalOf(h)].log[i]
  BY <1>1, ReserveGrows
<1>3. ASSUME NEW kind \in Kinds, NEW i \in DOMAIN journals'[JournalOf(kind)].log
      PROVE  \/ /\ i \in DOMAIN journals[JournalOf(kind)].log
                /\ Event(kind, i)' = Event(kind, i)
             \/ i = n /\ JournalOf(kind) = JournalOf(h) /\ Event(kind, i)' = e
  <2>1. JournalOf(kind) \in Names6
    BY JournalNames
  <2>2. CASE JournalOf(kind) = JournalOf(h)
    BY <2>2, <1>2, <1>3 DEF Event
  <2>3. CASE JournalOf(kind) # JournalOf(h)
    BY <2>1, <2>3, <1>2, <1>3 DEF Event
  <2> QED
    BY <2>2, <2>3
<1>4. ASSUME NEW kind \in Kinds \ {h}, NEW i \in DOMAIN journals'[JournalOf(kind)].log,
             Event(kind, i)'.kind = kind
      PROVE  /\ i \in DOMAIN journals[JournalOf(kind)].log
             /\ Event(kind, i)' = Event(kind, i)
  BY <1>3, <1>4
<1>5. ASSUME NEW kind \in Kinds \ {h}, NEW field \in {"refer", "parent"}, NEW i,
             Unused(kind, field, i)
      PROVE  Unused(kind, field, i)'
  <2>1. CASE field = "refer"
    BY <2>1, <1>4, <1>5 DEF Unused
  <2>2. CASE field = "parent"
    BY <2>2, <1>4, <1>5 DEF Unused
  <2> QED
    BY <2>1, <2>2
<1>6. ASSUME NEW kind \in Kinds \ {h}, ReferredOnce(kind)
      PROVE  ReferredOnce(kind)'
  BY <1>4, <1>6 DEF ReferredOnce
<1>7. ASSUME h \in {"BIRTH_LINK", "RENDER"}, Unused(h, "refer", e.refer), ReferredOnce(h)
      PROVE  ReferredOnce(h)'
  <2>1. ASSUME NEW i \in DOMAIN journals'[JournalOf(h)].log, NEW m \in DOMAIN journals'[JournalOf(h)].log,
               Event(h, i)'.kind = h, Event(h, m)'.kind = h,
               Event(h, i)'.refer = Event(h, m)'.refer
        PROVE  i = m
    <3>1. \A q \in DOMAIN journals[JournalOf(h)].log :
              Event(h, q).kind = h => Event(h, q).refer # e.refer
      BY <1>7 DEF Unused
    <3>2. \A q, r \in DOMAIN journals[JournalOf(h)].log :
              Event(h, q).kind = h /\ Event(h, r).kind = h
                /\ Event(h, q).refer = Event(h, r).refer => q = r
      BY <1>7 DEF ReferredOnce
    <3> QED
      BY <2>1, <1>3, <3>1, <3>2
  <2> QED
    BY <2>1 DEF ReferredOnce
<1> QED
  BY <1>5, <1>6, <1>7

LEMMA ReturnsStayInOrder ==
    ASSUME IInv, TypeOK', NEW h \in Kinds, NEW n, n = Len(journals[JournalOf(h)].log) + 1,
           NEW e \in Events, e.kind = h,
           journals' = [journals EXCEPT ![JournalOf(h)] = Reserved(@, e)],
           h = "RETURN" => e.revision = clock /\ e.issued = scopes.issued /\ Clocked,
           h = "INSTALL" => Unused("RETURN", "parent", e.parent)
    PROVE  ReturnsInOrder'
<1> USE DEF IInv
<1>1. JournalOf(h) \in Names6
  BY JournalNames
<1>2. /\ DOMAIN journals'[JournalOf(h)].log = DOMAIN journals[JournalOf(h)].log \cup {n}
      /\ journals'[JournalOf(h)].log[n] = e
      /\ \A m \in Names6 \ {JournalOf(h)} : journals'[m] = journals[m]
      /\ \A i \in DOMAIN journals[JournalOf(h)].log :
            journals'[JournalOf(h)].log[i] = journals[JournalOf(h)].log[i]
  BY <1>1, ReserveGrows
<1> SUFFICES ASSUME NEW r \in DOMAIN journals'["birth"].log,
                    NEW i \in DOMAIN journals'["transport"].log,
                    journals'["birth"].log[r].kind = "RETURN",
                    journals'["transport"].log[i].kind = "INSTALL",
                    journals'["birth"].log[r].parent = journals'["transport"].log[i].parent
             PROVE  /\ journals'["birth"].log[r].revision >= journals'["transport"].log[i].revision
                    /\ journals'["birth"].log[r].issued >= journals'["transport"].log[i].issued
  BY DEF ReturnsInOrder
<1>3. {"birth", "transport"} \subseteq Names6
  BY DEF Names6
<1>4. CASE JournalOf(h) = "birth" /\ r = n
  <2>1. journals'["transport"] = journals["transport"] /\ h = "RETURN"
    BY <1>2, <1>3, <1>4
  <2>6. journals["transport"].log \in Seq(Events)
    BY <1>3 DEF TypeOK, Journals
  <2>7. journals["transport"].log[i] \in Events
    <3>1. i \in DOMAIN journals["transport"].log
      BY <2>1
    <3> HIDE DEF IInv
    <3> QED
      BY <3>1, <2>6
  <2>2. PICK f \in Events : f = journals["transport"].log[i]
    BY <2>7
  <2>3. Sampled(f) /\ JournalOf(f.kind) \in Sampling
    BY <2>1, <2>2, <1>3, KindTable DEF EventsFit, EventFits, Sampling
  <2>4. f.revision \in Nat /\ f.revision <= clock /\ f.issued <= scopes.issued
    BY <2>1, <2>3 DEF Sampled, Clocked
  <2>5. clock \in Int /\ scopes.issued \in Nat /\ f.issued \in Nat
    BY DEF TypeOK, FAULT, Events
  <2> QED
    BY <2>1, <2>2, <2>4, <2>5, <1>2, <1>4
<1>5. CASE JournalOf(h) = "transport" /\ i = n
  <2>1. journals'["birth"] = journals["birth"] /\ h = "INSTALL"
    BY <1>2, <1>3, <1>5
  <2>2. Unused("RETURN", "parent", e.parent)
    BY <2>1
  <2> QED
    BY <2>1, <2>2, <1>2, <1>5, KindTable DEF Unused, Event
<1>6. CASE ~(JournalOf(h) = "birth" /\ r = n) /\ ~(JournalOf(h) = "transport" /\ i = n)
  <2>1. /\ r \in DOMAIN journals["birth"].log
        /\ journals'["birth"].log[r] = journals["birth"].log[r]
    BY <1>2, <1>3, <1>6
  <2>2. /\ i \in DOMAIN journals["transport"].log
        /\ journals'["transport"].log[i] = journals["transport"].log[i]
    BY <1>2, <1>3, <1>6
  <2> QED
    BY <2>1, <2>2 DEF Once, ReturnsInOrder
<1> QED
  BY <1>4, <1>5, <1>6

LEMMA AdmittedStep ==
    ASSUME IInv, NEW t \in Threads, NEW k \in Works, k = thread[t], k.slot = 0,
           NEW h \in Kinds, h = At(t), Bound(k, h), Carries(k, h),
           NEW n \in Nat, n = Len(journals[JournalOf(h)].log) + 1,
           NEW e \in Events, e = NewEvent(k, h, n),
           journals' = [journals EXCEPT ![JournalOf(h)] = Reserved(@, e)],
           thread' = [thread EXCEPT ![t].slot = n, ![t].touched = Touches(k, h)],
           UNCHANGED <<tail, clock, scopes, actions, paints, queue, behind, causes>>
    PROVE  IInv'
<1> USE DEF IInv
<1>1. JournalOf(h) \in Names6
  BY JournalNames
<1>2. /\ journals' \in [Names6 -> Journals]
      /\ Grows
      /\ DOMAIN journals'[JournalOf(h)].log = DOMAIN journals[JournalOf(h)].log \cup {n}
      /\ journals'[JournalOf(h)].log[n] = e
      /\ n \notin DOMAIN journals[JournalOf(h)].log
      /\ \A m \in Names6 \ {JournalOf(h)} : journals'[m] = journals[m]
      /\ \A i \in DOMAIN journals[JournalOf(h)].log :
            journals'[JournalOf(h)].log[i] = journals[JournalOf(h)].log[i]
  BY <1>1, ReserveGrows
<1>3. Ahead
  BY QuietWords
<1>4. PICK w : w = [k EXCEPT !.slot = n, !.touched = Touches(k, h)]
  OBVIOUS
<1>5. /\ w \in Works /\ w.slot = n /\ w.touched = Touches(k, h) /\ w.at = k.at
      /\ w.token = k.token /\ w.link = k.link /\ w.root = k.root /\ w.entry = k.entry
      /\ w.node = k.node /\ w.cause = k.cause
      /\ h # "BIRTH" => w.touched = k.touched
  <2>1. Touches(k, h) \in BOOLEAN
    <3>1. k.touched \in BOOLEAN /\ (scopes.active > 0) \in BOOLEAN
      BY DEF Works
    <3> QED
      BY <3>1 DEF Touches
  <2> QED
    BY <2>1, <1>4 DEF Works, Touches
<1>6. /\ thread'[t] = w /\ \A u \in Threads \ {t} : thread'[u] = thread[u]
      /\ thread' \in [Threads -> Works]
  BY <1>4, <1>5 DEF TypeOK
<1>7. TypeOK'
  <2>1. \A u \in Threads : thread'[u].at \in 1 .. Len(Route[u])
    BY <1>5, <1>6 DEF TypeOK
  <2> QED
    BY <1>2, <1>6, <2>1 DEF TypeOK
<1>8. /\ e.kind = h /\ e.parent = Parent(k, h) /\ e.cause = k.cause /\ ~e.published
      /\ e.touched = Touches(k, h) /\ e.revision = clock /\ e.issued = scopes.issued
      /\ e.active = scopes.active /\ e.origin = Origin(k, h, n)
      /\ h = "ROOT" => e.entry = k.entry
      /\ h = "BIRTH_LINK" => e.refer = k.token
      /\ h = "RENDER" => e.refer = k.root
  BY DEF NewEvent
<1>9. Listed(h, n)' /\ Event(h, n)' = e
  BY <1>2, <1>8 DEF Listed, Event
<1>10. EventFits(JournalOf(h), n, e)'
  <2>1. CASE h = "BIRTH"
    <3>1. e.parent = 0 /\ e.origin = n /\ Clocked
      BY <2>1, <1>8, BoundNames, KindTable, ParentTable DEF Parent, Origin, Sampling
    <3>2. clock \in Nat
      BY <3>1 DEF Clocked, TypeOK
    <3>3. Sampled(e)'
      BY <3>2, <1>8 DEF Sampled, TypeOK
    <3>4. RefersWell(e)'
      BY <2>1, <1>8 DEF RefersWell
    <3> QED
      BY <2>1, <3>1, <3>3, <3>4, <1>8, <1>9 DEF EventFits, Roots
  <2>2. CASE h # "BIRTH"
    <3>1. EventFits(JournalOf(h), n, e)
      BY <2>2, NewEventFits
    <3> QED
      BY <3>1, <1>2, <1>3, <1>7, EventsKeep DEF Kept
  <2> QED
    BY <2>1, <2>2
<1>11. EventsFit'
  <2> SUFFICES ASSUME NEW j \in Names6, NEW i \in DOMAIN journals'[j].log, NEW f \in Events,
                      f = journals'[j].log[i]
               PROVE  EventFits(j, i, f)'
    BY DEF EventsFit
  <2>1. CASE i \in DOMAIN journals[j].log
    BY <2>1, <1>2, <1>3, <1>7, OldEventsFit
  <2>2. CASE i \notin DOMAIN journals[j].log
    <3>1. j = JournalOf(h) /\ i = n /\ f = e
      BY <2>2, <1>2
    <3> QED
      BY <3>1, <1>10
  <2> QED
    BY <2>1, <2>2
<1>12. WorkFits(h, k) /\ NotYet(h, k)
  BY PlaceIsAt DEF WorksFit, Once
<1>13. WorkFits(h, w)'
  <2>1. TokenFits(h, k)' /\ EntryFits(h, k)' /\ LinkFits(h, k)'
    BY <1>2, <1>3, <1>7, <1>12, WorkKeeps DEF WorkFits
  <2>2. TokenFits(h, w)'
    <3>1. "BIRTH" \notin DOMAIN Held
      BY DEF Held
    <3> QED
      BY <2>1, <3>1, <1>5 DEF TokenFits
  <2>3. EntryFits(h, w)' /\ LinkFits(h, w)'
    BY <2>1, <1>5 DEF EntryFits, LinkFits
  <2>4. h = "BIRTH" => Marked("BIRTH", n, w.touched, 0)'
    <3> SUFFICES ASSUME h = "BIRTH", w.touched, NEW o \in Nat, o = Event("BIRTH", n)'.origin
                 PROVE  Disturbed(o, 0)'
      BY DEF Marked
    <3>1. o = n
      BY <1>8, <1>9, ParentTable DEF Origin
    <3>2. Event("BIRTH", o)'.active > 0
      BY <3>1, <1>5, <1>8, <1>9 DEF Touches
    <3> QED
      BY <3>2 DEF Disturbed
  <2>5. Carries(w, h)' /\ Parent(w, h)' = Parent(k, h)
    BY <1>5 DEF Carries, Parent
  <2>6. SlotFits(h, w)'
    BY <1>5, <1>8, <1>9, <2>4, <2>5 DEF SlotFits
  <2> QED
    BY <2>2, <2>3, <2>6 DEF WorkFits
<1>14. /\ \A kind \in Kinds \ {h} : \A field \in {"refer", "parent"} : \A i :
             Unused(kind, field, i) => Unused(kind, field, i)'
       /\ \A kind \in Kinds \ {h} : ReferredOnce(kind) => ReferredOnce(kind)'
       /\ h \in {"BIRTH_LINK", "RENDER"} /\ Unused(h, "refer", e.refer) /\ ReferredOnce(h)
             => ReferredOnce(h)'
  BY <1>8, OthersUnused
<1>15. NotYet(h, w)'
  <2>1. CASE h = "INSTALL"
    <3>1. Unused("RETURN", "parent", k.token)
      BY <2>1, <1>12 DEF NotYet
    <3>2. Unused("RETURN", "parent", w.token)'
      BY <2>1, <3>1, <1>5, <1>14 DEF Kinds
    <3> QED
      BY <2>1, <3>2 DEF NotYet
  <2>2. CASE h # "INSTALL"
    <3>1. h \notin {"allocate", "append"} /\ w.slot # 0
      BY <1>5 DEF Kinds
    <3> QED
      BY <2>2, <3>1 DEF NotYet
  <2> QED
    BY <2>1, <2>2
<1>16. ASSUME NEW u \in Threads, NEW v \in Works, v = thread'[u]
       PROVE  WorkFits(Place(u, v), v)' /\ NotYet(Place(u, v), v)'
  <2>1. PICK x : x = Place(u, v)
    OBVIOUS
  <2>2. CASE u = t
    <3>1. v = w /\ x = h
      BY <2>1, <2>2, <1>5, <1>6, <1>16 DEF Place, At
    <3> QED
      BY <2>1, <3>1, <1>13, <1>15
  <2>3. CASE u # t
    <3>1. v = thread[u] /\ x = At(u) /\ WorkFits(x, v) /\ NotYet(x, v)
      BY <2>1, <2>3, <1>6, <1>16, PlaceIsAt DEF WorksFit, Once
    <3>2. v.slot # 0 => ~Event(x, v.slot)'.published
      <4> SUFFICES ASSUME v.slot # 0 PROVE ~Event(x, v.slot)'.published
        OBVIOUS
      <4>1. Listed(x, v.slot) /\ x \in Kinds /\ ~Event(x, v.slot).published
        BY <3>1 DEF WorkFits, SlotFits
      <4>2. Event(x, v.slot)' = Event(x, v.slot)
        BY <4>1, <1>1, <1>2, JournalNames DEF Listed, Event
      <4> QED
        BY <4>1, <4>2
    <3>3. WorkFits(x, v)'
      BY <3>1, <3>2, <1>2, <1>3, <1>7, WorkKeeps, SlotKeeps DEF WorkFits
    <3>4. /\ x \in {"BIRTH_LINK", "allocate", "INSTALL", "append", "RETURN"} =>
                h \notin {"BIRTH_LINK", "RETURN"}
          /\ x = "RENDER" => h # "RENDER"
      <4>1. thread[t].at \in 1 .. Len(Route[t]) /\ thread[u].at \in 1 .. Len(Route[u])
        BY DEF TypeOK
      <4> QED
        BY <2>3, <3>1, <4>1, Places, PlaceIsAt DEF Threads
    <3>5. NotYet(x, v)'
      <4>1. {"BIRTH_LINK", "RENDER", "RETURN"} \subseteq Kinds
        BY DEF Kinds
      <4> QED
        BY <3>1, <3>4, <4>1, <1>14 DEF NotYet
    <3> QED
      BY <2>1, <3>3, <3>5
  <2> QED
    BY <2>2, <2>3
<1>17. WorksFit'
  BY <1>16 DEF WorksFit
<1>18. Once'
  <2>1. ASSUME NEW kind \in {"BIRTH_LINK", "RENDER"} PROVE ReferredOnce(kind)'
    <3>1. ReferredOnce(kind) /\ kind \in Kinds
      BY DEF Once, Kinds
    <3>2. CASE h = kind
      <4>1. Unused(h, "refer", e.refer)
        BY <3>2, <1>8, <1>12 DEF NotYet
      <4> QED
        BY <3>1, <3>2, <4>1, <1>14
    <3>3. CASE h # kind
      BY <3>1, <3>3, <1>14
    <3> QED
      BY <3>2, <3>3
  <2>2. h = "RETURN" => Clocked
    BY BoundNames, KindTable DEF Sampling
  <2>3. h = "INSTALL" => Unused("RETURN", "parent", e.parent)
    BY <1>8, <1>12, ParentTable DEF NotYet, Parent
  <2>4. ReturnsInOrder'
    BY <2>2, <2>3, <1>7, <1>8, ReturnsStayInOrder
  <2> QED
    BY <2>1, <2>4, <1>16 DEF Once
<1>19. ListsFit'
  BY <1>2, <1>7, ListsKeep
<1>20. NodesFit'
  <2>1. ASSUME NEW m \in Range(queue), NEW i \in Nat, NEW b \in Behinds, i = tail[m], b = behind[m]
        PROVE  TailFits(i, b)'
    BY <2>1, <1>2, <1>3, <1>7, TailKeeps DEF NodesFit
  <2>2. ASSUME NEW v \in Works, v = thread'["painter"]
        PROVE  /\ Place("painter", v) \in {"INSTALL", "append"} =>
                     v.node \in Nodes /\ v.node \notin Range(queue)
               /\ Place("painter", v) = "INSTALL" => tail[v.node] = 0
               /\ Place("painter", v) = "append" => \A i \in Nat : i = tail[v.node] =>
                     TailFits(i, [cause |-> v.cause, touched |-> v.touched])'
    <3>1. CASE t = "painter"
      <4>1. v = w /\ Place("painter", v) = h /\ Place("painter", k) = h
        BY <2>2, <3>1, <1>5, <1>6 DEF Place, At
      <4>2. h # "append"
        BY DEF Kinds
      <4> QED
        BY <3>1, <4>1, <4>2, <1>5 DEF NodesFit
    <3>2. CASE t # "painter"
      <4>1. v = thread["painter"]
        BY <2>2, <3>2, <1>6 DEF Threads
      <4>2. PICK b : b = [cause |-> v.cause, touched |-> v.touched]
        OBVIOUS
      <4>3. Place("painter", v) = "append" => \A i \in Nat : i = tail[v.node] => TailFits(i, b)'
        BY <4>1, <4>2, <1>2, <1>3, <1>7, TailKeeps DEF NodesFit
      <4> QED
        BY <4>1, <4>2, <4>3 DEF NodesFit
    <3> QED
      BY <3>1, <3>2
  <2> QED
    BY <2>1, <2>2 DEF NodesFit
<1> QED
  BY <1>7, <1>11, <1>17, <1>18, <1>19, <1>20

LEMMA ReserveStep ==
    ASSUME IInv, NEW t \in Threads, Reserve(t)
    PROVE  IInv'
<1>1. PICK h \in Kinds : h = At(t)
  BY HookKind DEF Reserve, IInv
<1>2. thread[t] \in Works /\ JournalOf(h) \in Names6
  BY JournalNames DEF IInv, TypeOK
<1>3. PICK k \in Works : k = thread[t]
  BY <1>2
<1>4. /\ k.slot = 0
      /\ UNCHANGED <<clock, scopes, actions, paints, queue, behind, causes>>
  BY <1>3 DEF Reserve
<1>5. CASE ~Carries(k, h)
  <2>1. Leave(t, h, 0) /\ UNCHANGED journals
    BY <1>1, <1>3, <1>5 DEF Reserve
  <2> QED
    BY <1>1, <1>4, <2>1, GivesUp
<1>6. CASE Carries(k, h) /\ Bound(k, h) /\ CanReserve(journals[JournalOf(h)], Capacity[JournalOf(h)])
  <2>1. PICK n : n = Len(journals[JournalOf(h)].log) + 1
    OBVIOUS
  <2>2. n \in Nat
    BY <1>2, <2>1 DEF IInv, TypeOK, Journals
  <2>3. PICK e : e = NewEvent(k, h, n)
    OBVIOUS
  <2>4. e \in Events
    BY <1>6, <2>2, <2>3, NewEventTyped DEF IInv
  <2>5. /\ journals' = [journals EXCEPT ![JournalOf(h)] = Reserved(@, e)]
        /\ thread' = [thread EXCEPT ![t].slot = n, ![t].touched = Touches(k, h)]
        /\ UNCHANGED tail
    BY <1>1, <1>3, <1>6, <2>1, <2>3 DEF Reserve
  <2> QED
    BY <1>1, <1>3, <1>4, <1>6, <2>1, <2>2, <2>3, <2>4, <2>5, AdmittedStep
<1>7. CASE Carries(k, h) /\ ~(Bound(k, h) /\ CanReserve(journals[JournalOf(h)], Capacity[JournalOf(h)]))
  <2>1. /\ Leave(t, h, 0)
        /\ journals' = [journals EXCEPT ![JournalOf(h)] = Invalidated(@)]
    BY <1>1, <1>3, <1>7 DEF Reserve
  <2> QED
    BY <1>1, <1>2, <1>4, <2>1, GivesUp
<1> QED
  BY <1>5, <1>6, <1>7

-----------------------------------------------------------------------------
(* The stock code between the hooks. *)

(* Nothing new is written; the threads of T have moved.                     *)
LEMMA StockStep ==
    ASSUME IInv, TypeOK', Ahead, NEW T \in SUBSET Threads,
           journals' \in [Names6 -> Journals],
           \A j \in Names6 : journals'[j].log = journals[j].log,
           \A u \in Threads \ T : thread'[u] = thread[u],
           \A u \in T : \A m \in Works : m = thread'[u] =>
               WorkFits(Place(u, m), m)' /\ NotYet(Place(u, m), m)'
    PROVE  Grows /\ NoNews /\ EventsFit' /\ WorksFit' /\ Once'
<1> USE DEF IInv
<1>1. Grows /\ NoNews
  BY DEF Grows, NoNews, Kept
<1>2. ASSUME NEW u \in Threads, NEW m \in Works, m = thread'[u]
      PROVE  WorkFits(Place(u, m), m)' /\ NotYet(Place(u, m), m)'
  <2>1. CASE u \in T
    BY <2>1, <1>2
  <2>2. CASE u \notin T
    <3>1. PICK x : x = Place(u, m)
      OBVIOUS
    <3>2. m = thread[u] /\ WorkFits(x, m) /\ NotYet(x, m)
      BY <2>2, <3>1, <1>2 DEF WorksFit, Once
    <3>3. m.slot # 0 => ~Event(x, m.slot)'.published
      <4> SUFFICES ASSUME m.slot # 0 PROVE ~Event(x, m.slot)'.published
        OBVIOUS
      <4>1. x \in Kinds /\ ~Event(x, m.slot).published
        BY <3>2 DEF WorkFits, SlotFits
      <4> QED
        BY <4>1, JournalNames DEF Event
    <3>4. WorkFits(x, m)' /\ NotYet(x, m)'
      BY <3>2, <3>3, <1>1, WorkKeeps, SlotKeeps, NotYetKeeps DEF WorkFits
    <3> QED
      BY <3>1, <3>4
  <2> QED
    BY <2>1, <2>2
<1>3. WorksFit'
  BY <1>2 DEF WorksFit
<1>4. Once'
  <2>1. {"BIRTH_LINK", "RENDER"} \subseteq Kinds
    BY DEF Kinds
  <2> QED
    BY <1>1, <1>2, <2>1, OnceKeeps DEF Once
<1> QED
  BY <1>1, <1>3, <1>4, NoNewsEventsFit

LEMMA OneMoves ==
    ASSUME IInv, TypeOK', Ahead, NEW t \in Threads, UNCHANGED journals,
           \A u \in Threads \ {t} : thread'[u] = thread[u],
           \A m \in Works : m = thread'[t] =>
               WorkFits(Place(t, m), m)' /\ NotYet(Place(t, m), m)'
    PROVE  Grows /\ NoNews /\ EventsFit' /\ WorksFit' /\ Once'
<1> DEFINE T == {t}
<1>1. T \in SUBSET Threads /\ journals' \in [Names6 -> Journals]
      /\ \A j \in Names6 : journals'[j].log = journals[j].log
  BY DEF IInv, TypeOK
<1>2. \A u \in Threads \ T : thread'[u] = thread[u]
  OBVIOUS
<1>3. \A u \in T : \A m \in Works : m = thread'[u] =>
          WorkFits(Place(u, m), m)' /\ NotYet(Place(u, m), m)'
  OBVIOUS
<1> HIDE DEF T
<1> QED
  BY <1>1, <1>2, <1>3, StockStep

LEMMA NoneMoves ==
    ASSUME IInv, TypeOK', Ahead, UNCHANGED <<journals, thread>>
    PROVE  Grows /\ NoNews /\ EventsFit' /\ WorksFit' /\ Once'
<1> DEFINE T == {}
<1>1. T \in SUBSET Threads /\ journals' \in [Names6 -> Journals]
      /\ \A j \in Names6 : journals'[j].log = journals[j].log
  BY DEF IInv, TypeOK
<1>2. \A u \in Threads \ T : thread'[u] = thread[u]
  OBVIOUS
<1>3. \A u \in T : \A m \in Works : m = thread'[u] =>
          WorkFits(Place(u, m), m)' /\ NotYet(Place(u, m), m)'
  OBVIOUS
<1> HIDE DEF T
<1> QED
  BY <1>1, <1>2, <1>3, StockStep

(* A frame without tickets.                                                 *)
LEMMA EmptyFits ==
    ASSUME NEW place, NEW m, m.slot = 0, m.token = 0, m.link = 0,
           place \in {"idle", "DISPATCH"}
    PROVE  WorkFits(place, m)' /\ NotYet(place, m)'
BY DEF WorkFits, TokenFits, EntryFits, LinkFits, SlotFits, NotYet, Held, Entered

LEMMA IdleIsFirst ==
    ASSUME TypeOK, NEW t \in Threads
    PROVE  /\ Idle \in Works /\ Idle.at = 1 /\ 1 \in 1 .. Len(Route[t])
           /\ Place(t, Idle) = "idle"
           /\ At(t) = "idle" => thread[t].at = 1
<1>1. Idle \in Works /\ Idle.at = 1
  BY DEF Idle, Works, Addresses
<1>2. thread[t].at \in 1 .. Len(Route[t])
  BY DEF TypeOK
<1>3. CASE t = "notifier"
  BY <1>1, <1>2, <1>3 DEF Place, At, Route, Notifier
<1>4. CASE t = "worker"
  BY <1>1, <1>2, <1>4 DEF Place, At, Route, Worker
<1>5. CASE t = "painter"
  BY <1>1, <1>2, <1>5 DEF Place, At, Route, Painter
<1>6. CASE t = "consumer"
  BY <1>1, <1>2, <1>6 DEF Place, At, Route, Consumer
<1> QED
  BY <1>1, <1>3, <1>4, <1>5, <1>6 DEF Threads

(* A thread between jobs.                                                   *)
LEMMA GoesIdle ==
    ASSUME TypeOK, NEW t \in Threads, thread' = [thread EXCEPT ![t] = Idle]
    PROVE  /\ thread' \in [Threads -> Works]
           /\ \A u \in Threads : thread'[u].at \in 1 .. Len(Route[u])
           /\ \A u \in Threads \ {t} : thread'[u] = thread[u]
           /\ thread'[t] = Idle
           /\ \A m \in Works : m = thread'[t] => WorkFits(Place(t, m), m)' /\ NotYet(Place(t, m), m)'
<1>1. Idle \in Works /\ Place(t, Idle) = "idle" /\ Idle.at \in 1 .. Len(Route[t])
      /\ Idle.slot = 0 /\ Idle.token = 0 /\ Idle.link = 0
  BY IdleIsFirst DEF Idle
<1>2. thread'[t] = Idle /\ \A u \in Threads \ {t} : thread'[u] = thread[u]
  BY DEF TypeOK
<1>3. /\ thread' \in [Threads -> Works]
      /\ \A u \in Threads : thread'[u].at \in 1 .. Len(Route[u])
  BY <1>1, <1>2 DEF TypeOK
<1>4. ASSUME NEW m \in Works, m = thread'[t]
      PROVE  WorkFits(Place(t, m), m)' /\ NotYet(Place(t, m), m)'
  <2>1. PICK x : x = Place(t, m)
    OBVIOUS
  <2>2. x = "idle" /\ m.slot = 0 /\ m.token = 0 /\ m.link = 0
    BY <2>1, <1>1, <1>2, <1>4
  <2>3. WorkFits(x, m)' /\ NotYet(x, m)'
    BY <2>2, EmptyFits
  <2> QED
    BY <2>1, <2>3
<1> QED
  BY <1>2, <1>3, <1>4

(* A thread that takes up a job with a ticket.                              *)
LEMMA TakesUp ==
    ASSUME TypeOK, NEW t \in Threads, At(t) = "idle", NEW m \in Works, m.at = 1,
           m.slot = 0, m.link = 0, thread' = [thread EXCEPT ![t] = Onward(t, m)],
           TokenFits(First[t], m)'
    PROVE  /\ thread' \in [Threads -> Works]
           /\ \A u \in Threads : thread'[u].at \in 1 .. Len(Route[u])
           /\ \A u \in Threads \ {t} : thread'[u] = thread[u]
           /\ Place(t, thread'[t]) = First[t]
           /\ \A w \in Works : w = thread'[t] => WorkFits(Place(t, w), w)' /\ NotYet(Place(t, w), w)'
<1>1. thread[t].at = 1
  BY IdleIsFirst
<1>2. /\ thread' \in [Threads -> Works]
      /\ \A u \in Threads : thread'[u].at \in 1 .. Len(Route[u])
      /\ \A u \in Threads \ {t} : thread'[u] = thread[u]
      /\ thread'[t] = [m EXCEPT !.at = thread'[t].at, !.slot = 0]
      /\ Place(t, thread'[t]) = First[t]
  BY <1>1, MovesOn
<1>3. ASSUME NEW w \in Works, w = thread'[t]
      PROVE  WorkFits(Place(t, w), w)' /\ NotYet(Place(t, w), w)'
  <2>1. PICK x : x = Place(t, w)
    OBVIOUS
  <2>2. x = First[t] /\ w.slot = 0 /\ w.link = m.link /\ w.token = m.token /\ w.cause = m.cause
        /\ w.touched = m.touched
    <3>1. x = First[t] /\ w = [m EXCEPT !.at = w.at, !.slot = 0]
      BY <1>2, <1>3, <2>1
    <3> QED
      BY <3>1 DEF Works
  <2>3. x \in {"DISPATCH", "DELIVERY", "PAINT_DELIVERY", "BORROW"}
    BY <2>2 DEF First, Threads
  <2>4. TokenFits(x, w)'
    BY <2>2 DEF TokenFits
  <2>5. WorkFits(x, w)' /\ NotYet(x, w)'
    BY <2>2, <2>3, <2>4 DEF WorkFits, EntryFits, LinkFits, SlotFits, NotYet, Entered
  <2> QED
    BY <2>1, <2>5
<1> QED
  BY <1>2, <1>3

LEMMA NodesStay ==
    ASSUME TypeOK, TypeOK', EventsFit, Grows, Ahead, NodesFit, UNCHANGED <<queue, tail, behind>>,
           \/ thread'["painter"] = thread["painter"]
           \/ Place("painter", thread'["painter"]) \notin {"INSTALL", "append"}
    PROVE  NodesFit'
<1>1. ASSUME NEW m \in Range(queue), NEW i \in Nat, NEW b \in Behinds, i = tail[m], b = behind[m]
      PROVE  TailFits(i, b)'
  BY <1>1, TailKeeps DEF NodesFit
<1>2. ASSUME NEW v \in Works, v = thread'["painter"]
      PROVE  /\ Place("painter", v) \in {"INSTALL", "append"} =>
                   v.node \in Nodes /\ v.node \notin Range(queue)
             /\ Place("painter", v) = "INSTALL" => tail[v.node] = 0
             /\ Place("painter", v) = "append" => \A i \in Nat : i = tail[v.node] =>
                   TailFits(i, [cause |-> v.cause, touched |-> v.touched])'
  <2>1. CASE Place("painter", thread'["painter"]) \notin {"INSTALL", "append"}
    BY <2>1, <1>2
  <2>2. CASE thread'["painter"] = thread["painter"]
    <3>1. v = thread["painter"]
      BY <1>2, <2>2
    <3>2. PICK b : b = [cause |-> v.cause, touched |-> v.touched]
      OBVIOUS
    <3>3. Place("painter", v) = "append" => \A i \in Nat : i = tail[v.node] => TailFits(i, b)'
      BY <3>1, <3>2, TailKeeps DEF NodesFit
    <3> QED
      BY <3>1, <3>2, <3>3 DEF NodesFit
  <2> QED
    BY <2>1, <2>2
<1> QED
  BY <1>1, <1>2 DEF NodesFit

LEMMA NotifyStep == IInv /\ Notify => IInv'
<1> SUFFICES ASSUME IInv, Notify PROVE IInv'
  OBVIOUS
<1> USE DEF IInv
<1>1. PICK m : m = [Idle EXCEPT !.cause = causes + 1]
  OBVIOUS
<1>2. m \in Works /\ m.at = 1 /\ m.slot = 0 /\ m.link = 0 /\ m.token = 0
  <2>1. causes + 1 \in Nat /\ Idle \in Works
    BY IdleIsFirst DEF TypeOK, Threads
  <2> QED
    BY <1>1, <2>1 DEF Idle, Works
<1>3. thread' = [thread EXCEPT !["notifier"] = Onward("notifier", m)] /\ At("notifier") = "idle"
  BY <1>1 DEF Notify
<1>4. TokenFits(First["notifier"], m)'
  BY <1>2 DEF TokenFits
<1>5. /\ thread' \in [Threads -> Works]
      /\ \A u \in Threads : thread'[u].at \in 1 .. Len(Route[u])
      /\ \A u \in Threads \ {"notifier"} : thread'[u] = thread[u]
      /\ \A w \in Works : w = thread'["notifier"] =>
            WorkFits(Place("notifier", w), w)' /\ NotYet(Place("notifier", w), w)'
  BY <1>2, <1>3, <1>4, TakesUp DEF Threads
<1>6. TypeOK'
  <2>1. /\ causes' = causes + 1
        /\ UNCHANGED <<journals, clock, scopes, actions, paints, queue, tail, behind>>
    BY DEF Notify
  <2> QED
    BY <1>5, <2>1 DEF TypeOK
<1>7. Ahead /\ "notifier" \in Threads /\ "painter" \in Threads
  BY QuietWords DEF Notify, Threads
<1>8. Grows /\ NoNews /\ EventsFit' /\ WorksFit' /\ Once'
  BY <1>5, <1>6, <1>7, OneMoves DEF Notify
<1>9. ListsFit'
  BY <1>6, <1>8, ListsKeep DEF Notify
<1>10. NodesFit'
  BY <1>5, <1>6, <1>7, <1>8, NodesStay DEF Notify
<1> QED
  BY <1>6, <1>8, <1>9, <1>10

(* What is behind an element of a list.                                     *)
LEMMA ListOps ==
    ASSUME NEW S, NEW s \in Seq(S)
    PROVE  /\ \A x \in S : Append(s, x) \in Seq(S) /\ Range(Append(s, x)) = Range(s) \cup {x}
           /\ s # <<>> => /\ Head(s) \in Range(s) /\ Head(s) \in S
                          /\ Tail(s) \in Seq(S) /\ Range(Tail(s)) \subseteq Range(s)
<1>1. ASSUME NEW x \in S PROVE Append(s, x) \in Seq(S) /\ Range(Append(s, x)) = Range(s) \cup {x}
  <2> DEFINE a == Append(s, x)
  <2>1. /\ a \in Seq(S) /\ DOMAIN a = DOMAIN s \cup {Len(s) + 1} /\ Len(s) + 1 \notin DOMAIN s
        /\ a[Len(s) + 1] = x /\ \A i \in DOMAIN s : a[i] = s[i]
    <3>1. Len(s) \in Nat /\ DOMAIN s = 1 .. Len(s)
      OBVIOUS
    <3>2. a \in Seq(S) /\ Len(a) = Len(s) + 1 /\ DOMAIN a = 1 .. Len(s) + 1
      BY <3>1
    <3>3. a[Len(s) + 1] = x /\ \A i \in 1 .. Len(s) : a[i] = s[i]
      BY <3>1
    <3>4. 1 .. Len(s) + 1 = (1 .. Len(s)) \cup {Len(s) + 1} /\ Len(s) + 1 \notin 1 .. Len(s)
      BY <3>1
    <3> QED
      BY <3>1, <3>2, <3>3, <3>4
  <2> HIDE DEF a
  <2>2. Range(a) = Range(s) \cup {x}
    BY <2>1, ZenonT(30) DEF Range
  <2> QED
    BY <2>1, <2>2 DEF a
<1>2. ASSUME s # <<>>
      PROVE  /\ Head(s) \in Range(s) /\ Head(s) \in S
             /\ Tail(s) \in Seq(S) /\ Range(Tail(s)) \subseteq Range(s)
  <2>1. Head(s) = s[1] /\ 1 \in DOMAIN s
    BY <1>2
  <2>2. Tail(s) \in Seq(S) /\ Len(Tail(s)) = Len(s) - 1
        /\ \A i \in 1 .. Len(Tail(s)) : Tail(s)[i] = s[i + 1]
    BY <1>2
  <2> QED
    BY <2>1, <2>2 DEF Range
<1> QED
  BY <1>1, <1>2

LEMMA PostStep == IInv /\ Post => IInv'
<1> SUFFICES ASSUME IInv, Post PROVE IInv'
  OBVIOUS
<1> USE DEF IInv
<1>1. PICK k \in Works : k = thread["notifier"]
  BY DEF TypeOK, Threads
<1>2. PICK a : a = [token |-> k.token, cause |-> k.cause]
  OBVIOUS
<1>3. /\ a \in Tickets /\ actions' = Append(actions, a)
      /\ thread' = [thread EXCEPT !["notifier"] = Idle]
      /\ UNCHANGED <<journals, clock, scopes, paints, queue, tail, behind, causes>>
  BY <1>1, <1>2 DEF Post, Tickets, Works
<1>4. "notifier" \in Threads /\ "painter" \in Threads
  BY DEF Threads
<1>5. /\ thread' \in [Threads -> Works]
      /\ \A u \in Threads : thread'[u].at \in 1 .. Len(Route[u])
      /\ \A u \in Threads \ {"notifier"} : thread'[u] = thread[u]
      /\ \A w \in Works : w = thread'["notifier"] =>
            WorkFits(Place("notifier", w), w)' /\ NotYet(Place("notifier", w), w)'
  BY <1>3, <1>4, GoesIdle
<1>6. actions' \in Seq(Tickets) /\ Range(actions') = Range(actions) \cup {a}
  BY <1>3, ListOps DEF TypeOK
<1>7. TypeOK' /\ Ahead
  BY <1>3, <1>5, <1>6, QuietWords DEF TypeOK
<1>8. Grows /\ NoNews /\ EventsFit' /\ WorksFit' /\ Once'
  BY <1>3, <1>4, <1>5, <1>7, OneMoves
<1>9. NodesFit'
  BY <1>3, <1>4, <1>5, <1>7, <1>8, NodesStay
<1>10. a.token # 0 => Good("SOURCE", a.token, a.cause)
  <2>1. TokenFits("post", k)
    BY <1>1, <1>4, PlaceIsAt DEF Post, WorksFit, WorkFits
  <2> QED
    BY <1>2, <2>1 DEF TokenFits, Held
<1>11. ListsFit'
  <2>1. \A b \in Range(actions') : b.token # 0 => Good("SOURCE", b.token, b.cause)
    BY <1>6, <1>10 DEF ListsFit
  <2> QED
    BY <2>1, <1>3, <1>7, <1>8, TicketsKeep DEF ListsFit, Kinds
<1> QED
  BY <1>7, <1>8, <1>9, <1>11

LEMMA PostPaintStep == IInv /\ PostPaint => IInv'
<1> SUFFICES ASSUME IInv, PostPaint PROVE IInv'
  OBVIOUS
<1> USE DEF IInv
<1>1. PICK k \in Works : k = thread["worker"]
  BY DEF TypeOK, Threads
<1>2. PICK a : a = [token |-> k.token, cause |-> k.cause]
  OBVIOUS
<1>3. /\ a \in Tickets /\ paints' = Append(paints, a)
      /\ thread' = [thread EXCEPT !["worker"] = Idle]
      /\ UNCHANGED <<journals, clock, scopes, actions, queue, tail, behind, causes>>
  BY <1>1, <1>2 DEF PostPaint, Tickets, Works
<1>4. "worker" \in Threads /\ "painter" \in Threads
  BY DEF Threads
<1>5. /\ thread' \in [Threads -> Works]
      /\ \A u \in Threads : thread'[u].at \in 1 .. Len(Route[u])
      /\ \A u \in Threads \ {"worker"} : thread'[u] = thread[u]
      /\ \A w \in Works : w = thread'["worker"] =>
            WorkFits(Place("worker", w), w)' /\ NotYet(Place("worker", w), w)'
  BY <1>3, <1>4, GoesIdle
<1>6. paints' \in Seq(Tickets) /\ Range(paints') = Range(paints) \cup {a}
  BY <1>3, ListOps DEF TypeOK
<1>7. TypeOK' /\ Ahead
  BY <1>3, <1>5, <1>6, QuietWords DEF TypeOK
<1>8. Grows /\ NoNews /\ EventsFit' /\ WorksFit' /\ Once'
  BY <1>3, <1>4, <1>5, <1>7, OneMoves
<1>9. NodesFit'
  BY <1>3, <1>4, <1>5, <1>7, <1>8, NodesStay
<1>10. a.token # 0 => Good("PAINT", a.token, a.cause)
  <2>1. TokenFits("post_paint", k)
    BY <1>1, <1>4, PlaceIsAt DEF PostPaint, WorksFit, WorkFits
  <2> QED
    BY <1>2, <2>1 DEF TokenFits, Held
<1>11. ListsFit'
  <2>1. \A b \in Range(paints') : b.token # 0 => Good("PAINT", b.token, b.cause)
    BY <1>6, <1>10 DEF ListsFit
  <2> QED
    BY <2>1, <1>3, <1>7, <1>8, TicketsKeep DEF ListsFit, Kinds
<1> QED
  BY <1>7, <1>8, <1>9, <1>11

LEMMA DeliverStep == IInv /\ Deliver => IInv'
<1> SUFFICES ASSUME IInv, Deliver PROVE IInv'
  OBVIOUS
<1> USE DEF IInv
<1>1. PICK a : a = Head(actions)
  OBVIOUS
<1>2. /\ a \in Range(actions) /\ a \in Tickets
      /\ actions' \in Seq(Tickets) /\ Range(actions') \subseteq Range(actions)
  BY <1>1, ListOps DEF TypeOK, Deliver
<1>3. PICK m : m = [Idle EXCEPT !.token = a.token, !.cause = a.cause]
  OBVIOUS
<1>4. m \in Works /\ m.at = 1 /\ m.slot = 0 /\ m.link = 0 /\ m.token = a.token /\ m.cause = a.cause
  <2>1. Idle \in Works
    BY IdleIsFirst DEF Threads
  <2> QED
    BY <1>2, <1>3, <2>1 DEF Idle, Works, Tickets
<1>5. /\ thread' = [thread EXCEPT !["worker"] = Onward("worker", m)] /\ At("worker") = "idle"
      /\ UNCHANGED <<journals, clock, scopes, paints, queue, tail, behind, causes>>
      /\ "worker" \in Threads /\ "painter" \in Threads
  BY <1>1, <1>3 DEF Deliver, Threads
<1>6. TokenFits(First["worker"], m)'
  <2>1. a.token # 0 => Good("SOURCE", a.token, a.cause)
    BY <1>2 DEF ListsFit
  <2>2. a.token # 0 => Good("SOURCE", a.token, a.cause)'
    BY <2>1, <1>5 DEF Good, Names, Event
  <2> QED
    BY <2>2, <1>4 DEF TokenFits, First, Held, RequestKinds
<1>7. /\ thread' \in [Threads -> Works]
      /\ \A u \in Threads : thread'[u].at \in 1 .. Len(Route[u])
      /\ \A u \in Threads \ {"worker"} : thread'[u] = thread[u]
      /\ \A w \in Works : w = thread'["worker"] =>
            WorkFits(Place("worker", w), w)' /\ NotYet(Place("worker", w), w)'
  BY <1>4, <1>5, <1>6, TakesUp
<1>8. TypeOK' /\ Ahead
  BY <1>2, <1>5, <1>7, QuietWords DEF TypeOK
<1>9. Grows /\ NoNews /\ EventsFit' /\ WorksFit' /\ Once'
  BY <1>5, <1>7, <1>8, OneMoves
<1>10. NodesFit'
  BY <1>5, <1>7, <1>8, <1>9, NodesStay
<1>11. ListsFit'
  BY <1>2, <1>5, <1>8, <1>9, TicketsKeep DEF ListsFit, Kinds
<1> QED
  BY <1>8, <1>9, <1>10, <1>11

LEMMA SelectPaintStep == IInv /\ SelectPaint => IInv'
<1> SUFFICES ASSUME IInv, SelectPaint PROVE IInv'
  OBVIOUS
<1> USE DEF IInv
<1>1. PICK a : a = Head(paints)
  OBVIOUS
<1>2. a \in Range(paints) /\ a \in Tickets
  BY <1>1, ListOps DEF TypeOK, SelectPaint
<1>3. PICK m : m = [Idle EXCEPT !.token = a.token, !.cause = a.cause]
  OBVIOUS
<1>4. m \in Works /\ m.at = 1 /\ m.slot = 0 /\ m.link = 0 /\ m.token = a.token /\ m.cause = a.cause
  <2>1. Idle \in Works
    BY IdleIsFirst DEF Threads
  <2> QED
    BY <1>2, <1>3, <2>1 DEF Idle, Works, Tickets
<1>5. /\ thread' = [thread EXCEPT !["painter"] = Onward("painter", m)] /\ At("painter") = "idle"
      /\ UNCHANGED <<journals, clock, scopes, actions, paints, queue, tail, behind, causes>>
      /\ "painter" \in Threads
  BY <1>1, <1>3 DEF SelectPaint, Threads
<1>6. TokenFits(First["painter"], m)'
  <2>1. a.token # 0 => Good("PAINT", a.token, a.cause)
    BY <1>2 DEF ListsFit
  <2>2. a.token # 0 => Good("PAINT", a.token, a.cause)'
    BY <2>1, <1>5 DEF Good, Names, Event
  <2> QED
    BY <2>2, <1>4 DEF TokenFits, First, Held, RequestKinds
<1>7. /\ thread' \in [Threads -> Works]
      /\ \A u \in Threads : thread'[u].at \in 1 .. Len(Route[u])
      /\ \A u \in Threads \ {"painter"} : thread'[u] = thread[u]
      /\ Place("painter", thread'["painter"]) = First["painter"]
      /\ \A w \in Works : w = thread'["painter"] =>
            WorkFits(Place("painter", w), w)' /\ NotYet(Place("painter", w), w)'
  BY <1>4, <1>5, <1>6, TakesUp
<1>8. TypeOK' /\ Ahead
  BY <1>5, <1>7, QuietWords DEF TypeOK
<1>9. Grows /\ NoNews /\ EventsFit' /\ WorksFit' /\ Once'
  BY <1>5, <1>7, <1>8, OneMoves
<1>10. NodesFit'
  <2>1. Place("painter", thread'["painter"]) \notin {"INSTALL", "append"}
    BY <1>7 DEF First
  <2> QED
    BY <2>1, <1>5, <1>8, <1>9, NodesStay
<1>11. ListsFit'
  BY <1>5, <1>8, <1>9, ListsKeep
<1> QED
  BY <1>8, <1>9, <1>10, <1>11

LEMMA RemovePaintStep == IInv /\ RemovePaint => IInv'
<1> SUFFICES ASSUME IInv, RemovePaint PROVE IInv'
  OBVIOUS
<1> USE DEF IInv
<1>1. /\ thread' = [thread EXCEPT !["painter"] = Idle] /\ "painter" \in Threads
      /\ paints' = IF paints = <<>> THEN paints ELSE Tail(paints)
      /\ UNCHANGED <<journals, clock, scopes, actions, queue, tail, behind, causes>>
  BY DEF RemovePaint, Threads
<1>2. /\ thread' \in [Threads -> Works]
      /\ \A u \in Threads : thread'[u].at \in 1 .. Len(Route[u])
      /\ \A u \in Threads \ {"painter"} : thread'[u] = thread[u]
      /\ thread'["painter"] = Idle
      /\ \A w \in Works : w = thread'["painter"] =>
            WorkFits(Place("painter", w), w)' /\ NotYet(Place("painter", w), w)'
  BY <1>1, GoesIdle
<1>3. paints' \in Seq(Tickets) /\ Range(paints') \subseteq Range(paints)
  BY <1>1, ListOps DEF TypeOK
<1>4. TypeOK' /\ Ahead
  BY <1>1, <1>2, <1>3, QuietWords DEF TypeOK
<1>5. Grows /\ NoNews /\ EventsFit' /\ WorksFit' /\ Once'
  BY <1>1, <1>2, <1>4, OneMoves
<1>6. NodesFit'
  <2>1. Place("painter", thread'["painter"]) \notin {"INSTALL", "append"}
    BY <1>1, <1>2, IdleIsFirst
  <2> QED
    BY <2>1, <1>1, <1>4, <1>5, NodesStay
<1>7. ListsFit'
  BY <1>1, <1>3, <1>4, <1>5, TicketsKeep DEF ListsFit, Kinds
<1> QED
  BY <1>4, <1>5, <1>6, <1>7

LEMMA FreeNodeStep == IInv /\ FreeNode => IInv'
<1> SUFFICES ASSUME IInv, FreeNode PROVE IInv'
  OBVIOUS
<1> USE DEF IInv
<1>1. /\ thread' = [thread EXCEPT !["consumer"] = Idle] /\ {"consumer", "painter"} \subseteq Threads
      /\ UNCHANGED <<journals, clock, scopes, actions, paints, queue, tail, behind, causes>>
  BY DEF FreeNode, Threads
<1>2. /\ thread' \in [Threads -> Works]
      /\ \A u \in Threads : thread'[u].at \in 1 .. Len(Route[u])
      /\ \A u \in Threads \ {"consumer"} : thread'[u] = thread[u]
      /\ \A w \in Works : w = thread'["consumer"] =>
            WorkFits(Place("consumer", w), w)' /\ NotYet(Place("consumer", w), w)'
  BY <1>1, GoesIdle
<1>3. TypeOK' /\ Ahead
  BY <1>1, <1>2, QuietWords DEF TypeOK
<1>4. Grows /\ NoNews /\ EventsFit' /\ WorksFit' /\ Once'
  BY <1>1, <1>2, <1>3, OneMoves
<1>5. NodesFit' /\ ListsFit'
  BY <1>1, <1>2, <1>3, <1>4, NodesStay, ListsKeep
<1> QED
  BY <1>3, <1>4, <1>5

LEMMA PurgeStep == IInv /\ Purge => IInv'
<1> SUFFICES ASSUME IInv, Purge PROVE IInv'
  OBVIOUS
<1> USE DEF IInv
<1>1. /\ paints # <<>> /\ paints' = Tail(paints)
      /\ UNCHANGED <<journals, clock, scopes, actions, queue, tail, behind, thread, causes>>
  BY DEF Purge
<1>2. paints' \in Seq(Tickets) /\ Range(paints') \subseteq Range(paints)
  BY <1>1, ListOps DEF TypeOK
<1>3. TypeOK' /\ Ahead
  BY <1>1, <1>2, QuietWords DEF TypeOK
<1>4. Grows /\ NoNews /\ EventsFit' /\ WorksFit' /\ Once'
  BY <1>1, <1>3, NoneMoves
<1>5. NodesFit'
  BY <1>1, <1>3, <1>4, NodesStay
<1>6. ListsFit'
  BY <1>1, <1>2, <1>3, <1>4, TicketsKeep DEF ListsFit, Kinds
<1> QED
  BY <1>3, <1>4, <1>5, <1>6

LEMMA CloseScopeStep == IInv /\ CloseScope => IInv'
<1> SUFFICES ASSUME IInv, CloseScope PROVE IInv'
  OBVIOUS
<1> USE DEF IInv
<1>1. /\ scopes.active > 0 /\ scopes' = [scopes EXCEPT !.active = scopes.active - 1]
      /\ UNCHANGED <<journals, clock, actions, paints, queue, tail, behind, thread, causes>>
  BY DEF CloseScope
<1>2. /\ scopes.issued \in Nat /\ scopes.active \in Nat /\ scopes.fault \in BOOLEAN
      /\ scopes' = [issued |-> scopes.issued, active |-> scopes.active - 1, fault |-> scopes.fault]
  BY <1>1 DEF TypeOK
<1>3. TypeOK' /\ Ahead
  <2>1. scopes.active - 1 \in Nat
    BY <1>1, <1>2
  <2>2. /\ scopes' \in [issued : Nat, active : Nat, fault : BOOLEAN]
        /\ scopes'.issued = scopes.issued /\ scopes'.fault = scopes.fault
    BY <1>2, <2>1
  <2>3. TypeOK'
    BY <1>1, <2>2 DEF TypeOK
  <2>4. clock \in Int /\ clock' = clock
    BY <1>1 DEF TypeOK, FAULT
  <2> QED
    BY <1>2, <2>2, <2>3, <2>4 DEF Ahead
<1>4. Grows /\ NoNews /\ EventsFit' /\ WorksFit' /\ Once'
  BY <1>1, <1>3, NoneMoves
<1>5. NodesFit' /\ ListsFit'
  BY <1>1, <1>3, <1>4, NodesStay, ListsKeep
<1> QED
  BY <1>3, <1>4, <1>5

LEMMA LoseContentionStep == IInv /\ LoseContention => IInv'
<1> SUFFICES ASSUME IInv, LoseContention PROVE IInv'
  OBVIOUS
<1> USE DEF IInv
<1>1. PICK j \in Names6 : journals' = [journals EXCEPT ![j] = Invalidated(@)]
  BY DEF LoseContention, TypeOK
<1>2. UNCHANGED <<clock, scopes, actions, paints, queue, tail, behind, thread, causes>>
  BY DEF LoseContention
<1>3. journals' \in [Names6 -> Journals] /\ Grows /\ NoNews
  BY <1>1, InvalidateGrows
<1>4. TypeOK' /\ Ahead
  BY <1>2, <1>3, QuietWords DEF TypeOK
<1>5. \A m \in Names6 : journals'[m].log = journals[m].log
  BY <1>1 DEF TypeOK, Journals, Invalidated
<1>6. Grows /\ NoNews /\ EventsFit' /\ WorksFit' /\ Once'
  <2> DEFINE T == {}
  <2>1. T \in SUBSET Threads /\ \A u \in Threads \ T : thread'[u] = thread[u]
    BY <1>2
  <2>2. \A u \in T : \A m \in Works : m = thread'[u] =>
            WorkFits(Place(u, m), m)' /\ NotYet(Place(u, m), m)'
    OBVIOUS
  <2> HIDE DEF T
  <2> QED
    BY <2>1, <2>2, <1>3, <1>4, <1>5, StockStep
<1>7. NodesFit' /\ ListsFit'
  BY <1>2, <1>4, <1>6, NodesStay, ListsKeep
<1> QED
  BY <1>4, <1>6, <1>7

-----------------------------------------------------------------------------
(* The nodes of the paint queue. *)

(* What NodesFit says of the painter's frame.                               *)
PainterFits(place, k, q) ==
    /\ place \in {"INSTALL", "append"} => k.node \in Nodes /\ k.node \notin Range(q)
    /\ place = "INSTALL" => tail[k.node] = 0
    /\ place = "append" => \A i \in Nat :
          i = tail[k.node] => TailFits(i, [cause |-> k.cause, touched |-> k.touched])

LEMMA NodesByParts ==
    ASSUME NEW q, q = queue',
           \A n \in Range(q) : \A i \in Nat, b \in Behinds :
               i = tail'[n] /\ b = behind'[n] => TailFits(i, b)',
           \A k \in Works : k = thread'["painter"] => PainterFits(Place("painter", k), k, q)'
    PROVE  NodesFit'
BY DEF NodesFit, PainterFits

LEMMA AllocateStep == IInv /\ Allocate => IInv'
<1> SUFFICES ASSUME IInv, Allocate PROVE IInv'
  OBVIOUS
<1> USE DEF IInv
<1>1. PICK k \in Works : k = thread["painter"]
  BY DEF TypeOK, Threads
<1>2. PICK n \in FreeNodes : /\ tail' = Cleared(n)
                             /\ thread' = [thread EXCEPT !["painter"] =
                                  Onward("painter", [k EXCEPT !.node = n])]
  BY <1>1 DEF Allocate, TypeOK, Threads
<1>3. /\ UNCHANGED <<journals, clock, scopes, actions, paints, queue, behind, causes>>
      /\ At("painter") = "allocate" /\ "painter" \in Threads
  BY DEF Allocate, Threads
<1>4. n \in Nodes /\ n \notin Range(queue)
  BY <1>2 DEF FreeNodes, Range
<1>5. PICK m : m = [k EXCEPT !.node = n]
  OBVIOUS
<1>6. m \in Works /\ m.at = k.at /\ m.token = k.token /\ m.cause = k.cause /\ m.touched = k.touched
      /\ m.node = n
  BY <1>4, <1>5 DEF Works, Addresses
<1>7. /\ thread' \in [Threads -> Works]
      /\ \A u \in Threads : thread'[u].at \in 1 .. Len(Route[u])
      /\ \A u \in Threads \ {"painter"} : thread'[u] = thread[u]
      /\ thread'["painter"] = [m EXCEPT !.at = thread'["painter"].at, !.slot = 0]
      /\ Place("painter", thread'["painter"]) = "INSTALL"
  <2>1. thread' = [thread EXCEPT !["painter"] = Onward("painter", m)] /\ m.at = thread["painter"].at
    BY <1>1, <1>2, <1>5, <1>6
  <2>2. At("painter") \in DOMAIN Following /\ Following[At("painter")] = "INSTALL"
    BY <1>3 DEF Following
  <2> QED
    BY <1>3, <1>6, <2>1, <2>2, MovesOn
<1>8. PICK w \in Works : w = thread'["painter"]
  BY <1>3, <1>7
<1>9. /\ w.slot = 0 /\ w.token = k.token /\ w.cause = k.cause /\ w.touched = k.touched
      /\ w.node = n
  <2>1. w = [m EXCEPT !.at = w.at, !.slot = 0]
    BY <1>7, <1>8
  <2> QED
    BY <2>1, <1>6 DEF Works
<1>10. /\ tail' \in [Nodes -> Nat] /\ tail'[n] = 0 /\ \A o \in Nodes \ {n} : tail'[o] = tail[o]
  BY <1>2, <1>4 DEF Cleared, TypeOK
<1>11. TypeOK' /\ Ahead
  BY <1>3, <1>7, <1>10, QuietWords DEF TypeOK
<1>12. WorkFits("allocate", k) /\ NotYet("allocate", k)
  BY <1>1, <1>3, PlaceIsAt DEF WorksFit, Once
<1>13. Grows /\ NoNews
  BY <1>3, StillGrows
<1>14. WorkFits("INSTALL", w)'
  <2>1. TokenFits("allocate", k)'
    BY <1>11, <1>12, <1>13, WorkKeeps DEF WorkFits
  <2>2. TokenFits("INSTALL", w)'
    BY <2>1, <1>9 DEF TokenFits, Held, Steps, Entered
  <2> QED
    BY <2>2, <1>9 DEF WorkFits, EntryFits, LinkFits, SlotFits, Entered
<1>15. NotYet("INSTALL", w)'
  <2>1. NotYet("allocate", k)'
    BY <1>11, <1>12, <1>13, NotYetKeeps
  <2> QED
    BY <2>1, <1>9 DEF NotYet
<1>16. Grows /\ NoNews /\ EventsFit' /\ WorksFit' /\ Once'
  <2>1. \A v \in Works : v = thread'["painter"] =>
            WorkFits(Place("painter", v), v)' /\ NotYet(Place("painter", v), v)'
    <3> SUFFICES ASSUME NEW v \in Works, v = thread'["painter"]
                 PROVE  WorkFits(Place("painter", v), v)' /\ NotYet(Place("painter", v), v)'
      OBVIOUS
    <3>1. PICK x : x = Place("painter", v)
      OBVIOUS
    <3>2. x = "INSTALL" /\ v = w
      BY <3>1, <1>7, <1>8
    <3> QED
      BY <3>1, <3>2, <1>14, <1>15
  <2> QED
    BY <2>1, <1>3, <1>7, <1>11, OneMoves
<1>17. NodesFit'
  <2>1. \A o \in Range(queue') : \A i \in Nat, b \in Behinds :
            i = tail'[o] /\ b = behind'[o] => TailFits(i, b)'
    <3> SUFFICES ASSUME NEW o \in Range(queue), NEW i \in Nat, NEW b \in Behinds,
                        i = tail'[o], b = behind[o]
                 PROVE  TailFits(i, b)'
      BY <1>3
    <3>1. o \in Nodes \ {n}
      BY <1>4 DEF TypeOK, Range
    <3>2. i = tail[o]
      BY <3>1, <1>10
    <3>3. TailFits(i, b)
      BY <3>2 DEF NodesFit
    <3> QED
      BY <3>3, <1>11, <1>16, TailKeeps
  <2>2. \A v \in Works : v = thread'["painter"] => PainterFits(Place("painter", v), v, queue)'
    <3> SUFFICES ASSUME NEW v \in Works, v = thread'["painter"]
                 PROVE  PainterFits(Place("painter", v), v, queue)'
      OBVIOUS
    <3>1. PICK x : x = Place("painter", v)
      OBVIOUS
    <3>2. x = "INSTALL" /\ v = w
      BY <3>1, <1>7, <1>8
    <3>3. PainterFits(x, v, queue)'
      BY <3>2, <1>3, <1>4, <1>9, <1>10 DEF PainterFits
    <3> QED
      BY <3>1, <3>3
  <2> QED
    BY <2>1, <2>2, <1>3, NodesByParts
<1>18. ListsFit'
  BY <1>3, <1>11, <1>16, ListsKeep
<1> QED
  BY <1>11, <1>16, <1>17, <1>18

LEMMA QueueNodes ==
    ASSUME TypeOK PROVE Range(queue) \subseteq Nodes
BY DEF TypeOK, Range

LEMMA AppendNodeStep == IInv /\ AppendNode => IInv'
<1> SUFFICES ASSUME IInv, AppendNode PROVE IInv'
  OBVIOUS
<1> USE DEF IInv
<1>1. PICK k \in Works : k = thread["painter"]
  BY DEF TypeOK, Threads
<1>2. PICK c : c = [cause |-> k.cause, touched |-> k.touched]
  OBVIOUS
<1>3. /\ queue' = Append(queue, k.node)
      /\ behind' = [behind EXCEPT ![k.node] = c]
      /\ thread' = [thread EXCEPT !["painter"] = Onward("painter", k)]
      /\ UNCHANGED <<journals, clock, scopes, actions, paints, tail, causes>>
      /\ At("painter") = "append" /\ "painter" \in Threads
  BY <1>1, <1>2 DEF AppendNode, Threads, TypeOK
<1>4. /\ k.node \in Nodes /\ k.node \notin Range(queue)
      /\ \A i \in Nat : i = tail[k.node] => TailFits(i, c)
  <2>1. Place("painter", k) = "append"
    BY <1>1, <1>3, PlaceIsAt
  <2> QED
    BY <2>1, <1>1, <1>2 DEF NodesFit
<1>5. c \in Behinds
  BY <1>2 DEF Behinds, Works
<1>6. /\ thread' \in [Threads -> Works]
      /\ \A u \in Threads : thread'[u].at \in 1 .. Len(Route[u])
      /\ \A u \in Threads \ {"painter"} : thread'[u] = thread[u]
      /\ thread'["painter"] = [k EXCEPT !.at = thread'["painter"].at, !.slot = 0]
      /\ Place("painter", thread'["painter"]) = "RETURN"
  <2>1. At("painter") \in DOMAIN Following /\ Following[At("painter")] = "RETURN"
    BY <1>3 DEF Following
  <2> QED
    BY <1>1, <1>3, <2>1, MovesOn
<1>7. PICK w \in Works : w = thread'["painter"]
  BY <1>3, <1>6
<1>8. w.slot = 0 /\ w.token = k.token /\ w.cause = k.cause /\ w.touched = k.touched
  <2>1. w = [k EXCEPT !.at = w.at, !.slot = 0]
    BY <1>6, <1>7
  <2> QED
    BY <2>1 DEF Works
<1>9. queue' \in Seq(Nodes) /\ Range(queue') = Range(queue) \cup {k.node}
  BY <1>3, <1>4, ListOps DEF TypeOK
<1>10. /\ behind' \in [Nodes -> Behinds] /\ behind'[k.node] = c
       /\ \A o \in Nodes \ {k.node} : behind'[o] = behind[o]
  BY <1>3, <1>4, <1>5 DEF TypeOK
<1>11. TypeOK' /\ Ahead
  BY <1>3, <1>6, <1>9, <1>10, QuietWords DEF TypeOK
<1>12. WorkFits("append", k) /\ NotYet("append", k)
  BY <1>1, <1>3, PlaceIsAt DEF WorksFit, Once
<1>13. Grows /\ NoNews
  BY <1>3, StillGrows
<1>14. WorkFits("RETURN", w)'
  <2>1. TokenFits("append", k)'
    BY <1>11, <1>12, <1>13, WorkKeeps DEF WorkFits
  <2>2. TokenFits("RETURN", w)'
    BY <2>1, <1>8 DEF TokenFits, Held, Steps, Entered
  <2> QED
    BY <2>2, <1>8 DEF WorkFits, EntryFits, LinkFits, SlotFits, Entered
<1>15. NotYet("RETURN", w)'
  <2>1. NotYet("append", k)'
    BY <1>11, <1>12, <1>13, NotYetKeeps
  <2> QED
    BY <2>1, <1>8 DEF NotYet
<1>16. Grows /\ NoNews /\ EventsFit' /\ WorksFit' /\ Once'
  <2>1. \A v \in Works : v = thread'["painter"] =>
            WorkFits(Place("painter", v), v)' /\ NotYet(Place("painter", v), v)'
    <3> SUFFICES ASSUME NEW v \in Works, v = thread'["painter"]
                 PROVE  WorkFits(Place("painter", v), v)' /\ NotYet(Place("painter", v), v)'
      OBVIOUS
    <3>1. PICK x : x = Place("painter", v)
      OBVIOUS
    <3>2. x = "RETURN" /\ v = w
      BY <3>1, <1>6, <1>7
    <3> QED
      BY <3>1, <3>2, <1>14, <1>15
  <2> QED
    BY <2>1, <1>3, <1>6, <1>11, OneMoves
<1>17. NodesFit'
  <2> SUFFICES ASSUME NEW o \in Range(queue'), NEW i \in Nat, NEW b \in Behinds,
                      i = tail[o], b = behind'[o]
               PROVE  TailFits(i, b)'
    <3>1. \A v \in Works : v = thread'["painter"] => Place("painter", v) = "RETURN"
      BY <1>6
    <3> QED
      BY <3>1, <1>3 DEF NodesFit
  <2>1. TailFits(i, b)
    <3>1. CASE o = k.node
      BY <3>1, <1>4, <1>10
    <3>2. CASE o # k.node
      <4>1. o \in Range(queue) /\ o \in Nodes
        BY <3>2, <1>9, QueueNodes
      <4> QED
        BY <3>2, <4>1, <1>10 DEF NodesFit
    <3> QED
      BY <3>1, <3>2
  <2> QED
    BY <2>1, <1>11, <1>16, TailKeeps
<1>18. ListsFit'
  BY <1>3, <1>11, <1>16, ListsKeep
<1> QED
  BY <1>11, <1>16, <1>17, <1>18

LEMMA OtherProducerStep == IInv /\ OtherProducer => IInv'
<1> SUFFICES ASSUME IInv, OtherProducer PROVE IInv'
  OBVIOUS
<1> USE DEF IInv
<1>1. PICK n \in FreeNodes : /\ tail' = Cleared(n)
                             /\ behind' = [behind EXCEPT ![n] = [cause |-> 0, touched |-> FALSE]]
                             /\ queue' = Append(queue, n)
  BY DEF OtherProducer
<1>2. UNCHANGED <<journals, clock, scopes, actions, paints, thread, causes>>
  BY DEF OtherProducer
<1>3. n \in Nodes /\ n \notin Range(queue) /\ thread["painter"].node # n
  BY <1>1 DEF FreeNodes, Range, Threads
<1>4. /\ tail' \in [Nodes -> Nat] /\ tail'[n] = 0 /\ \A o \in Nodes \ {n} : tail'[o] = tail[o]
  BY <1>1, <1>3 DEF Cleared, TypeOK
<1>5. /\ behind' \in [Nodes -> Behinds] /\ \A o \in Nodes \ {n} : behind'[o] = behind[o]
  BY <1>1, <1>3 DEF TypeOK, Behinds
<1>6. queue' \in Seq(Nodes) /\ Range(queue') = Range(queue) \cup {n}
  BY <1>1, <1>3, ListOps DEF TypeOK
<1>7. TypeOK' /\ Ahead
  BY <1>2, <1>4, <1>5, <1>6, QuietWords DEF TypeOK
<1>8. Grows /\ NoNews /\ EventsFit' /\ WorksFit' /\ Once'
  BY <1>2, <1>7, NoneMoves
<1>9. NodesFit'
  <2>1. \A o \in Range(queue') : \A i \in Nat, b \in Behinds :
            i = tail'[o] /\ b = behind'[o] => TailFits(i, b)'
    <3> SUFFICES ASSUME NEW o \in Range(queue'), NEW i \in Nat, NEW b \in Behinds,
                        i = tail'[o], b = behind'[o]
                 PROVE  TailFits(i, b)'
      OBVIOUS
    <3>1. TailFits(i, b)
      <4>1. CASE o = n
        BY <4>1, <1>4 DEF TailFits
      <4>2. CASE o # n
        <5>1. o \in Range(queue) /\ o \in Nodes
          BY <4>2, <1>6, QueueNodes
        <5> QED
          BY <4>2, <5>1, <1>4, <1>5 DEF NodesFit
      <4> QED
        BY <4>1, <4>2
    <3> QED
      BY <3>1, <1>7, <1>8, TailKeeps
  <2>2. \A q : q = queue' => \A v \in Works : v = thread'["painter"] =>
            PainterFits(Place("painter", v), v, q)'
    <3> SUFFICES ASSUME NEW q, q = queue', NEW v \in Works, v = thread["painter"]
                 PROVE  PainterFits(Place("painter", v), v, q)'
      BY <1>2
    <3>1. PICK x : x = Place("painter", v)
      OBVIOUS
    <3>2. x \in {"INSTALL", "append"} => v.node \in Nodes /\ v.node \notin Range(q) /\ v.node # n
      BY <3>1, <1>3, <1>6 DEF NodesFit
    <3>3. x = "INSTALL" => tail'[v.node] = 0
      BY <3>1, <3>2, <1>4 DEF NodesFit
    <3>4. ASSUME x = "append", NEW i \in Nat, i = tail'[v.node]
          PROVE  TailFits(i, [cause |-> v.cause, touched |-> v.touched])'
      <4>1. PICK b : b = [cause |-> v.cause, touched |-> v.touched]
        OBVIOUS
      <4>2. TailFits(i, b)
        BY <3>1, <3>2, <3>4, <4>1, <1>4 DEF NodesFit
      <4> QED
        BY <4>1, <4>2, <1>7, <1>8, TailKeeps
    <3>5. PainterFits(x, v, q)'
      BY <3>2, <3>3, <3>4 DEF PainterFits
    <3> QED
      BY <3>1, <3>5
  <2> QED
    BY <2>1, <2>2, NodesByParts
<1>10. ListsFit'
  BY <1>2, <1>7, <1>8, ListsKeep
<1> QED
  BY <1>7, <1>8, <1>9, <1>10

LEMMA BorrowNodeStep == IInv /\ BorrowNode => IInv'
<1> SUFFICES ASSUME IInv, BorrowNode PROVE IInv'
  OBVIOUS
<1> USE DEF IInv
<1>1. PICK n : n = Head(queue)
  OBVIOUS
<1>2. /\ n \in Range(queue) /\ n \in Nodes
      /\ queue' \in Seq(Nodes) /\ Range(queue') \subseteq Range(queue)
  BY <1>1, ListOps DEF TypeOK, BorrowNode
<1>3. PICK m : m = [Idle EXCEPT !.node = n, !.token = tail[n],
                                !.cause = behind[n].cause, !.touched = behind[n].touched]
  OBVIOUS
<1>4. /\ m \in Works /\ m.at = 1 /\ m.slot = 0 /\ m.link = 0 /\ m.token = tail[n]
      /\ m.cause = behind[n].cause /\ m.touched = behind[n].touched
  <2>1. Idle \in Works /\ tail[n] \in Nat /\ behind[n] \in Behinds
    BY <1>2, IdleIsFirst DEF Threads, TypeOK
  <2> QED
    BY <1>2, <1>3, <2>1 DEF Idle, Works, Behinds, Addresses
<1>5. /\ thread' = [thread EXCEPT !["consumer"] = Onward("consumer", m)] /\ At("consumer") = "idle"
      /\ UNCHANGED <<journals, clock, scopes, actions, paints, tail, behind, causes>>
      /\ {"consumer", "painter"} \subseteq Threads
  BY <1>1, <1>3 DEF BorrowNode, Threads
<1>6. Grows /\ NoNews /\ Ahead
  BY <1>5, StillGrows, QuietWords
<1>7. TailFits(m.token, behind[n])
  BY <1>2, <1>4 DEF NodesFit, TypeOK
<1>8. TokenFits(First["consumer"], m)'
  <2>1. First["consumer"] = "BORROW" /\ Held["BORROW"] = "INSTALL" /\ Steps("BORROW") = 0
    BY DEF First, Held, Steps, Entered
  <2>2. m.token # 0 => Good("INSTALL", m.token, m.cause) /\ Marked("INSTALL", m.token, m.touched, 0)
    BY <1>4, <1>7 DEF TailFits
  <2>3. m.token # 0 => /\ Good("INSTALL", m.token, m.cause)'
                       /\ Marked("INSTALL", m.token, m.touched, 0)'
    BY <2>2, <1>5 DEF Good, Names, Marked, Disturbed, Event
  <2> QED
    BY <2>1, <2>3 DEF TokenFits
<1>9. /\ thread' \in [Threads -> Works]
      /\ \A u \in Threads : thread'[u].at \in 1 .. Len(Route[u])
      /\ \A u \in Threads \ {"consumer"} : thread'[u] = thread[u]
      /\ \A w \in Works : w = thread'["consumer"] =>
            WorkFits(Place("consumer", w), w)' /\ NotYet(Place("consumer", w), w)'
  BY <1>4, <1>5, <1>8, TakesUp
<1>10. TypeOK'
  BY <1>2, <1>5, <1>9 DEF TypeOK
<1>11. EventsFit' /\ WorksFit' /\ Once'
  BY <1>5, <1>6, <1>9, <1>10, OneMoves
<1>12. NodesFit'
  <2>1. \A o \in Range(queue') : \A i \in Nat, b \in Behinds :
            i = tail'[o] /\ b = behind'[o] => TailFits(i, b)'
    BY <1>2, <1>5, <1>6, <1>10, TailKeeps DEF NodesFit
  <2>2. \A q : q = queue' => \A v \in Works : v = thread'["painter"] =>
            PainterFits(Place("painter", v), v, q)'
    <3> SUFFICES ASSUME NEW q, q = queue', NEW v \in Works, v = thread["painter"]
                 PROVE  PainterFits(Place("painter", v), v, q)'
      BY <1>5, <1>9 DEF Threads
    <3>1. PICK x : x = Place("painter", v)
      OBVIOUS
    <3>2. /\ x \in {"INSTALL", "append"} => v.node \in Nodes /\ v.node \notin Range(q)
          /\ x = "INSTALL" => tail'[v.node] = 0
      BY <3>1, <1>2, <1>5 DEF NodesFit
    <3>3. ASSUME x = "append", NEW i \in Nat, i = tail'[v.node]
          PROVE  TailFits(i, [cause |-> v.cause, touched |-> v.touched])'
      <4>1. PICK b : b = [cause |-> v.cause, touched |-> v.touched]
        OBVIOUS
      <4>2. TailFits(i, b)
        BY <3>1, <3>3, <4>1, <1>5 DEF NodesFit
      <4> QED
        BY <4>1, <4>2, <1>6, <1>10, TailKeeps
    <3>4. PainterFits(x, v, q)'
      BY <3>2, <3>3 DEF PainterFits
    <3> QED
      BY <3>1, <3>4
  <2> QED
    BY <2>1, <2>2, NodesByParts
<1>13. ListsFit'
  BY <1>5, <1>6, <1>10, ListsKeep
<1> QED
  BY <1>10, <1>11, <1>12, <1>13

-----------------------------------------------------------------------------
(* Contents that change. *)

(* A boundary moves the revision, a scope the tickets, or either is lost.   *)
Moved ==
    \/ clock' = Bumped /\ scopes' = scopes
    \/ /\ clock' = clock
       /\ scopes'.fault \/ scopes'.issued > scopes.issued

LEMMA BirthIsPast ==
    ASSUME IInv, NEW o, Listed("BIRTH", o)
    PROVE  /\ Event("BIRTH", o).revision \in Nat /\ Event("BIRTH", o).issued \in Nat
           /\ clock # FAULT => Event("BIRTH", o).revision <= clock
           /\ Event("BIRTH", o).issued <= scopes.issued
<1>1. /\ EventFits("birth", o, Event("BIRTH", o)) /\ Event("BIRTH", o) \in Events
      /\ Event("BIRTH", o).kind = "BIRTH"
  BY EventIsFit, KindTable DEF IInv, Kinds
<1> QED
  BY <1>1, KindTable DEF EventFits, Sampled, Sampling, Events

LEMMA AllDisturbed ==
    ASSUME IInv, TypeOK', UNCHANGED journals, Moved, NEW o, Listed("BIRTH", o)
    PROVE  /\ Disturbed(o, 0)'
           /\ (clock # FAULT => clock > Event("BIRTH", o).revision) => Disturbed(o, 1)'
<1>1. PICK b : b = Event("BIRTH", o)
  OBVIOUS
<1>2. Event("BIRTH", o)' = b
  BY <1>1 DEF Event
<1>3. /\ b.revision \in Nat /\ b.issued \in Nat
      /\ clock # FAULT => b.revision <= clock
      /\ b.issued <= scopes.issued
  BY <1>1, BirthIsPast
<1>4. /\ clock \in Nat \cup {FAULT} /\ scopes.issued \in Nat /\ scopes'.issued \in Nat
  BY DEF IInv, TypeOK
<1>5. CASE clock' = FAULT \/ scopes'.fault
  BY <1>5 DEF Disturbed
<1>6. CASE clock' = clock /\ scopes'.issued > scopes.issued
  <2>1. scopes'.issued > b.issued
    BY <1>3, <1>4, <1>6
  <2> QED
    BY <2>1, <1>2 DEF Disturbed
<1>7. CASE clock' = Bumped /\ clock' # FAULT
  <2>1. clock \in Nat /\ clock' = clock + 1 /\ clock # FAULT
    BY <1>4, <1>7 DEF Bumped
  <2>2. clock' > b.revision + 0 /\ (clock > b.revision => clock' > b.revision + 1)
    BY <2>1, <1>3
  <2> QED
    BY <2>1, <2>2, <1>1, <1>2 DEF Disturbed
<1> QED
  BY <1>5, <1>6, <1>7 DEF Moved

(* Everything under way may be marked.                                      *)
LEMMA TicketTouched ==
    ASSUME IInv, TypeOK', UNCHANGED journals, Moved,
           NEW kind \in RequestKinds, NEW i, Listed(kind, i)
    PROVE  /\ \A touched : Marked(kind, i, touched, 0)'
           /\ (clock # FAULT => clock > Event("BIRTH", Event(kind, i).origin).revision)
                 => \A touched : Marked(kind, i, touched, 1)'
<1>1. kind \in Kinds /\ JournalOf(kind) \in Names6
  BY JournalNames DEF RequestKinds, Kinds
<1>2. Event(kind, i) \in Events /\ EventFits(JournalOf(kind), i, Event(kind, i))
      /\ Event(kind, i).kind = kind
  BY <1>1, EventIsFit DEF IInv
<1>3. PICK o \in Nat : o = Event(kind, i).origin
  BY <1>2 DEF Events
<1>4. Listed("BIRTH", o) /\ Event(kind, i)'.origin = o
  BY <1>2, <1>3 DEF EventFits, Event
<1>5. /\ Disturbed(o, 0)'
      /\ (clock # FAULT => clock > Event("BIRTH", o).revision) => Disturbed(o, 1)'
  BY <1>4, AllDisturbed
<1> QED
  BY <1>3, <1>4, <1>5 DEF Marked

LEMMA TouchedFits ==
    ASSUME IInv, TypeOK', UNCHANGED journals, Ahead, Moved, NEW place, NEW k \in Works,
           WorkFits(place, k), NotYet(place, k), NEW m \in Works, m = [k EXCEPT !.touched = TRUE]
    PROVE  WorkFits(place, m)' /\ NotYet(place, m)'
<1>1. Grows /\ NoNews
  BY StillGrows
<1>2. /\ m.touched /\ m.slot = k.slot /\ m.token = k.token /\ m.link = k.link /\ m.root = k.root
      /\ m.entry = k.entry /\ m.cause = k.cause /\ m.at = k.at
  BY DEF Works
<1>3. TokenFits(place, k)' /\ EntryFits(place, k)' /\ LinkFits(place, k)'
  BY <1>1, WorkKeeps DEF IInv, WorkFits
<1>4. NotYet(place, m)'
  <2>1. NotYet(place, k)'
    BY <1>1, NotYetKeeps DEF IInv
  <2> QED
    BY <2>1, <1>2 DEF NotYet
<1>5. TokenFits(place, m)'
  <2> SUFFICES ASSUME place \in DOMAIN Held, m.token # 0, Held[place] \in RequestKinds
               PROVE  Marked(Held[place], m.token, m.touched, Steps(place))'
    BY <1>2, <1>3 DEF TokenFits, Steps
  <2>1. Listed(Held[place], m.token)
    BY <1>2 DEF WorkFits, TokenFits, Good, Names, Listed
  <2>2. CASE place \notin Entered
    BY <2>1, <2>2, TicketTouched DEF Steps
  <2>3. CASE place \in Entered
    <3>1. Held[place] = "OUTER" /\ Steps(place) = 1
      BY <2>3 DEF Held, Entered, Steps
    <3>2. clock # FAULT => clock > Event("BIRTH", Event("OUTER", m.token).origin).revision
      BY <2>3, <1>2 DEF WorkFits, EntryFits
    <3> QED
      BY <2>1, <3>1, <3>2, TicketTouched
  <2> QED
    BY <2>2, <2>3
<1>6. SlotFits(place, m)'
  <2> SUFFICES ASSUME m.slot # 0 PROVE SlotFits(place, m)'
    BY DEF SlotFits
  <2>1. /\ place \in Kinds /\ Listed(place, k.slot) /\ ~Event(place, k.slot).published
        /\ SlotFits(place, k) /\ k.slot # 0
    BY <1>2 DEF WorkFits, SlotFits
  <2>2. SlotFits(place, k)'
    <3>1. ~Event(place, k.slot)'.published
      BY <2>1 DEF Event
    <3> QED
      BY <2>1, <3>1, <1>1, SlotKeeps DEF IInv
  <2>3. place = "BIRTH" => Marked("BIRTH", m.slot, m.touched, 0)'
    BY <2>1, <1>2, TicketTouched DEF RequestKinds
  <2>4. Carries(m, place)' = Carries(k, place)' /\ Parent(m, place)' = Parent(k, place)'
    BY <1>2 DEF Carries, Parent
  <2> QED
    BY <2>1, <2>2, <2>3, <2>4, <1>2 DEF SlotFits
<1> QED
  BY <1>2, <1>3, <1>4, <1>5, <1>6 DEF WorkFits, EntryFits, LinkFits

LEMMA TailTouched ==
    ASSUME IInv, TypeOK', UNCHANGED journals, Moved, NEW i, NEW b, NEW c,
           TailFits(i, b), c.cause = b.cause
    PROVE  TailFits(i, c)'
<1> SUFFICES ASSUME i # 0 PROVE Good("INSTALL", i, c.cause)' /\ Marked("INSTALL", i, c.touched, 0)'
  BY DEF TailFits
<1>1. Good("INSTALL", i, c.cause) /\ Listed("INSTALL", i)
  BY DEF TailFits, Good, Names, Listed
<1>2. Good("INSTALL", i, c.cause)'
  BY <1>1 DEF Good, Names, Event
<1> QED
  BY <1>1, <1>2, TicketTouched DEF RequestKinds

LEMMA TouchStep ==
    ASSUME IInv, TypeOK', Ahead, Moved, UNCHANGED <<journals, actions, paints, queue, tail>>,
           behind' = TouchedNodes,
           \A u \in Threads \ {"consumer"} : thread'[u] = [thread[u] EXCEPT !.touched = TRUE],
           \A w \in Works : w = thread'["consumer"] =>
               WorkFits(Place("consumer", w), w)' /\ NotYet(Place("consumer", w), w)'
    PROVE  IInv'
<1> USE DEF IInv
<1>1. ASSUME NEW u \in Threads, NEW v \in Works, v = thread'[u]
      PROVE  WorkFits(Place(u, v), v)' /\ NotYet(Place(u, v), v)'
  <2>1. CASE u = "consumer"
    BY <2>1, <1>1
  <2>2. CASE u # "consumer"
    <3>1. PICK k \in Works : k = thread[u]
      BY DEF TypeOK
    <3>2. v = [k EXCEPT !.touched = TRUE]
      BY <2>2, <3>1, <1>1
    <3>3. PICK x : x = Place(u, k)
      OBVIOUS
    <3>4. x = Place(u, v)
      BY <3>2, <3>3 DEF Place, Works
    <3>5. WorkFits(x, k) /\ NotYet(x, k)
      BY <3>1, <3>3 DEF WorksFit, Once
    <3>6. WorkFits(x, v)' /\ NotYet(x, v)'
      BY <3>2, <3>5, TouchedFits
    <3> QED
      BY <3>4, <3>6
  <2> QED
    BY <2>1, <2>2
<1>2. Grows /\ NoNews /\ EventsFit' /\ WorksFit' /\ Once'
  <2> DEFINE T == Threads
  <2>1. T \in SUBSET Threads /\ journals' \in [Names6 -> Journals]
        /\ (\A j \in Names6 : journals'[j].log = journals[j].log)
        /\ (\A u \in Threads \ T : thread'[u] = thread[u])
    BY DEF TypeOK
  <2>2. \A u \in T : \A m \in Works : m = thread'[u] =>
            WorkFits(Place(u, m), m)' /\ NotYet(Place(u, m), m)'
    BY <1>1
  <2> HIDE DEF T
  <2> QED
    BY <2>1, <2>2, StockStep
<1>3. ListsFit'
  BY <1>2, ListsKeep
<1>4. NodesFit'
  <2>1. \A o \in Range(queue) : \A i \in Nat, b \in Behinds :
            i = tail'[o] /\ b = behind'[o] => TailFits(i, b)'
    <3> SUFFICES ASSUME NEW o \in Range(queue), NEW i \in Nat, NEW b \in Behinds,
                        i = tail[o], b = behind'[o]
                 PROVE  TailFits(i, b)'
      OBVIOUS
    <3>1. o \in Nodes
      BY QueueNodes
    <3>2. PICK c \in Behinds : c = behind[o]
      BY <3>1 DEF TypeOK
    <3>3. TailFits(i, c) /\ b.cause = c.cause
      BY <3>1, <3>2 DEF NodesFit, TouchedNodes, Behinds
    <3> QED
      BY <3>3, TailTouched
  <2>2. \A q : q = queue' => \A v \in Works : v = thread'["painter"] =>
            PainterFits(Place("painter", v), v, q)'
    <3> SUFFICES ASSUME NEW q, q = queue, NEW v \in Works, v = thread'["painter"]
                 PROVE  PainterFits(Place("painter", v), v, q)'
      OBVIOUS
    <3>1. PICK k \in Works : k = thread["painter"]
      BY DEF TypeOK, Threads
    <3>2. /\ v = [k EXCEPT !.touched = TRUE] /\ Place("painter", v) = Place("painter", k)
      BY <3>1 DEF Threads, Place, Works
    <3>3. PICK x : x = Place("painter", v)
      OBVIOUS
    <3>4. v.node = k.node /\ v.cause = k.cause
      BY <3>2 DEF Works
    <3>5. /\ x \in {"INSTALL", "append"} => v.node \in Nodes /\ v.node \notin Range(q)
          /\ x = "INSTALL" => tail'[v.node] = 0
      BY <3>1, <3>2, <3>3, <3>4 DEF NodesFit
    <3>6. ASSUME x = "append", NEW i \in Nat, i = tail'[v.node]
          PROVE  TailFits(i, [cause |-> v.cause, touched |-> v.touched])'
      <4>1. PICK b : b = [cause |-> k.cause, touched |-> k.touched]
        OBVIOUS
      <4>2. PICK c : c = [cause |-> v.cause, touched |-> v.touched]
        OBVIOUS
      <4>3. TailFits(i, b) /\ c.cause = b.cause
        BY <3>1, <3>2, <3>3, <3>4, <3>6, <4>1, <4>2 DEF NodesFit
      <4>4. TailFits(i, c)'
        BY <4>3, TailTouched
      <4> QED
        BY <4>2, <4>4
    <3>7. PainterFits(x, v, q)'
      BY <3>5, <3>6 DEF PainterFits
    <3> QED
      BY <3>3, <3>7
  <2> QED
    BY <2>1, <2>2, NodesByParts
<1> QED
  BY <1>2, <1>3, <1>4

LEMMA BumpedIsAhead ==
    ASSUME TypeOK, clock' = Bumped, scopes' = scopes
    PROVE  Ahead /\ clock' \in Nat \cup {FAULT}
<1>1. clock \in Nat \cup {FAULT} /\ FAULT \in Int /\ scopes.issued \in Nat
  BY DEF TypeOK, FAULT
<1>2. CASE clock # FAULT /\ clock < RevisionLimit
  BY <1>1, <1>2 DEF Bumped, Ahead, FAULT
<1>3. CASE ~(clock # FAULT /\ clock < RevisionLimit)
  BY <1>1, <1>3 DEF Bumped, Ahead
<1> QED
  BY <1>2, <1>3

LEMMA TouchedTyped ==
    ASSUME TypeOK, NEW own, thread' = TouchedThreads(own)
    PROVE  /\ thread' \in [Threads -> Works]
           /\ \A u \in Threads : thread'[u].at \in 1 .. Len(Route[u])
           /\ \A u \in Threads : u # own => thread'[u] = [thread[u] EXCEPT !.touched = TRUE]
<1>1. ASSUME NEW u \in Threads
      PROVE  /\ thread'[u] \in Works /\ thread'[u].at = thread[u].at
             /\ u # own => thread'[u] = [thread[u] EXCEPT !.touched = TRUE]
  <2>1. PICK k \in Works : k = thread[u]
    BY DEF TypeOK
  <2>2. PICK b \in BOOLEAN : b = (u # own)
    OBVIOUS
  <2>3. thread'[u] = [k EXCEPT !.touched = k.touched \/ b]
    BY <2>1, <2>2 DEF TouchedThreads
  <2>4. k.touched \in BOOLEAN
    BY DEF Works
  <2>5. (k.touched \/ b) \in BOOLEAN /\ (b => (k.touched \/ b) = TRUE)
    BY <2>4
  <2>6. thread'[u] \in Works /\ thread'[u].at = k.at
    BY <2>3, <2>5 DEF Works
  <2>7. b => thread'[u] = [k EXCEPT !.touched = TRUE]
    BY <2>3, <2>5
  <2> QED
    BY <2>1, <2>2, <2>6, <2>7
<1>2. DOMAIN thread' = Threads /\ thread' = [u \in Threads |-> thread'[u]]
  BY DEF TouchedThreads
<1> QED
  BY <1>1, <1>2 DEF TypeOK

LEMMA NodesTouchedTyped ==
    ASSUME TypeOK, behind' = TouchedNodes PROVE behind' \in [Nodes -> Behinds]
BY DEF TypeOK, TouchedNodes, Behinds

(* Every request under way is marked.                                       *)
LEMMA AllTouched ==
    ASSUME IInv, Ahead, Moved, thread' = TouchedThreads("none"), behind' = TouchedNodes,
           clock' \in Nat \cup {FAULT}, scopes' \in [issued : Nat, active : Nat, fault : BOOLEAN],
           UNCHANGED <<journals, actions, paints, queue, tail, causes>>
    PROVE  IInv'
<1>1. "none" \notin Threads /\ "consumer" \in Threads
  BY DEF Threads
<1>2. /\ thread' \in [Threads -> Works]
      /\ \A u \in Threads : thread'[u].at \in 1 .. Len(Route[u])
      /\ \A u \in Threads : thread'[u] = [thread[u] EXCEPT !.touched = TRUE]
  BY <1>1, TouchedTyped DEF IInv
<1>3. TypeOK'
  BY <1>2, NodesTouchedTyped DEF IInv, TypeOK
<1>4. ASSUME NEW w \in Works, w = thread'["consumer"]
      PROVE  WorkFits(Place("consumer", w), w)' /\ NotYet(Place("consumer", w), w)'
  <2>1. PICK k \in Works : k = thread["consumer"]
    BY <1>1 DEF IInv, TypeOK
  <2>2. w = [k EXCEPT !.touched = TRUE]
    BY <1>1, <1>2, <1>4, <2>1
  <2>3. PICK x : x = Place("consumer", k)
    OBVIOUS
  <2>4. x = Place("consumer", w)
    BY <2>2, <2>3 DEF Place, Works
  <2>5. WorkFits(x, k) /\ NotYet(x, k)
    BY <1>1, <2>1, <2>3 DEF IInv, WorksFit, Once
  <2>6. WorkFits(x, w)' /\ NotYet(x, w)'
    BY <1>3, <2>2, <2>5, TouchedFits
  <2> QED
    BY <2>4, <2>6
<1> QED
  BY <1>2, <1>3, <1>4, TouchStep

LEMMA BoundaryStep == IInv /\ Boundary => IInv'
<1> SUFFICES ASSUME IInv, Boundary PROVE IInv'
  OBVIOUS
<1>1. /\ clock' = Bumped /\ scopes' = scopes
      /\ thread' = TouchedThreads("none") /\ behind' = TouchedNodes
      /\ UNCHANGED <<journals, actions, paints, queue, tail, causes>>
  BY DEF Boundary
<1>2. Ahead /\ Moved /\ clock' \in Nat \cup {FAULT}
  BY <1>1, BumpedIsAhead DEF IInv, Moved
<1>3. scopes' \in [issued : Nat, active : Nat, fault : BOOLEAN]
  BY <1>1 DEF IInv, TypeOK
<1> QED
  BY <1>1, <1>2, <1>3, AllTouched

LEMMA OpenScopeStep == IInv /\ OpenScope => IInv'
<1> SUFFICES ASSUME IInv, OpenScope PROVE IInv'
  OBVIOUS
<1>1. /\ clock' = clock
      /\ thread' = TouchedThreads("none") /\ behind' = TouchedNodes
      /\ UNCHANGED <<journals, actions, paints, queue, tail, causes>>
      /\ ~scopes.fault
  BY DEF OpenScope
<1>2. /\ scopes' \in [issued : Nat, active : Nat, fault : BOOLEAN]
      /\ \/ scopes'.issued = scopes.issued + 1
         \/ scopes'.issued = scopes.issued /\ scopes'.fault
  <2>1. scopes \in [issued : Nat, active : Nat, fault : BOOLEAN]
    BY DEF IInv, TypeOK
  <2>2. CASE scopes.issued < ScopeLimit
    <3>1. scopes' = [issued |-> scopes.issued + 1, active |-> scopes.active + 1, fault |-> scopes.fault]
      BY <2>1, <2>2 DEF OpenScope
    <3> QED
      BY <2>1, <3>1
  <2>3. CASE ~(scopes.issued < ScopeLimit)
    <3>1. scopes' = [issued |-> scopes.issued, active |-> scopes.active, fault |-> TRUE]
      BY <2>1, <2>3 DEF OpenScope
    <3> QED
      BY <2>1, <3>1
  <2> QED
    BY <2>2, <2>3
<1>3. clock \in Nat \cup {FAULT} /\ scopes.issued \in Nat
  BY DEF IInv, TypeOK
<1>4. Ahead /\ Moved /\ clock' \in Nat \cup {FAULT}
  BY <1>1, <1>2, <1>3 DEF Ahead, Moved, FAULT
<1> QED
  BY <1>1, <1>2, <1>4, AllTouched

LEMMA EnterRendererStep == IInv /\ EnterRenderer => IInv'
<1> SUFFICES ASSUME IInv, EnterRenderer PROVE IInv'
  OBVIOUS
<1> USE DEF IInv
<1>1. PICK k \in Works : k = thread["consumer"]
  BY DEF TypeOK, Threads
<1>2. PICK entry : entry = IF Bumped = FAULT \/ scopes.fault \/ scopes.active > 0 THEN 0 ELSE Bumped
  OBVIOUS
<1>3. PICK m : m = [k EXCEPT !.entry = entry]
  OBVIOUS
<1>4. /\ clock' = Bumped /\ scopes' = scopes /\ behind' = TouchedNodes
      /\ At("consumer") = "enter" /\ "consumer" \in Threads
      /\ UNCHANGED <<journals, actions, paints, queue, tail, causes>>
  BY DEF EnterRenderer, Threads
<1>5. Ahead /\ Moved /\ clock' \in Nat \cup {FAULT}
  BY <1>4, BumpedIsAhead DEF Moved
<1>6. entry \in Nat /\ (entry # 0 => entry = clock' /\ clock' # FAULT)
  BY <1>2, <1>4, <1>5
<1>7. m \in Works /\ m.at = k.at /\ m.entry = entry /\ m.token = k.token /\ m.cause = k.cause
      /\ m.touched = k.touched
  BY <1>3, <1>6 DEF Works
<1>8. /\ thread'["consumer"] = Onward("consumer", m)
      /\ thread' \in [Threads -> Works]
      /\ \A u \in Threads : thread'[u].at \in 1 .. Len(Route[u])
      /\ \A u \in Threads \ {"consumer"} : thread'[u] = [thread[u] EXCEPT !.touched = TRUE]
      /\ Onward("consumer", m) = [m EXCEPT !.at = Onward("consumer", m).at, !.slot = 0]
      /\ Place("consumer", Onward("consumer", m)) = "ROOT"
  <2>1. PICK v : v = TouchedThreads("consumer")
    OBVIOUS
  <2>2. /\ DOMAIN v = Threads /\ v["consumer"] = k
        /\ \A u \in Threads : v[u] \in Works /\ v[u].at = thread[u].at
        /\ \A u \in Threads \ {"consumer"} : v[u] = [thread[u] EXCEPT !.touched = TRUE]
    <3>1. ASSUME NEW u \in Threads
          PROVE  /\ v[u] \in Works /\ v[u].at = thread[u].at
                 /\ u # "consumer" => v[u] = [thread[u] EXCEPT !.touched = TRUE]
                 /\ u = "consumer" => v[u] = thread[u]
      <4>1. PICK l \in Works : l = thread[u]
        BY DEF TypeOK
      <4>2. PICK b \in BOOLEAN : b = (u # "consumer")
        OBVIOUS
      <4>3. v[u] = [l EXCEPT !.touched = l.touched \/ b]
        BY <2>1, <4>1, <4>2 DEF TouchedThreads
      <4>4. l.touched \in BOOLEAN
        BY DEF Works
      <4>5. /\ (l.touched \/ b) \in BOOLEAN /\ (b => (l.touched \/ b) = TRUE)
            /\ (~b => (l.touched \/ b) = l.touched)
        BY <4>4
      <4>6. v[u] \in Works /\ v[u].at = l.at
        BY <4>3, <4>5 DEF Works
      <4>7. b => v[u] = [l EXCEPT !.touched = TRUE]
        BY <4>3, <4>5
      <4>8. ~b => v[u] = l
        BY <4>3, <4>5 DEF Works
      <4> QED
        BY <4>1, <4>2, <4>6, <4>7, <4>8
    <3> QED
      BY <3>1, <2>1, <1>1, <1>4 DEF TouchedThreads
  <2>3. thread' = [v EXCEPT !["consumer"] = Onward("consumer", m)]
    BY <1>2, <1>3, <2>1, <2>2, <1>4 DEF EnterRenderer
  <2>4. /\ Onward("consumer", m) \in Works
        /\ Onward("consumer", m).at \in 1 .. Len(Route["consumer"])
        /\ Onward("consumer", m) = [m EXCEPT !.at = Onward("consumer", m).at, !.slot = 0]
        /\ Place("consumer", m) \in DOMAIN Following =>
              Place("consumer", Onward("consumer", m)) = Following[Place("consumer", m)]
    BY <1>1, <1>4, <1>7, OnwardGoes DEF TypeOK
  <2>5. Place("consumer", m) = "enter"
    BY <1>1, <1>4, <1>7 DEF Place, At
  <2>6. PICK w \in Works : w = Onward("consumer", m)
    BY <2>4
  <2>7. /\ thread' = [v EXCEPT !["consumer"] = w] /\ w.at \in 1 .. Len(Route["consumer"])
        /\ w = [m EXCEPT !.at = w.at, !.slot = 0]
    BY <2>3, <2>4, <2>6
  <2>8. "enter" \in DOMAIN Following /\ Following["enter"] = "ROOT"
    BY DEF Following
  <2>9. Place("consumer", w) = "ROOT"
    BY <2>4, <2>5, <2>6, <2>8
  <2>10. v \in [Threads -> Works]
    BY <2>1, <2>2 DEF TouchedThreads
  <2>11. /\ thread'["consumer"] = w /\ thread' \in [Threads -> Works]
         /\ \A u \in Threads \ {"consumer"} : thread'[u] = v[u]
    BY <2>7, <2>10, <1>4
  <2>12. \A u \in Threads : thread'[u].at \in 1 .. Len(Route[u])
    <3>1. ASSUME NEW u \in Threads PROVE thread'[u].at \in 1 .. Len(Route[u])
      <4>1. CASE u = "consumer"
        BY <4>1, <2>7, <2>11
      <4>2. CASE u # "consumer"
        BY <4>2, <2>2, <2>11 DEF TypeOK
      <4> QED
        BY <4>1, <4>2
    <3> QED
      BY <3>1
  <2>13. \A u \in Threads \ {"consumer"} : thread'[u] = [thread[u] EXCEPT !.touched = TRUE]
    BY <2>2, <2>11
  <2> QED
    BY <2>6, <2>7, <2>9, <2>11, <2>12, <2>13
<1>9. TypeOK'
  BY <1>4, <1>5, <1>8, NodesTouchedTyped DEF TypeOK
<1>10. PICK w \in Works : w = thread'["consumer"]
  BY <1>4, <1>8
<1>11. /\ w.slot = 0 /\ w.entry = entry /\ w.token = k.token /\ w.cause = k.cause
       /\ w.touched = k.touched
  <2>1. w = [m EXCEPT !.at = w.at, !.slot = 0]
    BY <1>8, <1>10
  <2> QED
    BY <2>1, <1>7 DEF Works
<1>12. WorkFits("enter", k)
  BY <1>1, <1>4, PlaceIsAt DEF WorksFit
<1>13. WorkFits("ROOT", w)'
  <2>1. ASSUME w.token # 0
        PROVE  /\ Good("OUTER", w.token, w.cause)'
               /\ Marked("OUTER", w.token, w.touched, 1)'
               /\ entry # 0 => entry >= Event("OUTER", w.token)'.revision
               /\ clock' # FAULT => clock' > Event("BIRTH", Event("OUTER", w.token).origin)'.revision
    <3>1. Good("OUTER", w.token, w.cause) /\ Marked("OUTER", w.token, w.touched, 0)
      BY <2>1, <1>11, <1>12 DEF WorkFits, TokenFits, Held, RequestKinds, Steps, Entered
    <3>2. Listed("OUTER", w.token)
      BY <3>1 DEF Good, Names, Listed
    <3>3. Good("OUTER", w.token, w.cause)'
      BY <3>1, <1>4 DEF Good, Names, Event
    <3>4. PICK e \in Events : e = Event("OUTER", w.token)
      BY <3>2, EventTyped DEF Kinds
    <3>5. /\ EventFits("renderer", w.token, e) /\ e.kind = "OUTER" /\ e.origin \in Nat
          /\ e.revision \in Nat /\ (clock # FAULT => e.revision <= clock)
      <4>1. EventFits("renderer", w.token, e) /\ e.kind = "OUTER"
        BY <3>2, <3>4, EventIsFit, KindTable DEF Kinds
      <4> QED
        BY <4>1, KindTable DEF EventFits, Sampled, Sampling, Events
    <3>6. PICK o \in Nat : o = e.origin
      BY <3>5
    <3>7. Listed("BIRTH", o)
      BY <3>5, <3>6 DEF EventFits, RequestKinds
    <3>8. PICK b : b = Event("BIRTH", o)
      OBVIOUS
    <3>9. b.revision \in Nat /\ (clock # FAULT => b.revision <= clock)
      BY <3>7, <3>8, BirthIsPast
    <3>10. /\ Event("OUTER", w.token)' = e /\ Event("BIRTH", o)' = b
           /\ Event("BIRTH", Event("OUTER", w.token).origin)' = b
      BY <3>4, <3>6, <3>8, <1>4 DEF Event
    <3>11. clock' # FAULT => clock \in Nat /\ clock' = clock + 1 /\ clock # FAULT
      BY <1>4 DEF Bumped, TypeOK
    <3>12. clock' # FAULT => clock' > b.revision /\ clock' >= e.revision
      BY <3>5, <3>9, <3>11
    <3>13. Marked("OUTER", w.token, w.touched, 1)'
      <4> SUFFICES ASSUME w.touched PROVE Disturbed(o, 1)'
        BY <3>6, <3>10 DEF Marked
      <4>1. Disturbed(o, 0)
        BY <3>1, <3>4, <3>6 DEF Marked
      <4>2. CASE b.active > 0 \/ clock' = FAULT \/ scopes.fault \/ scopes.issued > b.issued
        BY <4>2, <3>10, <1>4 DEF Disturbed
      <4>3. CASE clock > b.revision + 0 /\ clock' # FAULT
        <5>1. clock' > b.revision + 1
          BY <4>3, <3>9, <3>11
        <5> QED
          BY <5>1, <3>10 DEF Disturbed
      <4>4. clock = FAULT => clock' = FAULT
        BY <1>5 DEF Ahead
      <4> QED
        BY <4>1, <4>2, <4>3, <4>4, <3>8 DEF Disturbed
    <3> QED
      BY <3>3, <3>10, <3>12, <3>13, <1>6
  <2>2. TokenFits("ROOT", w)'
    BY <2>1 DEF TokenFits, Held, Steps, Entered
  <2>3. EntryFits("ROOT", w)'
    <3>1. clock' # FAULT => w.entry <= clock'
      BY <1>5, <1>6, <1>11
    <3> QED
      BY <2>1, <3>1, <1>11 DEF EntryFits
  <2> QED
    BY <2>2, <2>3, <1>11 DEF WorkFits, LinkFits, SlotFits
<1>14. NotYet("ROOT", w)'
  BY DEF NotYet
<1>15. \A v \in Works : v = thread'["consumer"] =>
           WorkFits(Place("consumer", v), v)' /\ NotYet(Place("consumer", v), v)'
  <2> SUFFICES ASSUME NEW v \in Works, v = thread'["consumer"]
               PROVE  WorkFits(Place("consumer", v), v)' /\ NotYet(Place("consumer", v), v)'
    OBVIOUS
  <2>1. PICK x : x = Place("consumer", v)
    OBVIOUS
  <2>2. x = "ROOT" /\ v = w
    BY <2>1, <1>8, <1>10
  <2> QED
    BY <2>1, <2>2, <1>13, <1>14
<1> QED
  BY <1>4, <1>5, <1>8, <1>9, <1>15, TouchStep

-----------------------------------------------------------------------------
(* The invariant. *)

(* Empty journals and lists hold nothing to be wrong about.                 *)
LEMMA InitInvariant == Init => IInv
<1> SUFFICES ASSUME Init PROVE IInv
  OBVIOUS
<1>1. /\ journals \in [Names6 -> Journals]
      /\ \A j \in Names6 : DOMAIN journals[j].log = {}
  <2>1. DOMAIN Capacity = Names6
    BY TransportAssumption DEF Names6
  <2>2. EmptyJournal \in Journals /\ DOMAIN EmptyJournal.log = {}
    BY DEF EmptyJournal, Journals
  <2> QED
    BY <2>1, <2>2 DEF Init
<1>2. \A t \in Threads : thread[t] = Idle
  BY DEF Init
<1>3. TypeOK
  <2>1. thread \in [Threads -> Works] /\ \A t \in Threads : thread[t].at \in 1 .. Len(Route[t])
    <3>1. Idle \in Works /\ Idle.at = 1
      BY DEF Idle, Works, Addresses
    <3>2. \A t \in Threads : 1 \in 1 .. Len(Route[t])
      <4>1. ASSUME NEW t \in Threads PROVE 1 \in 1 .. Len(Route[t])
        <5>1. Route[t] \in {Notifier, Worker, Painter, Consumer}
          BY DEF Threads, Route
        <5>2. /\ 1 \in 1 .. Len(Notifier) /\ 1 \in 1 .. Len(Worker)
              /\ 1 \in 1 .. Len(Painter) /\ 1 \in 1 .. Len(Consumer)
          BY DEF Notifier, Worker, Painter, Consumer
        <5> QED
          BY <5>1, <5>2
      <4> QED
        BY <4>1
    <3> QED
      BY <3>1, <3>2, <1>2 DEF Init
  <2>2. behind \in [Nodes -> Behinds] /\ tail \in [Nodes -> Nat]
    BY DEF Init, Behinds
  <2> QED
    BY <1>1, <2>1, <2>2 DEF Init, TypeOK
<1>4. \A kind \in Kinds : DOMAIN journals[JournalOf(kind)].log = {}
  BY <1>1, JournalNames
<1>5. EventsFit
  BY <1>1 DEF EventsFit
<1>6. \A t \in Threads : Place(t, Idle) = "idle"
  BY <1>3, IdleIsFirst
<1>7. Idle.slot = 0 /\ Idle.token = 0 /\ Idle.link = 0
  BY DEF Idle
<1>8. WorksFit
  <2>1. WorkFits("idle", Idle)
    BY <1>7 DEF WorkFits, TokenFits, EntryFits, LinkFits, SlotFits, Held, Entered
  <2> QED
    BY <2>1, <1>2, <1>6 DEF WorksFit
<1>9. Range(actions) = {} /\ Range(paints) = {} /\ Range(queue) = {}
  BY DEF Init, Range
<1>10. ListsFit
  BY <1>9 DEF ListsFit
<1>11. NodesFit
  BY <1>2, <1>6, <1>9 DEF NodesFit, Threads
<1>12. Once
  <2>1. NotYet("idle", Idle)
    BY DEF NotYet
  <2>2. DOMAIN journals["birth"].log = {}
    BY <1>1 DEF Names6
  <2>3. ReferredOnce("BIRTH_LINK") /\ ReferredOnce("RENDER")
    BY <1>4 DEF ReferredOnce, Kinds
  <2> QED
    BY <2>1, <2>2, <2>3, <1>2, <1>6 DEF Once, ReturnsInOrder
<1> QED
  BY <1>3, <1>5, <1>8, <1>10, <1>11, <1>12 DEF IInv

(* No hook, in whatever thread, and no native step breaks the invariant.    *)
LEMMA NextInvariant == IInv /\ [Next]_vars => IInv'
<1> SUFFICES ASSUME IInv, [Next]_vars PROVE IInv'
  OBVIOUS
<1>1. CASE Native
  BY <1>1, NotifyStep, PostStep, DeliverStep, PostPaintStep, SelectPaintStep, AllocateStep,
     AppendNodeStep, RemovePaintStep, OtherProducerStep, PurgeStep, BorrowNodeStep, FreeNodeStep,
     EnterRendererStep, BoundaryStep, OpenScopeStep, CloseScopeStep, LoseContentionStep DEF Native
<1>2. CASE \E t \in Threads : Reserve(t) \/ Publish(t) \/ Unmatched(t)
  BY <1>2, ReserveStep, PublishStep, UnmatchedStep
<1>3. CASE UNCHANGED vars
  <2>1. /\ journals' = journals /\ clock' = clock /\ scopes' = scopes /\ actions' = actions
        /\ paints' = paints /\ queue' = queue /\ tail' = tail /\ behind' = behind
        /\ thread' = thread /\ causes' = causes
    BY <1>3 DEF vars
  <2>2. TypeOK'
    BY <2>1 DEF IInv, TypeOK
  <2>3. Ahead
    BY <2>1, QuietWords DEF IInv
  <2>4. Grows /\ NoNews /\ EventsFit' /\ WorksFit' /\ Once'
    BY <2>1, <2>2, <2>3, NoneMoves
  <2>5. NodesFit' /\ ListsFit'
    BY <2>1, <2>2, <2>3, <2>4, NodesStay, ListsKeep DEF IInv
  <2> QED
    BY <2>2, <2>4, <2>5 DEF IInv
<1> QED
  BY <1>1, <1>2, <1>3 DEF Next

(* In every interleaving of the four threads with whatever interferes, each *)
(* event is its parent's child, each ticket names the event it was taken    *)
(* from, and what moved shows in a word the birth has sampled.              *)
THEOREM CauseInvariant == Spec => []IInv
<1>1. Init => IInv
  BY InitInvariant
<1>2. IInv /\ [Next]_vars => IInv'
  BY NextInvariant
<1> QED
  BY <1>1, <1>2, PTL DEF Spec

-----------------------------------------------------------------------------
(* What the decoders find. *)

(* The decoders look for a parent where the hooks left it.                  *)
LEMMA SameParent ==
    ASSUME TypeOK, NEW e \in Events, e.kind \notin Roots
    PROVE  /\ Parentage[e.kind] = <<JournalOf(ParentOf(e.kind)), ParentOf(e.kind)>>
           /\ ParentLog(Snapshot, e) = journals[JournalOf(ParentOf(e.kind))].log
           /\ ParentEvent(Snapshot, e) = Event(ParentOf(e.kind), e.parent)
<1>1. PICK kind : kind = e.kind
  OBVIOUS
<1>2. kind \in Kinds \ Roots
  BY <1>1 DEF Events
<1>3. Parentage[kind] = <<JournalOf(ParentOf(kind)), ParentOf(kind)>>
  <2>1. CASE kind \in {"DELIVERY", "EXPLORER", "PAINT", "PAINT_DELIVERY", "BIRTH_LINK"}
    BY <2>1, KindTable, ParentTable DEF Parentage
  <2>2. CASE kind \in {"ENQUEUE_BEGIN", "RETURN", "INSTALL"}
    BY <2>2, KindTable, ParentTable DEF Parentage
  <2>3. CASE kind \in {"BORROW", "HELPER", "CALLBACK"}
    BY <2>3, KindTable, ParentTable DEF Parentage
  <2>4. CASE kind \in {"OUTER", "RENDER"}
    BY <2>4, KindTable, ParentTable DEF Parentage
  <2> QED
    BY <1>2, <2>1, <2>2, <2>3, <2>4 DEF Kinds, Roots
<1>4. Parentage[kind][1] = JournalOf(ParentOf(kind))
  BY <1>3
<1> QED
  BY <1>1, <1>3, <1>4 DEF ParentLog, ParentEvent, Snapshot, Event

(* Where an event is found, and what holds of it.                           *)
LEMMA FoundEvent ==
    ASSUME IInv, NEW j \in DOMAIN journals, NEW i \in DOMAIN journals[j].log
    PROVE  /\ journals[j].log[i] \in Events
           /\ EventFits(j, i, journals[j].log[i])
           /\ JournalOf(journals[j].log[i].kind) = j
           /\ Event(journals[j].log[i].kind, i) = journals[j].log[i]
<1>1. DOMAIN journals = Names6 /\ journals[j] \in Journals
  BY DEF IInv, TypeOK
<1>2. journals[j].log \in Seq(Events)
  BY <1>1 DEF Journals
<1>3. journals[j].log[i] \in Events
  BY <1>2
<1>4. EventFits(j, i, journals[j].log[i])
  BY <1>1, <1>3 DEF IInv, EventsFit
<1>5. JournalOf(journals[j].log[i].kind) = j
  BY <1>4 DEF EventFits
<1> QED
  BY <1>3, <1>4, <1>5 DEF Event

LEMMA FoundAnywhere ==
    ASSUME IInv, NEW e \in AllEvents
    PROVE  \E j \in DOMAIN journals : \E i \in DOMAIN journals[j].log : e = journals[j].log[i]
BY DEF AllEvents, Range

(* An event whose parent is named was caused by what caused its parent,     *)
(* whatever queues, nodes and frames the ticket came through: none is       *)
(* inherited from an earlier owner of an address.                           *)
THEOREM CausesAreTrue == Spec => []TrueCause
<1>1. IInv => TrueCause
  <2> SUFFICES ASSUME IInv, NEW e \in AllEvents, e.kind \notin Roots
               PROVE  e.cause = ParentEvent(Snapshot, e).cause
    BY DEF TrueCause
  <2>1. PICK j \in DOMAIN journals : \E i \in DOMAIN journals[j].log : e = journals[j].log[i]
    BY FoundAnywhere
  <2>2. PICK i \in DOMAIN journals[j].log : e = journals[j].log[i]
    BY <2>1
  <2>3. e \in Events /\ EventFits(j, i, e)
    BY <2>2, FoundEvent
  <2>4. Descends(i, e)
    BY <2>3 DEF EventFits
  <2> QED
    BY <2>3, <2>4, SameParent DEF Descends, IInv
<1> QED
  BY <1>1, CauseInvariant, PTL

(* An event is the child the decoders demand.                               *)
LEMMA ChildrenDecode ==
    ASSUME IInv, NEW j \in DOMAIN journals, NEW i \in DOMAIN journals[j].log
    PROVE  Child(Snapshot, j, i)
<1>1. PICK e \in Events : e = journals[j].log[i]
  BY FoundEvent
<1>2. EventFits(j, i, e) /\ JournalOf(e.kind) = j
  BY <1>1, FoundEvent
<1>3. Snapshot.journals[j].log[i] = e
  BY <1>1 DEF Snapshot
<1>4. CASE e.kind \in Roots
  BY <1>2, <1>3, <1>4 DEF Child, EventFits
<1>5. CASE e.kind \notin Roots
  <2>1. PICK pk : pk = ParentOf(e.kind)
    OBVIOUS
  <2>2. Descends(i, e)
    BY <1>2, <1>5 DEF EventFits
  <2>3. PICK p : p = Event(pk, e.parent)
    OBVIOUS
  <2>4. /\ ParentLog(Snapshot, e) = journals[JournalOf(pk)].log
        /\ ParentEvent(Snapshot, e) = p
        /\ Parentage[e.kind][1] = JournalOf(pk) /\ Parentage[e.kind][2] = pk
    BY <1>5, <2>1, <2>3, SameParent DEF IInv
  <2>5. /\ e.parent \in DOMAIN journals[JournalOf(pk)].log /\ p.kind = pk
        /\ JournalOf(pk) = j => e.parent < i
        /\ e.origin = p.origin
        /\ e.kind \in {"BORROW", "HELPER", "CALLBACK"} => e.node = p.node
        /\ j \in Sampling => e.revision >= p.revision /\ e.issued >= p.issued
    BY <1>2, <2>1, <2>2, <2>3 DEF Descends, Names
  <2> QED
    BY <1>3, <1>5, <2>4, <2>5 DEF Child
<1> QED
  BY <1>4, <1>5

(* A reference names one event of its kind, and no other names it.          *)
LEMMA ReferencesDecode ==
    ASSUME IInv, NEW kind \in {"BIRTH_LINK", "RENDER"}, NEW j, NEW targetKind, NEW target,
           kind = "BIRTH_LINK" => j = "action" /\ target = "birth" /\ targetKind = "BIRTH",
           kind = "RENDER" => j = "renderer" /\ target = "lineage" /\ targetKind = "ROOT"
    PROVE  Refers(Snapshot, j, kind, target, targetKind)
<1>1. JournalOf(kind) = j /\ JournalOf(targetKind) = target /\ ReferredOnce(kind)
  BY KindTable DEF IInv, Once
<1>2. j \in DOMAIN journals
  BY DEF IInv, TypeOK, Names6
<1>3. PICK log : log = journals[j].log
  OBVIOUS
<1>4. ASSUME NEW i \in DOMAIN log, log[i].kind = kind
      PROVE  /\ log[i].refer \in DOMAIN journals[target].log
             /\ journals[target].log[log[i].refer].kind = targetKind
  <2>1. EventFits(j, i, log[i])
    BY <1>2, <1>3, <1>4, FoundEvent
  <2>2. Names(targetKind, log[i].refer)
    BY <2>1, <1>4 DEF EventFits, RefersWell
  <2> QED
    BY <2>2, <1>1 DEF Names, Event
<1>5. ASSUME NEW i \in DOMAIN log, NEW k \in DOMAIN log, log[i].kind = kind, log[k].kind = kind,
             log[i].refer = log[k].refer
      PROVE  i = k
  BY <1>1, <1>3, <1>5 DEF ReferredOnce, Event
<1>6. Snapshot.journals = journals
  BY DEF Snapshot
<1> QED
  BY <1>3, <1>4, <1>5, <1>6 DEF Refers

(* Journals in which no hook met a fault or is still at work decode: the    *)
(* emitters write, in no interleaving, what the decoders call malformed.    *)
THEOREM HonestJournalsDecode == Spec => []HonestDecodes
<1>1. IInv => HonestDecodes
  <2> SUFFICES ASSUME IInv, clock # FAULT, ~scopes.fault,
                      \A j \in DOMAIN journals : Readable(journals[j])
               PROVE  Accepted(Snapshot)
    BY DEF HonestDecodes
  <2>1. Snapshot.journals = journals /\ Snapshot.clock = clock /\ Snapshot.scopes = scopes
    BY DEF Snapshot
  <2>2. \A j \in DOMAIN journals : \A i \in DOMAIN journals[j].log : Child(Snapshot, j, i)
    BY ChildrenDecode
  <2>3. ASSUME NEW j \in Sampling, NEW e \in Range(journals[j].log)
        PROVE  SamplesInPast(Snapshot, e)
    <3>1. j \in DOMAIN journals
      BY DEF IInv, TypeOK, Sampling, Names6
    <3>2. PICK i \in DOMAIN journals[j].log : e = journals[j].log[i]
      BY <2>3 DEF Range
    <3>3. EventFits(j, i, e)
      BY <3>1, <3>2, FoundEvent
    <3>4. e.revision <= clock /\ e.issued <= scopes.issued
      BY <3>3 DEF EventFits, Sampled
    <3> QED
      BY <3>4, <2>1 DEF SamplesInPast
  <2>4. ReturnsAfterInstall(Snapshot)
    BY <2>1 DEF IInv, Once, ReturnsInOrder, ReturnsAfterInstall, Range
  <2>5. /\ Refers(Snapshot, "action", "BIRTH_LINK", "birth", "BIRTH")
        /\ Refers(Snapshot, "renderer", "RENDER", "lineage", "ROOT")
    BY ReferencesDecode
  <2>6. ASSUME NEW r \in Renders(Snapshot) PROVE EntryInOrder(Snapshot, r)
    <3>1. "renderer" \in DOMAIN journals
      BY DEF IInv, TypeOK, Names6
    <3>2. PICK i \in DOMAIN journals["renderer"].log :
             r = journals["renderer"].log[i] /\ r.kind = "RENDER"
      BY <2>1, <2>6 DEF Renders, Range
    <3>3. EventFits("renderer", i, r)
      BY <3>1, <3>2, FoundEvent
    <3>4. RefersWell(r)
      BY <3>3 DEF EventFits
    <3>5. Event("ROOT", r.refer) = journals["lineage"].log[r.refer]
          /\ Event("OUTER", r.parent) = journals["renderer"].log[r.parent]
      BY KindTable DEF Event
    <3> QED
      BY <3>2, <3>4, <3>5, <2>1 DEF RefersWell, EntryInOrder, EntryOf, OuterOf
  <2> QED
    BY <2>1, <2>2, <2>3, <2>4, <2>5, <2>6 DEF Accepted
<1> QED
  BY <1>1, CauseInvariant, PTL

(* One step up the path of a rendering.                                     *)
LEMMA ParentFound ==
    ASSUME IInv, NEW kind \in Kinds \ Roots, NEW i, Names(kind, i)
    PROVE  LET e == Event(kind, i)
               p == ParentOf(kind)
           IN  /\ ParentEvent(Snapshot, e) = Event(p, e.parent)
               /\ Names(p, e.parent)
               /\ Event(p, e.parent).origin = e.origin
<1>1. PICK j : j = JournalOf(kind)
  OBVIOUS
<1>2. j \in DOMAIN journals
  BY <1>1, JournalNames DEF IInv, TypeOK
<1>3. PICK e : e = Event(kind, i)
  OBVIOUS
<1>4. i \in DOMAIN journals[j].log /\ e = journals[j].log[i] /\ e.kind = kind
  BY <1>1, <1>3 DEF Names, Event
<1>5. e \in Events /\ EventFits(j, i, e)
  BY <1>2, <1>4, FoundEvent
<1>6. Descends(i, e)
  BY <1>4, <1>5 DEF EventFits
<1>7. ParentEvent(Snapshot, e) = Event(ParentOf(kind), e.parent)
  BY <1>4, <1>5, SameParent DEF IInv
<1> QED
  BY <1>3, <1>4, <1>6, <1>7 DEF Descends

(* A rendering's path starts with the birth it is counted to.               *)
LEMMA PathStarts ==
    ASSUME IInv, NEW i, Names("OUTER", i)
    PROVE  PathTo(Snapshot, Event("OUTER", i))[1] = Event("BIRTH", Event("OUTER", i).origin)
<1> DEFINE up(e) == ParentEvent(Snapshot, e)
           outer == Event("OUTER", i)
           callback == Event("CALLBACK", outer.parent)
           helper == Event("HELPER", callback.parent)
           borrow == Event("BORROW", helper.parent)
           install == Event("INSTALL", borrow.parent)
           enqueue == Event("ENQUEUE_BEGIN", install.parent)
           birth == Event("BIRTH", enqueue.parent)
<1>1. {"OUTER", "CALLBACK", "HELPER", "BORROW", "INSTALL", "ENQUEUE_BEGIN"} \subseteq Kinds \ Roots
  BY DEF Kinds, Roots
<1>2. up(outer) = callback /\ Names("CALLBACK", outer.parent) /\ callback.origin = outer.origin
  BY <1>1, ParentFound, ParentTable
<1>3. up(callback) = helper /\ Names("HELPER", callback.parent) /\ helper.origin = callback.origin
  BY <1>1, <1>2, ParentFound, ParentTable
<1>4. up(helper) = borrow /\ Names("BORROW", helper.parent) /\ borrow.origin = helper.origin
  BY <1>1, <1>3, ParentFound, ParentTable
<1>5. up(borrow) = install /\ Names("INSTALL", borrow.parent) /\ install.origin = borrow.origin
  BY <1>1, <1>4, ParentFound, ParentTable
<1>6. /\ up(install) = enqueue /\ Names("ENQUEUE_BEGIN", install.parent)
      /\ enqueue.origin = install.origin
  BY <1>1, <1>5, ParentFound, ParentTable
<1>7. up(enqueue) = birth /\ Names("BIRTH", enqueue.parent) /\ birth.origin = enqueue.origin
  BY <1>1, <1>6, ParentFound, ParentTable
<1>8. birth.origin = enqueue.parent
  <2>1. "birth" \in DOMAIN journals /\ JournalOf("BIRTH") = "birth" /\ "BIRTH" \in Roots
    BY KindTable DEF IInv, TypeOK, Names6, Roots
  <2>2. enqueue.parent \in DOMAIN journals["birth"].log
        /\ birth = journals["birth"].log[enqueue.parent] /\ birth.kind = "BIRTH"
    BY <1>7, <2>1 DEF Names, Event
  <2>3. EventFits("birth", enqueue.parent, birth)
    BY <2>1, <2>2, FoundEvent
  <2> QED
    BY <2>1, <2>2, <2>3 DEF EventFits
<1>9. birth = Event("BIRTH", outer.origin)
  BY <1>2, <1>3, <1>4, <1>5, <1>6, <1>7, <1>8
<1>10. PathTo(Snapshot, outer)[1] = up(up(up(up(up(up(outer))))))
  BY DEF PathTo
<1> QED
  BY <1>2, <1>3, <1>4, <1>5, <1>6, <1>7, <1>9, <1>10

(* The assessment may only reject, and what it lets pass is sound: a        *)
(* rendering it does not reject was requested and drawn while no contents   *)
(* changed in between.                                                      *)
THEOREM UnrejectedAreUndisturbed == Spec => []UnrejectedIsUndisturbed
<1>1. IInv => UnrejectedIsUndisturbed
  <2> SUFFICES ASSUME IInv, NEW r \in Renders(Snapshot), Unrejected(Snapshot, r), r.touched
               PROVE  FALSE
    BY DEF UnrejectedIsUndisturbed
  <2>1. "renderer" \in DOMAIN journals /\ Snapshot.journals = journals
    BY DEF IInv, TypeOK, Names6, Snapshot
  <2>2. PICK i \in DOMAIN journals["renderer"].log :
           r = journals["renderer"].log[i] /\ r.kind = "RENDER"
    BY <2>1 DEF Renders, Range
  <2>3. EventFits("renderer", i, r) /\ r \in Events
    BY <2>1, <2>2, FoundEvent
  <2>4. PICK birth : birth = Event("BIRTH", r.origin)
    OBVIOUS
  <2>5. PICK outer : outer = Event("OUTER", r.parent)
    OBVIOUS
  <2>6. birth.active > 0 \/ r.revision > birth.revision + 1 \/ r.issued > birth.issued
    BY <2>2, <2>3, <2>4 DEF EventFits, RefersWell
  <2>7. Listed("BIRTH", r.origin)
    BY <2>2, <2>3 DEF EventFits, RequestKinds
  <2>8. birth \in Events
    BY <2>4, <2>7, EventTyped DEF IInv, Kinds
  <2>9. Names("OUTER", r.parent) /\ outer.origin = r.origin
    <3>1. Descends(i, r) /\ ParentOf(r.kind) = "OUTER"
      BY <2>2, <2>3, ParentTable DEF EventFits, Roots
    <3> QED
      BY <3>1, <2>5 DEF Descends
  <2>10. OuterOf(Snapshot, r) = outer
    BY <2>1, <2>5, KindTable DEF OuterOf, Event
  <2>11. PathTo(Snapshot, outer)[1] = birth
    BY <2>4, <2>5, <2>9, PathStarts
  <2>12. 1 \in DOMAIN PathTo(Snapshot, outer)
    BY DEF PathTo
  <2>13. birth.revision = outer.revision /\ birth.issued = r.issued /\ birth.active = 0
    BY <2>10, <2>11, <2>12 DEF Unrejected
  <2>14. r.revision = outer.revision + 1
    BY <2>10 DEF Unrejected
  <2>15. birth.revision \in Int /\ birth.issued \in Nat
    BY <2>8 DEF Events, FAULT
  <2> QED
    BY <2>6, <2>13, <2>14, <2>15
<1> QED
  BY <1>1, CauseInvariant, PTL

-----------------------------------------------------------------------------
(* The lineage. Its journals are final because each unpublished record has  *)
(* one holder, the hook that reserved it, and a hook writes what it holds.  *)

ReceiptKinds == {"RENDER", "INITIAL", "BORROW", "QUERY", "PRODUCER"}
EventKinds == {"ROW", "TERMINAL", "RESET", "END", "FILL_BEGIN", "FILL_RETURN", "POST_TARGET",
               "BIND_BEGIN", "BIND_RETURN", "NORMAL_END", "ERROR_END"}
Stamps == Nat \cup {FAULT}

Receipts == [kind : ReceiptKinds, parent : Nat, origin : Nat, entry : Nat,
             revision : Stamps, published : BOOLEAN]
RowEvents == [kind : EventKinds, producer : Nat, revision : Stamps, ordinal : Nat,
              count : Nat, ok : BOOLEAN, published : BOOLEAN]
OpEvents == [kind : EventKinds, borrow : Nat, ok : BOOLEAN, revision : Stamps,
             published : BOOLEAN]
ScopeRecords == [status : {"OPEN", "CLOSING", "CLOSED"}, published : BOOLEAN]

RendererPlaces == {"idle", "entered", "drawing", "initial", "minted", "queueing"}
WorkerPlaces == {"idle"} \cup ReceiptPoints \cup RowPoints \cup OperationPoints \cup Boundaries
RendererFrames == [at : RendererPlaces, entry : Nat, ticket : Nat, queued : Nat,
                   touched : BOOLEAN]
WorkerFrames == [at : WorkerPlaces, origin : Nat, borrow : Nat, query : Nat,
                 producer : Nat, slot : Nat, read : BOOLEAN, n : Nat, count : Nat,
                 ok : BOOLEAN, touched : BOOLEAN]
ScoperPlaces == {"idle", "reserved", "begun", "inside", "leaving", "ending", "closing", "closed"}
ScoperFrames == [at : ScoperPlaces, ticket : Nat]
Jobs == [origin : Nat, touched : BOOLEAN]

LineageTypeOK ==
    /\ contents \in Stamps
    /\ ledger \in [log : Seq(Receipts), fault : BOOLEAN]
    /\ rows \in [log : Seq(RowEvents), fault : BOOLEAN]
    /\ ops \in [log : Seq(OpEvents), fault : BOOLEAN]
    /\ scopeLog \in [log : Seq(ScopeRecords), fault : BOOLEAN]
    /\ jobs \in Seq(Jobs)
    /\ renderer \in [Renderers -> RendererFrames]
    /\ worker \in [Workers -> WorkerFrames]
    /\ scoper \in [Scopers -> ScoperFrames]

\* Every receipt that a frame or a job carries is one of the ledger, or none.
Carried(k) == {k.origin, k.borrow, k.query, k.producer}
CarriedInRange ==
    /\ \A w \in Workers : Carried(worker[w]) \subseteq 0 .. Len(ledger.log)
    /\ \A r \in Renderers : renderer[r].ticket \in 0 .. Len(ledger.log)
    /\ \A i \in DOMAIN jobs : jobs[i].origin \in 0 .. Len(ledger.log)

\* A scope that still writes its record has one.
ScopesInRange ==
    \A s \in Scopers :
        /\ scoper[s].ticket \in 0 .. Len(scopeLog.log)
        /\ scoper[s].at \in {"reserved", "closing"} => scoper[s].ticket # 0

\* Who holds which record; 0 if none.
Holders == ({"renderer"} \X Renderers) \cup ({"worker"} \X Workers)
LedgerHold ==
    [o \in Holders |->
        IF o[1] = "renderer"
        THEN IF renderer[o[2]].at \in {"initial", "minted"} THEN renderer[o[2]].ticket ELSE 0
        ELSE IF worker[o[2]].at \in ReceiptPoints THEN worker[o[2]].slot ELSE 0]
RowHold == [w \in Workers |-> IF worker[w].at \in RowPoints THEN worker[w].slot ELSE 0]
OpHold == [w \in Workers |-> IF worker[w].at \in OperationPoints THEN worker[w].slot ELSE 0]

Unfinished(log, i) == i \in DOMAIN log /\ ~log[i].published

\* What is held is not published, and by no other.
HeldApart(H, log, h) ==
    \A o \in H : h[o] # 0 =>
        /\ Unfinished(log, h[o])
        /\ \A q \in H : h[q] = h[o] => q = o

LineageInv ==
    /\ LineageTypeOK
    /\ CarriedInRange
    /\ ScopesInRange
    /\ HeldApart(Holders, ledger.log, LedgerHold)
    /\ HeldApart(Workers, rows.log, RowHold)
    /\ HeldApart(Workers, ops.log, OpHold)

-----------------------------------------------------------------------------
(* Journals. *)

\* Everyone holds what he held, or nothing any more.
LetGo(H, h, g) == \A o \in H : g[o] = h[o] \/ g[o] = 0
LetGoBut(H, h, g, p) == \A o \in H \ {p} : g[o] = h[o] \/ g[o] = 0

(* A hook that leaves the records alone may fault the journal.              *)
LEMMA LogStays ==
    ASSUME NEW S, NEW j, NEW k, j.log \in Seq(S), k.log = j.log, j.fault => k.fault,
           NEW H, NEW h, NEW g, HeldApart(H, j.log, h), LetGo(H, h, g)
    PROVE  Extends(j, k) /\ HeldApart(H, k.log, g)
<1>1. Extends(j, k)
  BY DEF Extends
<1>2. HeldApart(H, k.log, g)
  BY DEF HeldApart, LetGo
<1> QED
  BY <1>1, <1>2

(* A reserved record is held by who reserved it.                            *)
LEMMA LogGrows ==
    ASSUME NEW S, NEW j, NEW k, NEW e \in S, j.log \in Seq(S), k.log = Append(j.log, e),
           ~e.published, k.fault = j.fault,
           NEW H, NEW h, NEW g, NEW p \in H, HeldApart(H, j.log, h),
           LetGoBut(H, h, g, p), g[p] = Len(j.log) + 1
    PROVE  Extends(j, k) /\ HeldApart(H, k.log, g)
<1>1. /\ Len(j.log) \in Nat /\ DOMAIN j.log = 1 .. Len(j.log)
      /\ DOMAIN k.log = 1 .. Len(j.log) + 1 /\ Len(k.log) = Len(j.log) + 1
      /\ \A i \in DOMAIN j.log : k.log[i] = j.log[i]
      /\ k.log[Len(j.log) + 1] = e
  OBVIOUS
<1>2. Extends(j, k)
  BY <1>1 DEF Extends
<1>3. \A i : Unfinished(j.log, i) => Unfinished(k.log, i) /\ i # Len(j.log) + 1
  BY <1>1 DEF Unfinished
<1>4. ASSUME NEW o \in H, g[o] # 0
      PROVE  Unfinished(k.log, g[o]) /\ \A q \in H : g[q] = g[o] => q = o
  <2>1. \A q \in H \ {p} : g[q] # 0 => g[q] = h[q] /\ Unfinished(k.log, g[q]) /\ g[q] # g[p]
    BY <1>3 DEF LetGoBut, HeldApart
  <2>2. Unfinished(k.log, g[p]) /\ g[p] # 0
    BY <1>1 DEF Unfinished
  <2>3. CASE o = p
    BY <2>1, <2>2, <2>3
  <2>4. CASE o # p
    <3>1. \A q \in H \ {p} : g[q] = g[o] => q = o
      BY <2>1, <2>4, <1>4 DEF HeldApart
    <3> QED
      BY <3>1, <2>1, <2>4, <1>4
  <2> QED
    BY <2>3, <2>4
<1> QED
  BY <1>2, <1>4 DEF HeldApart

(* A hook writes the record it holds, and lets go of it if it publishes it. *)
LEMMA LogWritten ==
    ASSUME NEW j, NEW k, NEW H, NEW h, NEW g, NEW p \in H,
           DOMAIN k.log = DOMAIN j.log, Len(k.log) = Len(j.log), Len(j.log) \in Nat,
           \A n \in DOMAIN j.log \ {h[p]} : k.log[n] = j.log[n], k.fault = j.fault,
           HeldApart(H, j.log, h), LetGoBut(H, h, g, p), h[p] # 0,
           g[p] # 0 => g[p] = h[p] /\ ~k.log[h[p]].published
    PROVE  Extends(j, k) /\ HeldApart(H, k.log, g)
<1>1. h[p] \in DOMAIN j.log /\ ~j.log[h[p]].published
  BY DEF HeldApart, Unfinished
<1>3. Extends(j, k)
  BY <1>1 DEF Extends
<1>4. ASSUME NEW o \in H, g[o] # 0
      PROVE  Unfinished(k.log, g[o]) /\ \A q \in H : g[q] = g[o] => q = o
  <2>1. g[o] = h[o] /\ \A q \in H : g[q] = g[o] => h[q] = h[o]
    BY <1>4 DEF LetGoBut
  <2>2. Unfinished(j.log, h[o]) /\ \A q \in H : h[q] = h[o] => q = o
    BY <1>4, <2>1 DEF HeldApart
  <2>3. CASE o = p
    BY <1>1, <2>1, <2>2, <2>3, <1>4 DEF Unfinished
  <2>4. CASE o # p
    <3>1. h[o] # h[p]
      BY <2>2, <2>4
    <3> QED
      BY <2>1, <2>2, <3>1 DEF Unfinished
  <2> QED
    BY <2>3, <2>4
<1> QED
  BY <1>3, <1>4 DEF HeldApart

-----------------------------------------------------------------------------
(* Frames. *)

WorkerLets(v) ==
    \/ worker'[v].slot = 0
    \/ worker'[v].at = worker[v].at /\ worker'[v].slot = worker[v].slot
RendererLets(r) ==
    \/ renderer'[r].at \notin {"initial", "minted"}
    \/ renderer'[r].at = renderer[r].at /\ renderer'[r].ticket = renderer[r].ticket

(* Where stock code may go is a place of the model.                         *)
LEMMA PlacesFollow ==
    \A a \in WorkerPlaces \ {"idle"} : Follow[a] \subseteq WorkerPlaces
BY DEF WorkerPlaces, ReceiptPoints, RowPoints, OperationPoints, Boundaries, Follow

(* A worker past its hook holds no record and carries nothing new.          *)
LEMMA WorkerGoesOn ==
    ASSUME NEW k \in WorkerFrames, k.at # "idle", NEW m \in Continues(k)
    PROVE  m \in WorkerFrames /\ m.slot = 0 /\ Carried(m) \subseteq Carried(k) \cup {0}
<1>1. PICK next \in Follow[k.at] : m \in Proceed(k, next)
  BY DEF Continues
<1>2. next \in WorkerPlaces
  BY <1>1, PlacesFollow DEF WorkerFrames
<1>3. CASE next = "idle"
  <2>1. m = IdleWorker
    BY <1>1, <1>3 DEF Proceed
  <2> QED
    BY <2>1 DEF IdleWorker, WorkerFrames, WorkerPlaces, Carried
<1>4. CASE next # "idle"
  <2> DEFINE moved == [k EXCEPT !.at = next, !.slot = 0, !.read = FALSE,
                                !.n = IF k.at = "row" THEN @ + 1 ELSE @,
                                !.count = IF next = "row" THEN @ + 1 ELSE @]
  <2>4. /\ moved.origin = k.origin /\ moved.borrow = k.borrow /\ moved.query = k.query
        /\ moved.producer = k.producer /\ moved.slot = 0
    BY DEF WorkerFrames
  <2>5. moved \in WorkerFrames
    <3>1. ASSUME NEW a \in Nat, NEW b \in Nat
          PROVE  [k EXCEPT !.at = next, !.slot = 0, !.read = FALSE, !.n = a, !.count = b]
                    \in WorkerFrames
      BY <1>2 DEF WorkerFrames
    <3>2. /\ (IF k.at = "row" THEN k.n + 1 ELSE k.n) \in Nat
          /\ (IF next = "row" THEN k.count + 1 ELSE k.count) \in Nat
      BY DEF WorkerFrames
    <3> QED
      BY <3>1, <3>2
  <2>1. moved \in WorkerFrames /\ moved.slot = 0 /\ Carried(moved) = Carried(k)
    BY <2>4, <2>5 DEF Carried
  <2>2. m = moved \/ \E ok \in BOOLEAN : m = [moved EXCEPT !.ok = ok]
    BY <1>1, <1>4 DEF Proceed
  <2> HIDE DEF moved
  <2>3. ASSUME NEW ok \in BOOLEAN
        PROVE  LET x == [moved EXCEPT !.ok = ok] IN
               x \in WorkerFrames /\ x.slot = 0 /\ Carried(x) = Carried(moved)
    BY <2>1 DEF WorkerFrames, Carried
  <2> QED
    BY <2>1, <2>2, <2>3
<1> QED
  BY <1>3, <1>4

(* A bump marks the renderings under way and changes nothing else.          *)
LEMMA TouchedWorkers ==
    ASSUME LineageTypeOK
    PROVE  /\ Touched(worker) \in [Workers -> WorkerFrames]
           /\ \A w \in Workers :
                 /\ Touched(worker)[w].at = worker[w].at
                 /\ Touched(worker)[w].slot = worker[w].slot
                 /\ Carried(Touched(worker)[w]) = Carried(worker[w])
<1>1. DOMAIN worker = Workers /\ \A w \in Workers : worker[w] \in WorkerFrames
  BY DEF LineageTypeOK
<1>2. ASSUME NEW k \in WorkerFrames, NEW b \in BOOLEAN
      PROVE  LET x == [k EXCEPT !.touched = b] IN
             x \in WorkerFrames /\ x.at = k.at /\ x.slot = k.slot /\ Carried(x) = Carried(k)
  BY DEF WorkerFrames, Carried
<1>3. \A w \in Workers : (worker[w].touched \/ worker[w].at # "idle") \in BOOLEAN
  OBVIOUS
<1>4. \A w \in Workers :
         Touched(worker)[w] = [worker[w] EXCEPT !.touched = worker[w].touched \/ worker[w].at # "idle"]
  BY <1>1 DEF Touched
<1>5. Touched(worker) = [w \in Workers |-> Touched(worker)[w]]
  BY <1>1 DEF Touched
<1>6. ASSUME NEW w \in Workers
      PROVE  LET x == Touched(worker)[w] IN
         /\ x \in WorkerFrames /\ x.at = worker[w].at /\ x.slot = worker[w].slot
         /\ Carried(x) = Carried(worker[w])
  <2> DEFINE b == worker[w].touched \/ worker[w].at # "idle"
  <2>1. worker[w] \in WorkerFrames /\ b \in BOOLEAN /\ Touched(worker)[w] = [worker[w] EXCEPT !.touched = b]
    BY <1>1, <1>3, <1>4
  <2> HIDE DEF b
  <2> QED
    BY <1>2, <2>1
<1>7. Touched(worker) \in [Workers -> WorkerFrames]
  BY <1>5, <1>6
<1> QED
  BY <1>6, <1>7

LEMMA TouchedRenderers ==
    ASSUME LineageTypeOK
    PROVE  /\ Touched(renderer) \in [Renderers -> RendererFrames]
           /\ \A r \in Renderers : /\ Touched(renderer)[r].at = renderer[r].at
                                   /\ Touched(renderer)[r].ticket = renderer[r].ticket
<1>1. DOMAIN renderer = Renderers /\ \A r \in Renderers : renderer[r] \in RendererFrames
  BY DEF LineageTypeOK
<1>2. ASSUME NEW k \in RendererFrames, NEW b \in BOOLEAN
      PROVE  LET x == [k EXCEPT !.touched = b] IN
             x \in RendererFrames /\ x.at = k.at /\ x.ticket = k.ticket
  BY DEF RendererFrames
<1>3. \A r \in Renderers : (renderer[r].touched \/ renderer[r].at # "idle") \in BOOLEAN
  OBVIOUS
<1>4. \A r \in Renderers :
         Touched(renderer)[r] = [renderer[r] EXCEPT !.touched = renderer[r].touched \/ renderer[r].at # "idle"]
  BY <1>1 DEF Touched
<1>5. Touched(renderer) = [r \in Renderers |-> Touched(renderer)[r]]
  BY <1>1 DEF Touched
<1>6. ASSUME NEW r \in Renderers
      PROVE  LET x == Touched(renderer)[r] IN
         /\ x \in RendererFrames /\ x.at = renderer[r].at /\ x.ticket = renderer[r].ticket
  <2> DEFINE b == renderer[r].touched \/ renderer[r].at # "idle"
  <2>1. renderer[r] \in RendererFrames /\ b \in BOOLEAN /\ Touched(renderer)[r] = [renderer[r] EXCEPT !.touched = b]
    BY <1>1, <1>3, <1>4
  <2> HIDE DEF b
  <2> QED
    BY <1>2, <2>1
<1>7. Touched(renderer) \in [Renderers -> RendererFrames]
  BY <1>5, <1>6
<1> QED
  BY <1>6, <1>7

LEMMA TouchedWork ==
    ASSUME LineageTypeOK
    PROVE  /\ TouchedJobs \in Seq(Jobs) /\ DOMAIN TouchedJobs = DOMAIN jobs
           /\ \A i \in DOMAIN jobs : TouchedJobs[i].origin = jobs[i].origin
<1>1. jobs \in Seq(Jobs)
  BY DEF LineageTypeOK
<1>2. ASSUME NEW j \in Jobs
      PROVE  LET x == [j EXCEPT !.touched = TRUE] IN x \in Jobs /\ x.origin = j.origin
  BY DEF Jobs
<1>3. /\ Len(jobs) \in Nat /\ DOMAIN jobs = 1 .. Len(jobs)
      /\ \A i \in DOMAIN jobs : jobs[i] \in Jobs
  BY <1>1
<1>4. \A i \in DOMAIN jobs : /\ TouchedJobs[i] = [jobs[i] EXCEPT !.touched = TRUE]
                              /\ TouchedJobs[i] \in Jobs
                              /\ TouchedJobs[i].origin = jobs[i].origin
  BY <1>2, <1>3 DEF TouchedJobs
<1>5. TouchedJobs = [i \in 1 .. Len(jobs) |-> TouchedJobs[i]]
  BY <1>3 DEF TouchedJobs
<1>6. TouchedJobs \in [1 .. Len(jobs) -> Jobs]
  BY <1>3, <1>4, <1>5
<1> QED
  BY <1>3, <1>4, <1>5, <1>6

(* The contents revision faults for good.                                   *)
LEMMA RevisionMoves ==
    ASSUME LineageTypeOK
    PROVE  NextRevision \in Stamps /\ (contents = FAULT => NextRevision = FAULT)
BY DEF LineageTypeOK, NextRevision, Stamps, FAULT

-----------------------------------------------------------------------------
(* Holders. *)

LEMMA HoldsOfWorker ==
    ASSUME NEW v \in Workers, WorkerLets(v)
    PROVE  /\ LedgerHold'[<<"worker", v>>] \in {0, LedgerHold[<<"worker", v>>]}
           /\ RowHold'[v] \in {0, RowHold[v]}
           /\ OpHold'[v] \in {0, OpHold[v]}
<1>1. <<"worker", v>> \in Holders
  BY DEF Holders
<1> QED
  BY <1>1 DEF LedgerHold, RowHold, OpHold, WorkerLets

LEMMA HoldsOfRenderer ==
    ASSUME NEW r \in Renderers, RendererLets(r)
    PROVE  LedgerHold'[<<"renderer", r>>] \in {0, LedgerHold[<<"renderer", r>>]}
<1>1. <<"renderer", r>> \in Holders
  BY DEF Holders
<1> QED
  BY <1>1 DEF LedgerHold, RendererLets

LEMMA HoldsLetGo ==
    ASSUME NEW X, NEW Y, \A v \in Workers \ X : WorkerLets(v),
           \A r \in Renderers \ Y : RendererLets(r)
    PROVE  /\ \A o \in Holders : o \notin ({"worker"} \X X) \cup ({"renderer"} \X Y) =>
                    LedgerHold'[o] = LedgerHold[o] \/ LedgerHold'[o] = 0
           /\ \A v \in Workers \ X : /\ RowHold'[v] = RowHold[v] \/ RowHold'[v] = 0
                                     /\ OpHold'[v] = OpHold[v] \/ OpHold'[v] = 0
<1>1. ASSUME NEW o \in Holders, o \notin ({"worker"} \X X) \cup ({"renderer"} \X Y)
      PROVE  LedgerHold'[o] = LedgerHold[o] \/ LedgerHold'[o] = 0
  <2>1. CASE o \in {"renderer"} \X Renderers
    <3>1. PICK r \in Renderers : o = <<"renderer", r>>
      BY <2>1
    <3>2. r \notin Y
      BY <1>1, <3>1
    <3> QED
      BY <3>1, <3>2, HoldsOfRenderer
  <2>2. CASE o \in {"worker"} \X Workers
    <3>1. PICK v \in Workers : o = <<"worker", v>>
      BY <2>2
    <3>2. v \notin X
      BY <1>1, <3>1
    <3> QED
      BY <3>1, <3>2, HoldsOfWorker
  <2> QED
    BY <2>1, <2>2 DEF Holders
<1>2. ASSUME NEW v \in Workers \ X
      PROVE  /\ RowHold'[v] = RowHold[v] \/ RowHold'[v] = 0
             /\ OpHold'[v] = OpHold[v] \/ OpHold'[v] = 0
  BY HoldsOfWorker
<1> QED
  BY <1>1, <1>2

JournalsFinal == Extends(ledger, ledger') /\ Extends(rows, rows') /\ Extends(ops, ops')
HoldsApart ==
    /\ HeldApart(Holders, ledger.log, LedgerHold)
    /\ HeldApart(Workers, rows.log, RowHold)
    /\ HeldApart(Workers, ops.log, OpHold)

(* A step that lets go of records or keeps them leaves the journals sound.   *)
LEMMA JournalsStay ==
    ASSUME LineageInv,
           ledger'.log = ledger.log, ledger.fault => ledger'.fault,
           rows'.log = rows.log, rows.fault => rows'.fault,
           ops'.log = ops.log, ops.fault => ops'.fault,
           \A v \in Workers : WorkerLets(v), \A r \in Renderers : RendererLets(r)
    PROVE  JournalsFinal /\ HoldsApart'
<1>1. /\ ledger.log \in Seq(Receipts) /\ rows.log \in Seq(RowEvents) /\ ops.log \in Seq(OpEvents)
      /\ HeldApart(Holders, ledger.log, LedgerHold)
      /\ HeldApart(Workers, rows.log, RowHold) /\ HeldApart(Workers, ops.log, OpHold)
  BY DEF LineageInv, LineageTypeOK
<1>2. /\ LetGo(Holders, LedgerHold, LedgerHold')
      /\ LetGo(Workers, RowHold, RowHold') /\ LetGo(Workers, OpHold, OpHold')
  <2>1. /\ \A v \in Workers \ {} : WorkerLets(v)
        /\ \A r \in Renderers \ {} : RendererLets(r)
    OBVIOUS
  <2>2. /\ \A o \in Holders : o \notin ({"worker"} \X {}) \cup ({"renderer"} \X {}) =>
               LedgerHold'[o] = LedgerHold[o] \/ LedgerHold'[o] = 0
        /\ \A v \in Workers \ {} : /\ RowHold'[v] = RowHold[v] \/ RowHold'[v] = 0
                                   /\ OpHold'[v] = OpHold[v] \/ OpHold'[v] = 0
    <3> HIDE DEF LedgerHold, RowHold, OpHold, Holders, WorkerLets, RendererLets
    <3> QED
      BY <2>1, HoldsLetGo
  <2>3. \A o \in Holders : LedgerHold'[o] = LedgerHold[o] \/ LedgerHold'[o] = 0
    <3>1. ({"worker"} \X {}) \cup ({"renderer"} \X {}) = {}
      OBVIOUS
    <3> QED
      BY <2>2, <3>1, Zenon
  <2>4. \A v \in Workers : /\ RowHold'[v] = RowHold[v] \/ RowHold'[v] = 0
                           /\ OpHold'[v] = OpHold[v] \/ OpHold'[v] = 0
    BY HoldsOfWorker
  <2> QED
    BY <2>3, <2>4 DEF LetGo
<1>3. Extends(ledger, ledger') /\ HeldApart(Holders, ledger'.log, LedgerHold')
  BY <1>1, <1>2, LogStays
<1>4. Extends(rows, rows') /\ HeldApart(Workers, rows'.log, RowHold')
  BY <1>1, <1>2, LogStays
<1>5. Extends(ops, ops') /\ HeldApart(Workers, ops'.log, OpHold')
  BY <1>1, <1>2, LogStays
<1> QED
  BY <1>3, <1>4, <1>5 DEF JournalsFinal, HoldsApart, HeldApart, Unfinished

\* A journal grows by a record for its new holder, or its holder writes.
JournalMoves(j, k, e, i, o) ==
    \/ k = Reserved(j, e) /\ ~e.published /\ o = Len(j.log) + 1
    \/ k = Published(j, i, e) /\ i # 0 /\ (o = 0 \/ (o = i /\ ~e.published))

LEMMA LogMoves ==
    ASSUME NEW S, NEW j \in [log : Seq(S), fault : BOOLEAN], NEW k, NEW e \in S,
           NEW H, NEW h, NEW g, NEW p \in H, HeldApart(H, j.log, h), LetGoBut(H, h, g, p),
           JournalMoves(j, k, e, h[p], g[p])
    PROVE  Extends(j, k) /\ HeldApart(H, k.log, g) /\ k \in [log : Seq(S), fault : BOOLEAN]
<1>1. j.log \in Seq(S) /\ j.fault \in BOOLEAN
  OBVIOUS
<1>2. CASE k = Reserved(j, e) /\ ~e.published /\ g[p] = Len(j.log) + 1
  <2>1. k = [log |-> Append(j.log, e), fault |-> j.fault]
    BY <1>2 DEF Reserved
  <2>2. k.log = Append(j.log, e) /\ k.fault = j.fault /\ k.log \in Seq(S)
    BY <2>1, <1>1
  <2>3. k \in [log : Seq(S), fault : BOOLEAN]
    BY <2>1, <2>2, <1>1
  <2>4. Extends(j, k) /\ HeldApart(H, k.log, g)
    BY <2>2, <1>1, <1>2, LogGrows
  <2> QED
    BY <2>3, <2>4
<1>3. CASE /\ k = Published(j, h[p], e) /\ h[p] # 0
           /\ g[p] = 0 \/ (g[p] = h[p] /\ ~e.published)
  <2>1. k = [log |-> [j.log EXCEPT ![h[p]] = e], fault |-> j.fault]
    BY <1>3 DEF Published
  <2>2. k.log = [j.log EXCEPT ![h[p]] = e] /\ k.fault = j.fault
    BY <2>1
  <2>3. k.log \in Seq(S)
    <3>1. j.log \in [1 .. Len(j.log) -> S] /\ Len(j.log) \in Nat
      BY <1>1
    <3>2. k.log \in [1 .. Len(j.log) -> S]
      BY <2>2, <3>1
    <3> QED
      BY <3>1, <3>2
  <2>4. k \in [log : Seq(S), fault : BOOLEAN]
    BY <2>1, <2>2, <2>3, <1>1
  <2>5. Extends(j, k) /\ HeldApart(H, k.log, g)
    <3>1. h[p] \in DOMAIN j.log
      BY <1>3 DEF HeldApart, Unfinished
    <3>2. /\ DOMAIN k.log = DOMAIN j.log /\ Len(k.log) = Len(j.log) /\ k.log[h[p]] = e
          /\ \A n \in DOMAIN j.log \ {h[p]} : k.log[n] = j.log[n]
          /\ Len(j.log) \in Nat
      BY <2>2, <3>1, <1>1
    <3>3. k.fault = j.fault
      BY <2>2
    <3>4. g[p] # 0 => g[p] = h[p] /\ ~k.log[h[p]].published
      BY <3>2, <1>3
    <3>5. h[p] # 0
      BY <1>3
    <3> QED
      BY <3>2, <3>3, <3>4, <3>5, LogWritten
  <2> QED
    BY <2>4, <2>5
<1> QED
  BY <1>2, <1>3 DEF JournalMoves

(* The parts of LineageInv that the journals are about, in one place.       *)
LEMMA LineageGives ==
    ASSUME LineageInv
    PROVE  /\ ledger \in [log : Seq(Receipts), fault : BOOLEAN] /\ Len(ledger.log) \in Nat
           /\ rows \in [log : Seq(RowEvents), fault : BOOLEAN] /\ Len(rows.log) \in Nat
           /\ ops \in [log : Seq(OpEvents), fault : BOOLEAN] /\ Len(ops.log) \in Nat
           /\ HoldsApart
           /\ \A w \in Workers : worker[w] \in WorkerFrames
           /\ \A r \in Renderers : renderer[r] \in RendererFrames
BY DEF LineageInv, LineageTypeOK, HoldsApart

(* A step that writes one journal leaves all of them sound.                 *)
LEMMA LedgerMoves ==
    ASSUME LineageInv, rows' = rows, ops' = ops, NEW p \in Holders,
           LetGoBut(Holders, LedgerHold, LedgerHold', p),
           LetGo(Workers, RowHold, RowHold'), LetGo(Workers, OpHold, OpHold'),
           NEW e \in Receipts, JournalMoves(ledger, ledger', e, LedgerHold[p], LedgerHold'[p])
    PROVE  /\ JournalsFinal /\ HoldsApart'
           /\ ledger' \in [log : Seq(Receipts), fault : BOOLEAN]
<1>1. /\ ledger \in [log : Seq(Receipts), fault : BOOLEAN]
      /\ HeldApart(Holders, ledger.log, LedgerHold)
      /\ HeldApart(Workers, rows.log, RowHold) /\ HeldApart(Workers, ops.log, OpHold)
      /\ rows.log \in Seq(RowEvents) /\ ops.log \in Seq(OpEvents)
  BY LineageGives DEF HoldsApart
<1>2. /\ Extends(ledger, ledger') /\ HeldApart(Holders, ledger'.log, LedgerHold')
      /\ ledger' \in [log : Seq(Receipts), fault : BOOLEAN]
  BY <1>1, LogMoves
<1>3. Extends(rows, rows') /\ HeldApart(Workers, rows'.log, RowHold')
  BY <1>1, LogStays
<1>4. Extends(ops, ops') /\ HeldApart(Workers, ops'.log, OpHold')
  BY <1>1, LogStays
<1> QED
  BY <1>2, <1>3, <1>4 DEF JournalsFinal, HoldsApart, HeldApart, Unfinished

LEMMA RowsMove ==
    ASSUME LineageInv, ledger' = ledger, ops' = ops, NEW p \in Workers,
           LetGo(Holders, LedgerHold, LedgerHold'),
           LetGoBut(Workers, RowHold, RowHold', p), LetGo(Workers, OpHold, OpHold'),
           NEW e \in RowEvents, JournalMoves(rows, rows', e, RowHold[p], RowHold'[p])
    PROVE  /\ JournalsFinal /\ HoldsApart'
           /\ rows' \in [log : Seq(RowEvents), fault : BOOLEAN]
<1>1. /\ rows \in [log : Seq(RowEvents), fault : BOOLEAN]
      /\ HeldApart(Holders, ledger.log, LedgerHold)
      /\ HeldApart(Workers, rows.log, RowHold) /\ HeldApart(Workers, ops.log, OpHold)
      /\ ledger.log \in Seq(Receipts) /\ ops.log \in Seq(OpEvents)
  BY LineageGives DEF HoldsApart
<1>2. /\ Extends(rows, rows') /\ HeldApart(Workers, rows'.log, RowHold')
      /\ rows' \in [log : Seq(RowEvents), fault : BOOLEAN]
  BY <1>1, LogMoves
<1>3. Extends(ledger, ledger') /\ HeldApart(Holders, ledger'.log, LedgerHold')
  BY <1>1, LogStays
<1>4. Extends(ops, ops') /\ HeldApart(Workers, ops'.log, OpHold')
  BY <1>1, LogStays
<1> QED
  BY <1>2, <1>3, <1>4 DEF JournalsFinal, HoldsApart, HeldApart, Unfinished

LEMMA OpsMove ==
    ASSUME LineageInv, ledger' = ledger, rows' = rows, NEW p \in Workers,
           LetGo(Holders, LedgerHold, LedgerHold'),
           LetGo(Workers, RowHold, RowHold'), LetGoBut(Workers, OpHold, OpHold', p),
           NEW e \in OpEvents, JournalMoves(ops, ops', e, OpHold[p], OpHold'[p])
    PROVE  /\ JournalsFinal /\ HoldsApart'
           /\ ops' \in [log : Seq(OpEvents), fault : BOOLEAN]
<1>1. /\ ops \in [log : Seq(OpEvents), fault : BOOLEAN]
      /\ HeldApart(Holders, ledger.log, LedgerHold)
      /\ HeldApart(Workers, rows.log, RowHold) /\ HeldApart(Workers, ops.log, OpHold)
      /\ ledger.log \in Seq(Receipts) /\ rows.log \in Seq(RowEvents)
  BY LineageGives DEF HoldsApart
<1>2. /\ Extends(ops, ops') /\ HeldApart(Workers, ops'.log, OpHold')
      /\ ops' \in [log : Seq(OpEvents), fault : BOOLEAN]
  BY <1>1, LogMoves
<1>3. Extends(ledger, ledger') /\ HeldApart(Holders, ledger'.log, LedgerHold')
  BY <1>1, LogStays
<1>4. Extends(rows, rows') /\ HeldApart(Workers, rows'.log, RowHold')
  BY <1>1, LogStays
<1> QED
  BY <1>2, <1>3, <1>4 DEF JournalsFinal, HoldsApart, HeldApart, Unfinished

(* The moves of a worker.                                                   *)
LEMMA GoesIn ==
    ASSUME NEW w \in Workers, NEW threads \in [Workers -> WorkerFrames],
           NEW k \in WorkerFrames, k.at # "idle", GoIn(threads, w, k)
    PROVE  /\ worker' \in [Workers -> WorkerFrames] /\ worker'[w].slot = 0
           /\ Carried(worker'[w]) \subseteq Carried(k) \cup {0}
           /\ \A v \in Workers \ {w} : worker'[v] = threads[v]
<1>1. PICK m \in Continues(k) : worker' = [threads EXCEPT ![w] = m]
  BY DEF GoIn
<1>2. m \in WorkerFrames /\ m.slot = 0 /\ Carried(m) \subseteq Carried(k) \cup {0}
  BY WorkerGoesOn
<1> QED
  BY <1>1, <1>2

LEMMA StaysIn ==
    ASSUME LineageTypeOK, NEW w \in Workers, NEW n \in Nat, NEW b \in BOOLEAN,
           NEW k, k = [worker[w] EXCEPT !.slot = n] \/ k = [worker[w] EXCEPT !.read = b],
           Stay(w, k)
    PROVE  /\ worker' \in [Workers -> WorkerFrames]
           /\ worker'[w].at = worker[w].at /\ worker'[w] = k
           /\ Carried(worker'[w]) = Carried(worker[w])
           /\ \A v \in Workers \ {w} : worker'[v] = worker[v]
<1>1. worker \in [Workers -> WorkerFrames] /\ worker[w] \in WorkerFrames
  BY DEF LineageTypeOK
<1>2. k \in WorkerFrames /\ k.at = worker[w].at /\ Carried(k) = Carried(worker[w])
  <2>1. CASE k = [worker[w] EXCEPT !.slot = n]
    BY <2>1, <1>1 DEF WorkerFrames, Carried
  <2>2. CASE k = [worker[w] EXCEPT !.read = b]
    BY <2>2, <1>1 DEF WorkerFrames, Carried
  <2> QED
    BY <2>1, <2>2
<1> QED
  BY <1>1, <1>2 DEF Stay

(* What threads carry stays in the ledger as it grows.                      *)
LEMMA RangeKept ==
    ASSUME LineageInv, Len(ledger'.log) \in Nat, Len(ledger'.log) >= Len(ledger.log),
           \A w \in Workers : Carried(worker'[w])
                \subseteq Carried(worker[w]) \cup (0 .. Len(ledger'.log)),
           \A r \in Renderers : renderer'[r].ticket
                \in {renderer[r].ticket} \cup (0 .. Len(ledger'.log)),
           \A i \in DOMAIN jobs' : jobs'[i].origin \in 0 .. Len(ledger'.log)
    PROVE  CarriedInRange'
<1>1. 0 .. Len(ledger.log) \subseteq 0 .. Len(ledger'.log)
  BY LineageGives
<1>2. CarriedInRange
  BY DEF LineageInv
<1> QED
  BY <1>1, <1>2 DEF CarriedInRange, Carried

-----------------------------------------------------------------------------
(* The actions. *)

FaultsFinal ==
    /\ scopeLog.fault => scopeLog'.fault
    /\ contents = FAULT => contents' = FAULT
LineageKept == LineageInv' /\ JournalsFinal /\ FaultsFinal

LEMMA KeptWhole ==
    ASSUME LineageTypeOK', CarriedInRange', ScopesInRange', HoldsApart', JournalsFinal, FaultsFinal
    PROVE  LineageKept
BY DEF LineageKept, LineageInv, HoldsApart

(* A renderer that writes no record.                                        *)
LEMMA RendererQuiet ==
    ASSUME LineageInv, NEW r \in Renderers, NEW f \in RendererFrames,
           renderer' = [renderer EXCEPT ![r] = f],
           f.at \notin {"initial", "minted"}, f.ticket \in {0, renderer[r].ticket},
           jobs' \in Seq(Jobs), \A i \in DOMAIN jobs' : jobs'[i].origin \in 0 .. Len(ledger.log),
           ledger' \in [log : Seq(Receipts), fault : BOOLEAN],
           ledger'.log = ledger.log, ledger.fault => ledger'.fault,
           UNCHANGED <<contents, rows, ops, scopeLog, worker, scoper>>
    PROVE  LineageKept
<1>1. /\ LineageTypeOK /\ CarriedInRange /\ ScopesInRange
      /\ Len(ledger.log) \in Nat
  BY LineageGives DEF LineageInv
<1>2. /\ renderer' \in [Renderers -> RendererFrames] /\ renderer'[r] = f
      /\ \A q \in Renderers \ {r} : renderer'[q] = renderer[q]
  BY <1>1 DEF LineageTypeOK
<1>3. LineageTypeOK'
  BY <1>1, <1>2 DEF LineageTypeOK
<1>4. (\A v \in Workers : WorkerLets(v)) /\ (\A q \in Renderers : RendererLets(q))
  BY <1>2 DEF WorkerLets, RendererLets
<1>5. JournalsFinal /\ HoldsApart'
  BY <1>4, JournalsStay
<1>6. CarriedInRange'
  <2>1. \A w \in Workers : Carried(worker'[w])
                \subseteq Carried(worker[w]) \cup (0 .. Len(ledger'.log))
    BY DEF Carried
  <2>2. \A q \in Renderers : renderer'[q].ticket
                \in {renderer[q].ticket} \cup (0 .. Len(ledger'.log))
    BY <1>1, <1>2
  <2> QED
    BY <1>1, <2>1, <2>2, RangeKept
<1>7. ScopesInRange' /\ FaultsFinal
  BY <1>1 DEF ScopesInRange, FaultsFinal
<1> QED
  BY <1>3, <1>5, <1>6, <1>7, KeptWhole

LEMMA CheckScopeKeeps == ASSUME LineageInv, NEW r \in Renderers, CheckScope(r) PROVE LineageKept
<1>1. /\ LineageTypeOK /\ CarriedInRange /\ renderer[r] \in RendererFrames
      /\ ledger \in [log : Seq(Receipts), fault : BOOLEAN]
  BY LineageGives DEF LineageInv
<1> DEFINE n == IF scopeLog.fault \/ active > 0 THEN 0 ELSE renderer[r].entry
           f == [renderer[r] EXCEPT !.at = "drawing", !.entry = n]
<1>2. renderer' = [renderer EXCEPT ![r] = f]
  BY <1>1 DEF CheckScope, LineageTypeOK
<1>3. n \in Nat
  BY <1>1 DEF RendererFrames
<1> HIDE DEF n
<1>4. f \in RendererFrames /\ f.at = "drawing" /\ f.ticket = renderer[r].ticket
  BY <1>1, <1>3 DEF RendererFrames, RendererPlaces
<1>5. jobs' \in Seq(Jobs) /\ \A i \in DOMAIN jobs' : jobs'[i].origin \in 0 .. Len(ledger.log)
  BY <1>1 DEF CheckScope, LineageTypeOK, CarriedInRange
<1> HIDE DEF f
<1> QED
  BY <1>1, <1>2, <1>4, <1>5, RendererQuiet DEF CheckScope

LEMMA LeaveKeeps == ASSUME LineageInv, NEW r \in Renderers, LeaveRenderer(r) PROVE LineageKept
<1>1. /\ LineageTypeOK /\ CarriedInRange
      /\ ledger \in [log : Seq(Receipts), fault : BOOLEAN]
  BY LineageGives DEF LineageInv
<1>2. IdleRenderer \in RendererFrames /\ IdleRenderer.at = "idle" /\ IdleRenderer.ticket = 0
  BY DEF RendererFrames, RendererPlaces, IdleRenderer
<1>3. renderer' = [renderer EXCEPT ![r] = IdleRenderer]
  BY DEF LeaveRenderer
<1>5. jobs' \in Seq(Jobs) /\ \A i \in DOMAIN jobs' : jobs'[i].origin \in 0 .. Len(ledger.log)
  BY <1>1 DEF LeaveRenderer, LineageTypeOK, CarriedInRange
<1> QED
  BY <1>1, <1>2, <1>3, <1>5, RendererQuiet DEF LeaveRenderer

LEMMA EnqueueKeeps == ASSUME LineageInv, NEW r \in Renderers, Enqueue(r) PROVE LineageKept
<1>1. /\ LineageTypeOK /\ CarriedInRange /\ renderer[r] \in RendererFrames
      /\ ledger \in [log : Seq(Receipts), fault : BOOLEAN] /\ Len(ledger.log) \in Nat
  BY LineageGives DEF LineageInv
<1> DEFINE f == [renderer[r] EXCEPT !.queued = @ + 1]
           j == [origin |-> IF ledger.fault THEN 0 ELSE renderer[r].ticket,
                 touched |-> renderer[r].touched]
<1>2. renderer' = [renderer EXCEPT ![r] = f] /\ renderer[r].at = "queueing" /\ jobs' = Append(jobs, j)
  BY <1>1 DEF Enqueue, LineageTypeOK
<1>3. f \in RendererFrames /\ f.at = renderer[r].at /\ f.ticket = renderer[r].ticket
  BY <1>1 DEF RendererFrames
<1>4. j \in Jobs /\ j.origin \in 0 .. Len(ledger.log)
  BY <1>1 DEF CarriedInRange, RendererFrames, Jobs
<1> HIDE DEF j, f
<1>5. jobs' \in Seq(Jobs) /\ \A i \in DOMAIN jobs' : jobs'[i].origin \in 0 .. Len(ledger.log)
  <2>1. jobs \in Seq(Jobs) /\ Len(jobs) \in Nat /\ DOMAIN jobs = 1 .. Len(jobs)
    BY <1>1 DEF LineageTypeOK
  <2>2. /\ jobs' \in Seq(Jobs) /\ DOMAIN jobs' = 1 .. Len(jobs) + 1
        /\ jobs'[Len(jobs) + 1] = j /\ \A i \in 1 .. Len(jobs) : jobs'[i] = jobs[i]
    BY <1>2, <1>4, <2>1
  <2> QED
    BY <1>1, <1>4, <2>1, <2>2 DEF CarriedInRange
<1> QED
  BY <1>1, <1>2, <1>3, <1>5, RendererQuiet DEF Enqueue

LEMMA EnterKeeps == ASSUME LineageInv, NEW r \in Renderers, Enter(r) PROVE LineageKept
<1>1. LineageTypeOK /\ CarriedInRange /\ ScopesInRange /\ Len(ledger.log) \in Nat
  BY LineageGives DEF LineageInv
<1> DEFINE f == [IdleRenderer EXCEPT !.at = "entered",
                                      !.entry = IF NextRevision = FAULT THEN 0 ELSE NextRevision,
                                      !.touched = \E s \in Scopers : InsideScope(s)]
<1>2. f \in RendererFrames /\ f.at = "entered" /\ f.ticket = 0
  <2>1. (IF NextRevision = FAULT THEN 0 ELSE NextRevision) \in Nat
    BY <1>1, RevisionMoves DEF Stamps
  <2>2. (\E s \in Scopers : InsideScope(s)) \in BOOLEAN
    OBVIOUS
  <2>3. ASSUME NEW n \in Nat, NEW b \in BOOLEAN
        PROVE  LET x == [IdleRenderer EXCEPT !.at = "entered", !.entry = n, !.touched = b] IN
               x \in RendererFrames /\ x.at = "entered" /\ x.ticket = 0
    BY DEF IdleRenderer, RendererFrames, RendererPlaces
  <2> DEFINE nn == IF NextRevision = FAULT THEN 0 ELSE NextRevision
             bb == \E s \in Scopers : InsideScope(s)
  <2>4. nn \in Nat /\ bb \in BOOLEAN /\ f = [IdleRenderer EXCEPT !.at = "entered", !.entry = nn, !.touched = bb]
    BY <2>1, <2>2
  <2> HIDE DEF nn, bb, f
  <2> QED
    BY <2>3, <2>4
<1>3. /\ contents' = NextRevision /\ jobs' = TouchedJobs /\ worker' = Touched(worker)
      /\ renderer' = [Touched(renderer) EXCEPT ![r] = f]
      /\ UNCHANGED <<ledger, rows, ops, scopeLog, scoper>>
  BY DEF Enter
<1> HIDE DEF f
<1>4. /\ renderer' \in [Renderers -> RendererFrames] /\ renderer'[r] = f
      /\ \A q \in Renderers \ {r} : /\ renderer'[q].at = renderer[q].at
                                      /\ renderer'[q].ticket = renderer[q].ticket
  <2>1. Touched(renderer) \in [Renderers -> RendererFrames]
    BY <1>1, TouchedRenderers
  <2>2. /\ renderer' \in [Renderers -> RendererFrames] /\ renderer'[r] = f
        /\ \A q \in Renderers \ {r} : renderer'[q] = Touched(renderer)[q]
    BY <2>1, <1>2, <1>3
  <2> QED
    BY <2>2, <1>1, TouchedRenderers
<1>5. LineageTypeOK'
  BY <1>1, <1>3, <1>4, TouchedWorkers, TouchedWork, RevisionMoves DEF LineageTypeOK
<1>6. (\A v \in Workers : WorkerLets(v)) /\ (\A q \in Renderers : RendererLets(q))
  BY <1>1, <1>2, <1>3, <1>4, TouchedWorkers DEF WorkerLets, RendererLets
<1>7. JournalsFinal /\ HoldsApart'
  BY <1>3, <1>6, JournalsStay
<1>8. CarriedInRange'
  BY <1>1, <1>2, <1>3, <1>4, TouchedWorkers, TouchedWork, RangeKept DEF CarriedInRange
<1>9. ScopesInRange' /\ FaultsFinal
  BY <1>1, <1>3, RevisionMoves DEF ScopesInRange, FaultsFinal
<1> QED
  BY <1>5, <1>7, <1>8, <1>9, KeptWhole

(* A bump by anyone else.                                                   *)
LEMMA BumpKeeps ==
    ASSUME LineageInv, contents' = NextRevision, jobs' = TouchedJobs,
           renderer' = Touched(renderer),
           worker' \in [Workers -> WorkerFrames], \A v \in Workers : WorkerLets(v),
           \A v \in Workers : Carried(worker'[v]) \subseteq Carried(worker[v]) \cup {0},
           UNCHANGED <<ledger, rows, ops, scopeLog>>,
           scoper' \in [Scopers -> ScoperFrames],
           \A s \in Scopers : /\ scoper'[s].ticket = scoper[s].ticket
                              /\ scoper'[s].at \in {"inside", "ending", scoper[s].at}
    PROVE  LineageKept
<1>1. LineageTypeOK /\ CarriedInRange /\ ScopesInRange /\ Len(ledger.log) \in Nat
  BY LineageGives DEF LineageInv
<1>5. LineageTypeOK'
  BY <1>1, TouchedRenderers, TouchedWork, RevisionMoves DEF LineageTypeOK
<1>6. \A q \in Renderers : RendererLets(q)
  BY <1>1, TouchedRenderers DEF RendererLets
<1>7. JournalsFinal /\ HoldsApart'
  BY <1>6, JournalsStay
<1>8. CarriedInRange'
  <2>1. \A w \in Workers : Carried(worker'[w])
                \subseteq Carried(worker[w]) \cup (0 .. Len(ledger'.log))
    BY <1>1
  <2>2. \A q \in Renderers : renderer'[q].ticket
                \in {renderer[q].ticket} \cup (0 .. Len(ledger'.log))
    BY <1>1, TouchedRenderers
  <2>3. \A i \in DOMAIN jobs' : jobs'[i].origin \in 0 .. Len(ledger'.log)
    BY <1>1, TouchedWork DEF CarriedInRange
  <2> QED
    BY <1>1, <2>1, <2>2, <2>3, RangeKept
<1>9. ScopesInRange' /\ FaultsFinal
  BY <1>1, RevisionMoves DEF ScopesInRange, FaultsFinal
<1> QED
  BY <1>5, <1>7, <1>8, <1>9, KeptWhole

LEMMA OtherBoundaryKeeps == ASSUME LineageInv, OtherBoundary PROVE LineageKept
<1>1. LineageTypeOK /\ LineageTypeOK
  BY DEF LineageInv
<1>2. /\ contents' = NextRevision /\ jobs' = TouchedJobs /\ renderer' = Touched(renderer)
      /\ worker' = Touched(worker) /\ UNCHANGED <<ledger, rows, ops, scopeLog, scoper>>
  BY DEF OtherBoundary
<1>3. worker' \in [Workers -> WorkerFrames] /\ (\A v \in Workers : WorkerLets(v))
      /\ \A v \in Workers : Carried(worker'[v]) \subseteq Carried(worker[v]) \cup {0}
  BY <1>1, <1>2, TouchedWorkers DEF WorkerLets
<1>4. scoper' \in [Scopers -> ScoperFrames]
  BY <1>1, <1>2 DEF LineageTypeOK
<1> QED
  BY <1>2, <1>3, <1>4, BumpKeeps

LEMMA CrossBoundaryKeeps == ASSUME LineageInv, NEW w \in Workers, CrossBoundary(w) PROVE LineageKept
<1>1. LineageTypeOK /\ worker[w].at # "idle"
  BY DEF LineageInv, CrossBoundary, Boundaries
<1>2. /\ contents' = NextRevision /\ jobs' = TouchedJobs /\ renderer' = Touched(renderer)
      /\ GoIn(Touched(worker), w, worker[w]) /\ UNCHANGED <<ledger, rows, ops, scopeLog,
                                                            scoper>>
  BY DEF CrossBoundary
<1>5. worker[w] \in WorkerFrames /\ Touched(worker) \in [Workers -> WorkerFrames]
  BY <1>1, TouchedWorkers DEF LineageTypeOK
<1>6. /\ worker' \in [Workers -> WorkerFrames] /\ worker'[w].slot = 0
      /\ Carried(worker'[w]) \subseteq Carried(worker[w]) \cup {0}
      /\ \A v \in Workers \ {w} : worker'[v] = Touched(worker)[v]
  BY <1>1, <1>2, <1>5, GoesIn
<1>3. /\ \A v \in Workers : WorkerLets(v)
      /\ \A v \in Workers : Carried(worker'[v]) \subseteq Carried(worker[v]) \cup {0}
  <2>1. \A v \in Workers \ {w} : /\ worker'[v].at = worker[v].at /\ worker'[v].slot = worker[v].slot
                                 /\ Carried(worker'[v]) = Carried(worker[v])
    BY <1>1, <1>6, TouchedWorkers
  <2> QED
    BY <1>6, <2>1 DEF WorkerLets
<1>4. scoper' \in [Scopers -> ScoperFrames]
  BY <1>1, <1>2 DEF LineageTypeOK
<1> QED
  BY <1>2, <1>3, <1>4, <1>6, BumpKeeps

LEMMA ScopeBumpKeeps == ASSUME LineageInv, NEW s \in Scopers, ScopeBump(s) PROVE LineageKept
<1>1. LineageTypeOK
  BY DEF LineageInv
<1>2. /\ contents' = NextRevision /\ jobs' = TouchedJobs /\ renderer' = Touched(renderer)
      /\ worker' = Touched(worker) /\ UNCHANGED <<ledger, rows, ops, scopeLog>>
  BY DEF ScopeBump
<1>3. worker' \in [Workers -> WorkerFrames] /\ (\A v \in Workers : WorkerLets(v))
      /\ \A v \in Workers : Carried(worker'[v]) \subseteq Carried(worker[v]) \cup {0}
  BY <1>1, <1>2, TouchedWorkers DEF WorkerLets
<1>4. /\ scoper' \in [Scopers -> ScoperFrames]
      /\ \A u \in Scopers : /\ scoper'[u].ticket = scoper[u].ticket
                             /\ scoper'[u].at \in {"inside", "ending", scoper[u].at}
  <2>1. scoper \in [Scopers -> ScoperFrames] /\ scoper[s] \in ScoperFrames
    BY <1>1 DEF LineageTypeOK
  <2> DEFINE f == [scoper[s] EXCEPT !.at = IF @ = "begun" THEN "inside" ELSE "ending"]
  <2>2. scoper' = [scoper EXCEPT ![s] = f]
    BY <2>1 DEF ScopeBump
  <2>3. f \in ScoperFrames /\ f.at \in {"inside", "ending"} /\ f.ticket = scoper[s].ticket
    BY <2>1 DEF ScoperFrames, ScoperPlaces
  <2> HIDE DEF f
  <2> QED
    BY <2>1, <2>2, <2>3
<1> QED
  BY <1>2, <1>3, <1>4, BumpKeeps

WorkersStand ==
    /\ worker' \in [Workers -> WorkerFrames]
    /\ \A v \in Workers : /\ worker'[v].at = worker[v].at /\ worker'[v].slot = worker[v].slot
                          /\ Carried(worker'[v]) = Carried(worker[v])

LEMMA WorkersStandStill ==
    ASSUME LineageTypeOK, worker' = worker
    PROVE  WorkersStand
BY DEF LineageTypeOK, WorkersStand

(* What a scope does to its own journal and the lists.                      *)
LEMMA ScopeKeeps ==
    ASSUME LineageInv, UNCHANGED <<contents, ledger, rows, ops, jobs, renderer>>,
           WorkersStand,
           scopeLog' \in [log : Seq(ScopeRecords), fault : BOOLEAN],
           Len(scopeLog'.log) >= Len(scopeLog.log), scopeLog.fault => scopeLog'.fault,
           NEW s \in Scopers, NEW f \in ScoperFrames, scoper' = [scoper EXCEPT ![s] = f],
           f.ticket \in 0 .. Len(scopeLog'.log),
           f.at \in {"reserved", "closing"} => f.ticket # 0
    PROVE  LineageKept
<1>1. LineageTypeOK /\ CarriedInRange /\ ScopesInRange /\ Len(ledger.log) \in Nat
  BY LineageGives DEF LineageInv
<1>2. /\ scoper' \in [Scopers -> ScoperFrames] /\ scoper'[s] = f
      /\ \A u \in Scopers \ {s} : scoper'[u] = scoper[u]
  BY <1>1 DEF LineageTypeOK
<1>3. LineageTypeOK'
  BY <1>1, <1>2 DEF LineageTypeOK, WorkersStand
<1>4. (\A v \in Workers : WorkerLets(v)) /\ (\A q \in Renderers : RendererLets(q))
  BY DEF WorkersStand, WorkerLets, RendererLets
<1>5. JournalsFinal /\ HoldsApart'
  BY <1>4, JournalsStay
<1>6. CarriedInRange'
  <2>1. \A w \in Workers : Carried(worker'[w])
                \subseteq Carried(worker[w]) \cup (0 .. Len(ledger'.log))
    BY DEF WorkersStand
  <2>2. \A q \in Renderers : renderer'[q].ticket
                \in {renderer[q].ticket} \cup (0 .. Len(ledger'.log))
    OBVIOUS
  <2>3. \A i \in DOMAIN jobs' : jobs'[i].origin \in 0 .. Len(ledger'.log)
    BY <1>1 DEF CarriedInRange
  <2> QED
    BY <1>1, <2>1, <2>2, <2>3, RangeKept
<1>7. ScopesInRange'
  <2>1. Len(scopeLog.log) \in Nat /\ Len(scopeLog'.log) \in Nat
    BY <1>1 DEF LineageTypeOK
  <2>2. \A u \in Scopers \ {s} : /\ scoper'[u].ticket \in 0 .. Len(scopeLog'.log)
                                 /\ scoper'[u].at \in {"reserved", "closing"} => scoper'[u].ticket # 0
    BY <1>1, <1>2, <2>1 DEF ScopesInRange
  <2> QED
    BY <1>2, <2>2 DEF ScopesInRange
<1>8. FaultsFinal
  BY DEF FaultsFinal
<1> QED
  BY <1>3, <1>5, <1>6, <1>7, <1>8, KeptWhole

(* Writes into the journal of scopes.                                       *)
LEMMA ScopeWrites ==
    ASSUME LineageTypeOK, NEW i \in 1 .. Len(scopeLog.log), NEW e \in ScopeRecords,
           scopeLog' = Published(scopeLog, i, e)
    PROVE  /\ scopeLog' \in [log : Seq(ScopeRecords), fault : BOOLEAN]
           /\ Len(scopeLog'.log) = Len(scopeLog.log) /\ scopeLog'.fault = scopeLog.fault
<1>1. /\ scopeLog \in [log : Seq(ScopeRecords), fault : BOOLEAN] /\ Len(scopeLog.log) \in Nat
      /\ scopeLog.log \in [1 .. Len(scopeLog.log) -> ScopeRecords]
  BY DEF LineageTypeOK
<1> DEFINE l == [scopeLog.log EXCEPT ![i] = e]
<1>4. l \in [1 .. Len(scopeLog.log) -> ScopeRecords]
  BY <1>1
<1>5. l \in Seq(ScopeRecords) /\ Len(l) = Len(scopeLog.log)
  BY <1>1, <1>4
<1>6. scopeLog' = [log |-> l, fault |-> scopeLog.fault]
  BY <1>1 DEF Published
<1> HIDE DEF l
<1> QED
  BY <1>1, <1>5, <1>6

(* Records of scopes that move on.                                          *)
LEMMA ScopeRecordMoves ==
    ASSUME LineageTypeOK, NEW i \in 1 .. Len(scopeLog.log)
    PROVE  /\ [scopeLog.log[i] EXCEPT !.published = TRUE] \in ScopeRecords
           /\ [scopeLog.log[i] EXCEPT !.status = "CLOSING"] \in ScopeRecords
           /\ [scopeLog.log[i] EXCEPT !.status = "CLOSED"] \in ScopeRecords
<1>1. scopeLog.log[i] \in ScopeRecords
  BY DEF LineageTypeOK
<1> QED
  BY <1>1 DEF ScopeRecords

LEMMA ScopeFaults ==
    ASSUME LineageTypeOK
    PROVE  /\ Invalidated(scopeLog) \in [log : Seq(ScopeRecords), fault : BOOLEAN]
           /\ Invalidated(scopeLog).log = scopeLog.log /\ Invalidated(scopeLog).fault
<1>1. scopeLog \in [log : Seq(ScopeRecords), fault : BOOLEAN]
  BY DEF LineageTypeOK
<1> QED
  BY <1>1 DEF Invalidated

LEMMA ScoperPart ==
    ASSUME LineageInv, NEW s \in Scopers
    PROVE  /\ LineageTypeOK /\ scoper[s] \in ScoperFrames /\ Len(scopeLog.log) \in Nat
           /\ scopeLog \in [log : Seq(ScopeRecords), fault : BOOLEAN]
           /\ scoper[s].ticket \in 0 .. Len(scopeLog.log)
           /\ scoper[s].at \in {"reserved", "closing"} => scoper[s].ticket # 0
           /\ IdleScoper \in ScoperFrames /\ IdleScoper.at = "idle" /\ IdleScoper.ticket = 0
           /\ \A a \in ScoperPlaces : LET x == [scoper[s] EXCEPT !.at = a] IN
                 x \in ScoperFrames /\ x.at = a /\ x.ticket = scoper[s].ticket
           /\ worker \in [Workers -> WorkerFrames]
<1>1. /\ LineageTypeOK /\ scoper[s] \in ScoperFrames /\ ScopesInRange
  BY DEF LineageInv, LineageTypeOK
<1>2. IdleScoper \in ScoperFrames /\ IdleScoper.at = "idle" /\ IdleScoper.ticket = 0
  BY DEF IdleScoper, ScoperFrames, ScoperPlaces
<1>3. \A a \in ScoperPlaces : LET x == [scoper[s] EXCEPT !.at = a] IN
                 x \in ScoperFrames /\ x.at = a /\ x.ticket = scoper[s].ticket
  BY <1>1 DEF ScoperFrames
<1>4. /\ Len(scopeLog.log) \in Nat /\ scopeLog \in [log : Seq(ScopeRecords), fault : BOOLEAN]
      /\ worker \in [Workers -> WorkerFrames]
  BY <1>1 DEF LineageTypeOK
<1> QED
  BY <1>1, <1>2, <1>3, <1>4 DEF ScopesInRange

LEMMA ScopeReserveKeeps == ASSUME LineageInv, NEW s \in Scopers, ScopeReserve(s) PROVE LineageKept
<1>1. LineageTypeOK /\ Len(scopeLog.log) \in Nat /\ worker \in [Workers -> WorkerFrames]
      /\ scopeLog \in [log : Seq(ScopeRecords), fault : BOOLEAN]
  BY ScoperPart
<1> DEFINE e == [status |-> "OPEN", published |-> FALSE]
           f == [at |-> "reserved", ticket |-> Len(scopeLog.log) + 1]
           g == [at |-> "begun", ticket |-> 0]
<1>2. CASE CanReserve(scopeLog, ScopeCapacity)
  <2>1. scopeLog' = Reserved(scopeLog, e) /\ scoper' = [scoper EXCEPT ![s] = f]
        /\ UNCHANGED <<contents, ledger, rows, ops, jobs, renderer, worker>>
    BY <1>2 DEF ScopeReserve
  <2>2. e \in ScopeRecords
    BY DEF ScopeRecords
  <2>3. scopeLog' = [log |-> Append(scopeLog.log, e), fault |-> scopeLog.fault]
    BY <2>1, <1>1 DEF Reserved
  <2> HIDE DEF e
  <2>4. Append(scopeLog.log, e) \in Seq(ScopeRecords) /\ Len(Append(scopeLog.log, e)) = Len(scopeLog.log) + 1
    BY <2>2, <1>1
  <2>5. /\ scopeLog' \in [log : Seq(ScopeRecords), fault : BOOLEAN]
        /\ Len(scopeLog'.log) = Len(scopeLog.log) + 1 /\ scopeLog'.fault = scopeLog.fault
    BY <2>3, <2>4, <1>1
  <2>6. f \in ScoperFrames /\ f.ticket \in 0 .. Len(scopeLog'.log) /\ f.ticket # 0
    BY <1>1, <2>5 DEF ScoperFrames, ScoperPlaces
  <2> HIDE DEF f
  <2>7. WorkersStand
    BY <1>1, <2>1, WorkersStandStill
  <2>8. Len(scopeLog'.log) >= Len(scopeLog.log)
    BY <1>1, <2>5
  <2> QED
    BY <2>1, <2>5, <2>6, <2>7, <2>8, ScopeKeeps
<1>3. CASE ~CanReserve(scopeLog, ScopeCapacity)
  <2>1. scopeLog' = Invalidated(scopeLog) /\ scoper' = [scoper EXCEPT ![s] = g]
        /\ UNCHANGED <<contents, ledger, rows, ops, jobs, renderer, worker>>
    BY <1>3 DEF ScopeReserve
  <2>2. /\ g \in ScoperFrames /\ g.at = "begun" /\ g.ticket \in 0 .. Len(scopeLog.log)
    BY <1>1 DEF ScoperFrames, ScoperPlaces
  <2> HIDE DEF g
  <2>3. WorkersStand
    BY <1>1, <2>1, WorkersStandStill
  <2>4. /\ scopeLog' \in [log : Seq(ScopeRecords), fault : BOOLEAN]
        /\ Len(scopeLog'.log) = Len(scopeLog.log) /\ scopeLog'.fault
    BY <1>1, <2>1, ScopeFaults
  <2>5. Len(scopeLog'.log) >= Len(scopeLog.log)
    BY <1>1, <2>4
  <2> QED
    BY <2>1, <2>2, <2>3, <2>4, <2>5, ScopeKeeps
<1> QED
  BY <1>2, <1>3

LEMMA ScopePublishKeeps == ASSUME LineageInv, NEW s \in Scopers, ScopePublish(s) PROVE LineageKept
<1>1. LineageTypeOK /\ Len(scopeLog.log) \in Nat
      /\ scopeLog \in [log : Seq(ScopeRecords), fault : BOOLEAN]
      /\ scoper[s].ticket \in 0 .. Len(scopeLog.log)
      /\ (scoper[s].at = "reserved" => scoper[s].ticket # 0)
  BY ScoperPart
<1> DEFINE t == scoper[s].ticket
           f == [at |-> "begun", ticket |-> IF scopeLog.fault THEN 0 ELSE t]
           e == [scopeLog.log[t] EXCEPT !.published = TRUE]
<1>2. /\ scoper' = [scoper EXCEPT ![s] = f]
      /\ UNCHANGED <<contents, ledger, rows, ops, jobs, renderer, worker>>
  BY DEF ScopePublish
<1>3. f \in ScoperFrames /\ f.at = "begun" /\ f.ticket \in 0 .. Len(scopeLog.log)
  <2>1. (IF scopeLog.fault THEN 0 ELSE t) \in 0 .. Len(scopeLog.log)
    BY <1>1
  <2> QED
    BY <1>1, <2>1 DEF ScoperFrames, ScoperPlaces
<1>4. t \in 1 .. Len(scopeLog.log)
  BY <1>1 DEF ScopePublish
<1>5. /\ scopeLog' \in [log : Seq(ScopeRecords), fault : BOOLEAN]
      /\ Len(scopeLog'.log) = Len(scopeLog.log) /\ scopeLog'.fault = scopeLog.fault
  <2>1. CASE scopeLog.fault
    BY <1>1, <2>1 DEF ScopePublish
  <2>2. CASE ~scopeLog.fault
    <3>1. scopeLog' = Published(scopeLog, t, e)
      BY <2>2 DEF ScopePublish
    <3> QED
      BY <1>1, <1>4, <3>1, ScopeWrites, ScopeRecordMoves
  <2> QED
    BY <2>1, <2>2
<1> HIDE DEF f, e
<1>6. WorkersStand /\ Len(scopeLog'.log) >= Len(scopeLog.log)
  BY <1>1, <1>2, <1>5, WorkersStandStill
<1> QED
  BY <1>2, <1>3, <1>5, <1>6, ScopeKeeps

LEMMA MutateKeeps == ASSUME LineageInv, NEW s \in Scopers, Mutate(s) PROVE LineageKept
<1>1. LineageTypeOK /\ Len(scopeLog.log) \in Nat /\ worker \in [Workers -> WorkerFrames]
      /\ scopeLog \in [log : Seq(ScopeRecords), fault : BOOLEAN]
      /\ scoper \in [Scopers -> ScoperFrames]
  BY ScoperPart DEF LineageTypeOK
<1> DEFINE f == [scoper[s] EXCEPT !.at = "leaving"]
<1>2. f \in ScoperFrames /\ f.at = "leaving" /\ f.ticket \in 0 .. Len(scopeLog.log)
  BY ScoperPart DEF ScoperPlaces
<1>3. scoper' = [scoper EXCEPT ![s] = f] /\ worker' = [w \in Workers |-> [worker[w] EXCEPT !.count = 0]]
      /\ UNCHANGED <<contents, ledger, rows, ops, scopeLog, jobs, renderer>>
  BY <1>1 DEF Mutate
<1>4. ASSUME NEW k \in WorkerFrames
      PROVE  LET x == [k EXCEPT !.count = 0] IN
             x \in WorkerFrames /\ x.at = k.at /\ x.slot = k.slot /\ Carried(x) = Carried(k)
  BY DEF WorkerFrames, Carried
<1>5. /\ worker' \in [Workers -> WorkerFrames]
      /\ \A v \in Workers : /\ worker'[v].at = worker[v].at /\ worker'[v].slot = worker[v].slot
                             /\ Carried(worker'[v]) = Carried(worker[v])
  BY <1>1, <1>3, <1>4
<1>6. WorkersStand /\ Len(scopeLog'.log) >= Len(scopeLog.log)
  BY <1>1, <1>3, <1>5 DEF WorkersStand
<1>7. /\ scopeLog' \in [log : Seq(ScopeRecords), fault : BOOLEAN] /\ scopeLog'.fault = scopeLog.fault
      /\ f.ticket \in 0 .. Len(scopeLog'.log)
  BY <1>1, <1>2, <1>3
<1> HIDE DEF f
<1> QED
  BY <1>2, <1>3, <1>6, <1>7, ScopeKeeps

LEMMA ScopeClaimKeeps == ASSUME LineageInv, NEW s \in Scopers, ScopeClaim(s) PROVE LineageKept
<1>1. LineageTypeOK /\ Len(scopeLog.log) \in Nat
      /\ scoper[s].ticket \in 0 .. Len(scopeLog.log)
      /\ IdleScoper \in ScoperFrames /\ IdleScoper.at = "idle" /\ IdleScoper.ticket = 0
  BY ScoperPart
<1>2. UNCHANGED <<contents, ledger, rows, ops, jobs, renderer, worker>>
  BY DEF ScopeClaim
<1>5. WorkersStand
  BY <1>1, <1>2, WorkersStandStill
<1>3. CASE scoper[s].ticket = 0 \/ scopeLog.fault
  <2>1. scopeLog' = Invalidated(scopeLog) /\ scoper' = [scoper EXCEPT ![s] = IdleScoper]
    BY <1>3 DEF ScopeClaim
  <2>2. /\ scopeLog' \in [log : Seq(ScopeRecords), fault : BOOLEAN]
        /\ Len(scopeLog'.log) = Len(scopeLog.log) /\ scopeLog'.fault
    BY <1>1, <2>1, ScopeFaults
  <2>3. Len(scopeLog'.log) >= Len(scopeLog.log) /\ IdleScoper.ticket \in 0 .. Len(scopeLog'.log)
    BY <1>1, <2>2
  <2> QED
    BY <1>1, <1>2, <1>5, <2>1, <2>2, <2>3, ScopeKeeps
<1>4. CASE ~(scoper[s].ticket = 0 \/ scopeLog.fault)
  <2> DEFINE t == scoper[s].ticket
             f == [scoper[s] EXCEPT !.at = "closing"]
             e == [scopeLog.log[t] EXCEPT !.status = "CLOSING"]
  <2>1. scopeLog' = Published(scopeLog, t, e) /\ scoper' = [scoper EXCEPT ![s].at = "closing"]
    BY <1>4 DEF ScopeClaim
  <2>5. scoper' = [scoper EXCEPT ![s] = f]
    BY <2>1, <1>1 DEF LineageTypeOK
  <2>2. f \in ScoperFrames /\ f.at = "closing" /\ f.ticket = t
    BY ScoperPart DEF ScoperPlaces
  <2>6. t \in 1 .. Len(scopeLog.log)
    BY <1>1, <1>4
  <2>3. /\ scopeLog' \in [log : Seq(ScopeRecords), fault : BOOLEAN]
        /\ Len(scopeLog'.log) = Len(scopeLog.log) /\ scopeLog'.fault = scopeLog.fault
    BY <1>1, <2>1, <2>6, ScopeWrites, ScopeRecordMoves
  <2> HIDE DEF f, e
  <2>4. Len(scopeLog'.log) >= Len(scopeLog.log) /\ f.ticket \in 0 .. Len(scopeLog'.log) /\ f.ticket # 0
    BY <1>1, <1>4, <2>2, <2>3
  <2> QED
    BY <1>2, <1>5, <2>2, <2>3, <2>4, <2>5, ScopeKeeps
<1> QED
  BY <1>3, <1>4

LEMMA ScopeCloseKeeps == ASSUME LineageInv, NEW s \in Scopers, ScopeClose(s) PROVE LineageKept
<1>1. LineageTypeOK /\ Len(scopeLog.log) \in Nat
      /\ scoper[s].ticket \in 0 .. Len(scopeLog.log)
      /\ (scoper[s].at = "closing" => scoper[s].ticket # 0)
  BY ScoperPart
<1> DEFINE t == scoper[s].ticket
           f == [scoper[s] EXCEPT !.at = "closed"]
           e == [scopeLog.log[t] EXCEPT !.status = "CLOSED"]
<1>2. /\ scopeLog' = Published(scopeLog, t, e) /\ scoper' = [scoper EXCEPT ![s].at = "closed"]
      /\ scoper[s].at = "closing"
      /\ UNCHANGED <<contents, ledger, rows, ops, jobs, renderer, worker>>
  BY DEF ScopeClose
<1>3. scoper' = [scoper EXCEPT ![s] = f]
  BY <1>1, <1>2 DEF LineageTypeOK
<1>4. f \in ScoperFrames /\ f.at = "closed" /\ f.ticket = t
  BY ScoperPart DEF ScoperPlaces
<1>5. t \in 1 .. Len(scopeLog.log)
  BY <1>1, <1>2
<1>6. /\ scopeLog' \in [log : Seq(ScopeRecords), fault : BOOLEAN]
      /\ Len(scopeLog'.log) = Len(scopeLog.log) /\ scopeLog'.fault = scopeLog.fault
  BY <1>1, <1>2, <1>5, ScopeWrites, ScopeRecordMoves
<1> HIDE DEF f, e
<1>7. /\ WorkersStand
      /\ Len(scopeLog'.log) >= Len(scopeLog.log) /\ f.ticket \in 0 .. Len(scopeLog'.log)
  BY <1>1, <1>2, <1>4, <1>6, WorkersStandStill
<1> QED
  BY <1>2, <1>3, <1>4, <1>6, <1>7, ScopeKeeps

LEMMA ScopeReleaseKeeps == ASSUME LineageInv, NEW s \in Scopers, ScopeRelease(s) PROVE LineageKept
<1>1. LineageTypeOK /\ Len(scopeLog.log) \in Nat
      /\ scopeLog \in [log : Seq(ScopeRecords), fault : BOOLEAN]
      /\ IdleScoper \in ScoperFrames /\ IdleScoper.at = "idle" /\ IdleScoper.ticket = 0
  BY ScoperPart
<1>2. /\ scopeLog' = scopeLog \/ scopeLog' = Invalidated(scopeLog)
      /\ scoper' = [scoper EXCEPT ![s] = IdleScoper]
      /\ UNCHANGED <<contents, ledger, rows, ops, jobs, renderer, worker>>
  BY DEF ScopeRelease
<1>3. /\ scopeLog' \in [log : Seq(ScopeRecords), fault : BOOLEAN]
      /\ Len(scopeLog'.log) = Len(scopeLog.log) /\ (scopeLog.fault => scopeLog'.fault)
  BY <1>1, <1>2, ScopeFaults
<1>4. /\ WorkersStand
      /\ Len(scopeLog'.log) >= Len(scopeLog.log) /\ IdleScoper.ticket \in 0 .. Len(scopeLog'.log)
  BY <1>1, <1>2, <1>3, WorkersStandStill
<1> QED
  BY <1>1, <1>2, <1>3, <1>4, ScopeKeeps

(* A step that only faults words.                                           *)
LEMMA ExhaustKeeps == ASSUME LineageInv, ExhaustLoop PROVE LineageKept
<1>1. LineageTypeOK /\ CarriedInRange /\ ScopesInRange
  BY DEF LineageInv
<1>2. UNCHANGED <<jobs, renderer, worker, scoper>>
  BY DEF ExhaustLoop
<1>3. /\ ledger' \in {ledger, Invalidated(ledger)} /\ rows' \in {rows, Invalidated(rows)}
      /\ ops' \in {ops, Invalidated(ops)} /\ scopeLog' \in {scopeLog, Invalidated(scopeLog)}
      /\ contents' \in {contents, FAULT}
  BY DEF ExhaustLoop
<1>4. ASSUME NEW S, NEW j \in [log : Seq(S), fault : BOOLEAN], NEW k \in {j, Invalidated(j)}
      PROVE  k \in [log : Seq(S), fault : BOOLEAN] /\ k.log = j.log /\ (j.fault => k.fault)
  BY DEF Invalidated
<1>5. /\ ledger' \in [log : Seq(Receipts), fault : BOOLEAN]
      /\ ledger'.log = ledger.log /\ (ledger.fault => ledger'.fault)
  BY <1>1, <1>3, <1>4 DEF LineageTypeOK
<1>6. /\ rows' \in [log : Seq(RowEvents), fault : BOOLEAN]
      /\ rows'.log = rows.log /\ (rows.fault => rows'.fault)
  BY <1>1, <1>3, <1>4 DEF LineageTypeOK
<1>7. /\ ops' \in [log : Seq(OpEvents), fault : BOOLEAN]
      /\ ops'.log = ops.log /\ (ops.fault => ops'.fault)
  BY <1>1, <1>3, <1>4 DEF LineageTypeOK
<1>8. /\ scopeLog' \in [log : Seq(ScopeRecords), fault : BOOLEAN]
      /\ scopeLog'.log = scopeLog.log /\ (scopeLog.fault => scopeLog'.fault)
  BY <1>1, <1>3, <1>4 DEF LineageTypeOK
<1>9. contents' \in Stamps
  BY <1>1, <1>3 DEF LineageTypeOK, Stamps
<1>10. LineageTypeOK'
  BY <1>1, <1>2, <1>5, <1>6, <1>7, <1>8, <1>9 DEF LineageTypeOK
<1>11. (\A v \in Workers : WorkerLets(v)) /\ (\A q \in Renderers : RendererLets(q))
  BY <1>2 DEF WorkerLets, RendererLets
<1>12. JournalsFinal /\ HoldsApart'
  BY <1>5, <1>6, <1>7, <1>11, JournalsStay
<1>13. CarriedInRange' /\ ScopesInRange'
  BY <1>1, <1>2, <1>5, <1>8 DEF CarriedInRange, ScopesInRange, Carried
<1>14. FaultsFinal
  BY <1>3, <1>8 DEF FaultsFinal
<1> QED
  BY <1>10, <1>12, <1>13, <1>14, KeptWhole

(* A worker at its hook.                                                    *)
LEMMA PointsApart ==
    /\ \A a \in ReceiptPoints : a \notin RowPoints /\ a \notin OperationPoints /\ a # "idle"
    /\ \A a \in RowPoints : a \notin ReceiptPoints /\ a \notin OperationPoints /\ a # "idle"
    /\ \A a \in OperationPoints : a \notin ReceiptPoints /\ a \notin RowPoints /\ a # "idle"
BY DEF ReceiptPoints, RowPoints, OperationPoints

LEMMA JobsStand ==
    ASSUME LineageInv, jobs' = jobs
    PROVE  jobs' \in Seq(Jobs) /\ \A i \in DOMAIN jobs' : jobs'[i].origin \in 0 .. Len(ledger.log)
BY DEF LineageInv, LineageTypeOK, CarriedInRange

LEMMA WorkerKeeps ==
    ASSUME LineageInv, UNCHANGED <<contents, scopeLog, renderer, scoper>>,
           ledger' \in [log : Seq(Receipts), fault : BOOLEAN],
           rows' \in [log : Seq(RowEvents), fault : BOOLEAN],
           ops' \in [log : Seq(OpEvents), fault : BOOLEAN],
           JournalsFinal, HoldsApart', worker' \in [Workers -> WorkerFrames],
           \A v \in Workers : Carried(worker'[v]) \subseteq Carried(worker[v]) \cup (0 .. Len(ledger.log)),
           jobs' \in Seq(Jobs), \A i \in DOMAIN jobs' : jobs'[i].origin \in 0 .. Len(ledger.log)
    PROVE  LineageKept
<1>1. LineageTypeOK /\ CarriedInRange /\ ScopesInRange /\ Len(ledger.log) \in Nat
  BY LineageGives DEF LineageInv
<1>2. LineageTypeOK'
  BY <1>1 DEF LineageTypeOK
<1>3. Len(ledger'.log) \in Nat /\ Len(ledger'.log) >= Len(ledger.log)
  BY DEF JournalsFinal, Extends
<1>4. 0 .. Len(ledger.log) \subseteq 0 .. Len(ledger'.log)
  BY <1>1, <1>3
<1>5. CarriedInRange'
  <2>1. \A w \in Workers : Carried(worker'[w])
                \subseteq Carried(worker[w]) \cup (0 .. Len(ledger'.log))
    BY <1>4
  <2>2. \A q \in Renderers : renderer'[q].ticket
                \in {renderer[q].ticket} \cup (0 .. Len(ledger'.log))
    OBVIOUS
  <2>3. \A i \in DOMAIN jobs' : jobs'[i].origin \in 0 .. Len(ledger'.log)
    BY <1>4
  <2> QED
    BY <1>3, <2>1, <2>2, <2>3, RangeKept
<1>6. ScopesInRange' /\ FaultsFinal
  BY <1>1 DEF ScopesInRange, FaultsFinal
<1> QED
  BY <1>2, <1>5, <1>6, KeptWhole

(* The records of a hook that goes on or writes.                            *)
LEMMA MoverHolds ==
    ASSUME NEW w \in Workers, \A v \in Workers \ {w} : worker'[v] = worker[v], renderer' = renderer
    PROVE  /\ LetGoBut(Holders, LedgerHold, LedgerHold', <<"worker", w>>)
           /\ LetGoBut(Workers, RowHold, RowHold', w)
           /\ LetGoBut(Workers, OpHold, OpHold', w)
<1>1. \A o \in Holders \ {<<"worker", w>>} : LedgerHold'[o] = LedgerHold[o]
  <2> SUFFICES ASSUME NEW o \in Holders \ {<<"worker", w>>}
               PROVE  LedgerHold'[o] = LedgerHold[o]
    OBVIOUS
  <2>1. CASE o \in {"renderer"} \X Renderers
    <3>1. PICK r \in Renderers : o = <<"renderer", r>>
      BY <2>1
    <3> QED
      BY <3>1 DEF LedgerHold
  <2>2. CASE o \in {"worker"} \X Workers
    <3>1. PICK v \in Workers \ {w} : o = <<"worker", v>>
      BY <2>2
    <3> QED
      BY <3>1 DEF LedgerHold
  <2> QED
    BY <2>1, <2>2 DEF Holders
<1>2. \A v \in Workers \ {w} : RowHold'[v] = RowHold[v] /\ OpHold'[v] = OpHold[v]
  BY DEF RowHold, OpHold
<1> QED
  BY <1>1, <1>2 DEF LetGoBut

LEMMA MoverLetsGo ==
    ASSUME NEW w \in Workers, \A v \in Workers \ {w} : worker'[v] = worker[v], renderer' = renderer
    PROVE  /\ worker'[w].at \notin ReceiptPoints \/ worker'[w].slot = 0
                => LetGo(Holders, LedgerHold, LedgerHold')
           /\ worker'[w].at \notin RowPoints \/ worker'[w].slot = 0
                => LetGo(Workers, RowHold, RowHold')
           /\ worker'[w].at \notin OperationPoints \/ worker'[w].slot = 0
                => LetGo(Workers, OpHold, OpHold')
<1>1. ASSUME worker'[w].at \notin ReceiptPoints \/ worker'[w].slot = 0
      PROVE  LetGo(Holders, LedgerHold, LedgerHold')
  <2>1. <<"worker", w>> \in Holders
    BY DEF Holders
  <2>2. LedgerHold'[<<"worker", w>>] = 0
    BY <1>1, <2>1 DEF LedgerHold
  <2> QED
    BY <2>2, MoverHolds DEF LetGo, LetGoBut
<1>2. ASSUME worker'[w].at \notin RowPoints \/ worker'[w].slot = 0
      PROVE  LetGo(Workers, RowHold, RowHold')
  <2>1. RowHold'[w] = 0
    BY <1>2 DEF RowHold
  <2> QED
    BY <2>1, MoverHolds DEF LetGo, LetGoBut
<1>3. ASSUME worker'[w].at \notin OperationPoints \/ worker'[w].slot = 0
      PROVE  LetGo(Workers, OpHold, OpHold')
  <2>1. OpHold'[w] = 0
    BY <1>3 DEF OpHold
  <2> QED
    BY <2>1, MoverHolds DEF LetGo, LetGoBut
<1> QED
  BY <1>1, <1>2, <1>3

(* A journal that is left alone or faulted.                                 *)
LEMMA FaultedAtMost ==
    ASSUME NEW S, NEW j \in [log : Seq(S), fault : BOOLEAN], NEW k \in {j, Invalidated(j)}
    PROVE  k \in [log : Seq(S), fault : BOOLEAN] /\ k.log = j.log /\ (j.fault => k.fault)
BY DEF Invalidated

(* A hook that writes no record and goes on.                                *)
LEMMA GoKeeps ==
    ASSUME LineageInv, NEW w \in Workers, worker[w].at # "idle", Go(w, worker[w]),
           ledger' \in {ledger, Invalidated(ledger)}, rows' \in {rows, Invalidated(rows)},
           ops' \in {ops, Invalidated(ops)},
           UNCHANGED <<contents, scopeLog, jobs, renderer, scoper>>
    PROVE  LineageKept
<1>1. worker \in [Workers -> WorkerFrames] /\ worker[w] \in WorkerFrames /\ Len(ledger.log) \in Nat
  BY LineageGives DEF LineageInv, LineageTypeOK
<1>2. /\ worker' \in [Workers -> WorkerFrames] /\ worker'[w].slot = 0
      /\ Carried(worker'[w]) \subseteq Carried(worker[w]) \cup {0}
      /\ \A v \in Workers \ {w} : worker'[v] = worker[v]
  BY <1>1, GoesIn DEF Go
<1>3. (\A v \in Workers : WorkerLets(v)) /\ (\A r \in Renderers : RendererLets(r))
  BY <1>2 DEF WorkerLets, RendererLets
<1>4. /\ ledger' \in [log : Seq(Receipts), fault : BOOLEAN]
      /\ ledger'.log = ledger.log /\ (ledger.fault => ledger'.fault)
  BY LineageGives, FaultedAtMost
<1>5. /\ rows' \in [log : Seq(RowEvents), fault : BOOLEAN]
      /\ rows'.log = rows.log /\ (rows.fault => rows'.fault)
  BY LineageGives, FaultedAtMost
<1>6. /\ ops' \in [log : Seq(OpEvents), fault : BOOLEAN]
      /\ ops'.log = ops.log /\ (ops.fault => ops'.fault)
  BY LineageGives, FaultedAtMost
<1>7. JournalsFinal /\ HoldsApart'
  BY <1>3, <1>4, <1>5, <1>6, JournalsStay
<1>8. \A v \in Workers : Carried(worker'[v]) \subseteq Carried(worker[v]) \cup (0 .. Len(ledger.log))
  BY <1>1, <1>2
<1> QED
  BY <1>2, <1>4, <1>5, <1>6, <1>7, <1>8, JobsStand, WorkerKeeps

(* A hook that writes the record it holds, or one more.                     *)
LEMMA ReceiptWriteKeeps ==
    ASSUME LineageInv, NEW w \in Workers, NEW e \in Receipts,
           UNCHANGED <<contents, rows, ops, scopeLog, jobs, renderer, scoper>>,
           JournalMoves(ledger, ledger', e, LedgerHold[<<"worker", w>>], LedgerHold'[<<"worker", w>>]),
           worker' \in [Workers -> WorkerFrames],
           \A v \in Workers \ {w} : worker'[v] = worker[v],
           Carried(worker'[w]) \subseteq Carried(worker[w]) \cup (0 .. Len(ledger.log)),
           worker'[w].at \in ReceiptPoints \/ worker'[w].slot = 0
    PROVE  LineageKept
<1>1. /\ LetGoBut(Holders, LedgerHold, LedgerHold', <<"worker", w>>)
      /\ LetGoBut(Workers, RowHold, RowHold', w)
      /\ LetGoBut(Workers, OpHold, OpHold', w)
  BY MoverHolds
<1>2. LetGo(Workers, RowHold, RowHold') /\ LetGo(Workers, OpHold, OpHold')
  BY MoverLetsGo, PointsApart
<1>3. /\ JournalsFinal /\ HoldsApart'
      /\ ledger' \in [log : Seq(Receipts), fault : BOOLEAN]
  BY <1>1, <1>2, <<"worker", w>> \in Holders, LedgerMoves DEF Holders
<1>4. \A v \in Workers : Carried(worker'[v]) \subseteq Carried(worker[v]) \cup (0 .. Len(ledger.log))
  OBVIOUS
<1> QED
  BY <1>3, <1>4, JobsStand, LineageGives, WorkerKeeps

LEMMA RowWriteKeeps ==
    ASSUME LineageInv, NEW w \in Workers, NEW e \in RowEvents,
           UNCHANGED <<contents, ledger, ops, scopeLog, jobs, renderer, scoper>>,
           JournalMoves(rows, rows', e, RowHold[w], RowHold'[w]),
           worker' \in [Workers -> WorkerFrames],
           \A v \in Workers \ {w} : worker'[v] = worker[v],
           Carried(worker'[w]) \subseteq Carried(worker[w]) \cup (0 .. Len(ledger.log)),
           worker'[w].at \in RowPoints \/ worker'[w].slot = 0
    PROVE  LineageKept
<1>1. /\ LetGoBut(Holders, LedgerHold, LedgerHold', <<"worker", w>>)
      /\ LetGoBut(Workers, RowHold, RowHold', w)
      /\ LetGoBut(Workers, OpHold, OpHold', w)
  BY MoverHolds
<1>2. LetGo(Holders, LedgerHold, LedgerHold') /\ LetGo(Workers, OpHold, OpHold')
  BY MoverLetsGo, PointsApart
<1>3. /\ JournalsFinal /\ HoldsApart'
      /\ rows' \in [log : Seq(RowEvents), fault : BOOLEAN]
  BY <1>1, <1>2, <<"worker", w>> \in Holders, RowsMove DEF Holders
<1>4. \A v \in Workers : Carried(worker'[v]) \subseteq Carried(worker[v]) \cup (0 .. Len(ledger.log))
  OBVIOUS
<1> QED
  BY <1>3, <1>4, JobsStand, LineageGives, WorkerKeeps

LEMMA OpWriteKeeps ==
    ASSUME LineageInv, NEW w \in Workers, NEW e \in OpEvents,
           UNCHANGED <<contents, ledger, rows, scopeLog, jobs, renderer, scoper>>,
           JournalMoves(ops, ops', e, OpHold[w], OpHold'[w]),
           worker' \in [Workers -> WorkerFrames],
           \A v \in Workers \ {w} : worker'[v] = worker[v],
           Carried(worker'[w]) \subseteq Carried(worker[w]) \cup (0 .. Len(ledger.log)),
           worker'[w].at \in OperationPoints \/ worker'[w].slot = 0
    PROVE  LineageKept
<1>1. /\ LetGoBut(Holders, LedgerHold, LedgerHold', <<"worker", w>>)
      /\ LetGoBut(Workers, RowHold, RowHold', w)
      /\ LetGoBut(Workers, OpHold, OpHold', w)
  BY MoverHolds
<1>2. LetGo(Holders, LedgerHold, LedgerHold') /\ LetGo(Workers, RowHold, RowHold')
  BY MoverLetsGo, PointsApart
<1>3. /\ JournalsFinal /\ HoldsApart'
      /\ ops' \in [log : Seq(OpEvents), fault : BOOLEAN]
  BY <1>1, <1>2, <<"worker", w>> \in Holders, OpsMove DEF Holders
<1>4. \A v \in Workers : Carried(worker'[v]) \subseteq Carried(worker[v]) \cup (0 .. Len(ledger.log))
  OBVIOUS
<1> QED
  BY <1>3, <1>4, JobsStand, LineageGives, WorkerKeeps

LEMMA BorrowKeeps == ASSUME LineageInv, NEW w \in Workers, Borrow(w) PROVE LineageKept
<1>1. LineageTypeOK /\ CarriedInRange /\ Len(ledger.log) \in Nat
  BY LineageGives DEF LineageInv
<1>2. jobs \in Seq(Jobs) /\ jobs # <<>> /\ Head(jobs) = jobs[1] /\ 1 \in DOMAIN jobs /\ jobs[1] \in Jobs
  BY <1>1 DEF LineageTypeOK, Borrow
<1> DEFINE k == [IdleWorker EXCEPT !.at = "borrow", !.origin = Head(jobs).origin,
                                   !.touched = Head(jobs).touched]
<1>3. Head(jobs).origin \in Nat /\ Head(jobs).origin \in 0 .. Len(ledger.log) /\ Head(jobs).touched \in BOOLEAN
  BY <1>1, <1>2 DEF Jobs, CarriedInRange
<1>4. k \in WorkerFrames /\ k.at = "borrow" /\ k.slot = 0 /\ Carried(k) = {0, Head(jobs).origin}
  BY <1>3 DEF IdleWorker, WorkerFrames, WorkerPlaces, ReceiptPoints, Carried
<1>5. worker' = [worker EXCEPT ![w] = k] /\ jobs' = Tail(jobs)
      /\ UNCHANGED <<contents, ledger, rows, ops, scopeLog, renderer, scoper>>
  BY DEF Borrow
<1> HIDE DEF k
<1>6. /\ worker' \in [Workers -> WorkerFrames] /\ worker'[w] = k
      /\ \A v \in Workers \ {w} : worker'[v] = worker[v]
  BY <1>1, <1>4, <1>5 DEF LineageTypeOK
<1>7. (\A v \in Workers : WorkerLets(v)) /\ (\A r \in Renderers : RendererLets(r))
  BY <1>4, <1>5, <1>6 DEF WorkerLets, RendererLets
<1>8. JournalsFinal /\ HoldsApart'
  BY <1>5, <1>7, JournalsStay
<1>9. \A v \in Workers : Carried(worker'[v]) \subseteq Carried(worker[v]) \cup (0 .. Len(ledger.log))
  BY <1>1, <1>3, <1>4, <1>6
<1>10. jobs' \in Seq(Jobs) /\ \A i \in DOMAIN jobs' : jobs'[i].origin \in 0 .. Len(ledger.log)
  <2>1. /\ Tail(jobs) \in Seq(Jobs) /\ Len(jobs) \in Nat /\ DOMAIN jobs = 1 .. Len(jobs)
        /\ DOMAIN Tail(jobs) = 1 .. Len(jobs) - 1
        /\ \A i \in 1 .. Len(jobs) - 1 : Tail(jobs)[i] = jobs[i + 1]
    BY <1>2
  <2>2. \A i \in 1 .. Len(jobs) - 1 : i + 1 \in DOMAIN jobs
    BY <2>1
  <2> QED
    BY <1>1, <1>5, <2>1, <2>2 DEF CarriedInRange
<1> QED
  BY <1>5, <1>6, <1>8, <1>9, <1>10, LineageGives, WorkerKeeps

LEMMA ReceiptKinds4 == \A a \in ReceiptPoints : Kind[a] \in ReceiptKinds
BY DEF ReceiptPoints, Kind, ReceiptKinds
LEMMA EventKinds11 == \A a \in RowPoints \cup OperationPoints : Kind[a] \in EventKinds
BY DEF RowPoints, OperationPoints, Kind, EventKinds

(* What the frame of a worker may rely on.                                  *)
LEMMA WorkerPart ==
    ASSUME LineageInv, NEW w \in Workers
    PROVE  /\ worker \in [Workers -> WorkerFrames] /\ worker[w] \in WorkerFrames
           /\ LineageTypeOK /\ Len(ledger.log) \in Nat
           /\ Carried(worker[w]) \subseteq 0 .. Len(ledger.log)
           /\ \A n \in 1 .. Len(ledger.log) : ledger.log[n] \in Receipts
           /\ worker[w].at \in ReceiptPoints /\ worker[w].slot # 0 =>
                 worker[w].slot \in 1 .. Len(ledger.log)
           /\ worker[w].at \in RowPoints /\ worker[w].slot # 0 => rows.log[worker[w].slot] \in RowEvents
           /\ worker[w].at \in RowPoints /\ worker[w].slot # 0 => ~rows.log[worker[w].slot].published
           /\ worker[w].at \in OperationPoints /\ worker[w].slot # 0 => ops.log[worker[w].slot] \in OpEvents
<1>1. LineageTypeOK /\ CarriedInRange /\ HoldsApart
  BY LineageGives DEF LineageInv
<1>2. /\ worker \in [Workers -> WorkerFrames] /\ worker[w] \in WorkerFrames
      /\ Len(ledger.log) \in Nat /\ DOMAIN ledger.log = 1 .. Len(ledger.log)
      /\ \A n \in DOMAIN ledger.log : ledger.log[n] \in Receipts
      /\ \A n \in DOMAIN rows.log : rows.log[n] \in RowEvents
      /\ \A n \in DOMAIN ops.log : ops.log[n] \in OpEvents
  BY <1>1 DEF LineageTypeOK
<1>3. ASSUME worker[w].at \in ReceiptPoints, worker[w].slot # 0
      PROVE  worker[w].slot \in DOMAIN ledger.log
  <2>1. <<"worker", w>> \in Holders
    BY DEF Holders
  <2>2. LedgerHold[<<"worker", w>>] = worker[w].slot
    BY <1>3, <2>1 DEF LedgerHold
  <2> QED
    BY <1>1, <1>3, <2>1, <2>2 DEF HoldsApart, HeldApart, Unfinished
<1>4. ASSUME worker[w].at \in RowPoints, worker[w].slot # 0
      PROVE  worker[w].slot \in DOMAIN rows.log /\ ~rows.log[worker[w].slot].published
  <2>1. RowHold[w] = worker[w].slot
    BY <1>4 DEF RowHold
  <2> QED
    BY <1>1, <1>4, <2>1 DEF HoldsApart, HeldApart, Unfinished
<1>5. ASSUME worker[w].at \in OperationPoints, worker[w].slot # 0
      PROVE  worker[w].slot \in DOMAIN ops.log
  <2>1. OpHold[w] = worker[w].slot
    BY <1>5 DEF OpHold
  <2> QED
    BY <1>1, <1>5, <2>1 DEF HoldsApart, HeldApart, Unfinished
<1> QED
  BY <1>1, <1>2, <1>3, <1>4, <1>5 DEF CarriedInRange

LEMMA MintReceiptKeeps == ASSUME LineageInv, NEW w \in Workers, MintReceipt(w) PROVE LineageKept
<1> DEFINE k == worker[w]
           parent == CASE k.at = "borrow" -> k.origin [] k.at = "query" -> k.borrow
                       [] k.at = "producer" -> k.query [] OTHER -> 0
           e == NewReceipt(Kind[k.at], parent, ledger.log[parent].origin)
<1>1. /\ LineageTypeOK /\ Len(ledger.log) \in Nat /\ worker[w] \in WorkerFrames
      /\ Carried(k) \subseteq 0 .. Len(ledger.log)
      /\ \A n \in 1 .. Len(ledger.log) : ledger.log[n] \in Receipts
  BY WorkerPart
<1>2. k.at \in ReceiptPoints /\ k.slot = 0 /\ k.at # "idle"
      /\ UNCHANGED <<contents, rows, ops, scopeLog, jobs, renderer, scoper>>
  BY PointsApart DEF MintReceipt
<1>3. parent \in Carried(k) \cup {0}
  BY DEF Carried
<1>4. CASE parent = 0
  <2>1. Go(w, k) /\ UNCHANGED ledger
    BY <1>4 DEF MintReceipt
  <2> HIDE DEF parent, e
  <2> QED
    BY <1>2, <2>1, GoKeeps
<1>5. CASE parent # 0 /\ ~CanReserve(ledger, LedgerCapacity)
  <2>1. Go(w, k) /\ ledger' = Invalidated(ledger)
    BY <1>5 DEF MintReceipt
  <2> HIDE DEF parent, e
  <2> QED
    BY <1>2, <2>1, GoKeeps
<1>6. CASE parent # 0 /\ CanReserve(ledger, LedgerCapacity)
  <2>1. ledger' = Reserved(ledger, e) /\ Stay(w, [worker[w] EXCEPT !.slot = Len(ledger.log) + 1])
    BY <1>6 DEF MintReceipt
  <2> HIDE DEF parent
  <2>2. parent \in 1 .. Len(ledger.log)
    BY <1>1, <1>3, <1>6
  <2>3. ledger.log[parent].origin \in Nat /\ parent \in Nat
    BY <1>1, <2>2 DEF Receipts
  <2>4. e \in Receipts /\ ~e.published
    BY <1>2, <2>3, ReceiptKinds4 DEF NewReceipt, Receipts, Stamps
  <2> HIDE DEF e
  <2> DEFINE n == Len(ledger.log) + 1
             f == [worker[w] EXCEPT !.slot = n]
  <2>5. f.slot = n /\ n \in Nat
    BY <1>1 DEF WorkerFrames
  <2>6. Stay(w, f)
    BY <2>1
  <2> HIDE DEF n
  <2>7. /\ worker' \in [Workers -> WorkerFrames]
        /\ worker'[w].at = worker[w].at /\ worker'[w] = f
        /\ Carried(worker'[w]) = Carried(worker[w])
        /\ \A v \in Workers \ {w} : worker'[v] = worker[v]
    BY <1>1, <2>5, <2>6, StaysIn
  <2>8. LedgerHold'[<<"worker", w>>] = n
    BY <1>2, <2>5, <2>7, <<"worker", w>> \in Holders DEF LedgerHold, Holders
  <2>9. JournalMoves(ledger, ledger', e, LedgerHold[<<"worker", w>>], LedgerHold'[<<"worker", w>>])
    BY <2>1, <2>4, <2>8 DEF JournalMoves, n
  <2> QED
    BY <1>2, <2>4, <2>7, <2>9, ReceiptWriteKeeps
<1> QED
  BY <1>4, <1>5, <1>6

LEMMA PublishReceiptKeeps ==
    ASSUME LineageInv, NEW w \in Workers, PublishReceipt(w)
    PROVE  LineageKept
<1> DEFINE k == worker[w]
           rev == IF k.at = "producer" THEN contents ELSE 0
           e == [ledger.log[k.slot] EXCEPT !.published = TRUE, !.revision = rev]
           b == IF k.at = "borrow" THEN k.slot ELSE k.borrow
           q == IF k.at = "query" THEN k.slot ELSE k.query
           p == IF k.at = "producer" THEN k.slot ELSE k.producer
           bound == [k EXCEPT !.borrow = b, !.query = q, !.producer = p]
<1>2. k.at \in ReceiptPoints /\ k.slot # 0 /\ k.at # "idle"
      /\ UNCHANGED <<contents, rows, ops, scopeLog, jobs, renderer, scoper>>
  BY PointsApart DEF PublishReceipt
<1>1. /\ LineageTypeOK /\ Len(ledger.log) \in Nat /\ worker[w] \in WorkerFrames
      /\ worker \in [Workers -> WorkerFrames]
      /\ Carried(k) \subseteq 0 .. Len(ledger.log) /\ k.slot \in 1 .. Len(ledger.log)
      /\ ledger.log[k.slot] \in Receipts
  BY <1>2, WorkerPart
<1>3. ledger' = Published(ledger, k.slot, e)
  BY DEF PublishReceipt
<1>4. rev \in Stamps
  BY <1>1 DEF LineageTypeOK, Stamps
<1>5. e \in Receipts
  <2> HIDE DEF rev
  <2> QED
    BY <1>1, <1>4 DEF Receipts
<1>6. bound \in WorkerFrames /\ bound.at = k.at /\ Carried(bound) \subseteq Carried(k) \cup (0 .. Len(ledger.log))
  <2>1. /\ b \in Nat /\ q \in Nat /\ p \in Nat
        /\ {b, q, p} \subseteq Carried(k) \cup (0 .. Len(ledger.log))
    BY <1>1 DEF WorkerFrames, Carried
  <2> HIDE DEF b, q, p
  <2>2. /\ bound \in WorkerFrames /\ bound.at = k.at /\ bound.origin = k.origin
        /\ bound.borrow = b /\ bound.query = q /\ bound.producer = p
    BY <1>1, <2>1 DEF WorkerFrames
  <2> HIDE DEF bound
  <2> QED
    BY <2>1, <2>2 DEF Carried
<1>7. Go(w, bound)
  BY <1>1 DEF PublishReceipt, WorkerFrames
<1> HIDE DEF bound, e
<1>8. /\ worker' \in [Workers -> WorkerFrames] /\ worker'[w].slot = 0
      /\ Carried(worker'[w]) \subseteq Carried(bound) \cup {0}
      /\ \A v \in Workers \ {w} : worker'[v] = worker[v]
  BY <1>1, <1>2, <1>6, <1>7, GoesIn DEF Go
<1>9. Carried(worker'[w]) \subseteq Carried(worker[w]) \cup (0 .. Len(ledger.log))
  BY <1>1, <1>6, <1>8
<1>10. LedgerHold[<<"worker", w>>] = k.slot /\ LedgerHold'[<<"worker", w>>] = 0
  BY <1>2, <1>8, <<"worker", w>> \in Holders DEF LedgerHold, Holders
<1>11. JournalMoves(ledger, ledger', e, LedgerHold[<<"worker", w>>], LedgerHold'[<<"worker", w>>])
  BY <1>2, <1>3, <1>10 DEF JournalMoves
<1> QED
  BY <1>2, <1>5, <1>8, <1>9, <1>11, ReceiptWriteKeeps

LEMMA RowReserveKeeps == ASSUME LineageInv, NEW w \in Workers, RowReserve(w) PROVE LineageKept
<1> DEFINE k == worker[w]
           e == [kind |-> Kind[k.at], producer |-> k.producer,
                 revision |-> ledger.log[k.producer].revision,
                 ordinal |-> k.n, count |-> 0, ok |-> k.ok, published |-> FALSE]
<1>1. /\ LineageTypeOK /\ Len(ledger.log) \in Nat /\ worker[w] \in WorkerFrames
      /\ Carried(k) \subseteq 0 .. Len(ledger.log)
      /\ \A n \in 1 .. Len(ledger.log) : ledger.log[n] \in Receipts
  BY WorkerPart
<1>2. k.at \in RowPoints /\ k.slot = 0 /\ k.at # "idle"
      /\ UNCHANGED <<contents, ledger, ops, scopeLog, jobs, renderer, scoper>>
  BY PointsApart DEF RowReserve
<1>3. CASE RowVerdict(k) # "admit"
  <2>1. rows' \in {rows, Invalidated(rows)} /\ Go(w, k)
    BY <1>3 DEF RowReserve
  <2> QED
    BY <1>2, <2>1, GoKeeps
<1>4. CASE RowVerdict(k) = "admit"
  <2>1. rows' = Reserved(rows, e) /\ Stay(w, [worker[w] EXCEPT !.slot = Len(rows.log) + 1])
    BY <1>4 DEF RowReserve
  <2>2. k.producer # 0
    BY <1>4 DEF RowVerdict
  <2>3. k.producer \in 1 .. Len(ledger.log) /\ ledger.log[k.producer].revision \in Stamps
    BY <1>1, <2>2 DEF Carried, Receipts
  <2>4. e \in RowEvents /\ ~e.published
    <3>1. Kind[k.at] \in EventKinds /\ k.producer \in Nat /\ k.n \in Nat /\ k.ok \in BOOLEAN
      BY <1>1, <1>2, EventKinds11 DEF WorkerFrames
    <3> QED
      BY <2>3, <3>1 DEF RowEvents
  <2> HIDE DEF e
  <2> DEFINE n == Len(rows.log) + 1
             f == [worker[w] EXCEPT !.slot = n]
  <2>5. f.slot = n /\ n \in Nat
    BY <1>1, LineageGives DEF WorkerFrames
  <2>6. Stay(w, f)
    BY <2>1
  <2> HIDE DEF n
  <2>7. /\ worker' \in [Workers -> WorkerFrames]
        /\ worker'[w].at = worker[w].at /\ worker'[w] = f
        /\ Carried(worker'[w]) = Carried(worker[w])
        /\ \A v \in Workers \ {w} : worker'[v] = worker[v]
    BY <1>1, <2>5, <2>6, StaysIn
  <2>8. RowHold'[w] = n
    BY <1>2, <2>5, <2>7 DEF RowHold
  <2>9. JournalMoves(rows, rows', e, RowHold[w], RowHold'[w])
    BY <2>1, <2>4, <2>8 DEF JournalMoves, n
  <2> QED
    BY <1>2, <2>4, <2>7, <2>9, RowWriteKeeps
<1> QED
  BY <1>3, <1>4

LEMMA RowReadKeeps == ASSUME LineageInv, NEW w \in Workers, RowRead(w) PROVE LineageKept
<1> DEFINE k == worker[w]
           e == [rows.log[k.slot] EXCEPT !.count = k.count]
<1>2. k.at \in RowPoints /\ k.slot # 0 /\ k.at # "idle"
      /\ UNCHANGED <<contents, ledger, ops, scopeLog, jobs, renderer, scoper>>
  BY PointsApart DEF RowRead
<1>1. /\ LineageTypeOK /\ Len(ledger.log) \in Nat /\ worker[w] \in WorkerFrames
      /\ Carried(k) \subseteq 0 .. Len(ledger.log)
      /\ rows.log[k.slot] \in RowEvents /\ ~rows.log[k.slot].published
  BY <1>2, WorkerPart
<1>3. CASE Overlapped(k)
  <2>1. rows' = Invalidated(rows) /\ Go(w, k)
    BY <1>3 DEF RowRead, RowFault
  <2> QED
    BY <1>2, <2>1, GoKeeps
<1>4. CASE ~Overlapped(k)
  <2>1. rows' = Published(rows, k.slot, e) /\ Stay(w, [worker[w] EXCEPT !.read = TRUE])
    BY <1>4 DEF RowRead
  <2>2. e \in RowEvents /\ ~e.published
    BY <1>1 DEF RowEvents, WorkerFrames
  <2> HIDE DEF e
  <2> DEFINE f == [worker[w] EXCEPT !.read = TRUE]
  <2>3. f.slot = k.slot
    BY <1>1 DEF WorkerFrames
  <2>4. /\ worker' \in [Workers -> WorkerFrames]
        /\ worker'[w].at = worker[w].at /\ worker'[w] = f
        /\ Carried(worker'[w]) = Carried(worker[w])
        /\ \A v \in Workers \ {w} : worker'[v] = worker[v]
    BY <1>1, <2>1, StaysIn
  <2>5. RowHold[w] = k.slot /\ RowHold'[w] = k.slot
    BY <1>2, <2>3, <2>4 DEF RowHold
  <2>6. JournalMoves(rows, rows', e, RowHold[w], RowHold'[w])
    BY <1>2, <2>1, <2>2, <2>5 DEF JournalMoves
  <2> QED
    BY <1>2, <2>2, <2>4, <2>6, RowWriteKeeps
<1> QED
  BY <1>3, <1>4

LEMMA RowPublishKeeps == ASSUME LineageInv, NEW w \in Workers, RowPublish(w) PROVE LineageKept
<1> DEFINE k == worker[w]
           e == [rows.log[k.slot] EXCEPT !.published = TRUE]
<1>2. k.at \in RowPoints /\ k.slot # 0 /\ k.at # "idle"
      /\ UNCHANGED <<contents, ledger, ops, scopeLog, jobs, renderer, scoper>>
  BY PointsApart DEF RowPublish
<1>1. /\ LineageTypeOK /\ Len(ledger.log) \in Nat /\ worker[w] \in WorkerFrames
      /\ worker \in [Workers -> WorkerFrames]
      /\ Carried(k) \subseteq 0 .. Len(ledger.log) /\ rows.log[k.slot] \in RowEvents
  BY <1>2, WorkerPart
<1> DEFINE bad == ledger.fault \/ rows.fault \/ Overlapped(k)
<1>3. CASE bad
  <2>1. rows' = Invalidated(rows) /\ Go(w, k)
    BY <1>3 DEF RowPublish, RowFault
  <2> QED
    BY <1>2, <2>1, GoKeeps
<1>4. CASE ~bad
  <2>1. rows' = Published(rows, k.slot, e) /\ Go(w, k)
    BY <1>4 DEF RowPublish
  <2>2. e \in RowEvents
    BY <1>1 DEF RowEvents
  <2> HIDE DEF e
  <2>4. /\ worker' \in [Workers -> WorkerFrames] /\ worker'[w].slot = 0
        /\ Carried(worker'[w]) \subseteq Carried(k) \cup {0}
        /\ \A v \in Workers \ {w} : worker'[v] = worker[v]
    BY <1>1, <1>2, <2>1, GoesIn DEF Go
  <2>5. RowHold[w] = k.slot /\ RowHold'[w] = 0
    BY <1>2, <2>4 DEF RowHold
  <2>6. JournalMoves(rows, rows', e, RowHold[w], RowHold'[w])
    BY <1>2, <2>1, <2>5 DEF JournalMoves
  <2>7. Carried(worker'[w]) \subseteq Carried(worker[w]) \cup (0 .. Len(ledger.log))
    BY <1>1, <2>4
  <2> QED
    BY <1>2, <2>2, <2>4, <2>6, <2>7, RowWriteKeeps
<1> QED
  BY <1>3, <1>4

LEMMA OperationReserveKeeps ==
    ASSUME LineageInv, NEW w \in Workers, OperationReserve(w) PROVE LineageKept
<1> DEFINE k == worker[w]
           e == [kind |-> Kind[k.at], borrow |-> k.borrow, ok |-> k.ok,
                 revision |-> contents, published |-> FALSE]
           bad == ledger.fault \/ contents = FAULT \/ ~CanReserve(ops, OperationCapacity)
<1>1. /\ LineageTypeOK /\ Len(ledger.log) \in Nat /\ worker[w] \in WorkerFrames
      /\ Carried(k) \subseteq 0 .. Len(ledger.log)
  BY WorkerPart
<1>2. k.at \in OperationPoints /\ k.slot = 0 /\ k.at # "idle"
      /\ UNCHANGED <<contents, ledger, rows, scopeLog, jobs, renderer, scoper>>
  BY PointsApart DEF OperationReserve
<1>3. CASE k.borrow = 0
  <2>1. ops' = ops /\ Go(w, k)
    BY <1>3 DEF OperationReserve
  <2> QED
    BY <1>2, <2>1, GoKeeps
<1>4. CASE k.borrow # 0 /\ bad
  <2>1. ops' = Invalidated(ops) /\ Go(w, k)
    BY <1>4 DEF OperationReserve
  <2> QED
    BY <1>2, <2>1, GoKeeps
<1>5. CASE k.borrow # 0 /\ ~bad
  <2>1. ops' = Reserved(ops, e) /\ Stay(w, [worker[w] EXCEPT !.slot = Len(ops.log) + 1])
    BY <1>5 DEF OperationReserve
  <2>4. e \in OpEvents /\ ~e.published
    <3>1. Kind[k.at] \in EventKinds /\ k.borrow \in Nat /\ k.ok \in BOOLEAN /\ contents \in Stamps
      BY <1>1, <1>2, EventKinds11 DEF WorkerFrames, LineageTypeOK
    <3> QED
      BY <3>1 DEF OpEvents
  <2> HIDE DEF e
  <2> DEFINE n == Len(ops.log) + 1
             f == [worker[w] EXCEPT !.slot = n]
  <2>5. f.slot = n /\ n \in Nat
    BY <1>1, LineageGives DEF WorkerFrames
  <2>6. Stay(w, f)
    BY <2>1
  <2> HIDE DEF n
  <2>7. /\ worker' \in [Workers -> WorkerFrames]
        /\ worker'[w].at = worker[w].at /\ worker'[w] = f
        /\ Carried(worker'[w]) = Carried(worker[w])
        /\ \A v \in Workers \ {w} : worker'[v] = worker[v]
    BY <1>1, <2>5, <2>6, StaysIn
  <2>8. OpHold'[w] = n
    BY <1>2, <2>5, <2>7 DEF OpHold
  <2>9. JournalMoves(ops, ops', e, OpHold[w], OpHold'[w])
    BY <2>1, <2>4, <2>8 DEF JournalMoves, n
  <2> QED
    BY <1>2, <2>4, <2>7, <2>9, OpWriteKeeps
<1> QED
  BY <1>3, <1>4, <1>5

LEMMA OperationPublishKeeps ==
    ASSUME LineageInv, NEW w \in Workers, OperationPublish(w) PROVE LineageKept
<1> DEFINE k == worker[w]
           e == [ops.log[k.slot] EXCEPT !.published = TRUE]
           bad == ledger.fault \/ ops.fault \/ contents = FAULT
<1>2. k.at \in OperationPoints /\ k.slot # 0 /\ k.at # "idle" /\ Go(w, k)
      /\ UNCHANGED <<contents, ledger, rows, scopeLog, jobs, renderer, scoper>>
  BY PointsApart DEF OperationPublish
<1>1. /\ LineageTypeOK /\ Len(ledger.log) \in Nat /\ worker[w] \in WorkerFrames
      /\ worker \in [Workers -> WorkerFrames]
      /\ Carried(k) \subseteq 0 .. Len(ledger.log) /\ ops.log[k.slot] \in OpEvents
  BY <1>2, WorkerPart
<1>3. CASE bad
  <2>1. ops' = Invalidated(ops)
    BY <1>3 DEF OperationPublish
  <2> QED
    BY <1>2, <2>1, GoKeeps
<1>4. CASE ~bad
  <2>1. ops' = Published(ops, k.slot, e)
    BY <1>4 DEF OperationPublish
  <2>2. e \in OpEvents
    BY <1>1 DEF OpEvents
  <2> HIDE DEF e
  <2>4. /\ worker' \in [Workers -> WorkerFrames] /\ worker'[w].slot = 0
        /\ Carried(worker'[w]) \subseteq Carried(k) \cup {0}
        /\ \A v \in Workers \ {w} : worker'[v] = worker[v]
    BY <1>1, <1>2, GoesIn DEF Go
  <2>5. OpHold[w] = k.slot /\ OpHold'[w] = 0
    BY <1>2, <2>4 DEF OpHold
  <2>6. JournalMoves(ops, ops', e, OpHold[w], OpHold'[w])
    BY <1>2, <2>1, <2>5 DEF JournalMoves
  <2>7. Carried(worker'[w]) \subseteq Carried(worker[w]) \cup (0 .. Len(ledger.log))
    BY <1>1, <2>4
  <2> QED
    BY <1>2, <2>2, <2>4, <2>6, <2>7, OpWriteKeeps
<1> QED
  BY <1>3, <1>4

(* The root receipts of a renderer.                                         *)
LEMMA RendererHolds ==
    ASSUME NEW r \in Renderers, \A q \in Renderers \ {r} : renderer'[q] = renderer[q],
           worker' = worker
    PROVE  /\ LetGoBut(Holders, LedgerHold, LedgerHold', <<"renderer", r>>)
           /\ LetGo(Workers, RowHold, RowHold') /\ LetGo(Workers, OpHold, OpHold')
<1>1. \A o \in Holders \ {<<"renderer", r>>} : LedgerHold'[o] = LedgerHold[o]
  <2> SUFFICES ASSUME NEW o \in Holders \ {<<"renderer", r>>}
               PROVE  LedgerHold'[o] = LedgerHold[o]
    OBVIOUS
  <2>1. CASE o \in {"renderer"} \X Renderers
    <3>1. PICK q \in Renderers \ {r} : o = <<"renderer", q>>
      BY <2>1
    <3> QED
      BY <3>1 DEF LedgerHold
  <2>2. CASE o \in {"worker"} \X Workers
    <3>1. PICK v \in Workers : o = <<"worker", v>>
      BY <2>2
    <3> QED
      BY <3>1 DEF LedgerHold
  <2> QED
    BY <2>1, <2>2 DEF Holders
<1>2. \A v \in Workers : RowHold'[v] = RowHold[v] /\ OpHold'[v] = OpHold[v]
  BY DEF RowHold, OpHold
<1> QED
  BY <1>1, <1>2 DEF LetGoBut, LetGo

LEMMA RootWriteKeeps ==
    ASSUME LineageInv, NEW r \in Renderers, NEW e \in Receipts, NEW f \in RendererFrames,
           UNCHANGED <<contents, rows, ops, scopeLog, jobs, worker, scoper>>,
           JournalMoves(ledger, ledger', e, LedgerHold[<<"renderer", r>>], LedgerHold'[<<"renderer", r>>]),
           renderer' = [renderer EXCEPT ![r] = f],
           f.ticket \in {renderer[r].ticket} \cup (0 .. Len(ledger'.log))
    PROVE  LineageKept
<1>1. LineageTypeOK /\ CarriedInRange /\ ScopesInRange /\ Len(ledger.log) \in Nat
  BY LineageGives DEF LineageInv
<1>2. /\ renderer' \in [Renderers -> RendererFrames] /\ renderer'[r] = f
      /\ \A q \in Renderers \ {r} : renderer'[q] = renderer[q]
  BY <1>1 DEF LineageTypeOK
<1>3. /\ JournalsFinal /\ HoldsApart'
      /\ ledger' \in [log : Seq(Receipts), fault : BOOLEAN]
  BY <1>2, RendererHolds, LedgerMoves, <<"renderer", r>> \in Holders DEF Holders
<1>4. LineageTypeOK'
  BY <1>1, <1>2, <1>3 DEF LineageTypeOK
<1>5. Len(ledger'.log) \in Nat /\ Len(ledger'.log) >= Len(ledger.log)
  BY <1>3 DEF JournalsFinal, Extends
<1>6. CarriedInRange'
  <2>1. \A w \in Workers : Carried(worker'[w])
                \subseteq Carried(worker[w]) \cup (0 .. Len(ledger'.log))
    OBVIOUS
  <2>2. \A q \in Renderers : renderer'[q].ticket
                \in {renderer[q].ticket} \cup (0 .. Len(ledger'.log))
    BY <1>2
  <2>3. \A i \in DOMAIN jobs' : jobs'[i].origin \in 0 .. Len(ledger'.log)
    <3>1. 0 .. Len(ledger.log) \subseteq 0 .. Len(ledger'.log)
      BY <1>1, <1>5
    <3> QED
      BY <1>1, <3>1 DEF CarriedInRange
  <2> QED
    BY <1>5, <2>1, <2>2, <2>3, RangeKept
<1>7. ScopesInRange' /\ FaultsFinal
  BY <1>1 DEF ScopesInRange, FaultsFinal
<1> QED
  BY <1>3, <1>4, <1>6, <1>7, KeptWhole

LEMMA MintRootKeeps == ASSUME LineageInv, NEW r \in Renderers, MintRoot(r) PROVE LineageKept
<1>1. /\ LineageTypeOK /\ CarriedInRange /\ renderer[r] \in RendererFrames
      /\ ledger \in [log : Seq(Receipts), fault : BOOLEAN] /\ Len(ledger.log) \in Nat
  BY LineageGives DEF LineageInv
<1> DEFINE initial == renderer[r].at = "idle"
           n == Len(ledger.log) + 1
           e == NewReceipt(IF initial THEN "INITIAL" ELSE "RENDER", 0, n)
           next == IF initial THEN "initial" ELSE "minted"
           gone == IF initial THEN "idle" ELSE "queueing"
           f == [renderer[r] EXCEPT !.at = next, !.ticket = n]
           g == [renderer[r] EXCEPT !.at = gone, !.ticket = 0]
<1>2. UNCHANGED <<contents, rows, ops, scopeLog, jobs, worker, scoper>>
  BY DEF MintRoot
<1>3. CASE CanReserve(ledger, LedgerCapacity)
  <2>1. ledger' = Reserved(ledger, e) /\ renderer' = [renderer EXCEPT ![r].at = next, ![r].ticket = n]
    BY <1>3 DEF MintRoot
  <2>2. e \in Receipts /\ ~e.published
    <3>1. (IF initial THEN "INITIAL" ELSE "RENDER") \in ReceiptKinds
      BY DEF ReceiptKinds
    <3> QED
      BY <1>1, <3>1 DEF NewReceipt, Receipts, Stamps
  <2>3. next \in {"initial", "minted"} /\ n \in Nat
    BY <1>1
  <2>4. renderer' = [renderer EXCEPT ![r] = f]
    BY <1>1, <2>1 DEF LineageTypeOK
  <2> HIDE DEF e, next, n
  <2>5. f \in RendererFrames /\ f.at = next /\ f.ticket = n
    BY <1>1, <2>3 DEF RendererFrames, RendererPlaces
  <2> HIDE DEF f
  <2>6. LedgerHold'[<<"renderer", r>>] = n
    <3>1. renderer'[r] = f
      BY <1>1, <2>4 DEF LineageTypeOK
    <3> QED
      BY <2>3, <2>5, <3>1, <<"renderer", r>> \in Holders DEF LedgerHold, Holders
  <2>7. JournalMoves(ledger, ledger', e, LedgerHold[<<"renderer", r>>], LedgerHold'[<<"renderer", r>>])
    BY <2>1, <2>2, <2>6 DEF JournalMoves, n
  <2>8. Len(ledger'.log) = n
    BY <1>1, <2>1 DEF Reserved, n
  <2>9. f.ticket \in {renderer[r].ticket} \cup (0 .. Len(ledger'.log))
    BY <2>3, <2>5, <2>8
  <2> QED
    BY <1>2, <2>2, <2>4, <2>5, <2>7, <2>9, RootWriteKeeps
<1>4. CASE ~CanReserve(ledger, LedgerCapacity)
  <2>1. ledger' = Invalidated(ledger) /\ renderer' = [renderer EXCEPT ![r].at = gone, ![r].ticket = 0]
    BY <1>4 DEF MintRoot
  <2>2. renderer' = [renderer EXCEPT ![r] = g]
    BY <1>1, <2>1 DEF LineageTypeOK
  <2>3. gone \in {"idle", "queueing"}
    OBVIOUS
  <2> HIDE DEF gone
  <2>4. g \in RendererFrames /\ g.at = gone /\ g.ticket = 0
    BY <1>1, <2>3 DEF RendererFrames, RendererPlaces
  <2> HIDE DEF g
  <2>5. /\ ledger' \in [log : Seq(Receipts), fault : BOOLEAN]
        /\ ledger'.log = ledger.log /\ (ledger.fault => ledger'.fault)
    BY <1>1, <2>1, FaultedAtMost
  <2> QED
    BY <1>2, <2>2, <2>3, <2>4, <2>5, JobsStand, RendererQuiet
<1> QED
  BY <1>3, <1>4

LEMMA PublishRootKeeps == ASSUME LineageInv, NEW r \in Renderers, PublishRoot(r) PROVE LineageKept
<1>1. /\ LineageTypeOK /\ HoldsApart /\ renderer[r] \in RendererFrames
      /\ ledger \in [log : Seq(Receipts), fault : BOOLEAN] /\ Len(ledger.log) \in Nat
  BY LineageGives DEF LineageInv
<1> DEFINE t == renderer[r].ticket
           e == [ledger.log[t] EXCEPT !.published = TRUE, !.entry = renderer[r].entry]
           f == [renderer[r] EXCEPT !.at = "queueing"]
<1>2. /\ UNCHANGED <<contents, rows, ops, scopeLog, jobs, worker, scoper>>
      /\ renderer[r].at \in {"initial", "minted"}
      /\ ledger' = Published(ledger, t, e) /\ renderer' = [renderer EXCEPT ![r].at = "queueing"]
  BY DEF PublishRoot
<1>3. <<"renderer", r>> \in Holders
  BY DEF Holders
<1>4. LedgerHold[<<"renderer", r>>] = t
  BY <1>2, <1>3 DEF LedgerHold
<1>5. renderer' = [renderer EXCEPT ![r] = f]
  BY <1>1, <1>2 DEF LineageTypeOK
<1>6. f \in RendererFrames /\ f.at = "queueing" /\ f.ticket = t
  BY <1>1 DEF RendererFrames, RendererPlaces
<1> HIDE DEF f
<1>7. LedgerHold'[<<"renderer", r>>] = 0
  <2>1. renderer'[r] = f
    BY <1>1, <1>5 DEF LineageTypeOK
  <2> QED
    BY <1>3, <1>6, <2>1 DEF LedgerHold
<1> HIDE DEF e
<1>8. CASE t = 0
  <2>1. ledger' = ledger
    BY <1>1, <1>2, <1>8 DEF Published
  <2>2. /\ f.at \notin {"initial", "minted"} /\ f.ticket \in {0, renderer[r].ticket}
        /\ ledger' \in [log : Seq(Receipts), fault : BOOLEAN]
        /\ ledger'.log = ledger.log /\ (ledger.fault => ledger'.fault)
    BY <1>1, <1>6, <2>1
  <2>3. jobs' \in Seq(Jobs) /\ \A i \in DOMAIN jobs' : jobs'[i].origin \in 0 .. Len(ledger.log)
    BY <1>2, JobsStand
  <2> QED
    BY <1>2, <1>5, <1>6, <2>2, <2>3, RendererQuiet
<1>9. CASE t # 0
  <2>1. t \in DOMAIN ledger.log
    BY <1>1, <1>3, <1>4, <1>9 DEF HoldsApart, HeldApart, Unfinished
  <2>2. e \in Receipts
    <3>1. ledger.log[t] \in Receipts /\ renderer[r].entry \in Nat
      BY <1>1, <2>1 DEF RendererFrames
    <3> QED
      BY <3>1 DEF e, Receipts
  <2>3. JournalMoves(ledger, ledger', e, LedgerHold[<<"renderer", r>>], LedgerHold'[<<"renderer", r>>])
    BY <1>2, <1>4, <1>7, <1>9 DEF JournalMoves
  <2> QED
    BY <1>2, <1>5, <1>6, <2>2, <2>3, RootWriteKeeps
<1> QED
  BY <1>8, <1>9

-----------------------------------------------------------------------------
(* The theorems. *)

LEMMA LineageStarts == ASSUME LineageInit PROVE LineageInv
<1>1. /\ IdleRenderer \in RendererFrames /\ IdleRenderer.ticket = 0 /\ IdleRenderer.at = "idle"
      /\ IdleWorker \in WorkerFrames /\ IdleWorker.at = "idle" /\ Carried(IdleWorker) = {0}
      /\ IdleScoper \in ScoperFrames /\ IdleScoper.ticket = 0 /\ IdleScoper.at = "idle"
  BY DEF IdleRenderer, RendererFrames, RendererPlaces, IdleWorker, WorkerFrames, WorkerPlaces,
         Carried, IdleScoper, ScoperFrames, ScoperPlaces
<1>2. /\ \A r \in Renderers : renderer[r] = IdleRenderer
      /\ \A w \in Workers : worker[w] = IdleWorker
      /\ \A s \in Scopers : scoper[s] = IdleScoper
      /\ ledger = EmptyJournal /\ rows = EmptyJournal /\ ops = EmptyJournal
      /\ scopeLog = EmptyJournal /\ jobs = <<>> /\ contents = 0
  BY DEF LineageInit
<1>3. /\ renderer \in [Renderers -> RendererFrames] /\ worker \in [Workers -> WorkerFrames]
      /\ scoper \in [Scopers -> ScoperFrames]
  BY <1>1 DEF LineageInit
<1>4. ASSUME NEW S PROVE EmptyJournal \in [log : Seq(S), fault : BOOLEAN]
  BY DEF EmptyJournal
<1>5. LineageTypeOK
  BY <1>2, <1>3, <1>4 DEF LineageTypeOK, Stamps
<1>6. Len(ledger.log) = 0 /\ Len(scopeLog.log) = 0 /\ DOMAIN jobs = {}
  BY <1>2 DEF EmptyJournal
<1>7. CarriedInRange /\ ScopesInRange
  BY <1>1, <1>2, <1>6 DEF CarriedInRange, ScopesInRange
<1>8. \A o \in Holders : LedgerHold[o] = 0
  <2> SUFFICES ASSUME NEW o \in Holders PROVE LedgerHold[o] = 0
    OBVIOUS
  <2>1. CASE o \in {"renderer"} \X Renderers
    <3>1. PICK r \in Renderers : o = <<"renderer", r>>
      BY <2>1
    <3> QED
      BY <3>1, <1>1, <1>2 DEF LedgerHold
  <2>2. CASE o \in {"worker"} \X Workers
    <3>1. PICK v \in Workers : o = <<"worker", v>>
      BY <2>2
    <3> QED
      BY <3>1, <1>1, <1>2 DEF LedgerHold, ReceiptPoints
  <2> QED
    BY <2>1, <2>2 DEF Holders
<1>9. \A w \in Workers : RowHold[w] = 0 /\ OpHold[w] = 0
  BY <1>1, <1>2 DEF RowHold, OpHold, RowPoints, OperationPoints
<1> QED
  BY <1>5, <1>7, <1>8, <1>9 DEF LineageInv, HeldApart

LEMMA LineageSteps == ASSUME LineageInv, LineageNext PROVE LineageKept
<1>1. ASSUME NEW r \in Renderers, RendererStep(r) PROVE LineageKept
  BY <1>1, EnterKeeps, MintRootKeeps, CheckScopeKeeps, PublishRootKeeps, EnqueueKeeps, LeaveKeeps
     DEF RendererStep
<1>2. ASSUME NEW w \in Workers, WorkerStep(w) PROVE LineageKept
  BY <1>2, BorrowKeeps, MintReceiptKeeps, PublishReceiptKeeps, CrossBoundaryKeeps,
     RowReserveKeeps, RowReadKeeps, RowPublishKeeps, OperationReserveKeeps, OperationPublishKeeps
     DEF WorkerStep
<1>3. ASSUME NEW s \in Scopers, ScopeReserve(s) \/ ScoperStep(s) PROVE LineageKept
  BY <1>3, ScopeReserveKeeps, ScopePublishKeeps, ScopeBumpKeeps, MutateKeeps, ScopeClaimKeeps,
     ScopeCloseKeeps, ScopeReleaseKeeps DEF ScoperStep
<1> QED
  BY <1>1, <1>2, <1>3, OtherBoundaryKeeps, ExhaustKeeps DEF LineageNext

LEMMA LineageStutters == ASSUME LineageInv, UNCHANGED lineageVars PROVE LineageKept
<1>1. UNCHANGED <<contents, ledger, rows, ops, scopeLog, jobs, renderer, worker, scoper>>
  BY DEF lineageVars
<1>2. (\A v \in Workers : WorkerLets(v)) /\ (\A q \in Renderers : RendererLets(q))
  BY <1>1 DEF WorkerLets, RendererLets
<1>3. JournalsFinal /\ HoldsApart'
  BY <1>1, <1>2, JournalsStay
<1>4. LineageTypeOK' /\ CarriedInRange' /\ ScopesInRange' /\ FaultsFinal
  BY <1>1 DEF LineageInv, LineageTypeOK, CarriedInRange, ScopesInRange, FaultsFinal, Carried
<1> QED
  BY <1>3, <1>4, KeptWhole

LEMMA LineageBox == ASSUME LineageInv, [LineageNext]_lineageVars PROVE LineageKept
BY LineageSteps, LineageStutters

(* The journals of the lineage, their holders and the frames stay sound.    *)
THEOREM LineageInvariant == LineageSpec => []LineageInv
<1>1. LineageInit => LineageInv
  BY LineageStarts
<1>2. LineageInv /\ [LineageNext]_lineageVars => LineageInv'
  BY LineageBox DEF LineageKept
<1> QED
  BY <1>1, <1>2, PTL DEF LineageSpec

(* HistoryIsFinal: no store of a hook of the native-scope stage takes back  *)
(* a fault or a published record, however many threads meet the hooks.      *)
THEOREM LineageHistoryIsFinal == LineageSpec => HistoryIsFinal
<1> DEFINE Final == /\ Extends(ledger, ledger') /\ Extends(rows, rows') /\ Extends(ops, ops')
                    /\ scopeLog.fault => scopeLog'.fault
                    /\ contents = FAULT => contents' = FAULT
<1>1. LineageInv /\ [LineageNext]_lineageVars => [Final]_lineageVars
  BY LineageBox DEF LineageKept, JournalsFinal, FaultsFinal
<1>2. HistoryIsFinal <=> [][Final]_lineageVars
  BY DEF HistoryIsFinal
<1> HIDE DEF Final
<1> QED
  BY <1>1, <1>2, LineageInvariant, PTL DEF LineageSpec

-----------------------------------------------------------------------------
(* The count of scopes. *)

OpenScopes == {s \in Scopers : scoper[s].at # "idle"}
CountInv == ~scopeLog.fault => IsFiniteSet(OpenScopes) /\ active = Cardinality(OpenScopes)

(* A step of a scope that neither begins nor ends it.                       *)
LEMMA SameScopes ==
    ASSUME CountInv, active' = active, \A s \in Scopers : scoper'[s].at = "idle" <=> scoper[s].at = "idle",
           scopeLog.fault => scopeLog'.fault
    PROVE  CountInv'
<1>1. OpenScopes' = OpenScopes
  BY DEF OpenScopes
<1> QED
  BY <1>1 DEF CountInv

LEMMA ScopesCounted ==
    ASSUME LineageInv, CountInv, LineageNext, scopeLog.fault => scopeLog'.fault
    PROVE  CountInv'
<1>0. scoper \in [Scopers -> ScoperFrames]
  BY DEF LineageInv, LineageTypeOK
<1>1. CASE UNCHANGED <<scoper, active>>
  BY <1>1, SameScopes
<1>2. ASSUME NEW s \in Scopers, ScopeReserve(s), ~scopeLog'.fault
      PROVE  CountInv'
  <2>1. CanReserve(scopeLog, ScopeCapacity)
    BY <1>2 DEF ScopeReserve, LineageInv, LineageTypeOK, Invalidated
  <2>2. active' = active + 1 /\ scoper[s].at = "idle"
        /\ scoper' = [scoper EXCEPT ![s] = [at |-> "reserved", ticket |-> Len(scopeLog.log) + 1]]
    BY <1>2, <2>1 DEF ScopeReserve
  <2>3. OpenScopes' = OpenScopes \cup {s} /\ s \notin OpenScopes
    BY <1>0, <2>2 DEF OpenScopes
  <2>4. IsFiniteSet(OpenScopes) /\ active = Cardinality(OpenScopes)
    BY <1>2 DEF CountInv
  <2> QED
    BY <2>2, <2>3, <2>4, FS_AddElement DEF CountInv
<1>3. ASSUME NEW s \in Scopers, ScopeRelease(s), ~scopeLog'.fault
      PROVE  CountInv'
  <2>1. ~scopeLog.fault
    BY <1>3
  <2>2. active' = active - 1 /\ scoper[s].at = "closed" /\ scoper' = [scoper EXCEPT ![s] = IdleScoper]
    BY <1>3, <2>1 DEF ScopeRelease
  <2>3. OpenScopes' = OpenScopes \ {s} /\ s \in OpenScopes
    BY <1>0, <2>2 DEF OpenScopes, IdleScoper
  <2>4. IsFiniteSet(OpenScopes) /\ active = Cardinality(OpenScopes)
    BY <2>1 DEF CountInv
  <2> QED
    BY <2>2, <2>3, <2>4, FS_RemoveElement DEF CountInv
<1>4. ASSUME NEW s \in Scopers, ScopeClaim(s), ~scopeLog'.fault
      PROVE  CountInv'
  <2>1. ~(scoper[s].ticket = 0 \/ scopeLog.fault)
    BY <1>4 DEF ScopeClaim, LineageInv, LineageTypeOK, Invalidated
  <2>2. active' = active /\ scoper[s].at = "ending" /\ scoper' = [scoper EXCEPT ![s].at = "closing"]
    BY <1>4, <2>1 DEF ScopeClaim
  <2>3. \A u \in Scopers : scoper'[u].at = "idle" <=> scoper[u].at = "idle"
    BY <1>0, <2>2 DEF ScoperFrames
  <2> QED
    BY <2>2, <2>3, SameScopes
<1>5. ASSUME NEW s \in Scopers, ScopePublish(s) \/ ScopeBump(s) \/ Mutate(s) \/ ScopeClose(s)
      PROVE  CountInv'
  <2>1. active' = active /\ \A u \in Scopers : scoper'[u].at = "idle" <=> scoper[u].at = "idle"
    BY <1>0, <1>5 DEF ScopePublish, ScopeBump, Mutate, ScopeClose, ScoperFrames
  <2> QED
    BY <2>1, SameScopes
<1>6. ASSUME NEW r \in Renderers, RendererStep(r) PROVE UNCHANGED <<scoper, active>>
  BY <1>6 DEF RendererStep, Enter, MintRoot, CheckScope, PublishRoot, Enqueue, LeaveRenderer
<1>7. ASSUME NEW w \in Workers, WorkerStep(w) PROVE UNCHANGED <<scoper, active>>
  BY <1>7 DEF WorkerStep, Borrow, MintReceipt, PublishReceipt, CrossBoundary, RowReserve, RowRead,
              RowPublish, OperationReserve, OperationPublish
<1>8. CASE scopeLog'.fault
  BY <1>8 DEF CountInv
<1> QED
  BY <1>1, <1>2, <1>3, <1>4, <1>5, <1>6, <1>7, <1>8 DEF LineageNext, ScoperStep, OtherBoundary, ExhaustLoop

LEMMA CountStarts == ASSUME LineageInit PROVE CountInv
<1>1. OpenScopes = {} /\ active = 0
  BY DEF LineageInit, OpenScopes, IdleScoper
<1> QED
  BY <1>1, FS_EmptySet DEF CountInv

LEMMA CountBox == ASSUME LineageInv, CountInv, [LineageNext]_lineageVars PROVE CountInv'
<1>1. scopeLog.fault => scopeLog'.fault
  BY LineageBox DEF LineageKept, FaultsFinal
<1>2. CASE LineageNext
  BY <1>1, <1>2, ScopesCounted
<1>3. CASE UNCHANGED lineageVars
  BY <1>1, <1>3, SameScopes DEF lineageVars
<1> QED
  BY <1>2, <1>3

(* ActiveCountsScopes: as long as the word of the scopes stands, it counts  *)
(* exactly the routines that have begun and not ended.                      *)
THEOREM ScopesAreCounted == LineageSpec => []ActiveCountsScopes
<1>1. LineageInit => CountInv
  BY CountStarts
<1>2. LineageInv /\ CountInv /\ [LineageNext]_lineageVars => CountInv'
  BY CountBox
<1>3. CountInv => ActiveCountsScopes
  BY DEF CountInv, ActiveCountsScopes, OpenScopes
<1> QED
  BY <1>1, <1>2, <1>3, LineageInvariant, PTL DEF LineageSpec

-----------------------------------------------------------------------------
(* Places of a journal. *)

(* Among places of a journal there is one of each rank: the first position  *)
(* up to which there are n of them is itself a place.                       *)
LEMMA PlaceOfRank ==
    ASSUME NEW N \in Nat, NEW places, places \subseteq 1 .. N,
           NEW n \in 1 .. Cardinality(places)
    PROVE  \E i \in places : Cardinality(places \cap 1 .. i) = n
<1> DEFINE Rank(m) == Cardinality(places \cap 1 .. m)
           Reach == {m \in 0 .. N : Rank(m) >= n}
<1>1. /\ IsFiniteSet(places) /\ places \cap 1 .. N = places
      /\ \A m \in 0 .. N : IsFiniteSet(places \cap 1 .. m)
  <2>1. IsFiniteSet(1 .. N)
    BY FS_Interval
  <2>2. places \in SUBSET (1 .. N) /\ \A m \in 0 .. N : places \cap 1 .. m \in SUBSET (1 .. N)
    OBVIOUS
  <2> QED
    BY <2>1, <2>2, FS_Subset
<1>2. \A m \in 0 .. N : Rank(m) \in Nat
  BY <1>1, FS_CardinalityType
<1>3. N \in Reach /\ Reach \subseteq Nat
  BY <1>1, <1>2
<1>4. PICK m \in Reach : \A k \in Reach : m <= k
  <2>1. IsWellFoundedOn(OpToRel(<, Nat), Nat)
    BY NatLessThanWellFounded
  <2>2. \E x \in Reach : \A y \in Reach : ~ (<<y, x>> \in OpToRel(<, Nat))
    <3> HIDE DEF Reach
    <3> QED
      BY <1>3, <2>1, WFMin
  <2>3. ASSUME NEW x \in Nat, NEW y \in Nat, ~ (<<y, x>> \in OpToRel(<, Nat)) PROVE x <= y
    BY <2>3 DEF OpToRel
  <2> HIDE DEF Reach
  <2> QED
    BY <1>3, <2>2, <2>3
<1>5. m # 0
  <2>1. places \cap 1 .. 0 = {}
    OBVIOUS
  <2>2. Rank(0) = 0
    BY <2>1, FS_EmptySet
  <2> QED
    BY <2>2
<1>6. m - 1 \in 0 .. N /\ m \in 1 .. N
  BY <1>5
<1>7. Rank(m - 1) < n
  <2>1. m - 1 \notin Reach
    BY <1>4, <1>6
  <2> QED
    BY <1>2, <1>6, <2>1
<1>8. m \in places
  <2> SUFFICES ASSUME m \notin places PROVE FALSE
    OBVIOUS
  <2>1. places \cap 1 .. m = places \cap 1 .. m - 1
    BY <1>6
  <2> QED
    BY <1>7, <2>1, <1>2, <1>6
<1>9. Rank(m) = Rank(m - 1) + 1
  <2> DEFINE below == places \cap 1 .. m - 1
  <2>1. places \cap 1 .. m = below \cup {m} /\ m \notin below
    BY <1>6, <1>8
  <2>2. IsFiniteSet(below)
    BY <1>1, <1>6
  <2>3. Cardinality(below \cup {m}) = Cardinality(below) + 1
    <3> HIDE DEF below
    <3> QED
      BY <2>1, <2>2, FS_AddElement
  <2> QED
    BY <2>1, <2>3
<1>10. Rank(m) = n
  BY <1>2, <1>4, <1>6, <1>7, <1>9
<1> QED
  BY <1>8, <1>10

(* What is picked in order stands at the given places.                      *)
LEMMA PickedInOrder ==
    ASSUME NEW S, NEW log \in Seq(S), NEW places, places \subseteq DOMAIN log,
           NEW n \in DOMAIN InOrder(log, places)
    PROVE  \E i \in places : InOrder(log, places)[n] = log[i]
<1>1. n \in 1 .. Cardinality(places)
  BY DEF InOrder
<1>2. places \subseteq 1 .. Len(log) /\ Len(log) \in Nat
  OBVIOUS
<1>3. \E i \in places : Cardinality(places \cap 1 .. i) = n
  BY <1>1, <1>2, PlaceOfRank
<1>4. (CHOOSE i \in places : Cardinality(places \cap 1 .. i) = n) \in places
  BY <1>3
<1>5. InOrder(log, places)[n] = log[CHOOSE i \in places : Cardinality(places \cap 1 .. i) = n]
  BY <1>1 DEF InOrder
<1> QED
  BY <1>4, <1>5

-----------------------------------------------------------------------------
(* What a borrow that was disturbed has recorded. *)

Bit(b) == IF b THEN 1 ELSE 0

\* Root t of ledger L is published.
Root(L, t) == t \in DOMAIN L /\ L[t].published /\ L[t].origin = t

\* Contents c are at least n steps past the entry of root t.
Past(L, c, t, n) == L[t].entry # 0 /\ c # FAULT => c >= L[t].entry + n

\* A published borrow, of a root that was published before.
Rooted(L, b) == b \in DOMAIN L /\ L[b].published /\ Root(L, L[b].origin)

EventOf(E, b, kind) == \E i \in DOMAIN E : E[i].borrow = b /\ E[i].kind = kind

\* The bumps of its own that worker frame k has certainly made by then.
Own(E, k) ==
    IF k.at \in {"bind_begin", "bind"} THEN 2
    ELSE IF k.at \in {"bind_return", "normal_end"}
         THEN IF k.borrow # 0 /\ EventOf(E, k.borrow, "BIND_BEGIN") THEN 3 ELSE 0
    ELSE IF k.at \in {"idle", "borrow", "fill_begin", "worker_entry"} THEN 0
    ELSE 1

\* A frame or job that was touched knows of a root whose entry is passed.
RendererTells(L, c, inside, k) ==
    /\ k.at = "idle" => k.entry = 0
    /\ k.at \in {"initial", "minted"} => k.ticket \in DOMAIN L /\ L[k.ticket].origin = k.ticket
    /\ k.at = "queueing" /\ k.ticket # 0 => Root(L, k.ticket) /\ L[k.ticket].entry = k.entry
    /\ k.entry # 0 /\ c # FAULT =>
          /\ c >= k.entry
          /\ k.touched => c > k.entry \/ (k.at = "entered" /\ inside)

JobTells(L, c, j) ==
    j.origin # 0 => Root(L, j.origin) /\ Past(L, c, j.origin, Bit(j.touched))

WorkerTells(L, c, E, k) ==
    /\ k.at = "idle" => k.borrow = 0
    /\ k.origin # 0 => Root(L, k.origin) /\ Past(L, c, k.origin, Own(E, k) + Bit(k.touched))
    /\ k.borrow # 0 =>
          /\ k.origin # 0 /\ Rooted(L, k.borrow) /\ L[k.borrow].origin = k.origin
          /\ EventOf(E, k.borrow, "BIND_BEGIN") =>
                \/ k.at = "bind_begin" /\ k.slot # 0
                \/ k.at \in {"bind", "bind_return", "normal_end"}
          /\ EventOf(E, k.borrow, "NORMAL_END") => k.at = "normal_end" /\ k.slot # 0
    /\ k.at = "borrow" /\ k.slot # 0 =>
          k.origin # 0 /\ k.slot \in DOMAIN L /\ L[k.slot].origin = k.origin

\* The end of borrow b was recorded later than three steps past its entry.
Late(L, E, b) ==
    \A i \in DOMAIN E :
        /\ E[i].borrow = b /\ E[i].kind = "NORMAL_END" /\ EventOf(E, b, "BIND_BEGIN")
        /\ L[L[b].origin].entry # 0
        => E[i].revision > L[L[b].origin].entry + 3

Over(k) == k.at = "normal_end" /\ k.slot # 0

RenderersTell == \A r \in Renderers :
    RendererTells(ledger.log, contents, \E s \in Scopers : InsideScope(s), renderer[r])
JobsTell == \A i \in DOMAIN jobs : JobTells(ledger.log, contents, jobs[i])
WorkersTell == \A w \in Workers : WorkerTells(ledger.log, contents, ops.log, worker[w])
BorrowsApart ==
    \A v, w \in Workers : worker[v].borrow = worker[w].borrow => v = w \/ worker[v].borrow = 0
EventsNamed == \A i \in DOMAIN ops.log : Rooted(ledger.log, ops.log[i].borrow)
DisturbedHold ==
    \A b \in disturbed \ {0} :
        /\ Rooted(ledger.log, b)
        /\ \A w \in Workers : worker[w].borrow = b => Over(worker[w])
        /\ Late(ledger.log, ops.log, b)

MotionInv == RenderersTell /\ JobsTell /\ WorkersTell /\ BorrowsApart /\ EventsNamed /\ DisturbedHold

-----------------------------------------------------------------------------
(* What a step keeps. *)

\* Receipts stay where they are, under the root they have.
LogKept(L, M) ==
    \A i \in DOMAIN L :
        /\ i \in DOMAIN M /\ M[i].origin = L[i].origin
        /\ L[i].published => M[i].published /\ M[i] = L[i]

\* Events stay what they are.
SameEvents(E, F) ==
    /\ DOMAIN F = DOMAIN E
    /\ \A i \in DOMAIN E : F[i].borrow = E[i].borrow /\ F[i].kind = E[i].kind
                           /\ F[i].revision = E[i].revision

\* The clock goes from c to d, by n at least.
Ticks(c, d, n) == d = FAULT \/ (c # FAULT /\ d >= c + n)

LEMMA RootKept ==
    ASSUME NEW L, NEW M, LogKept(L, M), NEW t, Root(L, t)
    PROVE  Root(M, t) /\ M[t] = L[t]
BY DEF Root, LogKept

LEMMA RootedKept ==
    ASSUME NEW L, NEW M, LogKept(L, M), NEW b, Rooted(L, b)
    PROVE  Rooted(M, b) /\ M[b] = L[b] /\ M[M[b].origin] = L[L[b].origin]
BY RootKept DEF Rooted, LogKept

LEMMA PastKept ==
    ASSUME NEW L, NEW M, LogKept(L, M), NEW t, Root(L, t), L[t].entry \in Nat,
           NEW c \in Stamps, NEW d \in Stamps, NEW m \in Nat, NEW n \in Nat, NEW x \in Nat,
           Past(L, c, t, n), Ticks(c, d, x), m <= n + x
    PROVE  Past(M, d, t, m)
<1>1. M[t] = L[t]
  BY RootKept
<1> QED
  BY <1>1 DEF Past, Ticks, Stamps, FAULT

LEMMA EventsKept ==
    ASSUME NEW E, NEW F, SameEvents(E, F), NEW b, NEW kind
    PROVE  EventOf(F, b, kind) <=> EventOf(E, b, kind)
BY DEF EventOf, SameEvents

LEMMA OwnSmall == ASSUME NEW E, NEW k PROVE Own(E, k) \in 0 .. 3
BY DEF Own

LEMMA LateKept ==
    ASSUME NEW L, NEW M, LogKept(L, M), NEW E, NEW F, SameEvents(E, F), NEW b, Rooted(L, b), Late(L, E, b)
    PROVE  Late(M, F, b)
<1>1. M[M[b].origin] = L[L[b].origin]
  BY RootedKept
<1>2. \A kind : EventOf(F, b, kind) <=> EventOf(E, b, kind)
  BY EventsKept
<1> QED
  BY <1>1, <1>2 DEF Late, SameEvents

-----------------------------------------------------------------------------
(* Bystanders. *)

\* A frame of a worker that does not move; contents may, and then it is touched.
StaysPut(k, m, c, d) ==
    /\ m.at = k.at /\ m.origin = k.origin /\ m.borrow = k.borrow /\ m.slot = k.slot
    /\ \/ m.touched = k.touched /\ Ticks(c, d, 0)
       \/ Ticks(c, d, 1)

LEMMA RootEntry ==
    ASSUME NEW L \in Seq(Receipts), NEW t, Root(L, t)
    PROVE  L[t].entry \in Nat
<1>1. \A i \in DOMAIN L : L[i] \in Receipts
  OBVIOUS
<1> QED
  BY <1>1 DEF Root, Receipts

LEMMA BitValue == ASSUME NEW b PROVE Bit(b) \in {0, 1} /\ (b => Bit(b) = 1) /\ (~b => Bit(b) = 0)
BY DEF Bit

LEMMA WorkerStands ==
    ASSUME NEW L \in Seq(Receipts), NEW M, LogKept(L, M), NEW E, NEW F,
           NEW c \in Stamps, NEW d \in Stamps, NEW k, NEW m, StaysPut(k, m, c, d),
           k.borrow # 0 => \A kind \in {"BIND_BEGIN", "NORMAL_END"} :
                              EventOf(F, k.borrow, kind) <=> EventOf(E, k.borrow, kind),
           WorkerTells(L, c, E, k)
    PROVE  WorkerTells(M, d, F, m)
<1>1. Own(F, m) = Own(E, k)
  BY DEF Own, StaysPut
<1>2. m.origin # 0 => Root(M, m.origin) /\ Past(M, d, m.origin, Own(F, m) + Bit(m.touched))
  <2> SUFFICES ASSUME k.origin # 0
               PROVE  Root(M, k.origin) /\ Past(M, d, k.origin, Own(E, k) + Bit(m.touched))
    BY <1>1 DEF StaysPut
  <2>1. Root(L, k.origin) /\ Past(L, c, k.origin, Own(E, k) + Bit(k.touched))
    BY DEF WorkerTells
  <2>2. L[k.origin].entry \in Nat
    BY <2>1, RootEntry
  <2>3. Own(E, k) + Bit(k.touched) \in Nat /\ Own(E, k) + Bit(m.touched) \in Nat
        /\ Bit(m.touched) <= Bit(k.touched) + 1
    BY OwnSmall DEF Bit
  <2>4. PICK x \in {0, 1} : Ticks(c, d, x) /\ Bit(m.touched) <= Bit(k.touched) + x
    BY <2>3 DEF StaysPut, Bit
  <2>5. Own(E, k) + Bit(m.touched) <= Own(E, k) + Bit(k.touched) + x
    BY <2>4, OwnSmall DEF Bit
  <2> QED
    BY <2>1, <2>2, <2>3, <2>4, <2>5, RootKept, PastKept
<1>3. m.borrow # 0 => m.origin # 0 /\ Rooted(M, m.borrow) /\ M[m.borrow].origin = m.origin
  BY RootedKept DEF WorkerTells, StaysPut
<1>4. m.at = "borrow" /\ m.slot # 0 =>
          m.origin # 0 /\ m.slot \in DOMAIN M /\ M[m.slot].origin = m.origin
  BY DEF WorkerTells, StaysPut, LogKept
<1> QED
  BY <1>2, <1>3, <1>4 DEF WorkerTells, StaysPut

\* Parts of the invariant that are about workers, borrows and events.
WorkHolds == WorkersTell /\ BorrowsApart /\ EventsNamed /\ DisturbedHold

LEMMA NamesKept ==
    ASSUME NEW L, NEW M, LogKept(L, M), NEW E, NEW F, SameEvents(E, F),
           \A i \in DOMAIN E : Rooted(L, E[i].borrow)
    PROVE  \A i \in DOMAIN F : Rooted(M, F[i].borrow)
BY RootedKept DEF SameEvents

(* No worker moves.                                                         *)
LEMMA WorkersStandBy ==
    ASSUME LineageTypeOK, contents' \in Stamps, WorkHolds, LogKept(ledger.log, ledger'.log),
           SameEvents(ops.log, ops'.log), disturbed' = disturbed,
           \A w \in Workers : StaysPut(worker[w], worker'[w], contents, contents')
    PROVE  WorkHolds'
<1>1. ledger.log \in Seq(Receipts) /\ contents \in Stamps
  BY DEF LineageTypeOK
<1>2. WorkersTell'
  <2> SUFFICES ASSUME NEW w \in Workers
               PROVE  WorkerTells(ledger'.log, contents', ops'.log, worker'[w])
    BY DEF WorkersTell
  <2>1. WorkerTells(ledger.log, contents, ops.log, worker[w])
    BY DEF WorkHolds, WorkersTell
  <2>2. \A kind \in {"BIND_BEGIN", "NORMAL_END"} :
           EventOf(ops'.log, worker[w].borrow, kind) <=> EventOf(ops.log, worker[w].borrow, kind)
    BY EventsKept
  <2> QED
    BY <1>1, <2>1, <2>2, WorkerStands
<1>3. BorrowsApart'
  BY DEF WorkHolds, BorrowsApart, StaysPut
<1>4. EventsNamed'
  BY NamesKept DEF WorkHolds, EventsNamed
<1>5. DisturbedHold'
  BY RootedKept, LateKept DEF WorkHolds, DisturbedHold, StaysPut, Over
<1> QED
  BY <1>2, <1>3, <1>4, <1>5 DEF WorkHolds

(* One worker moves, and writes at most to the ledger.                      *)
LEMMA WorkerMoves ==
    ASSUME LineageTypeOK, contents' \in Stamps, WorkHolds, LogKept(ledger.log, ledger'.log),
           SameEvents(ops.log, ops'.log), NEW w \in Workers,
           \A b \in disturbed' \ disturbed : b # 0 =>
               /\ Rooted(ledger'.log, b) /\ Late(ledger'.log, ops'.log, b)
               /\ \A v \in Workers : worker'[v].borrow # b,
           \A v \in Workers \ {w} : StaysPut(worker[v], worker'[v], contents, contents'),
           WorkerTells(ledger'.log, contents', ops'.log, worker'[w]),
           worker'[w].borrow # 0 =>
               /\ \A v \in Workers \ {w} : worker[v].borrow # worker'[w].borrow
               /\ worker'[w].borrow \in disturbed => Over(worker'[w])
    PROVE  WorkHolds'
<1>1. ledger.log \in Seq(Receipts) /\ contents \in Stamps
  BY DEF LineageTypeOK
<1>2. WorkersTell'
  <2> SUFFICES ASSUME NEW v \in Workers
               PROVE  WorkerTells(ledger'.log, contents', ops'.log, worker'[v])
    BY DEF WorkersTell
  <2>1. WorkerTells(ledger.log, contents, ops.log, worker[v])
    BY DEF WorkHolds, WorkersTell
  <2>2. \A kind \in {"BIND_BEGIN", "NORMAL_END"} :
           EventOf(ops'.log, worker[v].borrow, kind) <=> EventOf(ops.log, worker[v].borrow, kind)
    BY EventsKept
  <2>3. CASE v # w
    BY <1>1, <2>1, <2>2, <2>3, WorkerStands
  <2> QED
    BY <2>3
<1>3. BorrowsApart'
  <2>1. \A v \in Workers \ {w} : worker'[v].borrow = worker[v].borrow
    BY DEF StaysPut
  <2> QED
    BY <2>1 DEF WorkHolds, BorrowsApart
<1>4. EventsNamed'
  BY NamesKept DEF WorkHolds, EventsNamed
<1>5. DisturbedHold'
  <2> SUFFICES ASSUME NEW b \in disturbed' \ {0}, b \in disturbed
               PROVE  /\ Rooted(ledger'.log, b)
                      /\ \A v \in Workers : worker'[v].borrow = b => Over(worker'[v])
                      /\ Late(ledger'.log, ops'.log, b)
    BY DEF DisturbedHold
  <2>1. /\ Rooted(ledger.log, b) /\ Late(ledger.log, ops.log, b)
        /\ \A v \in Workers : worker[v].borrow = b => Over(worker[v])
    BY DEF WorkHolds, DisturbedHold
  <2>2. \A v \in Workers \ {w} : worker'[v].borrow = b => Over(worker'[v])
    BY <2>1 DEF StaysPut, Over
  <2> QED
    BY <2>1, <2>2, RootedKept, LateKept
<1> QED
  BY <1>2, <1>3, <1>4, <1>5 DEF WorkHolds

LEMMA JobStands ==
    ASSUME NEW L \in Seq(Receipts), NEW M, LogKept(L, M), NEW c \in Stamps, NEW d \in Stamps,
           NEW j, NEW n, n.origin = j.origin,
           (n.touched = j.touched /\ Ticks(c, d, 0)) \/ Ticks(c, d, 1), JobTells(L, c, j)
    PROVE  JobTells(M, d, n)
<1> SUFFICES ASSUME j.origin # 0
             PROVE  Root(M, j.origin) /\ Past(M, d, j.origin, Bit(n.touched))
  BY DEF JobTells
<1>1. Root(L, j.origin) /\ Past(L, c, j.origin, Bit(j.touched))
  BY DEF JobTells
<1>2. L[j.origin].entry \in Nat
  BY <1>1, RootEntry
<1>3. PICK x \in {0, 1} : Ticks(c, d, x) /\ Bit(n.touched) <= Bit(j.touched) + x
  BY DEF Bit
<1>4. Bit(n.touched) \in Nat /\ Bit(j.touched) \in Nat
  BY DEF Bit
<1> QED
  BY <1>1, <1>2, <1>3, <1>4, RootKept, PastKept

(* A renderer that does not move; what shows that it is touched may change. *)
LEMMA RendererStands ==
    ASSUME NEW L, NEW M, LogKept(L, M), NEW c \in Stamps, NEW d \in Stamps, NEW a, NEW b,
           NEW k \in RendererFrames, NEW m, m.at = k.at, m.entry = k.entry, m.ticket = k.ticket,
           \/ m.touched = k.touched /\ Ticks(c, d, 0) /\ (a => b)
           \/ Ticks(c, d, 1),
           RendererTells(L, c, a, k)
    PROVE  RendererTells(M, d, b, m)
<1>1. m.entry # 0 /\ d # FAULT => /\ d >= m.entry
                                  /\ m.touched => d > m.entry \/ (m.at = "entered" /\ b)
  BY DEF RendererTells, RendererFrames, Ticks, Stamps, FAULT
<1>2. m.at \in {"initial", "minted"} => m.ticket \in DOMAIN M /\ M[m.ticket].origin = m.ticket
  BY DEF RendererTells, LogKept
<1>3. m.at = "queueing" /\ m.ticket # 0 => Root(M, m.ticket) /\ M[m.ticket].entry = m.entry
  BY RootKept DEF RendererTells
<1> QED
  BY <1>1, <1>2, <1>3 DEF RendererTells

-----------------------------------------------------------------------------
(* The way of a worker. *)

(* The next frame is idle, or a step further on the same job.               *)
LEMMA ContinuesTo ==
    ASSUME NEW k \in WorkerFrames, k.at # "idle", NEW m \in Continues(k)
    PROVE  \/ m = IdleWorker
           \/ /\ m.at \in Follow[k.at] \ {"idle"} /\ m.slot = 0
              /\ m.origin = k.origin /\ m.borrow = k.borrow /\ m.touched = k.touched
<1>1. PICK next \in Follow[k.at] : m \in Proceed(k, next)
  BY DEF Continues
<1>2. CASE next = "idle"
  BY <1>1, <1>2 DEF Proceed
<1>3. CASE next # "idle"
  <2> DEFINE moved == [k EXCEPT !.at = next, !.slot = 0, !.read = FALSE,
                                !.n = IF k.at = "row" THEN @ + 1 ELSE @,
                                !.count = IF next = "row" THEN @ + 1 ELSE @]
  <2>1. /\ moved.at = next /\ moved.slot = 0 /\ moved.origin = k.origin
        /\ moved.borrow = k.borrow /\ moved.touched = k.touched
    BY DEF WorkerFrames
  <2>2. ASSUME NEW ok \in BOOLEAN
        PROVE  LET x == [moved EXCEPT !.ok = ok] IN
               /\ x.at = next /\ x.slot = 0 /\ x.origin = k.origin
               /\ x.borrow = k.borrow /\ x.touched = k.touched
    BY <2>1 DEF WorkerFrames
  <2>3. m = moved \/ \E ok \in BOOLEAN : m = [moved EXCEPT !.ok = ok]
    BY <1>1, <1>3 DEF Proceed
  <2> HIDE DEF moved
  <2> QED
    BY <1>3, <2>1, <2>2, <2>3
<1> QED
  BY <1>2, <1>3

(* How the places of a job follow each other, seen from the binding.        *)
LEMMA WayOfPlaces ==
    ASSUME NEW a \in WorkerPlaces \ {"idle"}, NEW x \in Follow[a] \ {"idle"}
    PROVE  /\ x # "borrow"
           /\ x \in {"fill_begin", "worker_entry"} => a \in {"borrow", "fill_begin"}
           /\ x = "bind_begin" => a = "postfill"
           /\ x = "bind" <=> a = "bind_begin"
           /\ a = "bind" => x = "bind_return"
           /\ a = "bind_return" => x = "normal_end"
           /\ a \in {"borrow", "fill_begin"} => x \in {"fill_begin", "worker_entry", "normal_end"}
           /\ a \notin {"normal_end", "error_end"}
BY DEF WorkerPlaces, ReceiptPoints, RowPoints, OperationPoints, Boundaries, Follow

(* Going on costs at most the one bump of a boundary.                       *)
LEMMA OwnGoesOn ==
    ASSUME NEW k \in WorkerFrames, k.at # "idle", NEW m, m.at \in Follow[k.at] \ {"idle"},
           m.borrow = k.borrow, NEW E,
           k.borrow # 0 /\ EventOf(E, k.borrow, "BIND_BEGIN") =>
                k.at \in {"bind_begin", "bind", "bind_return", "normal_end"}
    PROVE  Own(E, m) <= Own(E, k) + (IF k.at \in Boundaries THEN 1 ELSE 0)
<1>1. k.at \in WorkerPlaces \ {"idle"}
  BY DEF WorkerFrames
<1>2. CASE k.at \in {"bind_begin", "bind", "bind_return", "normal_end"}
  <2>1. k.at = "bind_begin" => m.at = "bind"
    BY <1>1, WayOfPlaces
  <2>2. k.at = "bind" => m.at = "bind_return"
    BY <1>1, WayOfPlaces
  <2>3. k.at = "bind_return" => m.at = "normal_end"
    BY <1>1, WayOfPlaces
  <2>4. k.at # "normal_end"
    BY <1>1, WayOfPlaces
  <2> QED
    BY <1>2, <2>1, <2>2, <2>3, <2>4 DEF Own, Boundaries
<1>3. CASE k.at \notin {"bind_begin", "bind", "bind_return", "normal_end"}
  <2>1. ~(m.borrow # 0 /\ EventOf(E, m.borrow, "BIND_BEGIN"))
    BY <1>3
  <2>2. m.at \in {"bind_return", "normal_end"} => Own(E, m) = 0
    BY <2>1 DEF Own
  <2>3. m.at = "bind_begin" => k.at = "postfill" /\ Own(E, m) = 2 /\ Own(E, k) = 1
    BY <1>1, WayOfPlaces DEF Own
  <2>4. m.at # "bind"
    BY <1>1, <1>3, WayOfPlaces
  <2>5. m.at \in {"fill_begin", "worker_entry"} => Own(E, m) = 0
    BY DEF Own
  <2>6. m.at \notin {"bind_begin", "bind", "bind_return", "normal_end", "fill_begin", "worker_entry"} =>
           Own(E, m) <= 1
    BY DEF Own
  <2>7. k.at \in {"borrow", "fill_begin"} => m.at \in {"fill_begin", "worker_entry", "normal_end"}
    BY <1>1, WayOfPlaces
  <2>8. k.at \notin {"borrow", "fill_begin", "worker_entry"} => Own(E, k) = 1
    BY <1>3 DEF Own
  <2>9. k.at = "worker_entry" => Own(E, k) = 0 /\ k.at \in Boundaries
    BY DEF Own, Boundaries
  <2>10. Own(E, k) \in 0 .. 3 /\ Own(E, m) \in 0 .. 3
    BY OwnSmall
  <2>11. k.at = "postfill" => k.at \in Boundaries
    BY DEF Boundaries
  <2> QED
    BY <2>2, <2>3, <2>4, <2>5, <2>6, <2>7, <2>8, <2>9, <2>10, <2>11
<1> QED
  BY <1>2, <1>3

LEMMA GoesOn ==
    ASSUME NEW L \in Seq(Receipts), NEW E, NEW c \in Stamps, NEW d \in Stamps,
           NEW k \in WorkerFrames, k.at # "idle", NEW m \in Continues(k),
           WorkerTells(L, c, E, k), Ticks(c, d, IF k.at \in Boundaries THEN 1 ELSE 0)
    PROVE  /\ WorkerTells(L, d, E, m)
           /\ m.borrow # 0 => m.borrow = k.borrow /\ ~Over(k)
<1>1. CASE m = IdleWorker
  BY <1>1 DEF IdleWorker, WorkerTells
<1>2. CASE /\ m.at \in Follow[k.at] \ {"idle"} /\ m.slot = 0
           /\ m.origin = k.origin /\ m.borrow = k.borrow /\ m.touched = k.touched
  <2>1. k.at \in WorkerPlaces \ {"idle"}
    BY DEF WorkerFrames
  <2>2. k.borrow # 0 /\ EventOf(E, k.borrow, "BIND_BEGIN") =>
                k.at \in {"bind_begin", "bind", "bind_return", "normal_end"}
    BY DEF WorkerTells
  <2>3. m.origin # 0 => Root(L, m.origin) /\ Past(L, d, m.origin, Own(E, m) + Bit(m.touched))
    <3> SUFFICES ASSUME k.origin # 0
                 PROVE  Root(L, k.origin) /\ Past(L, d, k.origin, Own(E, m) + Bit(k.touched))
      BY <1>2
    <3>1. Root(L, k.origin) /\ Past(L, c, k.origin, Own(E, k) + Bit(k.touched))
      BY DEF WorkerTells
    <3>2. L[k.origin].entry \in Nat
      BY <3>1, RootEntry
    <3>3. Own(E, m) <= Own(E, k) + (IF k.at \in Boundaries THEN 1 ELSE 0)
      BY <1>2, <2>2, OwnGoesOn
    <3>4. Own(E, k) \in Nat /\ Own(E, m) \in Nat /\ Bit(k.touched) \in Nat
      BY OwnSmall, BitValue
    <3>5. LogKept(L, L)
      BY DEF LogKept
    <3> DEFINE n == Own(E, k) + Bit(k.touched)
               o == Own(E, m) + Bit(k.touched)
               x == IF k.at \in Boundaries THEN 1 ELSE 0
    <3>6. n \in Nat /\ o \in Nat /\ x \in Nat /\ o <= n + x
      BY <3>3, <3>4
    <3>7. Past(L, c, k.origin, n) /\ Ticks(c, d, x)
      BY <3>1
    <3> HIDE DEF n, o, x
    <3>8. Past(L, d, k.origin, o)
      BY <3>1, <3>2, <3>5, <3>6, <3>7, PastKept
    <3> QED
      BY <3>1, <3>8 DEF o
  <2>4. m.at \notin {"idle", "borrow"} /\ k.at # "normal_end"
    BY <1>2, <2>1, WayOfPlaces
  <2>5. m.borrow # 0 => m.origin # 0 /\ Rooted(L, m.borrow) /\ L[m.borrow].origin = m.origin
    BY <1>2 DEF WorkerTells
  <2>6. m.borrow # 0 => ~EventOf(E, m.borrow, "NORMAL_END")
    BY <1>2, <2>4 DEF WorkerTells
  <2>7. m.borrow # 0 /\ EventOf(E, m.borrow, "BIND_BEGIN") => m.at \in {"bind", "bind_return", "normal_end"}
    BY <1>2, <2>1, <2>2, WayOfPlaces
  <2> QED
    BY <1>2, <2>3, <2>4, <2>5, <2>6, <2>7 DEF WorkerTells, Over
<1> QED
  BY <1>1, <1>2, ContinuesTo

-----------------------------------------------------------------------------
(* Steps that move no worker. *)

Inside == \E s \in Scopers : InsideScope(s)

LEMMA LogSame == ASSUME NEW L PROVE LogKept(L, L)
BY DEF LogKept

LEMMA EventsSame == ASSUME NEW E PROVE SameEvents(E, E)
BY DEF SameEvents

LEMMA BumpTicks ==
    ASSUME LineageTypeOK, contents' = NextRevision
    PROVE  contents' \in Stamps /\ Ticks(contents, contents', 1) /\ Ticks(contents, contents', 0)
BY DEF LineageTypeOK, NextRevision, Stamps, FAULT, Ticks

LEMMA SameTicks == ASSUME LineageTypeOK PROVE contents \in Stamps /\ Ticks(contents, contents, 0)
BY DEF LineageTypeOK, Stamps, FAULT, Ticks

\* A frame of a renderer that does not move.
Rests(k, m, c, d, a, b) ==
    /\ m.at = k.at /\ m.entry = k.entry /\ m.ticket = k.ticket
    /\ \/ m.touched = k.touched /\ Ticks(c, d, 0) /\ (a => b)
       \/ Ticks(c, d, 1)

LEMMA RenderersStandBy ==
    ASSUME LineageTypeOK, contents' \in Stamps, RenderersTell, LogKept(ledger.log, ledger'.log), NEW X,
           \A r \in Renderers \ X : Rests(renderer[r], renderer'[r], contents, contents', Inside, Inside'),
           \A r \in Renderers \cap X : RendererTells(ledger'.log, contents', Inside', renderer'[r])
    PROVE  RenderersTell'
<1>1. contents \in Stamps /\ \A r \in Renderers : renderer[r] \in RendererFrames
  BY DEF LineageTypeOK
<1>2. \A r \in Renderers : RendererTells(ledger.log, contents, Inside, renderer[r])
  BY DEF RenderersTell, Inside
<1>3. ASSUME NEW r \in Renderers
      PROVE  RendererTells(ledger'.log, contents', Inside', renderer'[r])
  <2>1. CASE r \in X
    BY <2>1
  <2>2. CASE r \notin X
    BY <1>1, <1>2, <2>2, RendererStands, ZenonT(40) DEF Rests
  <2> QED
    BY <2>1, <2>2
<1> QED
  BY <1>3 DEF RenderersTell, Inside

LEMMA AllRenderersStandBy ==
    ASSUME LineageTypeOK, contents' \in Stamps, RenderersTell, LogKept(ledger.log, ledger'.log),
           \A r \in Renderers : Rests(renderer[r], renderer'[r], contents, contents', Inside, Inside')
    PROVE  RenderersTell'
<1> DEFINE X == {}
<1>1. /\ \A r \in Renderers \ X : Rests(renderer[r], renderer'[r], contents, contents', Inside, Inside')
      /\ \A r \in Renderers \cap X : RendererTells(ledger'.log, contents', Inside', renderer'[r])
  OBVIOUS
<1> HIDE DEF X
<1> QED
  BY <1>1, RenderersStandBy

LEMMA JobsStandBy ==
    ASSUME LineageTypeOK, contents' \in Stamps, JobsTell, LogKept(ledger.log, ledger'.log),
           DOMAIN jobs' = DOMAIN jobs,
           \A i \in DOMAIN jobs : /\ jobs'[i].origin = jobs[i].origin
                                  /\ \/ jobs'[i].touched = jobs[i].touched /\ Ticks(contents, contents', 0)
                                     \/ Ticks(contents, contents', 1)
    PROVE  JobsTell'
<1>1. ledger.log \in Seq(Receipts) /\ contents \in Stamps
  BY DEF LineageTypeOK
<1>2. ASSUME NEW i \in DOMAIN jobs
      PROVE  JobTells(ledger'.log, contents', jobs'[i])
  <2>1. JobTells(ledger.log, contents, jobs[i])
    BY DEF JobsTell
  <2> QED
    BY <1>1, <2>1, JobStands
<1> QED
  BY <1>2 DEF JobsTell

LEMMA MotionParts ==
    MotionInv <=> RenderersTell /\ JobsTell /\ WorkHolds
BY DEF MotionInv, WorkHolds

LEMMA MotionPartsNext ==
    ASSUME RenderersTell', JobsTell', WorkHolds' PROVE MotionInv'
BY DEF MotionInv, WorkHolds

(* Nobody moves, the contents stand.                                        *)
LEMMA MotionRests ==
    ASSUME LineageTypeOK, MotionInv, contents' = FAULT \/ contents' = contents,
           ledger'.log = ledger.log, ops'.log = ops.log,
           disturbed' = disturbed, jobs' = jobs, renderer' = renderer,
           \A w \in Workers : /\ worker'[w].at = worker[w].at /\ worker'[w].origin = worker[w].origin
                              /\ worker'[w].borrow = worker[w].borrow /\ worker'[w].slot = worker[w].slot
                              /\ worker'[w].touched = worker[w].touched,
           contents' = FAULT \/ (Inside => Inside')
    PROVE  MotionInv'
<1>1. \/ Ticks(contents, contents', 0) /\ (Inside => Inside')
      \/ Ticks(contents, contents', 1)
  BY SameTicks DEF Stamps, Ticks
<1>2. contents' \in Stamps /\ Ticks(contents, contents', 0)
  BY SameTicks DEF Stamps, Ticks
<1>3. LogKept(ledger.log, ledger'.log) /\ SameEvents(ops.log, ops'.log)
  BY LogSame, EventsSame
<1>4. WorkHolds'
  BY <1>2, <1>3, MotionParts, WorkersStandBy DEF StaysPut
<1>5. JobsTell'
  BY <1>2, <1>3, MotionParts, JobsStandBy
<1>6. \A r \in Renderers : Rests(renderer[r], renderer'[r], contents, contents', Inside, Inside')
  BY <1>1, <1>2 DEF Rests
<1>7. RenderersTell'
  BY <1>2, <1>3, <1>6, MotionParts, AllRenderersStandBy
<1> QED
  BY <1>4, <1>5, <1>7, MotionPartsNext

LEMMA TouchedTells ==
    ASSUME LineageTypeOK
    PROVE  /\ \A w \in Workers : LET m == Touched(worker)[w] IN
                 /\ m.at = worker[w].at /\ m.origin = worker[w].origin
                 /\ m.borrow = worker[w].borrow /\ m.slot = worker[w].slot
           /\ \A r \in Renderers : LET m == Touched(renderer)[r] IN
                 m.at = renderer[r].at /\ m.entry = renderer[r].entry /\ m.ticket = renderer[r].ticket
           /\ DOMAIN TouchedJobs = DOMAIN jobs
           /\ \A i \in DOMAIN jobs : TouchedJobs[i].origin = jobs[i].origin
<1>1. /\ DOMAIN worker = Workers /\ \A w \in Workers : worker[w] \in WorkerFrames
      /\ DOMAIN renderer = Renderers /\ \A r \in Renderers : renderer[r] \in RendererFrames
  BY DEF LineageTypeOK
<1>2. ASSUME NEW w \in Workers
      PROVE  LET m == Touched(worker)[w] IN
             /\ m.at = worker[w].at /\ m.origin = worker[w].origin
             /\ m.borrow = worker[w].borrow /\ m.slot = worker[w].slot
  <2>1. \E b : Touched(worker)[w] = [worker[w] EXCEPT !.touched = b]
    BY <1>1 DEF Touched
  <2> QED
    BY <1>1, <2>1 DEF WorkerFrames
<1>3. ASSUME NEW r \in Renderers
      PROVE  LET m == Touched(renderer)[r] IN
             m.at = renderer[r].at /\ m.entry = renderer[r].entry /\ m.ticket = renderer[r].ticket
  <2>1. \E b : Touched(renderer)[r] = [renderer[r] EXCEPT !.touched = b]
    BY <1>1 DEF Touched
  <2> QED
    BY <1>1, <2>1 DEF RendererFrames
<1> QED
  BY <1>2, <1>3, TouchedWork

(* A bump that no worker causes.                                            *)
LEMMA BumpTells ==
    ASSUME LineageTypeOK, MotionInv, contents' = NextRevision, jobs' = TouchedJobs,
           renderer' = Touched(renderer), worker' = Touched(worker),
           ledger' = ledger, ops' = ops, disturbed' = disturbed
    PROVE  MotionInv'
<1>1. contents' \in Stamps /\ Ticks(contents, contents', 1)
  BY BumpTicks
<1>2. LogKept(ledger.log, ledger'.log) /\ SameEvents(ops.log, ops'.log)
  BY LogSame, EventsSame
<1>3. WorkHolds'
  BY <1>1, <1>2, TouchedTells, MotionParts, WorkersStandBy DEF StaysPut
<1>4. JobsTell'
  BY <1>1, <1>2, TouchedTells, MotionParts, JobsStandBy
<1>5. \A r \in Renderers : Rests(renderer[r], renderer'[r], contents, contents', Inside, Inside')
  BY <1>1, TouchedTells DEF Rests
<1>6. RenderersTell'
  BY <1>1, <1>2, <1>5, MotionParts, AllRenderersStandBy
<1> QED
  BY <1>3, <1>4, <1>6, MotionPartsNext

LEMMA ScoperTells ==
    ASSUME LineageInv, MotionInv, NEW s \in Scopers, ScopeReserve(s) \/ ScoperStep(s)
    PROVE  MotionInv'
<1>0. LineageTypeOK /\ scoper \in [Scopers -> ScoperFrames] /\ worker \in [Workers -> WorkerFrames]
  BY DEF LineageInv, LineageTypeOK
<1>1. CASE ScopeBump(s)
  BY <1>0, <1>1, BumpTells DEF ScopeBump
<1>2. CASE Mutate(s)
  <2>1. \A w \in Workers : worker'[w] = [worker[w] EXCEPT !.count = 0]
    BY <1>0, <1>2 DEF Mutate
  <2>2. Inside'
    BY <1>0, <1>2 DEF Mutate, Inside, InsideScope, ScoperFrames
  <2>3. \A w \in Workers : /\ worker'[w].at = worker[w].at /\ worker'[w].origin = worker[w].origin
                           /\ worker'[w].borrow = worker[w].borrow /\ worker'[w].slot = worker[w].slot
                           /\ worker'[w].touched = worker[w].touched
    BY <1>0, <2>1, ZenonT(40) DEF WorkerFrames
  <2>4. UNCHANGED <<contents, ledger, ops, disturbed, jobs, renderer>>
    BY <1>2 DEF Mutate
  <2> QED
    BY <1>0, <2>2, <2>3, <2>4, MotionRests
<1>3. CASE ScopeReserve(s) \/ ScopePublish(s) \/ ScopeClaim(s) \/ ScopeClose(s) \/ ScopeRelease(s)
  <2>1. UNCHANGED <<contents, ledger, ops, disturbed, jobs, renderer, worker>>
    BY <1>3 DEF ScopeReserve, ScopePublish, ScopeClaim, ScopeClose, ScopeRelease
  <2>2. scoper[s].at \notin {"inside", "leaving"} /\ \A u \in Scopers \ {s} : scoper'[u] = scoper[u]
    BY <1>0, <1>3 DEF ScopeReserve, ScopePublish, ScopeClaim, ScopeClose, ScopeRelease
  <2>3. Inside => Inside'
    BY <2>2 DEF Inside, InsideScope
  <2> QED
    BY <1>0, <2>1, <2>3, MotionRests
<1> QED
  BY <1>1, <1>2, <1>3 DEF ScoperStep

LEMMA EnvironmentTells ==
    ASSUME LineageInv, MotionInv, OtherBoundary \/ ExhaustLoop
    PROVE  MotionInv'
<1>0. LineageTypeOK /\ ledger \in [log : Seq(Receipts), fault : BOOLEAN]
      /\ ops \in [log : Seq(OpEvents), fault : BOOLEAN]
  BY DEF LineageInv, LineageTypeOK
<1>1. CASE OtherBoundary
  BY <1>0, <1>1, BumpTells DEF OtherBoundary
<1>2. CASE ExhaustLoop
  <2>1. /\ contents' = FAULT \/ contents' = contents
        /\ ledger'.log = ledger.log /\ ops'.log = ops.log
        /\ UNCHANGED <<disturbed, jobs, renderer, worker, scoper>>
    BY <1>0, <1>2 DEF ExhaustLoop, Invalidated
  <2>2. Inside => Inside'
    BY <2>1 DEF Inside, InsideScope
  <2> QED
    BY <1>0, <2>1, <2>2, MotionRests
<1> QED
  BY <1>1, <1>2

-----------------------------------------------------------------------------
(* The renderer. *)

LEMMA LogAppended ==
    ASSUME NEW S, NEW L \in Seq(S), NEW e
    PROVE  /\ LogKept(L, Append(L, e)) /\ Len(L) + 1 \in DOMAIN Append(L, e)
           /\ Append(L, e)[Len(L) + 1] = e
BY DEF LogKept

LEMMA LogRewritten ==
    ASSUME NEW L, NEW t, ~L[t].published, NEW e, e.origin = L[t].origin
    PROVE  LogKept(L, [L EXCEPT ![t] = e])
BY DEF LogKept

\* What a step of renderer r leaves to the others.
LEMMA RendererGoes ==
    ASSUME LineageTypeOK, MotionInv, contents' \in Stamps, Ticks(contents, contents', 0),
           LogKept(ledger.log, ledger'.log), ops' = ops, disturbed' = disturbed, scoper' = scoper,
           NEW r \in Renderers, NEW n \in {0, 1}, Ticks(contents, contents', n),
           \A w \in Workers : StaysPut(worker[w], worker'[w], contents, contents'),
           \A q \in Renderers \ {r} :
               /\ renderer'[q].at = renderer[q].at /\ renderer'[q].entry = renderer[q].entry
               /\ renderer'[q].ticket = renderer[q].ticket
               /\ n = 0 => renderer'[q].touched = renderer[q].touched,
           RendererTells(ledger'.log, contents', Inside, renderer'[r]), JobsTell'
    PROVE  MotionInv'
<1>1. Inside' <=> Inside
  BY DEF Inside, InsideScope
<1>2. SameEvents(ops.log, ops'.log)
  BY EventsSame
<1>3. WorkHolds'
  BY <1>2, MotionParts, WorkersStandBy
<1>4. \A q \in Renderers \ {r} : Rests(renderer[q], renderer'[q], contents, contents', Inside, Inside')
  BY <1>1 DEF Rests
<1>5. \A q \in Renderers \cap {r} : RendererTells(ledger'.log, contents', Inside', renderer'[q])
  BY <1>1 DEF RendererTells
<1>6. RenderersTell'
  <2> DEFINE X == {r}
  <2>1. /\ \A q \in Renderers \ X : Rests(renderer[q], renderer'[q], contents, contents', Inside, Inside')
        /\ \A q \in Renderers \cap X : RendererTells(ledger'.log, contents', Inside', renderer'[q])
    BY <1>4, <1>5
  <2> HIDE DEF X
  <2> QED
    BY <2>1, MotionParts, RenderersStandBy
<1> QED
  BY <1>3, <1>6, MotionPartsNext

LEMMA WorkersStill ==
    ASSUME LineageTypeOK, contents' = contents, worker' = worker
    PROVE  /\ contents' \in Stamps /\ Ticks(contents, contents', 0)
           /\ \A w \in Workers : StaysPut(worker[w], worker'[w], contents, contents')
BY SameTicks DEF StaysPut

LEMMA JobsStill ==
    ASSUME LineageTypeOK, MotionInv, contents' = contents, jobs' = jobs,
           LogKept(ledger.log, ledger'.log)
    PROVE  JobsTell'
BY SameTicks, MotionParts, JobsStandBy

LEMMA RendererKnown ==
    ASSUME LineageInv, MotionInv, NEW r \in Renderers
    PROVE  /\ LineageTypeOK /\ renderer[r] \in RendererFrames
           /\ RendererTells(ledger.log, contents, Inside, renderer[r])
           /\ ledger.log \in Seq(Receipts) /\ Len(ledger.log) \in Nat
           /\ renderer \in [Renderers -> RendererFrames]
           /\ ledger \in [log : Seq(Receipts), fault : BOOLEAN]
<1>1. LineageTypeOK
  BY DEF LineageInv
<1>2. /\ renderer \in [Renderers -> RendererFrames]
      /\ ledger \in [log : Seq(Receipts), fault : BOOLEAN]
  BY <1>1 DEF LineageTypeOK
<1>3. ledger.log \in Seq(Receipts) /\ Len(ledger.log) \in Nat
  BY <1>2
<1>4. RendererTells(ledger.log, contents, Inside, renderer[r])
  BY DEF MotionInv, RenderersTell, Inside
<1> QED
  BY <1>1, <1>2, <1>3, <1>4

LEMMA EnterTells == ASSUME LineageInv, MotionInv, NEW r \in Renderers, Enter(r) PROVE MotionInv'
<1>0. LineageTypeOK /\ renderer \in [Renderers -> RendererFrames]
  BY RendererKnown
<1>1. /\ contents' = NextRevision /\ jobs' = TouchedJobs /\ worker' = Touched(worker)
      /\ UNCHANGED <<ledger, ops, scoper, disturbed>>
  BY DEF Enter
<1>2. contents' \in Stamps /\ Ticks(contents, contents', 0) /\ Ticks(contents, contents', 1)
  BY <1>0, <1>1, BumpTicks
<1>3. \A w \in Workers : StaysPut(worker[w], worker'[w], contents, contents')
  BY <1>0, <1>1, <1>2, TouchedTells DEF StaysPut
<1>4. LogKept(ledger.log, ledger'.log)
  BY <1>1, LogSame
<1>5. JobsTell'
  BY <1>0, <1>1, <1>2, <1>4, TouchedTells, MotionParts, JobsStandBy
<1> DEFINE k == [IdleRenderer EXCEPT !.at = "entered",
                                     !.entry = IF NextRevision = FAULT THEN 0 ELSE NextRevision,
                                     !.touched = \E s \in Scopers : InsideScope(s)]
<1>6. renderer' = [Touched(renderer) EXCEPT ![r] = k]
  BY DEF Enter
<1>7. k.at = "entered" /\ k.entry = (IF contents' = FAULT THEN 0 ELSE contents')
      /\ (k.touched <=> Inside)
  BY <1>1 DEF IdleRenderer, Inside
<1> HIDE DEF k
<1>8. DOMAIN Touched(renderer) = Renderers
  BY <1>0 DEF Touched
<1>9. renderer'[r] = k /\ \A q \in Renderers \ {r} : renderer'[q] = Touched(renderer)[q]
  BY <1>6, <1>8
<1>10. RendererTells(ledger'.log, contents', Inside, renderer'[r])
  BY <1>2, <1>7, <1>9 DEF RendererTells, Stamps, FAULT
<1>11. \A q \in Renderers \ {r} :
          /\ renderer'[q].at = renderer[q].at /\ renderer'[q].entry = renderer[q].entry
          /\ renderer'[q].ticket = renderer[q].ticket
  BY <1>0, <1>9, TouchedTells
<1> QED
  BY <1>0, <1>1, <1>2, <1>3, <1>4, <1>5, <1>10, <1>11, RendererGoes

LEMMA RendererGoesAlone ==
    ASSUME LineageInv, MotionInv, UNCHANGED <<contents, ops, disturbed, scoper, worker>>,
           LogKept(ledger.log, ledger'.log), NEW r \in Renderers, NEW f,
           renderer' = [renderer EXCEPT ![r] = f],
           RendererTells(ledger'.log, contents, Inside, f), JobsTell'
    PROVE  MotionInv'
<1>1. LineageTypeOK /\ renderer \in [Renderers -> RendererFrames]
  BY RendererKnown
<1>2. renderer'[r] = f /\ \A q \in Renderers \ {r} : renderer'[q] = renderer[q]
  BY <1>1
<1>3. /\ contents' \in Stamps /\ Ticks(contents, contents', 0)
      /\ \A w \in Workers : StaysPut(worker[w], worker'[w], contents, contents')
  BY <1>1, WorkersStill
<1> QED
  BY <1>1, <1>2, <1>3, RendererGoes

LEMMA CheckScopeTells ==
    ASSUME LineageInv, CountInv, MotionInv, NEW r \in Renderers, CheckScope(r)
    PROVE  MotionInv'
<1>0. /\ LineageTypeOK /\ renderer[r] \in RendererFrames /\ renderer \in [Renderers -> RendererFrames]
      /\ RendererTells(ledger.log, contents, Inside, renderer[r])
  BY RendererKnown
<1> DEFINE f == [renderer[r] EXCEPT !.at = "drawing",
                                    !.entry = IF scopeLog.fault \/ active > 0 THEN 0 ELSE @]
<1>1. /\ UNCHANGED <<contents, ledger, ops, disturbed, scoper, worker, jobs>>
      /\ renderer[r].at = "entered" /\ renderer' = [renderer EXCEPT ![r] = f]
  BY <1>0 DEF CheckScope
<1>2. /\ f.at = "drawing" /\ f.touched = renderer[r].touched
      /\ f.entry = IF scopeLog.fault \/ active > 0 THEN 0 ELSE renderer[r].entry
  BY <1>0 DEF RendererFrames
<1> HIDE DEF f
<1>3. ASSUME ~scopeLog.fault, ~(active > 0) PROVE ~Inside
  <2>1. IsFiniteSet(OpenScopes) /\ active = Cardinality(OpenScopes)
    BY <1>3 DEF CountInv
  <2>2. active \in Nat
    BY <2>1, FS_CardinalityType
  <2>3. OpenScopes = {}
    BY <1>3, <2>1, <2>2, FS_EmptySet
  <2> QED
    BY <2>3 DEF OpenScopes, Inside, InsideScope
<1>4. RendererTells(ledger'.log, contents, Inside, f)
  BY <1>0, <1>1, <1>2, <1>3 DEF RendererTells
<1>5. LogKept(ledger.log, ledger'.log)
  BY <1>1, LogSame
<1>6. JobsTell'
  BY <1>0, <1>1, <1>5, JobsStill
<1> QED
  BY <1>1, <1>4, <1>5, <1>6, RendererGoesAlone

LEMMA MintRootTells == ASSUME LineageInv, MotionInv, NEW r \in Renderers, MintRoot(r) PROVE MotionInv'
<1>0. /\ LineageTypeOK /\ renderer[r] \in RendererFrames /\ renderer \in [Renderers -> RendererFrames]
      /\ RendererTells(ledger.log, contents, Inside, renderer[r])
      /\ ledger.log \in Seq(Receipts) /\ ledger \in [log : Seq(Receipts), fault : BOOLEAN]
  BY RendererKnown
<1>1. UNCHANGED <<contents, ops, disturbed, scoper, worker, jobs>> /\ renderer[r].at \in {"idle", "drawing"}
  BY DEF MintRoot
<1> DEFINE initial == renderer[r].at = "idle"
           token == Len(ledger.log) + 1
<1>2. CASE CanReserve(ledger, LedgerCapacity)
  <2> DEFINE e == NewReceipt(IF initial THEN "INITIAL" ELSE "RENDER", 0, token)
             f == [renderer[r] EXCEPT !.at = IF initial THEN "initial" ELSE "minted", !.ticket = token]
  <2>1. ledger' = Reserved(ledger, e) /\ renderer' = [renderer EXCEPT ![r] = f]
    BY <1>0, <1>2 DEF MintRoot
  <2>2. e.origin = token
    BY DEF NewReceipt
  <2>3. /\ f.at \in {"initial", "minted"} /\ f.ticket = token
        /\ f.entry = renderer[r].entry /\ f.touched = renderer[r].touched
    BY <1>0 DEF RendererFrames
  <2> HIDE DEF e, f
  <2>4. ledger'.log = Append(ledger.log, e)
    BY <1>0, <2>1 DEF Reserved
  <2>5. /\ LogKept(ledger.log, ledger'.log)
        /\ token \in DOMAIN ledger'.log /\ ledger'.log[token].origin = token
    BY <1>0, <2>2, <2>4, LogAppended
  <2>6. RendererTells(ledger'.log, contents, Inside, f)
    BY <1>0, <1>1, <2>3, <2>5 DEF RendererTells
  <2>7. JobsTell'
    BY <1>0, <1>1, <2>5, JobsStill
  <2> QED
    BY <1>1, <2>1, <2>5, <2>6, <2>7, RendererGoesAlone
<1>3. CASE ~CanReserve(ledger, LedgerCapacity)
  <2> DEFINE f == [renderer[r] EXCEPT !.at = IF initial THEN "idle" ELSE "queueing", !.ticket = 0]
  <2>1. ledger' = Invalidated(ledger) /\ renderer' = [renderer EXCEPT ![r] = f]
    BY <1>0, <1>3 DEF MintRoot
  <2>2. /\ f.at = (IF initial THEN "idle" ELSE "queueing") /\ f.ticket = 0
        /\ f.entry = renderer[r].entry /\ f.touched = renderer[r].touched
    BY <1>0 DEF RendererFrames
  <2> HIDE DEF f
  <2>3. ledger'.log = ledger.log
    BY <1>0, <2>1 DEF Invalidated
  <2>4. LogKept(ledger.log, ledger'.log)
    BY <2>3, LogSame
  <2>5. RendererTells(ledger'.log, contents, Inside, f)
    BY <1>0, <1>1, <2>2, <2>3 DEF RendererTells
  <2>6. JobsTell'
    BY <1>0, <1>1, <2>4, JobsStill
  <2> QED
    BY <1>1, <2>1, <2>4, <2>5, <2>6, RendererGoesAlone
<1> QED
  BY <1>2, <1>3

LEMMA PublishRootTells ==
    ASSUME LineageInv, MotionInv, NEW r \in Renderers, PublishRoot(r) PROVE MotionInv'
<1>0. /\ LineageTypeOK /\ renderer[r] \in RendererFrames /\ renderer \in [Renderers -> RendererFrames]
      /\ RendererTells(ledger.log, contents, Inside, renderer[r])
      /\ ledger.log \in Seq(Receipts) /\ ledger \in [log : Seq(Receipts), fault : BOOLEAN]
  BY RendererKnown
<1> DEFINE t == renderer[r].ticket
           e == [ledger.log[t] EXCEPT !.published = TRUE, !.entry = renderer[r].entry]
           f == [renderer[r] EXCEPT !.at = "queueing"]
<1>1. /\ UNCHANGED <<contents, ops, disturbed, scoper, worker, jobs>>
      /\ renderer[r].at \in {"initial", "minted"} /\ ledger' = Published(ledger, t, e)
      /\ renderer' = [renderer EXCEPT ![r] = f]
  BY DEF PublishRoot
<1>2. t \in DOMAIN ledger.log /\ ledger.log[t].origin = t /\ t # 0
  BY <1>0, <1>1 DEF RendererTells
<1>3. ~ledger.log[t].published
  <2>1. <<"renderer", r>> \in Holders /\ LedgerHold[<<"renderer", r>>] = t
    BY <1>1 DEF Holders, LedgerHold
  <2> QED
    BY <1>2, <2>1 DEF LineageInv, HeldApart, Unfinished
<1>4. ledger.log[t] \in Receipts
  BY <1>0, <1>2
<1>5. e.published /\ e.origin = t /\ e.entry = renderer[r].entry
  BY <1>2, <1>4 DEF Receipts
<1>6. /\ f.at = "queueing" /\ f.ticket = t
      /\ f.entry = renderer[r].entry /\ f.touched = renderer[r].touched
  BY <1>0 DEF RendererFrames
<1> HIDE DEF e, f
<1>7. ledger'.log = [ledger.log EXCEPT ![t] = e]
  BY <1>0, <1>1 DEF Published
<1>8. LogKept(ledger.log, ledger'.log)
  BY <1>2, <1>3, <1>5, <1>7, LogRewritten
<1>9. t \in DOMAIN ledger'.log /\ ledger'.log[t] = e
  BY <1>2, <1>7
<1>10. RendererTells(ledger'.log, contents, Inside, f)
  BY <1>0, <1>1, <1>5, <1>6, <1>9 DEF RendererTells, Root
<1>11. JobsTell'
  BY <1>0, <1>1, <1>8, JobsStill
<1> QED
  BY <1>1, <1>8, <1>10, <1>11, RendererGoesAlone

LEMMA EnqueueTells == ASSUME LineageInv, MotionInv, NEW r \in Renderers, Enqueue(r) PROVE MotionInv'
<1>0. /\ LineageTypeOK /\ renderer[r] \in RendererFrames /\ renderer \in [Renderers -> RendererFrames]
      /\ RendererTells(ledger.log, contents, Inside, renderer[r]) /\ jobs \in Seq(Jobs)
      /\ contents \in Stamps
  BY RendererKnown DEF LineageTypeOK
<1> DEFINE f == [renderer[r] EXCEPT !.queued = @ + 1]
           j == [origin |-> IF ledger.fault THEN 0 ELSE renderer[r].ticket,
                 touched |-> renderer[r].touched]
<1>1. /\ UNCHANGED <<contents, ledger, ops, disturbed, scoper, worker>>
      /\ renderer[r].at = "queueing" /\ renderer' = [renderer EXCEPT ![r] = f] /\ jobs' = Append(jobs, j)
  BY <1>0 DEF Enqueue
<1>2. /\ f.at = "queueing" /\ f.ticket = renderer[r].ticket
      /\ f.entry = renderer[r].entry /\ f.touched = renderer[r].touched
  BY <1>0, <1>1 DEF RendererFrames
<1>3. JobTells(ledger.log, contents, j)
  <2> SUFFICES ASSUME j.origin # 0
               PROVE  Root(ledger.log, j.origin) /\ Past(ledger.log, contents, j.origin, Bit(j.touched))
    BY DEF JobTells
  <2>1. j.origin = renderer[r].ticket /\ j.touched = renderer[r].touched
    OBVIOUS
  <2>2. Root(ledger.log, j.origin) /\ ledger.log[j.origin].entry = renderer[r].entry
    BY <1>0, <1>1, <2>1 DEF RendererTells
  <2>3. renderer[r].entry \in Nat
    BY <1>0 DEF RendererFrames
  <2>4. Past(ledger.log, contents, j.origin, Bit(j.touched))
    BY <1>0, <1>1, <2>1, <2>2, <2>3 DEF RendererTells, Past, Bit, Stamps, FAULT
  <2> QED
    BY <2>2, <2>4
<1> HIDE DEF f, j
<1>4. LogKept(ledger.log, ledger'.log)
  BY <1>1, LogSame
<1>5. RendererTells(ledger'.log, contents, Inside, f)
  BY <1>0, <1>1, <1>2 DEF RendererTells
<1>6. JobsTell'
  <2>1. \A i \in DOMAIN jobs' : jobs'[i] = j \/ (i \in DOMAIN jobs /\ jobs'[i] = jobs[i])
    BY <1>0, <1>1
  <2> QED
    BY <1>1, <1>3, <2>1, MotionParts DEF JobsTell
<1> QED
  BY <1>1, <1>4, <1>5, <1>6, RendererGoesAlone

LEMMA LeaveTells ==
    ASSUME LineageInv, MotionInv, NEW r \in Renderers, LeaveRenderer(r) PROVE MotionInv'
<1>0. LineageTypeOK
  BY RendererKnown
<1>1. /\ UNCHANGED <<contents, ledger, ops, disturbed, scoper, worker, jobs>>
      /\ renderer' = [renderer EXCEPT ![r] = IdleRenderer]
  BY DEF LeaveRenderer
<1>2. LogKept(ledger.log, ledger'.log)
  BY <1>1, LogSame
<1>3. RendererTells(ledger'.log, contents, Inside, IdleRenderer)
  BY DEF RendererTells, IdleRenderer
<1>4. JobsTell'
  BY <1>0, <1>1, <1>2, JobsStill
<1> QED
  BY <1>1, <1>2, <1>3, <1>4, RendererGoesAlone

-----------------------------------------------------------------------------
(* The worker. *)

LEMMA WorkerKnown ==
    ASSUME LineageInv, MotionInv, NEW w \in Workers
    PROVE  /\ LineageTypeOK /\ WorkHolds /\ contents \in Stamps
           /\ worker \in [Workers -> WorkerFrames] /\ worker[w] \in WorkerFrames
           /\ WorkerTells(ledger.log, contents, ops.log, worker[w])
           /\ ledger.log \in Seq(Receipts) /\ ledger \in [log : Seq(Receipts), fault : BOOLEAN]
           /\ ops.log \in Seq(OpEvents) /\ ops \in [log : Seq(OpEvents), fault : BOOLEAN]
           /\ Len(ledger.log) \in Nat /\ Len(ops.log) \in Nat
<1>1. LineageTypeOK /\ WorkHolds
  BY MotionParts DEF LineageInv
<1>2. /\ worker \in [Workers -> WorkerFrames] /\ contents \in Stamps
      /\ ledger \in [log : Seq(Receipts), fault : BOOLEAN]
      /\ ops \in [log : Seq(OpEvents), fault : BOOLEAN]
  BY <1>1 DEF LineageTypeOK
<1>3. WorkerTells(ledger.log, contents, ops.log, worker[w])
  BY <1>1 DEF WorkHolds, WorkersTell
<1>4. ledger.log \in Seq(Receipts) /\ ops.log \in Seq(OpEvents)
  BY <1>2
<1>5. Len(ledger.log) \in Nat /\ Len(ops.log) \in Nat
  BY <1>4
<1> QED
  BY <1>1, <1>2, <1>3, <1>4, <1>5

\* The borrow of worker frame m is of none but worker w, nor over unless m is.
Apart(w, m) ==
    m.borrow # 0 =>
        /\ \A v \in Workers \ {w} : worker[v].borrow # m.borrow
        /\ m.borrow \in disturbed => Over(m)

LEMMA WorkerGoesAlone ==
    ASSUME LineageInv, MotionInv, UNCHANGED <<contents, renderer, scoper>>,
           LogKept(ledger.log, ledger'.log), SameEvents(ops.log, ops'.log), JobsTell',
           NEW w \in Workers, \A v \in Workers \ {w} : worker'[v] = worker[v],
           NEW m, worker'[w] = m, Apart(w, m),
           WorkerTells(ledger'.log, contents, ops'.log, m),
           \A b \in disturbed' \ disturbed : b # 0 =>
               /\ Rooted(ledger'.log, b) /\ Late(ledger'.log, ops'.log, b)
               /\ \A v \in Workers : worker'[v].borrow # b
    PROVE  MotionInv'
<1>0. LineageTypeOK /\ WorkHolds /\ contents' \in Stamps /\ Ticks(contents, contents', 0)
  BY WorkerKnown, SameTicks
<1>1. \A v \in Workers \ {w} : StaysPut(worker[v], worker'[v], contents, contents')
  BY <1>0 DEF StaysPut
<1>2. WorkerTells(ledger'.log, contents', ops'.log, worker'[w])
  OBVIOUS
<1>3. worker'[w].borrow # 0 =>
          /\ \A v \in Workers \ {w} : worker[v].borrow # worker'[w].borrow
          /\ worker'[w].borrow \in disturbed => Over(worker'[w])
  BY DEF Apart
<1>4. WorkHolds'
  BY <1>0, <1>1, <1>2, <1>3, WorkerMoves
<1>5. \A r \in Renderers : Rests(renderer[r], renderer'[r], contents, contents', Inside, Inside')
  BY <1>0 DEF Rests, Inside, InsideScope
<1>6. RenderersTell'
  BY <1>0, <1>5, MotionParts, AllRenderersStandBy
<1> QED
  BY <1>4, <1>6, MotionPartsNext

\* Who goes on with the borrow he has does so alone.
LEMMA KeepsApart ==
    ASSUME LineageInv, MotionInv, NEW w \in Workers, NEW m, m.borrow # 0 => m.borrow = worker[w].borrow,
           m.borrow # 0 /\ Over(worker[w]) => Over(m)
    PROVE  Apart(w, m)
<1>1. WorkHolds
  BY WorkerKnown
<1> QED
  BY <1>1 DEF Apart, WorkHolds, BorrowsApart, DisturbedHold

LEMMA GoTells ==
    ASSUME LineageInv, MotionInv, UNCHANGED <<contents, renderer, scoper, jobs>>,
           ledger'.log = ledger.log, SameEvents(ops.log, ops'.log), NEW w \in Workers,
           worker[w].at # "idle", worker[w].at \notin Boundaries, Go(w, worker[w]),
           \A b \in disturbed' \ disturbed : b # 0 =>
               /\ worker[w].at = "normal_end" /\ worker[w].slot = 0 /\ b = worker[w].borrow
    PROVE  MotionInv'
<1> DEFINE k == worker[w]
<1>0. /\ LineageTypeOK /\ WorkHolds /\ contents \in Stamps
      /\ worker \in [Workers -> WorkerFrames] /\ k \in WorkerFrames
      /\ WorkerTells(ledger.log, contents, ops.log, k) /\ ledger.log \in Seq(Receipts)
  BY WorkerKnown
<1>1. PICK m \in Continues(k) : worker' = [worker EXCEPT ![w] = m]
  BY DEF Go, GoIn
<1>2. worker'[w] = m /\ \A v \in Workers \ {w} : worker'[v] = worker[v]
  BY <1>0, <1>1
<1>3. LogKept(ledger.log, ledger'.log)
  BY LogSame
<1>4. JobsTell'
  BY <1>0, <1>3, JobsStill
<1>5. /\ \A b, kind : EventOf(ops'.log, b, kind) <=> EventOf(ops.log, b, kind)
  BY EventsKept
<1>6. Ticks(contents, contents, 0)
  BY <1>0, SameTicks
<1>7. Ticks(contents, contents, IF k.at \in Boundaries THEN 1 ELSE 0)
  BY <1>6
<1>8. /\ WorkerTells(ledger.log, contents, ops.log, m)
      /\ m.borrow # 0 => m.borrow = k.borrow /\ ~Over(k)
  BY <1>0, <1>7, GoesOn
<1>9. WorkerTells(ledger'.log, contents, ops'.log, m)
  <2>1. StaysPut(m, m, contents, contents)
    BY <1>6 DEF StaysPut
  <2> QED
    BY <1>0, <1>3, <1>5, <1>8, <2>1, WorkerStands
<1>10. Apart(w, m)
  BY <1>8, KeepsApart
<1>11. ASSUME NEW b \in disturbed' \ disturbed, b # 0
       PROVE  /\ Rooted(ledger'.log, b) /\ Late(ledger'.log, ops'.log, b)
              /\ \A v \in Workers : worker'[v].borrow # b
  <2>1. k.at = "normal_end" /\ k.slot = 0 /\ b = k.borrow
    BY <1>11
  <2>2. m = IdleWorker
    BY <1>0, <2>1, ContinuesTo DEF Follow
  <2>3. worker'[w].borrow # b
    BY <1>2, <1>11, <2>2 DEF IdleWorker
  <2>4. \A v \in Workers \ {w} : worker'[v].borrow # b
    BY <1>0, <1>2, <1>11, <2>1 DEF WorkHolds, BorrowsApart
  <2>5. Rooted(ledger.log, b) /\ ~EventOf(ops.log, b, "NORMAL_END")
    BY <1>0, <1>11, <2>1 DEF WorkerTells
  <2>6. ~EventOf(ops'.log, b, "NORMAL_END")
    BY <1>5, <2>5
  <2>7. Late(ledger'.log, ops'.log, b)
    BY <2>6 DEF Late, EventOf
  <2> QED
    BY <2>3, <2>4, <2>5, <2>7
<1> QED
  BY <1>2, <1>3, <1>4, <1>9, <1>10, <1>11, WorkerGoesAlone

LEMMA BorrowTells == ASSUME LineageInv, MotionInv, NEW w \in Workers, Borrow(w) PROVE MotionInv'
<1>0. /\ LineageTypeOK /\ contents \in Stamps /\ worker \in [Workers -> WorkerFrames]
      /\ JobsTell /\ jobs \in Seq(Jobs) /\ jobs # <<>>
  BY WorkerKnown, MotionParts DEF LineageTypeOK, Borrow
<1> DEFINE m == [IdleWorker EXCEPT !.at = "borrow", !.origin = Head(jobs).origin,
                                   !.touched = Head(jobs).touched]
<1>1. /\ UNCHANGED <<contents, renderer, scoper, ledger, ops, disturbed>>
      /\ worker' = [worker EXCEPT ![w] = m] /\ jobs' = Tail(jobs)
  BY DEF Borrow
<1>2. /\ m.at = "borrow" /\ m.origin = jobs[1].origin /\ m.touched = jobs[1].touched
      /\ m.borrow = 0 /\ m.slot = 0
  BY <1>0 DEF IdleWorker
<1> HIDE DEF m
<1>3. worker'[w] = m /\ \A v \in Workers \ {w} : worker'[v] = worker[v]
  BY <1>0, <1>1
<1>4. LogKept(ledger.log, ledger'.log) /\ SameEvents(ops.log, ops'.log)
  BY <1>1, LogSame, EventsSame
<1>5. JobTells(ledger.log, contents, jobs[1])
  BY <1>0 DEF JobsTell
<1>6. Own(ops.log, m) = 0
  BY <1>2 DEF Own
<1>7. WorkerTells(ledger'.log, contents, ops'.log, m)
  <2>1. 0 + Bit(m.touched) = Bit(m.touched)
    BY DEF Bit
  <2> QED
    BY <1>1, <1>2, <1>5, <1>6, <2>1 DEF WorkerTells, JobTells
<1>8. JobsTell'
  <2>1. \A i \in DOMAIN jobs' : i + 1 \in DOMAIN jobs /\ jobs'[i] = jobs[i + 1]
    BY <1>0, <1>1
  <2> QED
    BY <1>0, <1>1, <2>1 DEF JobsTell
<1>9. Apart(w, m)
  BY <1>2 DEF Apart
<1> QED
  BY <1>1, <1>3, <1>4, <1>7, <1>8, <1>9, WorkerGoesAlone

LEMMA CrossTells == ASSUME LineageInv, MotionInv, NEW w \in Workers, CrossBoundary(w) PROVE MotionInv'
<1> DEFINE k == worker[w]
<1>0. /\ LineageTypeOK /\ WorkHolds /\ contents \in Stamps
      /\ worker \in [Workers -> WorkerFrames] /\ k \in WorkerFrames
      /\ WorkerTells(ledger.log, contents, ops.log, k) /\ ledger.log \in Seq(Receipts)
  BY WorkerKnown
<1>1. /\ contents' = NextRevision /\ jobs' = TouchedJobs /\ renderer' = Touched(renderer)
      /\ UNCHANGED <<ledger, ops, scoper, disturbed>> /\ k.at \in Boundaries
  BY DEF CrossBoundary
<1>2. contents' \in Stamps /\ Ticks(contents, contents', 1)
  BY <1>0, <1>1, BumpTicks
<1>3. PICK m \in Continues(k) : worker' = [Touched(worker) EXCEPT ![w] = m]
  BY DEF CrossBoundary, GoIn
<1>4. DOMAIN Touched(worker) = Workers
  BY <1>0 DEF Touched
<1>5. worker'[w] = m /\ \A v \in Workers \ {w} : worker'[v] = Touched(worker)[v]
  BY <1>3, <1>4
<1>6. \A v \in Workers \ {w} : StaysPut(worker[v], worker'[v], contents, contents')
  BY <1>0, <1>2, <1>5, TouchedTells DEF StaysPut
<1>7. LogKept(ledger.log, ledger'.log) /\ SameEvents(ops.log, ops'.log)
  BY <1>1, LogSame, EventsSame
<1>8. /\ WorkerTells(ledger.log, contents', ops.log, m)
      /\ m.borrow # 0 => m.borrow = k.borrow /\ ~Over(k)
  <2>1. k.at # "idle"
    BY <1>1 DEF Boundaries
  <2>2. Ticks(contents, contents', IF k.at \in Boundaries THEN 1 ELSE 0)
    BY <1>1, <1>2
  <2> QED
    BY <1>0, <1>2, <2>1, <2>2, GoesOn
<1>9. Apart(w, m)
  BY <1>8, KeepsApart
<1>10. WorkHolds'
  BY <1>0, <1>1, <1>2, <1>5, <1>6, <1>7, <1>8, <1>9, WorkerMoves DEF Apart
<1>11. JobsTell'
  BY <1>0, <1>1, <1>2, <1>7, TouchedTells, MotionParts, JobsStandBy
<1>12. \A r \in Renderers : Rests(renderer[r], renderer'[r], contents, contents', Inside, Inside')
  BY <1>0, <1>1, <1>2, TouchedTells DEF Rests
<1>13. RenderersTell'
  BY <1>0, <1>2, <1>7, <1>12, MotionParts, AllRenderersStandBy
<1> QED
  BY <1>10, <1>11, <1>13, MotionPartsNext

LEMMA StayTells ==
    ASSUME LineageInv, MotionInv, UNCHANGED <<contents, renderer, scoper, jobs>>,
           LogKept(ledger.log, ledger'.log), SameEvents(ops.log, ops'.log), disturbed' = disturbed,
           NEW w \in Workers, worker[w].at \in ReceiptPoints \cup RowPoints, NEW n \in Nat, NEW b \in BOOLEAN,
           NEW m, m = [worker[w] EXCEPT !.slot = n] \/ m = [worker[w] EXCEPT !.read = b],
           Stay(w, m),
           m.at = "borrow" /\ m.slot # 0 =>
               m.origin # 0 /\ m.slot \in DOMAIN ledger'.log /\ ledger'.log[m.slot].origin = m.origin
    PROVE  MotionInv'
<1> DEFINE k == worker[w]
<1>0. /\ LineageTypeOK /\ contents \in Stamps
      /\ worker \in [Workers -> WorkerFrames] /\ k \in WorkerFrames
      /\ WorkerTells(ledger.log, contents, ops.log, k) /\ ledger.log \in Seq(Receipts)
  BY WorkerKnown
<1>1. /\ m.at = k.at /\ m.origin = k.origin /\ m.borrow = k.borrow /\ m.touched = k.touched
  BY <1>0 DEF WorkerFrames
<1>2. worker'[w] = m /\ \A v \in Workers \ {w} : worker'[v] = worker[v]
  BY <1>0 DEF Stay
<1>3. k.at \notin {"idle", "bind_begin", "bind", "bind_return", "normal_end"}
  BY DEF ReceiptPoints, RowPoints
<1>4. \A t, kind : EventOf(ops'.log, t, kind) <=> EventOf(ops.log, t, kind)
  BY EventsKept
\* The frame with the slot it had tells of the new journals what it told of the old ones.
<1>5. WorkerTells(ledger'.log, contents, ops'.log, k)
  <2>1. StaysPut(k, k, contents, contents)
    BY <1>0, SameTicks DEF StaysPut
  <2> QED
    BY <1>0, <1>4, <2>1, WorkerStands
<1>6. Own(ops'.log, m) = Own(ops'.log, k)
  BY <1>1, <1>3 DEF Own
<1>7. WorkerTells(ledger'.log, contents, ops'.log, m)
  BY <1>1, <1>3, <1>5, <1>6 DEF WorkerTells
<1>8. Apart(w, m)
  BY <1>1, <1>3, KeepsApart DEF Over
<1>9. JobsTell'
  BY <1>0, JobsStill
<1> QED
  BY <1>2, <1>7, <1>8, <1>9, WorkerGoesAlone

LEMMA RowTells ==
    ASSUME LineageInv, MotionInv, NEW w \in Workers, RowReserve(w) \/ RowRead(w) \/ RowPublish(w)
    PROVE  MotionInv'
<1>0. /\ ledger' = ledger /\ ops' = ops /\ disturbed' = disturbed /\ worker[w].at \in RowPoints
      /\ UNCHANGED <<contents, renderer, scoper, jobs>>
  BY DEF RowReserve, RowRead, RowPublish
<1>1. /\ LogKept(ledger.log, ledger'.log) /\ SameEvents(ops.log, ops'.log)
      /\ worker[w].at \notin Boundaries \cup {"idle", "borrow"}
  BY <1>0, LogSame, EventsSame DEF RowPoints, Boundaries
<1>2. CASE Go(w, worker[w])
  BY <1>0, <1>1, <1>2, GoTells
<1>3. ASSUME NEW n \in Nat, Stay(w, [worker[w] EXCEPT !.slot = n])
      PROVE  MotionInv'
  <2> DEFINE m == [worker[w] EXCEPT !.slot = n]
  <2>1. m.at # "borrow"
    BY <1>1, WorkerPart DEF WorkerFrames
  <2> QED
    BY <1>0, <1>1, <1>3, <2>1, StayTells
<1>4. CASE Stay(w, [worker[w] EXCEPT !.read = TRUE])
  <2> DEFINE m == [worker[w] EXCEPT !.read = TRUE]
  <2>1. m.at # "borrow"
    BY <1>1, WorkerPart DEF WorkerFrames
  <2> QED
    BY <1>0, <1>1, <1>4, <2>1, StayTells
<1>5. Len(rows.log) + 1 \in Nat
  BY DEF LineageInv, LineageTypeOK
<1> QED
  BY <1>2, <1>3, <1>4, <1>5 DEF RowReserve, RowRead, RowPublish, RowFault

LEMMA MintReceiptTells ==
    ASSUME LineageInv, MotionInv, NEW w \in Workers, MintReceipt(w) PROVE MotionInv'
<1> DEFINE k == worker[w]
           parent == CASE k.at = "borrow" -> k.origin [] k.at = "query" -> k.borrow
                       [] k.at = "producer" -> k.query [] OTHER -> 0
           e == NewReceipt(Kind[k.at], parent, ledger.log[parent].origin)
           n == Len(ledger.log) + 1
           m == [worker[w] EXCEPT !.slot = n]
<1>0. /\ LineageTypeOK /\ k \in WorkerFrames /\ WorkerTells(ledger.log, contents, ops.log, k)
      /\ ledger.log \in Seq(Receipts) /\ ledger \in [log : Seq(Receipts), fault : BOOLEAN]
      /\ Len(ledger.log) \in Nat
  BY WorkerKnown
<1>1. k.at \in ReceiptPoints /\ k.slot = 0
      /\ UNCHANGED <<contents, ops, disturbed, jobs, renderer, scoper>>
  BY DEF MintReceipt
<1>2. /\ SameEvents(ops.log, ops'.log) /\ k.at \notin Boundaries \cup {"idle"}
  BY <1>1, EventsSame DEF ReceiptPoints, Boundaries
<1>3. CASE Go(w, k) /\ ledger'.log = ledger.log
  BY <1>1, <1>2, <1>3, GoTells
<1>4. CASE parent # 0 /\ ledger' = Reserved(ledger, e) /\ Stay(w, m)
  <2>1. /\ e.origin = ledger.log[parent].origin
    BY DEF NewReceipt
  <2>2. k.at = "borrow" => parent = k.origin
    OBVIOUS
  <2>3. m.at = k.at /\ m.slot = n /\ m.origin = k.origin
    BY <1>0 DEF WorkerFrames
  <2> HIDE DEF parent, e
  <2>4. ledger'.log = Append(ledger.log, e)
    BY <1>0, <1>4 DEF Reserved
  <2>5. LogKept(ledger.log, ledger'.log) /\ n \in DOMAIN ledger'.log /\ ledger'.log[n] = e
    BY <1>0, <2>4, LogAppended
  <2>6. m.at = "borrow" /\ m.slot # 0 =>
               m.origin # 0 /\ m.slot \in DOMAIN ledger'.log /\ ledger'.log[m.slot].origin = m.origin
    BY <1>0, <1>4, <2>1, <2>2, <2>3, <2>5 DEF WorkerTells, Root
  <2>7. n \in Nat
    BY <1>0
  <2> HIDE DEF n
  <2>8. m = [worker[w] EXCEPT !.slot = n]
    OBVIOUS
  <2>9. Stay(w, m)
    BY <1>4
  <2> HIDE DEF m
  <2> QED
    BY <1>1, <1>2, <2>5, <2>6, <2>7, <2>8, <2>9, StayTells
<1>5. Invalidated(ledger).log = ledger.log
  BY <1>0 DEF Invalidated
<1> QED
  BY <1>3, <1>4, <1>5 DEF MintReceipt

-----------------------------------------------------------------------------

\* No frame, event or disturbed borrow names a receipt that is not published.
LEMMA UnpublishedUnnamed ==
    ASSUME LineageInv, MotionInv, NEW t, ~ledger.log[t].published
    PROVE  /\ \A v \in Workers : worker[v].borrow # 0 => worker[v].borrow # t
           /\ \A kind : ~EventOf(ops.log, t, kind)
           /\ t # 0 => t \notin disturbed
<1>1. WorkHolds
  BY MotionParts
<1>2. \A v \in Workers : worker[v].borrow # 0 => Rooted(ledger.log, worker[v].borrow)
  BY <1>1 DEF WorkHolds, WorkersTell, WorkerTells
<1>3. \A i \in DOMAIN ops.log : Rooted(ledger.log, ops.log[i].borrow)
  BY <1>1 DEF WorkHolds, EventsNamed
<1>4. \A b \in disturbed \ {0} : Rooted(ledger.log, b)
  BY <1>1 DEF WorkHolds, DisturbedHold
<1> QED
  BY <1>2, <1>3, <1>4 DEF Rooted, EventOf

LEMMA PublishReceiptTells ==
    ASSUME LineageInv, MotionInv, NEW w \in Workers, PublishReceipt(w) PROVE MotionInv'
<1> DEFINE k == worker[w]
           s == k.slot
           rev == IF k.at = "producer" THEN contents ELSE 0
           e == [ledger.log[s] EXCEPT !.published = TRUE, !.revision = rev]
           b == IF k.at = "borrow" THEN s ELSE k.borrow
           bound == [k EXCEPT !.borrow = b,
                              !.query = IF k.at = "query" THEN k.slot ELSE @,
                              !.producer = IF k.at = "producer" THEN k.slot ELSE @]
<1>0. /\ LineageTypeOK /\ WorkHolds /\ k \in WorkerFrames /\ contents \in Stamps
      /\ WorkerTells(ledger.log, contents, ops.log, k)
      /\ ledger.log \in Seq(Receipts) /\ ledger \in [log : Seq(Receipts), fault : BOOLEAN]
      /\ worker \in [Workers -> WorkerFrames]
  BY WorkerKnown
<1>1. /\ k.at \in ReceiptPoints /\ s # 0
      /\ UNCHANGED <<contents, ops, disturbed, jobs, renderer, scoper>>
      /\ ledger' = Published(ledger, s, e)
  BY DEF PublishReceipt
<1>2. k.at \notin Boundaries \cup {"idle", "bind_begin", "bind", "bind_return", "normal_end"}
  BY <1>1 DEF ReceiptPoints, Boundaries
<1>3. s \in DOMAIN ledger.log /\ ~ledger.log[s].published
  <2>1. <<"worker", w>> \in Holders /\ LedgerHold[<<"worker", w>>] = s
    BY <1>1 DEF Holders, LedgerHold
  <2> QED
    BY <1>1, <2>1 DEF LineageInv, HeldApart, Unfinished
<1>4. ledger.log[s] \in Receipts
  BY <1>0, <1>3
<1>5. e.published /\ e.origin = ledger.log[s].origin
  BY <1>4 DEF Receipts
<1>6. /\ bound \in WorkerFrames /\ bound.at = k.at /\ bound.slot = s /\ bound.origin = k.origin
      /\ bound.borrow = b /\ bound.touched = k.touched
  BY <1>0 DEF WorkerFrames
<1>7. Go(w, bound)
  BY <1>0 DEF PublishReceipt, WorkerFrames
<1> HIDE DEF e, bound
<1>8. ledger'.log = [ledger.log EXCEPT ![s] = e]
  BY <1>0, <1>1 DEF Published
<1>9. LogKept(ledger.log, ledger'.log) /\ SameEvents(ops.log, ops'.log)
  BY <1>1, <1>3, <1>5, <1>8, LogRewritten, EventsSame
<1>10. s \in DOMAIN ledger'.log /\ ledger'.log[s] = e
  BY <1>3, <1>8
<1>11. ledger'.log \in Seq(Receipts)
  <2>1. LineageTypeOK'
    BY PublishReceiptKeeps DEF LineageKept, LineageInv
  <2> QED
    BY <2>1 DEF LineageTypeOK
<1>12. Ticks(contents, contents, 0) /\ Ticks(contents, contents, IF k.at \in Boundaries THEN 1 ELSE 0)
  BY <1>0, <1>2, SameTicks
<1>13. WorkerTells(ledger'.log, contents, ops.log, k)
  <2>1. StaysPut(k, k, contents, contents)
    BY <1>12 DEF StaysPut
  <2> QED
    BY <1>0, <1>9, <2>1, WorkerStands
<1>14. Own(ops.log, bound) = Own(ops.log, k)
  BY <1>2, <1>6 DEF Own
<1>15. b # 0 => /\ k.origin # 0 /\ Rooted(ledger'.log, b) /\ ledger'.log[b].origin = k.origin
                /\ ~EventOf(ops.log, b, "BIND_BEGIN") /\ ~EventOf(ops.log, b, "NORMAL_END")
  <2>1. CASE k.at = "borrow"
    <3>1. k.origin # 0 /\ ledger.log[s].origin = k.origin
      BY <1>0, <1>1, <2>1 DEF WorkerTells
    <3>2. Root(ledger'.log, k.origin)
      BY <1>13, <3>1 DEF WorkerTells
    <3>3. \A kind : ~EventOf(ops.log, s, kind)
      BY <1>3, UnpublishedUnnamed
    <3> QED
      BY <1>5, <1>10, <2>1, <3>1, <3>2, <3>3 DEF Rooted
  <2>2. CASE k.at # "borrow"
    BY <1>2, <1>13, <2>2 DEF WorkerTells
  <2> QED
    BY <2>1, <2>2
<1>16. WorkerTells(ledger'.log, contents, ops.log, bound)
  BY <1>2, <1>6, <1>13, <1>14, <1>15 DEF WorkerTells
<1>17. PICK m \in Continues(bound) : worker' = [worker EXCEPT ![w] = m]
  BY <1>7 DEF Go, GoIn
<1>18. worker'[w] = m /\ \A v \in Workers \ {w} : worker'[v] = worker[v]
  BY <1>0, <1>17
<1>19. /\ WorkerTells(ledger'.log, contents, ops.log, m)
       /\ m.borrow # 0 => m.borrow = b
  <2>1. bound.at # "idle" /\ Ticks(contents, contents, IF bound.at \in Boundaries THEN 1 ELSE 0)
    BY <1>2, <1>6, <1>12
  <2> QED
    BY <1>0, <1>6, <1>11, <1>16, <1>17, <2>1, GoesOn
<1>20. Apart(w, m)
  <2>1. CASE k.at = "borrow"
    <3>1. \A v \in Workers : worker[v].borrow # 0 => worker[v].borrow # s
      BY <1>3, UnpublishedUnnamed
    <3>2. s \notin disturbed
      BY <1>1, <1>3, UnpublishedUnnamed
    <3> QED
      BY <1>1, <1>19, <2>1, <3>1, <3>2 DEF Apart
  <2>2. CASE k.at # "borrow"
    BY <1>2, <1>19, <2>2, KeepsApart DEF Over
  <2> QED
    BY <2>1, <2>2
<1>21. JobsTell'
  BY <1>0, <1>1, <1>9, JobsStill
<1> QED
  BY <1>1, <1>9, <1>18, <1>19, <1>20, <1>21, WorkerGoesAlone

LEMMA OperationPublishTells ==
    ASSUME LineageInv, MotionInv, NEW w \in Workers, OperationPublish(w) PROVE MotionInv'
<1> DEFINE k == worker[w]
           e == [ops.log[k.slot] EXCEPT !.published = TRUE]
<1>0. ops \in [log : Seq(OpEvents), fault : BOOLEAN]
  BY WorkerKnown
<1>1. /\ k.at \in OperationPoints /\ k.slot # 0 /\ Go(w, k)
      /\ UNCHANGED <<contents, ledger, disturbed, jobs, renderer, scoper>>
      /\ ops' = Invalidated(ops) \/ ops' = Published(ops, k.slot, e)
  BY DEF OperationPublish
<1>2. k.at \notin Boundaries \cup {"idle"}
  BY <1>1 DEF OperationPoints, Boundaries
<1>3. ops.log[k.slot] \in OpEvents
  BY <1>1, WorkerPart
<1>4. e.borrow = ops.log[k.slot].borrow /\ e.kind = ops.log[k.slot].kind
      /\ e.revision = ops.log[k.slot].revision
  BY <1>3 DEF OpEvents
<1> HIDE DEF e
<1>5. ops'.log = ops.log \/ ops'.log = [ops.log EXCEPT ![k.slot] = e]
  BY <1>0, <1>1 DEF Invalidated, Published
<1>6. SameEvents(ops.log, ops'.log)
  BY <1>4, <1>5 DEF SameEvents
<1> QED
  BY <1>1, <1>2, <1>6, GoTells

\* The events of E with one more.
LEMMA EventsGrown ==
    ASSUME NEW E \in Seq(OpEvents), NEW e
    PROVE  /\ \A b, kind : EventOf(Append(E, e), b, kind)
                              <=> EventOf(E, b, kind) \/ (e.borrow = b /\ e.kind = kind)
           /\ \A i \in DOMAIN Append(E, e) :
                 \/ i \in DOMAIN E /\ Append(E, e)[i] = E[i]
                 \/ Append(E, e)[i] = e
<1> DEFINE F == Append(E, e)
<1>1. /\ DOMAIN F = 1 .. Len(E) + 1 /\ DOMAIN E = 1 .. Len(E) /\ Len(E) \in Nat
      /\ F[Len(E) + 1] = e /\ \A i \in 1 .. Len(E) : F[i] = E[i]
  OBVIOUS
<1> HIDE DEF F
<1>2. \A i \in DOMAIN F : (i \in DOMAIN E /\ F[i] = E[i]) \/ F[i] = e
  BY <1>1
<1>3. \A i \in DOMAIN E : i \in DOMAIN F /\ F[i] = E[i]
  BY <1>1
<1>4. \E i \in DOMAIN F : F[i] = e
  BY <1>1
<1>5. \A b, kind : EventOf(F, b, kind) <=> EventOf(E, b, kind) \/ (e.borrow = b /\ e.kind = kind)
  BY <1>2, <1>3, <1>4 DEF EventOf
<1> QED
  BY <1>2, <1>5 DEF F

LEMMA TellingKinds ==
    \A a \in OperationPoints : /\ Kind[a] = "BIND_BEGIN" <=> a = "bind_begin"
                               /\ Kind[a] = "NORMAL_END" <=> a = "normal_end"
BY DEF OperationPoints, Kind

\* An event is recorded.
LEMMA EventTells ==
    ASSUME LineageInv, MotionInv, NEW w \in Workers, worker[w].at \in OperationPoints,
           worker[w].slot = 0, worker[w].borrow # 0, contents # FAULT,
           NEW e, e.kind = Kind[worker[w].at], e.borrow = worker[w].borrow, e.revision = contents,
           ops' = Reserved(ops, e), Stay(w, [worker[w] EXCEPT !.slot = Len(ops.log) + 1]),
           UNCHANGED <<contents, ledger, jobs, renderer, scoper>>,
           disturbed' = disturbed \/ /\ worker[w].touched /\ worker[w].at = "normal_end"
                                     /\ disturbed' = disturbed \union {worker[w].borrow}
    PROVE  MotionInv'
<1> DEFINE k == worker[w]
           L == ledger.log
           E == ops.log
           F == ops'.log
           f == [k EXCEPT !.slot = Len(E) + 1]
<1>0. /\ LineageTypeOK /\ WorkHolds /\ contents \in Stamps
      /\ worker \in [Workers -> WorkerFrames] /\ k \in WorkerFrames
      /\ WorkerTells(L, contents, E, k) /\ L \in Seq(Receipts)
      /\ E \in Seq(OpEvents) /\ ops \in [log : Seq(OpEvents), fault : BOOLEAN] /\ Len(E) \in Nat
  BY WorkerKnown
<1>1. F = Append(E, e)
  BY <1>0 DEF Reserved
<1>2. /\ \A b, kind : EventOf(F, b, kind) <=> EventOf(E, b, kind) \/ (e.borrow = b /\ e.kind = kind)
      /\ \A i \in DOMAIN F : (i \in DOMAIN E /\ F[i] = E[i]) \/ F[i] = e
  BY <1>0, <1>1, EventsGrown
<1>3. /\ f.at = k.at /\ f.origin = k.origin /\ f.borrow = k.borrow /\ f.touched = k.touched
      /\ f.slot # 0
  BY <1>0 DEF WorkerFrames
<1>4. worker' = [worker EXCEPT ![w] = f]
  BY DEF Stay
<1> HIDE DEF f
<1>5. worker'[w] = f /\ \A v \in Workers \ {w} : worker'[v] = worker[v]
  BY <1>0, <1>4
<1>6. /\ e.kind = "BIND_BEGIN" <=> k.at = "bind_begin"
      /\ e.kind = "NORMAL_END" <=> k.at = "normal_end"
  BY TellingKinds
<1> HIDE DEF F
<1>7. Rooted(L, k.borrow) /\ L[k.borrow].origin = k.origin /\ k.origin # 0
  BY <1>0 DEF WorkerTells
<1>8. Own(F, f) = Own(E, k)
  BY <1>2, <1>3, <1>6 DEF Own
<1>9. WorkerTells(L, contents, F, f)
  <2>1. f.origin # 0 => Root(L, f.origin) /\ Past(L, contents, f.origin, Own(F, f) + Bit(f.touched))
    BY <1>0, <1>3, <1>8 DEF WorkerTells
  <2>2. EventOf(F, f.borrow, "BIND_BEGIN") =>
                \/ f.at = "bind_begin" /\ f.slot # 0
                \/ f.at \in {"bind", "bind_return", "normal_end"}
    BY <1>0, <1>2, <1>3, <1>6 DEF WorkerTells
  <2>3. EventOf(F, f.borrow, "NORMAL_END") => f.at = "normal_end" /\ f.slot # 0
    BY <1>0, <1>2, <1>3, <1>6 DEF WorkerTells
  <2>4. f.at # "idle" /\ f.at # "borrow"
    BY <1>3 DEF OperationPoints
  <2> QED
    BY <1>3, <1>7, <2>1, <2>2, <2>3, <2>4 DEF WorkerTells
<1>10. LogKept(L, L) /\ Ticks(contents, contents, 0)
  BY <1>0, LogSame, SameTicks
<1>11. \A v \in Workers \ {w} : worker[v].borrow # 0 => worker[v].borrow # k.borrow
  BY <1>0 DEF WorkHolds, BorrowsApart
<1>12. WorkersTell'
  <2> SUFFICES ASSUME NEW v \in Workers
               PROVE  WorkerTells(ledger'.log, contents', ops'.log, worker'[v])
    BY DEF WorkersTell
  <2>1. CASE v = w
    BY <1>5, <1>9, <2>1 DEF F
  <2>2. CASE v # w
    <3>1. WorkerTells(L, contents, E, worker[v])
      BY <1>0 DEF WorkHolds, WorkersTell
    <3>2. worker[v].borrow # 0 => \A kind \in {"BIND_BEGIN", "NORMAL_END"} :
             EventOf(F, worker[v].borrow, kind) <=> EventOf(E, worker[v].borrow, kind)
      BY <1>2, <1>11, <2>2
    <3>3. StaysPut(worker[v], worker[v], contents, contents)
      BY <1>10 DEF StaysPut
    <3>4. WorkerTells(L, contents, F, worker[v])
      BY <1>0, <1>10, <3>1, <3>2, <3>3, WorkerStands
    <3> QED
      BY <1>5, <2>2, <3>4 DEF F
  <2> QED
    BY <2>1, <2>2
<1>13. BorrowsApart'
  <2>1. \A v \in Workers : worker'[v].borrow = worker[v].borrow
    BY <1>3, <1>5
  <2> QED
    BY <1>0, <2>1 DEF WorkHolds, BorrowsApart
<1>14. EventsNamed'
  <2>1. \A i \in DOMAIN F : Rooted(L, F[i].borrow)
    BY <1>0, <1>2, <1>7 DEF WorkHolds, EventsNamed
  <2> QED
    BY <2>1 DEF EventsNamed, F
<1>15. ASSUME NEW b \in disturbed \ {0}
       PROVE  /\ Rooted(L, b) /\ Late(L, F, b)
              /\ \A v \in Workers : worker'[v].borrow = b => Over(worker'[v])
  <2>1. /\ Rooted(L, b) /\ Late(L, E, b)
        /\ \A v \in Workers : worker[v].borrow = b => Over(worker[v])
    BY <1>0 DEF WorkHolds, DisturbedHold
  <2>2. b # k.borrow
    BY <2>1 DEF Over
  <2>3. Late(L, F, b)
    BY <1>2, <2>1, <2>2 DEF Late
  <2>4. \A v \in Workers : worker'[v].borrow = b => Over(worker'[v])
    BY <1>3, <1>5, <2>1, <2>2
  <2> QED
    BY <2>1, <2>3, <2>4
<1>16. ASSUME k.touched, k.at = "normal_end"
       PROVE  /\ Late(L, F, k.borrow)
              /\ \A v \in Workers : worker'[v].borrow = k.borrow => Over(worker'[v])
  <2>1. \A v \in Workers : worker'[v].borrow = k.borrow => Over(worker'[v])
    BY <1>3, <1>5, <1>11, <1>16 DEF Over
  <2>2. ~EventOf(E, k.borrow, "NORMAL_END")
    BY <1>0 DEF WorkerTells
  <2>3. ASSUME NEW i \in DOMAIN F, F[i].borrow = k.borrow, F[i].kind = "NORMAL_END",
               EventOf(F, k.borrow, "BIND_BEGIN"), L[k.origin].entry # 0
        PROVE  F[i].revision > L[k.origin].entry + 3
    <3>1. F[i].revision = contents
      BY <1>2, <2>2, <2>3 DEF EventOf
    <3>2. EventOf(E, k.borrow, "BIND_BEGIN")
      BY <1>2, <1>6, <1>16, <2>3
    <3>3. Own(E, k) = 3 /\ Bit(k.touched) = 1
      BY <1>16, <3>2 DEF Own, Bit
    <3>4. Past(L, contents, k.origin, 4) /\ Root(L, k.origin)
      BY <1>0, <1>7, <3>3 DEF WorkerTells
    <3>5. L[k.origin].entry \in Nat
      BY <1>0, <3>4, RootEntry
    <3>6. contents >= L[k.origin].entry + 4
      BY <2>3, <3>4 DEF Past
    <3>7. contents \in Int
      BY <1>0 DEF Stamps, FAULT
    <3> QED
      BY <3>1, <3>5, <3>6, <3>7
  <2>4. Late(L, F, k.borrow)
    BY <1>7, <2>3 DEF Late
  <2> QED
    BY <2>1, <2>4
<1>17. DisturbedHold'
  <2>1. ASSUME NEW b \in disturbed' \ {0}
        PROVE  /\ Rooted(L, b) /\ Late(L, F, b)
               /\ \A v \in Workers : worker'[v].borrow = b => Over(worker'[v])
    <3>1. CASE b \in disturbed
      BY <1>15, <3>1
    <3>2. CASE b \notin disturbed
      BY <1>7, <1>16, <3>2
    <3> QED
      BY <3>1, <3>2
  <2> QED
    BY <2>1 DEF DisturbedHold, F
<1>18. JobsTell'
  BY <1>0, <1>10, JobsStill
<1>19. \A r \in Renderers : Rests(renderer[r], renderer'[r], contents, contents', Inside, Inside')
  BY <1>10 DEF Rests, Inside, InsideScope
<1>20. RenderersTell'
  BY <1>0, <1>10, <1>19, MotionParts, AllRenderersStandBy
<1> QED
  BY <1>12, <1>13, <1>14, <1>17, <1>18, <1>20, MotionPartsNext DEF WorkHolds

LEMMA OperationReserveTells ==
    ASSUME LineageInv, MotionInv, NEW w \in Workers, OperationReserve(w) PROVE MotionInv'
<1> DEFINE k == worker[w]
           e == [kind |-> Kind[k.at], borrow |-> k.borrow, ok |-> k.ok,
                 revision |-> contents, published |-> FALSE]
           bad == ledger.fault \/ contents = FAULT \/ ~CanReserve(ops, OperationCapacity)
<1>0. ops \in [log : Seq(OpEvents), fault : BOOLEAN]
  BY WorkerKnown
<1>1. /\ k.at \in OperationPoints /\ k.slot = 0
      /\ UNCHANGED <<contents, ledger, jobs, renderer, scoper>>
      /\ disturbed' = IF k.touched /\ k.at = "normal_end" THEN disturbed \union {k.borrow}
                                                          ELSE disturbed
  BY DEF OperationReserve
<1>2. k.at \notin Boundaries \cup {"idle"}
  BY <1>1 DEF OperationPoints, Boundaries
<1>3. CASE Go(w, k) /\ ops'.log = ops.log
  <2>1. SameEvents(ops.log, ops'.log)
    BY <1>3, EventsSame
  <2> QED
    BY <1>1, <1>2, <1>3, <2>1, GoTells
<1>4. CASE k.borrow # 0 /\ ~bad
  <2>1. ops' = Reserved(ops, e) /\ Stay(w, [worker[w] EXCEPT !.slot = Len(ops.log) + 1])
    BY <1>4 DEF OperationReserve
  <2>2. e.kind = Kind[k.at] /\ e.borrow = k.borrow /\ e.revision = contents
    OBVIOUS
  <2> HIDE DEF e
  <2> QED
    BY <1>1, <1>4, <2>1, <2>2, EventTells
<1>5. CASE k.borrow = 0 \/ bad
  <2>1. Go(w, k) /\ (ops' = ops \/ ops' = Invalidated(ops))
    BY <1>5 DEF OperationReserve
  <2>2. ops'.log = ops.log
    BY <1>0, <2>1 DEF Invalidated
  <2> QED
    BY <1>3, <2>1, <2>2
<1> QED
  BY <1>4, <1>5

-----------------------------------------------------------------------------
LEMMA MotionStarts == ASSUME LineageInit PROVE MotionInv
<1>1. /\ ledger.log = <<>> /\ ops.log = <<>> /\ jobs = <<>> /\ disturbed = {}
      /\ \A r \in Renderers : renderer[r] = IdleRenderer
      /\ \A w \in Workers : worker[w] = IdleWorker
  BY DEF LineageInit, EmptyJournal
<1>2. RenderersTell /\ WorkersTell /\ BorrowsApart
  BY <1>1 DEF RenderersTell, RendererTells, IdleRenderer, WorkersTell, WorkerTells, IdleWorker,
              BorrowsApart
<1>3. JobsTell /\ EventsNamed /\ DisturbedHold
  BY <1>1 DEF JobsTell, EventsNamed, DisturbedHold
<1> QED
  BY <1>2, <1>3 DEF MotionInv

LEMMA RendererTellsOn ==
    ASSUME LineageInv, CountInv, MotionInv, NEW r \in Renderers, RendererStep(r)
    PROVE  MotionInv'
BY EnterTells, CheckScopeTells, MintRootTells, PublishRootTells, EnqueueTells, LeaveTells
   DEF RendererStep

LEMMA WorkerTellsOn ==
    ASSUME LineageInv, MotionInv, NEW w \in Workers, WorkerStep(w)
    PROVE  MotionInv'
BY BorrowTells, MintReceiptTells, PublishReceiptTells, CrossTells, RowTells,
   OperationReserveTells, OperationPublishTells DEF WorkerStep

LEMMA MotionBox ==
    ASSUME LineageInv, CountInv, MotionInv, [LineageNext]_lineageVars PROVE MotionInv'
<1>1. CASE UNCHANGED lineageVars
  <2>1. LineageTypeOK /\ UNCHANGED <<contents, ledger, ops, disturbed, jobs, renderer, worker, scoper>>
    BY <1>1 DEF LineageInv, lineageVars
  <2>2. Inside => Inside'
    BY <2>1 DEF Inside, InsideScope
  <2> QED
    BY <2>1, <2>2, MotionRests
<1>2. ASSUME NEW r \in Renderers, RendererStep(r) PROVE MotionInv'
  BY <1>2, RendererTellsOn
<1>3. ASSUME NEW w \in Workers, WorkerStep(w) PROVE MotionInv'
  BY <1>3, WorkerTellsOn
<1>4. ASSUME NEW s \in Scopers, ScopeReserve(s) \/ ScoperStep(s) PROVE MotionInv'
  BY <1>4, ScoperTells
<1>5. CASE OtherBoundary \/ ExhaustLoop
  BY <1>5, EnvironmentTells
<1> QED
  BY <1>1, <1>2, <1>3, <1>4, <1>5 DEF LineageNext

(* How far the contents are past the entry of each rendering under way, who *)
(* has which borrow and what was written of it: no hook, stock routine or   *)
(* mishap falsifies any of it, nor the count of the scopes.                 *)
THEOREM MotionInvariant == LineageSpec => [](CountInv /\ MotionInv)
<1>1. LineageInit => CountInv /\ MotionInv
  BY CountStarts, MotionStarts
<1>2. LineageInv /\ CountInv /\ MotionInv /\ [LineageNext]_lineageVars => CountInv' /\ MotionInv'
  BY CountBox, MotionBox
<1> QED
  BY <1>1, <1>2, LineageInvariant, PTL DEF LineageSpec

(* CompleteIsUndisturbed: a borrow that decodes as complete was filled      *)
(* while no boundary but its own was crossed, for any number of renderers,  *)
(* workers and scopes. Its end would have been written past entry + 3.      *)
THEOREM CompleteAreUndisturbed == LineageSpec => []CompleteIsUndisturbed
<1>1. LineageInv /\ MotionInv => CompleteIsUndisturbed
  <2> SUFFICES ASSUME LineageInv, MotionInv, NEW b \in disturbed, Complete(LineageSnapshot, b)
               PROVE  FALSE
    BY DEF CompleteIsUndisturbed
  <2> DEFINE S == LineageSnapshot
             E == ops.log
             L == ledger.log
             es == OperationOf(S, b)
             places == {i \in DOMAIN E : E[i].borrow = b}
  <2>1. S.ops = ops /\ S.ledger = ledger
    BY DEF LineageSnapshot
  <2>2. L \in Seq(Receipts) /\ E \in Seq(OpEvents) /\ DOMAIN L = 1 .. Len(L)
    BY DEF LineageInv, LineageTypeOK
  <2>3. b \in DOMAIN L /\ OperationComplete(S, b) /\ FrontierMatches(S, b)
    BY <2>1 DEF Complete
  <2>4. b # 0
    BY <2>2, <2>3
  <2>5. Late(L, E, b)
    BY <2>4 DEF MotionInv, DisturbedHold
  <2>6. es = InOrder(E, places)
    BY <2>1 DEF OperationOf
  <2>7. /\ [i \in DOMAIN es |-> es[i].kind] = ExpectedKinds
        /\ \A i \in DOMAIN es : es[i].revision = es[1].revision + ExpectedSteps[i]
    BY <2>3 DEF OperationComplete
  <2>8. LET entry == L[L[b].origin].entry IN entry > 0 /\ entry = es[1].revision
    BY <2>1, <2>3 DEF FrontierMatches
  <2> HIDE DEF es
  <2>9. /\ 4 \in DOMAIN es /\ 6 \in DOMAIN es
        /\ es[4].kind = "BIND_BEGIN" /\ es[6].kind = "NORMAL_END"
        /\ es[6].revision = es[1].revision + 3
    <3>1. DOMAIN ExpectedKinds = 1 .. 6
      BY DEF ExpectedKinds
    <3>2. DOMAIN es = 1 .. 6
      BY <2>7, <3>1
    <3>3. ExpectedKinds[4] = "BIND_BEGIN" /\ ExpectedKinds[6] = "NORMAL_END" /\ ExpectedSteps[6] = 3
      BY DEF ExpectedKinds, ExpectedSteps
    <3> QED
      BY <2>7, <3>2, <3>3
  <2>10. \A n \in DOMAIN es : \E i \in places : es[n] = E[i]
    <3>1. places \subseteq DOMAIN E
      OBVIOUS
    <3> HIDE DEF places
    <3>2. \A n \in DOMAIN InOrder(E, places) : \E i \in places : InOrder(E, places)[n] = E[i]
      BY <2>2, <3>1, PickedInOrder
    <3> QED
      BY <2>6, <3>2
  <2>11. \A i \in places : i \in DOMAIN E /\ E[i].borrow = b
    OBVIOUS
  <2> HIDE DEF places
  <2>12. EventOf(E, b, "BIND_BEGIN")
    BY <2>9, <2>10, <2>11 DEF EventOf
  <2>13. es[6].revision > L[L[b].origin].entry + 3
    BY <2>5, <2>8, <2>9, <2>10, <2>11, <2>12 DEF Late
  <2>14. \A m \in DOMAIN L : L[m].entry \in Nat
    <3>1. \A m \in DOMAIN L : L[m] \in Receipts
      BY <2>2
    <3> QED
      BY <3>1 DEF Receipts
  <2>15. L[L[b].origin].entry \in Nat
    BY <2>4, <2>14 DEF MotionInv, DisturbedHold, Rooted, Root
  <2> QED
    BY <2>8, <2>9, <2>13, <2>15
<1> QED
  BY <1>1, LineageInvariant, MotionInvariant, PTL
=============================================================================
