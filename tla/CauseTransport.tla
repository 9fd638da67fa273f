--------------------------- MODULE CauseTransport ---------------------------
(***************************************************************************)
(* The action-link stage: hooks in four stock threads hand private tickets *)
(* on, from a playback notification through the action list, the paint     *)
(* list and the paint queue to the rendering it causes.  Each hook writes  *)
(* an event to one of six journals and leaves its ticket where the next    *)
(* hook will look: in a tail word of the list element, or in a word of the *)
(* stack frame.  Nothing is looked up by address, and stock code goes on   *)
(* whatever a hook finds.  Of a capture, one step validates, samples and   *)
(* reserves, and one rechecks and publishes.                               *)
(***************************************************************************)
EXTENDS Journal

CONSTANTS
    Nodes,              \* addresses of queue nodes; a freed one is used again
    Capacity,           \* slots of each journal
    RevisionLimit, ScopeLimit,
    MaxOccasions        \* bound: notifications, and whatever interferes

ASSUME TransportAssumption ==
    /\ Capacity \in [{"dispatch", "action", "birth", "transport", "renderer", "lineage"}
                        -> Nat \ {0}]
    /\ {RevisionLimit, ScopeLimit, MaxOccasions} \subseteq Nat

VARIABLES
    journals,   \* by name
    clock,      \* the contents revision, or FAULT
    scopes,     \* the packed word: issued and active scopes, or fault
    actions,    \* the worker's action list, with tail words
    paints,     \* the controller's paint list, with tail words
    queue,      \* the paint queue: addresses of nodes
    tail,       \* the tail word of a node, which outlives its owner
    behind,     \* history: what really is behind a node
    thread,     \* the four stock threads
    causes,     \* notifications so far
    mishaps     \* bound: what has interfered so far

vars == <<journals, clock, scopes, actions, paints, queue, tail, behind, thread,
          causes, mishaps>>

\* Where a thread goes from one hook or native step to the next.
Notifier == <<"idle", "DISPATCH", "SOURCE", "post">>
Worker   == <<"idle", "DELIVERY", "EXPLORER", "PAINT", "post_paint">>
Painter  == <<"idle", "PAINT_DELIVERY", "BIRTH", "BIRTH_LINK", "ENQUEUE_BEGIN", "allocate",
              "INSTALL", "append", "RETURN", "remove">>
Consumer == <<"idle", "BORROW", "HELPER", "CALLBACK", "OUTER", "enter", "ROOT",
              "RENDER", "free">>

Threads == {"notifier", "worker", "painter", "consumer"}
Route == [notifier |-> Notifier, worker |-> Worker, painter |-> Painter,
          consumer |-> Consumer]

\* What each hook writes: its journal, and the kind its parent must have.
ActionKinds == [SOURCE |-> "none", DELIVERY |-> "SOURCE", EXPLORER |-> "DELIVERY",
                PAINT |-> "EXPLORER", PAINT_DELIVERY |-> "PAINT",
                BIRTH_LINK |-> "PAINT_DELIVERY"]
BirthKinds == [BIRTH |-> "none", ENQUEUE_BEGIN |-> "BIRTH", RETURN |-> "ENQUEUE_BEGIN"]
TransportKinds == [INSTALL |-> "ENQUEUE_BEGIN", BORROW |-> "INSTALL", HELPER |-> "BORROW",
                   CALLBACK |-> "HELPER"]
RendererKinds == [OUTER |-> "CALLBACK", RENDER |-> "OUTER"]

JournalOf(kind) == CASE kind \in DOMAIN ActionKinds    -> "action"
                     [] kind \in DOMAIN BirthKinds     -> "birth"
                     [] kind \in DOMAIN TransportKinds -> "transport"
                     [] kind \in DOMAIN RendererKinds  -> "renderer"
                     [] kind = "DISPATCH"              -> "dispatch"
                     [] OTHER                          -> "lineage"

ParentOf(kind) == CASE kind \in DOMAIN ActionKinds    -> ActionKinds[kind]
                    [] kind \in DOMAIN BirthKinds     -> BirthKinds[kind]
                    [] kind \in DOMAIN TransportKinds -> TransportKinds[kind]
                    [] kind \in DOMAIN RendererKinds  -> RendererKinds[kind]
                    [] OTHER                          -> "none"

\* A thread between jobs.  cause and touched are history: the notification
\* it works for, and whether contents changed since the birth of its request.
Idle == [at |-> 1, slot |-> 0, token |-> 0, link |-> 0, root |-> 0, entry |-> 0,
         node |-> 0, cause |-> 0, touched |-> FALSE]

Init ==
    /\ journals = [j \in DOMAIN Capacity |-> EmptyJournal]
    /\ clock = 0 /\ scopes = [issued |-> 0, active |-> 0, fault |-> FALSE]
    /\ actions = <<>> /\ paints = <<>> /\ queue = <<>>
    /\ tail = [n \in Nodes |-> 0]
    /\ behind = [n \in Nodes |-> [cause |-> 0, touched |-> FALSE]]
    /\ thread = [t \in Threads |-> Idle]
    /\ causes = 0 /\ mishaps = 0

At(t) == Route[t][thread[t].at]
Onward(t, k) == [k EXCEPT !.at = (@ % Len(Route[t])) + 1, !.slot = 0]
Event(kind, i) == journals[JournalOf(kind)].log[i]
Record(t) == Event(At(t), thread[t].slot)
Charged == causes + mishaps < MaxOccasions /\ mishaps' = mishaps + 1

-----------------------------------------------------------------------------
(* capture: validation and association, by journal. *)

Clocked == clock # FAULT /\ ~scopes.fault
Healthy(js) == \A j \in js : ~journals[j].fault

\* validate: what the ticket names is published, of the kind, and the journals
\* of its whole ancestry still stand.
Names(kind, i) ==
    /\ i \in DOMAIN journals[JournalOf(kind)].log
    /\ Event(kind, i).published
    /\ Event(kind, i).kind = kind

ValidBirth(kind, i) == Healthy({"birth"}) /\ Names(kind, i)
ValidTransport(kind, i) == Healthy({"transport", "birth"}) /\ Names(kind, i)
ValidRenderer(kind, i) == Healthy({"renderer", "transport", "birth", "lineage"}) /\ Names(kind, i)
ValidAction(kind, i) == Healthy({"action"}) /\ Names(kind, i)

\* The dispatch observer has no parent and no clock.
DispatchBound == Healthy({"dispatch"})

ActionBound(k, kind) ==
    /\ Healthy({"action"})
    /\ kind = "SOURCE" \/ ValidAction(ActionKinds[kind], IF kind = "BIRTH_LINK" THEN k.link ELSE k.token)
    /\ kind = "BIRTH_LINK" => ValidBirth("BIRTH", k.token)

BirthBound(k, kind) ==
    /\ Healthy({"birth"}) /\ Clocked
    /\ kind = "BIRTH" \/ ValidBirth(BirthKinds[kind], k.token)

\* The node is the one the request was installed in.
TransportBound(k, kind) ==
    /\ Healthy({"transport", "birth"}) /\ Clocked
    /\ IF kind = "INSTALL"
       THEN ValidBirth("ENQUEUE_BEGIN", k.token)
       ELSE /\ ValidTransport(TransportKinds[kind], k.token)
            /\ Event(TransportKinds[kind], k.token).node = k.node

RendererBound(k, kind) ==
    /\ Healthy({"renderer", "transport", "lineage"}) /\ Clocked
    /\ IF kind = "OUTER"
       THEN ValidTransport("CALLBACK", k.token)
       ELSE /\ ValidRenderer("OUTER", k.token)
            /\ Names("ROOT", k.root)

Bound(k, kind) == CASE JournalOf(kind) = "action"    -> ActionBound(k, kind)
                    [] JournalOf(kind) = "birth"     -> BirthBound(k, kind)
                    [] JournalOf(kind) = "transport" -> TransportBound(k, kind)
                    [] JournalOf(kind) = "renderer"  -> RendererBound(k, kind)
                    [] JournalOf(kind) = "dispatch"  -> DispatchBound
                    [] OTHER                         -> Healthy({"lineage"})

\* A hook without the ticket it needs leaves everything alone.
Carries(k, kind) == CASE kind = "BIRTH_LINK" -> k.token # 0 /\ k.link # 0
                      [] kind = "RENDER"     -> k.token # 0 /\ k.root # 0
                      [] ParentOf(kind) = "none" -> TRUE
                      [] OTHER               -> k.token # 0

Parent(k, kind) == CASE kind = "BIRTH_LINK"        -> k.link
                     [] ParentOf(kind) = "none" -> 0
                     [] OTHER                   -> k.token

(* Mutant: the origin is taken for the parent. *)
OriginOfParent(k, kind, ticket) == IF ParentOf(kind) = "none" THEN ticket ELSE Parent(k, kind)

\* The origin is inherited; a root is its own.
Origin(k, kind, ticket) == IF ParentOf(kind) = "none" THEN ticket
                           ELSE Event(ParentOf(kind), Parent(k, kind)).origin

\* A request starts with its birth, disturbed if a scope is open around it.
Touches(k, kind) == IF kind = "BIRTH" THEN scopes.active > 0 ELSE k.touched

NewEvent(k, kind, ticket) ==
    [kind |-> kind, parent |-> Parent(k, kind), origin |-> Origin(k, kind, ticket),
     refer |-> CASE kind = "BIRTH_LINK" -> k.token [] kind = "RENDER" -> k.root [] OTHER -> 0,
     node |-> IF JournalOf(kind) = "transport" \/ kind = "RETURN" THEN k.node ELSE 0,
     revision |-> clock, issued |-> scopes.issued, active |-> scopes.active,
     entry |-> IF kind = "ROOT" THEN k.entry ELSE 0,
     published |-> FALSE, cause |-> k.cause, touched |-> Touches(k, kind)]

\* Where a hook leaves its result for the next one.
Left(k, kind, result) ==
    CASE kind = "PAINT_DELIVERY" -> [k EXCEPT !.link = result, !.token = 0]
      [] kind = "ROOT"           -> [k EXCEPT !.root = result]
      [] kind \in {"DISPATCH", "BIRTH_LINK", "RETURN", "RENDER", "INSTALL"} -> k
      [] OTHER                   -> [k EXCEPT !.token = result]

\* The node's tail word is the only result kept outside a stack frame.
Leave(t, kind, result) ==
    /\ thread' = [thread EXCEPT ![t] = Onward(t, Left(@, kind, result))]
    /\ tail' = IF kind = "INSTALL" THEN [tail EXCEPT ![thread[t].node] = result] ELSE tail

AtHook(t) == JournalOf(At(t)) # "lineage" \/ At(t) = "ROOT"

Reserve(t) ==
    LET k    == thread[t]
        kind == At(t)
        j    == JournalOf(kind)
        ticket == Len(journals[j].log) + 1
    IN  /\ AtHook(t) /\ k.slot = 0
        /\ IF ~Carries(k, kind)
           THEN /\ Leave(t, kind, 0)
                /\ UNCHANGED journals
           ELSE IF Bound(k, kind) /\ CanReserve(journals[j], Capacity[j])
           THEN /\ journals' = [journals EXCEPT ![j] = Reserved(@, NewEvent(k, kind, ticket))]
                /\ thread' = [thread EXCEPT ![t].slot = ticket, ![t].touched = Touches(k, kind)]
                /\ UNCHANGED tail
           ELSE /\ journals' = [journals EXCEPT ![j] = Invalidated(@)]
                /\ Leave(t, kind, 0)
        /\ UNCHANGED <<clock, scopes, actions, paints, queue, behind, causes, mishaps>>

\* What is checked again before the magic word is stored.
Stands(kind) ==
    CASE JournalOf(kind) = "birth"     -> Clocked /\ Healthy({"birth"})
      [] JournalOf(kind) = "transport" -> Clocked /\ Healthy({"birth", "transport"})
      [] JournalOf(kind) = "renderer"  -> Clocked /\ Healthy({"transport", "lineage", "renderer"})
      [] OTHER                         -> Healthy({JournalOf(kind)})

Publish(t) ==
    LET kind == At(t)
        j    == JournalOf(kind)
        i    == thread[t].slot
    IN  /\ i # 0
        /\ IF Stands(kind)
           THEN /\ journals' = [journals EXCEPT ![j] = Published(@, i, [@.log[i] EXCEPT !.published = TRUE])]
                /\ Leave(t, kind, i)
           ELSE /\ journals' = [journals EXCEPT ![j] = Invalidated(@)]
                /\ Leave(t, kind, 0)
        /\ UNCHANGED <<clock, scopes, actions, paints, queue, behind, causes, mishaps>>

\* A hook met in another context than the one it knows leaves no ticket.
Unmatched(t) ==
    /\ AtHook(t) /\ thread[t].slot = 0 /\ At(t) \notin {"ROOT", "RETURN"}
    /\ Charged
    /\ Leave(t, At(t), 0)
    /\ UNCHANGED <<journals, clock, scopes, actions, paints, queue, behind, causes>>

-----------------------------------------------------------------------------
(* The stock code between the hooks. *)

Notify ==
    /\ At("notifier") = "idle" /\ causes + mishaps < MaxOccasions
    /\ causes' = causes + 1
    /\ thread' = [thread EXCEPT !.notifier = Onward("notifier", [Idle EXCEPT !.cause = causes + 1])]
    /\ UNCHANGED <<journals, clock, scopes, actions, paints, queue, tail, behind, mishaps>>

Post ==
    /\ At("notifier") = "post"
    /\ actions' = Append(actions, [token |-> thread.notifier.token, cause |-> thread.notifier.cause])
    /\ thread' = [thread EXCEPT !.notifier = Idle]
    /\ UNCHANGED <<journals, clock, scopes, paints, queue, tail, behind, causes, mishaps>>

Deliver ==
    /\ At("worker") = "idle" /\ actions # <<>>
    /\ thread' = [thread EXCEPT !.worker = Onward("worker", [Idle EXCEPT
                     !.token = Head(actions).token, !.cause = Head(actions).cause])]
    /\ actions' = Tail(actions)
    /\ UNCHANGED <<journals, clock, scopes, paints, queue, tail, behind, causes, mishaps>>

PostPaint ==
    /\ At("worker") = "post_paint"
    /\ paints' = Append(paints, [token |-> thread.worker.token, cause |-> thread.worker.cause])
    /\ thread' = [thread EXCEPT !.worker = Idle]
    /\ UNCHANGED <<journals, clock, scopes, actions, queue, tail, behind, causes, mishaps>>

\* The getter copies the head under the list's lock and leaves it in place.
SelectPaint ==
    /\ At("painter") = "idle" /\ paints # <<>>
    /\ thread' = [thread EXCEPT !.painter = Onward("painter", [Idle EXCEPT
                     !.token = Head(paints).token, !.cause = Head(paints).cause])]
    /\ UNCHANGED <<journals, clock, scopes, actions, paints, queue, tail, behind, causes, mishaps>>

(* Mutant: the tail of a node is left as its last owner left it. *)
ClearedNever(n) == tail

\* Every node the shared allocator hands out has its tail word cleared.
Cleared(n) == [tail EXCEPT ![n] = 0]

FreeNodes == {n \in Nodes : /\ \A i \in DOMAIN queue : queue[i] # n
                            /\ \A t \in Threads : thread[t].node # n}

\* The tail word of a fresh node is cleared before the node is seen.
Allocate ==
    /\ At("painter") = "allocate"
    /\ \E n \in FreeNodes :
          /\ tail' = Cleared(n)
          /\ thread' = [thread EXCEPT !.painter = Onward("painter", [@ EXCEPT !.node = n])]
    /\ UNCHANGED <<journals, clock, scopes, actions, paints, queue, behind, causes, mishaps>>

AppendNode ==
    /\ At("painter") = "append"
    /\ queue' = Append(queue, thread.painter.node)
    /\ behind' = [behind EXCEPT ![thread.painter.node] =
                     [cause |-> thread.painter.cause, touched |-> thread.painter.touched]]
    /\ thread' = [thread EXCEPT !.painter = Onward("painter", @)]
    /\ UNCHANGED <<journals, clock, scopes, actions, paints, tail, causes, mishaps>>

\* What is removed is the head of now, whichever element was selected.
RemovePaint ==
    /\ At("painter") = "remove"
    /\ paints' = IF paints = <<>> THEN paints ELSE Tail(paints)
    /\ thread' = [thread EXCEPT !.painter = Idle]
    /\ UNCHANGED <<journals, clock, scopes, actions, queue, tail, behind, causes, mishaps>>

\* Another user of the same allocator appends a node of its own.
OtherProducer ==
    /\ Charged
    /\ \E n \in FreeNodes :
          /\ tail' = Cleared(n)
          /\ behind' = [behind EXCEPT ![n] = [cause |-> 0, touched |-> FALSE]]
          /\ queue' = Append(queue, n)
    /\ UNCHANGED <<journals, clock, scopes, actions, paints, thread, causes>>

\* A purge under another mutex than the getter's.
Purge ==
    /\ Charged
    /\ paints # <<>> /\ paints' = Tail(paints)
    /\ UNCHANGED <<journals, clock, scopes, actions, queue, tail, behind, thread, causes>>

BorrowNode ==
    /\ At("consumer") = "idle" /\ queue # <<>>
    /\ LET n == Head(queue) IN
       thread' = [thread EXCEPT !.consumer = Onward("consumer", [Idle EXCEPT
                     !.node = n, !.token = tail[n],
                     !.cause = behind[n].cause, !.touched = behind[n].touched])]
    /\ queue' = Tail(queue)
    /\ UNCHANGED <<journals, clock, scopes, actions, paints, tail, behind, causes, mishaps>>

FreeNode ==
    /\ At("consumer") = "free"
    /\ thread' = [thread EXCEPT !.consumer = Idle]
    /\ UNCHANGED <<journals, clock, scopes, actions, paints, queue, tail, behind, causes, mishaps>>

-----------------------------------------------------------------------------
(* The clock and the scopes. *)

Bumped == IF clock # FAULT /\ clock < RevisionLimit THEN clock + 1 ELSE FAULT

\* A change of contents disturbs every request under way but that of thread own.
TouchedThreads(own) == [t \in Threads |-> [thread[t] EXCEPT !.touched = @ \/ t # own]]
TouchedNodes == [n \in Nodes |-> [behind[n] EXCEPT !.touched = TRUE]]

\* The renderer's own entry, which a root is stamped with unless a scope is open.
EnterRenderer ==
    /\ At("consumer") = "enter"
    /\ clock' = Bumped
    /\ behind' = TouchedNodes
    /\ thread' = [TouchedThreads("consumer") EXCEPT !.consumer = Onward("consumer",
                     [@ EXCEPT !.entry = IF Bumped = FAULT \/ scopes.fault \/ scopes.active > 0
                                         THEN 0 ELSE Bumped])]
    /\ UNCHANGED <<journals, scopes, actions, paints, queue, tail, causes, mishaps>>

Boundary ==
    /\ Charged
    /\ clock' = Bumped
    /\ behind' = TouchedNodes /\ thread' = TouchedThreads("none")
    /\ UNCHANGED <<journals, scopes, actions, paints, queue, tail, causes>>

OpenScope ==
    /\ Charged
    /\ ~scopes.fault /\ scopes' = IF scopes.issued < ScopeLimit
                 THEN [scopes EXCEPT !.issued = @ + 1, !.active = @ + 1]
                 ELSE [scopes EXCEPT !.fault = TRUE]
    /\ behind' = TouchedNodes /\ thread' = TouchedThreads("none")
    /\ UNCHANGED <<journals, clock, actions, paints, queue, tail, causes>>

CloseScope ==
    /\ scopes.active > 0 /\ ~scopes.fault
    /\ scopes' = [scopes EXCEPT !.active = @ - 1]
    /\ UNCHANGED <<journals, clock, actions, paints, queue, tail, behind, thread, causes, mishaps>>

\* A loop of some call runs out of attempts and faults its journal.
LoseContention ==
    /\ Charged
    /\ \E j \in DOMAIN journals : journals' = [journals EXCEPT ![j] = Invalidated(@)]
    /\ UNCHANGED <<clock, scopes, actions, paints, queue, tail, behind, thread, causes>>

Native == \/ Notify \/ Post \/ Deliver \/ PostPaint \/ SelectPaint \/ Allocate \/ AppendNode
          \/ RemovePaint \/ OtherProducer \/ Purge \/ BorrowNode \/ FreeNode
          \/ EnterRenderer \/ Boundary \/ OpenScope \/ CloseScope \/ LoseContention

Next == Native \/ \E t \in Threads : Reserve(t) \/ Publish(t) \/ Unmatched(t)

Spec == Init /\ [][Next]_vars
=============================================================================
