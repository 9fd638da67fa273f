--------------------------- MODULE NativeRegistry ---------------------------
(***************************************************************************)
(* The native registry ring under its mutex R, with every observer, gate   *)
(* and capture that the bridge adds to it.  The stock code masks a failed   *)
(* acquisition and goes on: the gates stop registrations and deletions     *)
(* that have no witness of a raw zero, teardown and shutdown stay as they   *)
(* were.  A thread runs one invocation at a time; its record is the frame   *)
(* of that invocation, fresh at its start.                                  *)
(*                                                                         *)
(* External: the ring, the allocator, R (raw services of the imports) and   *)
(* the paint queue that mints owners.  A release by a thread that does not  *)
(* own R changes nothing.                                                   *)
(***************************************************************************)
EXTENDS RegistryHistory, SequencesExt

CONSTANTS Threads, Nodes, Engines, NoOne,
          MaxNodes,          \* ring nodes an audit walks (max_nodes)
          TicketLimit,       \* owners the paint queue can mint (ticket_limit)
          MaxInvocations,    \* bound: invocations begun
          MaxMishaps         \* bound: failing services and foreign callbacks

ASSUME RegistryAssumption == NoOne \notin Threads /\ MaxNodes \in Nat \ {0}

VARIABLES ring,        \* incarnations in link order
          born,        \* every incarnation ever linked: its node and engine
          holder,      \* the owner of R
          history, receipts, bindings, serial,
          thread,      \* frame of each thread's invocation
          exports,     \* records handed to callers
          audits,      \* answers of audit_identity
          begun, mishaps

vars == <<ring, born, holder, history, receipts, bindings, serial, thread, exports,
          audits, begun, mishaps>>
tables == <<history, receipts, bindings, serial>>

Captures == {"register", "construct", "birth"}      \* through the checked capture
Registrations == Captures \union {"native"}         \* "native": a stock constructor
Retirements == {"delete", "teardown", "shutdown"}
Readers == {"audit", "carry"}

Idle == [at |-> "idle", kind |-> "none", tag |-> "none", raw |-> "unset", node |-> 0,
         engine |-> 0, inc |-> 0, held |-> FALSE, token |-> 0, binding |-> 0, owner |-> 0,
         release |-> "unseen", bridge |-> "none", verdict |-> "none"]

Init ==
  /\ ring = <<>> /\ born = <<>> /\ holder = NoOne
  /\ history = EmptyHistory /\ receipts = <<>> /\ bindings = NoBindings /\ serial = 0
  /\ thread = [t \in Threads |-> Idle]
  /\ exports = {} /\ audits = {} /\ begun = 0 /\ mishaps = 0

Mishap == mishaps < MaxMishaps /\ mishaps' = mishaps + 1
Goes(t, k) == thread' = [thread EXCEPT ![t] = k]
Ends(t) == Goes(t, Idle)
Alive(inc) == inc \in Range(ring)

\* What a load of node+8 yields: a node that was unlinked and freed since
\* then may hold anything.
EngineWord(k) == IF Alive(k.inc) THEN {born[k.inc].engine} ELSE Engines \union {0}
Event(k, engine) == [node |-> k.node, engine |-> engine, inc |-> k.inc]

-----------------------------------------------------------------------------
(* The start of an invocation and the acquisition of R.                      *)

\* A hook arms the fresh frame when the selected lock callback is the pinned one.
Begins(t, frame) ==
  /\ thread[t].at = "idle" /\ begun < MaxInvocations /\ begun' = begun + 1
  /\ \E foreign \in BOOLEAN :
       /\ IF foreign THEN Mishap ELSE UNCHANGED mishaps
       /\ Goes(t, [frame EXCEPT !.at = "lock", !.tag = IF foreign THEN "none" ELSE "ARMED"])
  /\ UNCHANGED <<ring, born, holder, tables, exports, audits>>

BeginRegistration(t, kind) ==
  \E engine \in Engines :
    Begins(t, [Idle EXCEPT !.kind = kind, !.engine = engine,
                           !.bridge = IF kind = "construct" THEN "ENTERED" ELSE "none"])

BeginRetirement(t, kind) == Begins(t, [Idle EXCEPT !.kind = kind])

\* A reader presents a pair that a capture handed out.
BeginReader(t, kind) ==
  /\ thread[t].at = "idle" /\ begun < MaxInvocations /\ begun' = begun + 1
  /\ \E e \in {x \in exports : x.kind = "GCAP"} :
       Goes(t, [Idle EXCEPT !.at = "lock", !.kind = kind, !.tag = "ARMED",
                            !.binding = e.binding, !.owner = e.owner, !.engine = e.engine])
  /\ UNCHANGED <<ring, born, holder, tables, exports, audits, mishaps>>

\* The observers see the pinned callback only; what a foreign one does to R
\* is unknown.  A nonzero status may leave R owned.
Acquire(t) ==
  LET k == thread[t]
      Captured(status) == [k EXCEPT !.at = "gate", !.raw = status,
                                    !.tag = IF @ = "ARMED" THEN "CAPTURED" ELSE "none"]
  IN  /\ k.at = "lock"
      /\ \/ /\ holder = NoOne /\ holder' = t /\ Goes(t, Captured("zero"))
            /\ UNCHANGED mishaps
         \/ /\ Mishap
            /\ \E owned \in BOOLEAN : /\ owned => holder = NoOne
                                      /\ holder' = IF owned THEN t ELSE holder
            /\ IF k.kind \in Readers THEN Ends(t) ELSE Goes(t, Captured("error"))
      /\ UNCHANGED <<ring, born, tables, exports, audits, begun>>

\* Mutant: the gate admits whoever comes.
AdmittedAlways(k) == TRUE

\* The gates of registration and deletion: the witness of this invocation.
Admitted(k) == k.tag = "CAPTURED" /\ k.raw = "zero"

\* What an observer asks of its own frame before it observes.
Witnessed(k) == k.tag = "CAPTURED" /\ k.raw = "zero"

-----------------------------------------------------------------------------
(* Registration: gate, allocation, link, observation.                        *)

\* A refusal returns without an unlock.
RefuseRegistration(t) ==
  /\ thread[t].at = "gate" /\ thread[t].kind \in Registrations /\ ~Admitted(thread[t])
  /\ Ends(t)
  /\ UNCHANGED <<ring, born, holder, tables, exports, audits, begun, mishaps>>

Free(n) == /\ \A i \in DOMAIN ring : born[ring[i]].node # n
           /\ \A t \in Threads : thread[t].at = "link" => thread[t].node # n

Allocate(t) ==
  /\ thread[t].at = "gate" /\ thread[t].kind \in Registrations /\ Admitted(thread[t])
  /\ \E n \in Nodes : Free(n) /\ Goes(t, [thread[t] EXCEPT !.at = "link", !.node = n])
  /\ UNCHANGED <<ring, born, holder, tables, exports, audits, begun, mishaps>>

\* The stock code forgets the unlock when the allocation fails.
AllocationFails(t) ==
  /\ thread[t].at = "gate" /\ thread[t].kind \in Registrations /\ Admitted(thread[t])
  /\ Mishap /\ Ends(t)
  /\ UNCHANGED <<ring, born, holder, tables, exports, audits, begun>>

Link(t) ==
  LET k == thread[t]
  IN  /\ k.at = "link"
      /\ born' = Append(born, [node |-> k.node, engine |-> k.engine])
      /\ ring' = Append(ring, Len(born'))
      /\ Goes(t, [k EXCEPT !.at = "observe", !.inc = Len(born')])
      /\ UNCHANGED <<holder, tables, exports, audits, begun, mishaps>>

\* Mutant: the journal's refusals come before the birth callback.
BirthsOfReceipts(event) == IF Len(receipts) < Capacity THEN ObserveBirth(history, event) ELSE history

\* A birth is observed whatever the journal and the issuer will say.
Births(event) == ObserveBirth(history, event)

\* What the checked open_owner answers: an owner, a refusal or a raw error.
Issued(event, receipt, answer) ==
  IF ~Issues(bindings, receipt) THEN bindings
  ELSE CASE answer = "minted"  -> Bind(bindings, event, receipt, serial + 1)
         [] answer = "refused" -> bindings
         [] answer = "error"   -> Quarantine(bindings)

\* The sinks: the token goes to the frame of a birth capture, the pair to that
\* of any checked capture, when the observed engine is the one it registers.
BirthSink(k, engine, token) == IF k.kind = "birth" /\ engine = k.engine THEN token ELSE 0
Sink(k, engine, word) == IF k.kind \in Captures /\ engine = k.engine THEN word ELSE 0

\* The observer of the final link store.
Observe(t) ==
  LET k == thread[t]
      receipt == Len(receipts) + 1
  IN  /\ k.at = "observe"
      /\ \E engine \in EngineWord(k), answer \in {"minted", "refused", "error"} :
           LET event == Event(k, engine)
               bound == Issues(bindings, receipt) /\ answer = "minted"
           IN  IF Witnessed(k)
               THEN /\ answer = "minted" => serial < TicketLimit
                    /\ ~Issues(bindings, receipt) => answer = "refused"
                    /\ IF answer = "error" THEN Mishap ELSE UNCHANGED mishaps
                    /\ history' = Births(event)
                    /\ bindings' = Issued(event, receipt, answer)
                    /\ serial' = serial + (IF bound THEN 1 ELSE 0)
                    /\ receipts' = Receive(receipts, event)
                    /\ Goes(t, [k EXCEPT
                         !.at = "release", !.tag = "none", !.held = (holder = t),
                         !.token = BirthSink(k, engine, Token(history, history')),
                         !.binding = IF bound THEN Sink(k, engine, Len(bindings'.log)) ELSE 0,
                         !.owner = IF bound THEN Sink(k, engine, serial') ELSE 0])
               ELSE /\ answer = "refused"
                    /\ Goes(t, [k EXCEPT !.at = "release", !.tag = "none"])
                    /\ UNCHANGED <<tables, mishaps>>
      /\ UNCHANGED <<ring, born, holder, exports, audits, begun>>

-----------------------------------------------------------------------------
(* Deletion, teardown and shutdown.                                          *)

\* A refused deletion unwinds without an unlock, a name that is not found
\* goes to the release.
RefuseDeletion(t) ==
  /\ thread[t].at = "gate" /\ thread[t].kind = "delete" /\ ~Admitted(thread[t])
  /\ Ends(t)
  /\ UNCHANGED <<ring, born, holder, tables, exports, audits, begun, mishaps>>

NothingFound(t) ==
  /\ thread[t].at = "gate"
  /\ \/ thread[t].kind = "delete" /\ Admitted(thread[t])
     \/ thread[t].kind \in {"teardown", "shutdown"} /\ ring = <<>>
  /\ Goes(t, [thread[t] EXCEPT !.at = "release", !.tag = "none"])
  /\ UNCHANGED <<ring, born, holder, tables, exports, audits, begun, mishaps>>

\* The frontier before the first unlink.  Teardown takes the ring's first
\* node and keeps its witness for the next; a shutdown leaves its node.
Frontier(t) ==
  LET k == thread[t]
  IN  /\ k.at = "gate" /\ k.kind \in Retirements
      /\ k.kind = "delete" => Admitted(k)
      /\ \E i \in DOMAIN ring :
           LET chosen == [k EXCEPT !.inc = ring[i], !.node = born[ring[i]].node]
           IN  /\ k.kind = "teardown" => i = 1
               /\ history' = IF Witnessed(k)
                             THEN ObserveRetirement(history, Event(chosen, born[ring[i]].engine))
                             ELSE history
               /\ Goes(t, [chosen EXCEPT !.at = IF k.kind = "shutdown" THEN "release" ELSE "unlink",
                                         !.tag = IF k.kind = "teardown" THEN @ ELSE "none"])
      /\ UNCHANGED <<ring, born, holder, receipts, bindings, serial, exports, audits, begun,
                     mishaps>>

Unlink(t) ==
  LET k == thread[t]
  IN  /\ k.at = "unlink"
      /\ ring' = IF Alive(k.inc) THEN RemoveAt(ring, CHOOSE i \in DOMAIN ring : ring[i] = k.inc)
                 ELSE ring
      /\ Goes(t, [k EXCEPT !.at = IF k.kind = "teardown" THEN "gate" ELSE "release",
                           !.inc = 0, !.node = 0])
      /\ UNCHANGED <<born, holder, tables, exports, audits, begun, mishaps>>

-----------------------------------------------------------------------------
(* The readers: the identity audit and the carrier of a captured pair.       *)

\* Mutant: a walk that reaches its bound counts as done.
WalkNeverRefused == FALSE

\* The walk reads at most MaxNodes nodes; a longer ring is refused.
WalkRefused == Len(ring) > MaxNodes

Walked == {ring[i] : i \in {j \in DOMAIN ring : j <= MaxNodes}}

Identity(k) ==
  LET row  == bindings.log[k.binding]
      same == {inc \in Walked : born[inc].node = row.node}
  IN  IF bindings.quarantine \/ WalkRefused THEN "denied"
      ELSE IF same = {} THEN "NODE_ABSENT"
      ELSE IF \E inc \in same : born[inc].engine = k.engine THEN "MATCHING_FIELDS"
      ELSE "ENGINE_MISMATCH"

Audit(t) ==
  LET k == thread[t]
  IN  /\ k.at = "gate" /\ k.kind = "audit"
      /\ Goes(t, [k EXCEPT !.at = "release", !.verdict = Identity(k)])
      /\ UNCHANGED <<ring, born, holder, tables, exports, audits, begun, mishaps>>

\* The carrier publishes for the presented owner; a raw status of the paint
\* queue quarantines the bindings.
Carry(t) ==
  LET k == thread[t]
  IN  /\ k.at = "gate" /\ k.kind = "carry"
      /\ \/ bindings' = bindings /\ UNCHANGED mishaps
         \/ /\ ~bindings.quarantine
            /\ bindings.log[k.binding].owner = k.owner
            /\ bindings.log[k.binding].engine = k.engine
            /\ Mishap /\ bindings' = Quarantine(bindings)
      /\ Goes(t, [k EXCEPT !.at = "release"])
      /\ UNCHANGED <<ring, born, holder, history, receipts, serial, exports, audits, begun>>

-----------------------------------------------------------------------------
(* The release of R and what is handed out after it.                         *)

\* Whose release status is observed: the observers sit in the registrations'
\* frames, the readers call the raw service themselves.
Observes(k) == k.kind \in Registrations \union Readers

\* The release witness: the raw status of the pinned callback, nothing of a
\* foreign one.
Release(t) ==
  LET k == thread[t]
      Freed == IF holder = t THEN NoOne ELSE holder
      Seen(status) == IF Observes(k)
                      THEN Goes(t, [k EXCEPT !.at = "complete", !.release = status])
                      ELSE Ends(t)
  IN  /\ k.at = "release"
      /\ \/ holder' = Freed /\ Seen("zero") /\ UNCHANGED mishaps
         \/ /\ Mishap
            /\ holder' \in {holder, Freed}
            /\ \E status \in {"error", "unseen"} : Seen(status)
      /\ UNCHANGED <<ring, born, tables, exports, audits, begun>>

\* Mutant: a captured status is enough, whatever it says.
ReleasedSomehow(k) == k.release # "unseen"

Released(k) == k.release = "zero"

\* A registration hands out its pair, a birth capture its token; a constructor
\* capture also needs that the constructor registered its engine once.
RegistrationHands(k) == k.binding # 0
BirthHands(k) == k.token # 0
ConstructorHands(k) == k.binding # 0 /\ k.bridge = "ENTERED"

Handed(t, k) ==
  LET As(kind) == {[kind |-> kind, inc |-> k.inc, held |-> k.held, left |-> holder # t,
                    engine |-> k.engine, token |-> k.token, binding |-> k.binding,
                    owner |-> k.owner]}
  IN  IF ~Released(k) THEN {}
      ELSE CASE k.kind = "native"                           -> As("native")
             [] k.kind = "birth" /\ BirthHands(k)           -> As("BCAP")
             [] k.kind = "register" /\ RegistrationHands(k) -> As("GCAP")
             [] k.kind = "construct" /\ ConstructorHands(k) -> As("GCAP")
             [] OTHER                                       -> {}

Complete(t) ==
  /\ thread[t].at = "complete" /\ thread[t].kind \in Registrations
  /\ \E given \in IF thread[t].kind = "construct" THEN {{}, Handed(t, thread[t])}
                                                   ELSE {Handed(t, thread[t])} :
       exports' = exports \union given
  /\ Ends(t)
  /\ UNCHANGED <<ring, born, holder, tables, audits, begun, mishaps>>

\* The constructor registers again inside one capture: the capture is void.
RegisterAgain(t) ==
  /\ thread[t].at = "complete" /\ thread[t].kind = "construct" /\ begun < MaxInvocations
  /\ begun' = begun + 1
  /\ Goes(t, [Idle EXCEPT !.at = "lock", !.kind = "construct", !.tag = "ARMED",
                          !.engine = thread[t].engine, !.bridge = "INVALID"])
  /\ UNCHANGED <<ring, born, holder, tables, exports, audits, mishaps>>

Answer(t) ==
  LET k == thread[t]
  IN  /\ k.at = "complete" /\ k.kind \in Readers
      /\ audits' = IF k.kind = "audit" /\ k.release = "zero" /\ k.verdict # "denied"
                   THEN audits \union {[inc |-> bindings.log[k.binding].inc, says |-> k.verdict]}
                   ELSE audits
      /\ Ends(t)
      /\ UNCHANGED <<ring, born, holder, tables, exports, begun, mishaps>>

-----------------------------------------------------------------------------
Step(t) ==
  \/ \E kind \in Registrations : BeginRegistration(t, kind)
  \/ \E kind \in Retirements : BeginRetirement(t, kind)
  \/ \E kind \in Readers : BeginReader(t, kind)
  \/ Acquire(t)
  \/ RefuseRegistration(t) \/ Allocate(t) \/ AllocationFails(t) \/ Link(t) \/ Observe(t)
  \/ RefuseDeletion(t) \/ NothingFound(t) \/ Frontier(t) \/ Unlink(t)
  \/ Audit(t) \/ Carry(t) \/ Release(t) \/ Complete(t) \/ RegisterAgain(t) \/ Answer(t)

Next == \E t \in Threads : Step(t)

Spec == Init /\ [][Next]_vars

-----------------------------------------------------------------------------
\* While the history is healthy no node is in the ring unobserved: between its
\* link and the end of its registration's observer every incarnation gets its
\* row, although receipts run out, owners are refused, acquisitions fail and
\* teardown unlinks without the mutex.
BirthsAreObserved ==
  ~history.fault =>
    \A i \in DOMAIN ring :
      \/ \E t \in Threads : thread[t].at = "observe" /\ thread[t].inc = ring[i]
      \/ \E r \in Range(history.log) : r.inc = ring[i]

\* A retirement is booked on the birth of the same incarnation: an address
\* that was freed unobserved and used again never takes the older row's place.
RetirementsFindTheirBirth ==
  \A r \in Range(history.log) : r.retired \in {0, r.inc}

\* What a caller is handed was observed by its own invocation under the mutex,
\* which that invocation gave back; it names the row of its own incarnation,
\* and no two callers are handed the same row.
ExportsAreHonest ==
  /\ \A e \in exports :
       /\ e.held /\ e.left
       /\ e.kind = "BCAP" => history.log[e.token].inc = e.inc
       /\ e.kind = "GCAP" => /\ bindings.log[e.binding].inc = e.inc
                             /\ bindings.log[e.binding].owner = e.owner
  /\ \A e, f \in exports : e.kind = f.kind /\ e.kind # "native" /\ e # f => e.inc # f.inc

\* An incarnation that an audit reports absent is never in the ring again.
AbsentForGood ==
  \A a \in audits : a.says = "NODE_ABSENT" => ~Alive(a.inc)
=============================================================================
