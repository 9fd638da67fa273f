# Reveal: a verification development

The repository changes how the stock music player of the HiBy RS2 treats its
folder list: when playback moves on to another track, the list is scrolled by the
smallest amount that shows the row of that track, once, and only if nothing that
happened in between makes the movement wrong. Everything under `src/scripts` is
the machinery of that change: host models in Python that fix the behaviour, and
emitters of MIPS code that bring it into the firmware piece by piece.

This directory holds TLA+ models of that machinery, TLC runs that check them on
small instances and TLAPS proofs for all instances. Names of variables, actions
and helpers are those of the code; file names below are relative to `src/scripts`.

    tlc -workers 2 -config MCPaintQueue.cfg MCPaintQueue     a run
    tlapm PaintQueue_proofs.tla                              a proof module

## 1. Inventory

| Component | State | Operations | Met by |
|---|---|---|---|
| Mutation guard (`folderfollow_reveal_guard_mips.py`) | one aligned word: EMPTY, READY t, WRITER t, FAULT | `begin`, `finish`, `invalidate` with LL/SC | any native thread |
| Paint queue, host model (`folderfollow_reveal_paint_queue.py`) | owners, entries, active claim, serial, error, closed | `open_owner`, `enqueue`, `claim`, `complete`, `purge`, `retire`, `release_owner`, `close`, `uncertain` | producers, one consumer at a time, view teardown |
| Reveal model (`folderfollow_reveal_model.py`) | committed and candidate track, pending work with a wait budget | `minimal_reveal`, `observe`, `reset_baseline`, `cancel_pending`, `validate_action` | the coordinator |
| Geometry core (`folderfollow_reveal_mips.py`) | none | one leaf function over words | the native list view |
| Row publication (`folderfollow_reveal_publication.py`) | the active generation, one fill, the completed rows, a poison flag | `activate`, `begin`, `append`, `terminal`, `finish`, `lost_event` | the coordinator, twice: public and staging |
| Playback publication (`folderfollow_reveal_playback.py`) | revision, open ticket, published identity, error | `begin`, `update_begin`, `finish`, `update_finish`, `lost_event` | the coordinator |
| Reveal coordinator (`folderfollow_reveal_coordinator.py`) | the four above, the view, generation, change in progress, staged producer, input state, issued proposal, one serial | 17 events | views, row producers, playback, input |
| Native paint queue with owner retirement (`reveal_paint_retirement_mips.py`) | owner table, native list, serial, ACTIVE, ACTIVE_OWNER, CANCELLED, FAULT, CLOSED | eight entries under one mutex | producers, a renderer, view teardown |
| Dialog retention and factory admission (`reveal_dialog_retention_gate_mips.py`, `reveal_factory_admission_gate_mips.py`, `reveal_secondary_...`) | one word: READY, BUSY, QUARANTINED | enter and leave of four kinds of bodies, two error routes | every native thread that reaches the dialog |
| Deferred envelope and queue (`reveal_deferred_*_mips.py`) | a native FIFO of 68-byte records, a fault word | `pack`, `dispatch`, `enqueue`, `pop_dispatch` | producers, a later dispatch into the paint queue |
| Retained operations (`reveal_retained_operations_mips.py`) | BIND_STATE, FAULT, an append-only ledger of operations, a native FIFO, a cleanup intent word | `bind`, `enqueue`, `pop_dispatch`, `complete`, `close`, `quiescent`, `prepare_cleanup` | producers, a dispatcher, the renderer's acknowledgements, view teardown; it calls the paint queue |
| Registry observation (`reveal_registry_*_mips.py`) | the stock ring of engines, receipts, owner bindings, birth and retirement history, each with a fault | gates and observers in register, delete, teardown and shutdown; `bind`, `audit_identity`, `carry` | stock threads behind the registry mutex R, the paint queue that mints owners |
| Creation and birth capture (`reveal_creation_*`, `reveal_constructor_capture_*`, `reveal_birth_*`, `reveal_owner_carrier_*`) | one capture per invocation, a native FIFO of births behind a mutex T | capture, `enqueue`, `take`, comparison with the history | the registry observation |
| Clocks and journals (`reveal_contents_revision_mips.py`, `reveal_native_scope_mips.py`, `reveal_operation_journal_mips.py`, `folderfollow_reveal_lineage_mips.py`, `reveal_lineage_rows_mips.py`, `reveal_queue_birth_mips.py`, `reveal_*_transport_mips.py`, `reveal_action_link_mips.py`, `build_reveal_*_stage.py`) | a revision, a word of issued and active scopes, nine append-only journals, private words in list elements and stack frames | reserve, sample, recheck, publish; begin and end of a scope; handing a ticket on | hooks in the stock renderer, its worker, the notifier, the painter |
| Journal decoders (`decode_reveal_*.py`) | none | layered acceptance of a copied snapshot, chains of events, age of a request | a developer, after the fact |
| Dialog acquire and failure gates, failure gates (`reveal_dialog_acquire_gate_mips.py`, `reveal_dialog_failure_gate_mips.py`, `reveal_constructor_continuation_gate_mips.py`, `reveal_destructor_...`, `reveal_delete_release_...`, `reveal_explorer_failure_...`, `reveal_refresh_failure_...`, `reveal_refresh_wrapper_...`, `reveal_refresh_callback_...`) | saved return addresses and witness tags in stock frames | skip what follows a failed call, rewrite the return of the frame below | stock routines that ignore results; at the end the retention gate |
| Worker terminal tail and D960 guard, first paint handoff | none; one owner's queue | straight-line patches; the predecessor of the paint queue | stock code |
| Bridge assembler, builders, verifiers, older decoders, launchers, capture tools, static analysis | files | one-shot programs | a developer, the boot script |

### How they interact

The host layer is a tree: the coordinator owns two row publications (`public`
and `staging`), a playback publication and a reveal model, and everything
reaches them through its methods. Calls are synchronous; the concurrency is in
the order of the events, which come from four independent sources and carry
handles (view, change, fill, playback ticket, proposal) that may be stale when
they arrive. A proposal is handed out by `observe` and used by `consume`, and
anything may happen between the two.

The native layer is a set of fragments that share words in memory. The mutation
guard and the retention gate have no lock and rely on LL/SC; the paint queue, the
deferred and birth queues and the registry use a mutex whose services may
themselves fail, and a nonzero status says nothing about who owns it.
The geometry core is the host's `minimal_reveal` in word arithmetic. The native
paint queue is the host paint queue with owner generations that are never reused.
An engine that is registered gets a row of the history, a receipt and an owner of
the paint queue, in that order, under R; what the registering code is handed is
exported only after R was released. The failure gates have no memory of their own:
they meet in the stack of one thread, and its outermost failure in the retention
gate's word.

The diagnostic layer only watches. A hook samples, reserves a slot, rechecks and
publishes, and leaves the number of its event where the next hook of the same
rendering or request will look: in a register, a frame, a list element. The
decoders read a copy of the memory and must not believe more than that.

### What is hard, and what makes each component correct

- *Mutation guard.* Two begins that loaded one word; a finish that was delayed
  past a newer begin; an invalidate between load and store; contention without
  end. Correct: at most one mutation is open, the word tells which, no ticket
  twice, FAULT is final, calls return.
- *Paint queues.* Cancelling while the head is claimed; acknowledging twice or
  late; capacity and tickets at their limits; in the native queue, an append,
  removal or release that fails half-way. Correct: the claimed head is retained,
  revoked work is neither claimed nor reported as done, every entry leaves once
  and in order, a drained generation stays drained, and the queue never trips
  over its own consistency checks.
- *Coordinator and its parts.* Events between a proposal and its use; late
  events of a replaced producer; promotion of staged rows into the public
  collector; the serial exhausted in the middle of an event. Correct: what is
  issued is current, a playback publication is revealed at most once, public rows
  belong to the public generation, a disabled coordinator stays disabled.
- *Geometry core.* Signed and unsigned reads of one word, products beyond a
  word, off-by-one at the edges of the view. Correct: it agrees with
  `minimal_reveal` on every word, and that is the least movement.
- *Retention gate.* A release that races a quarantine; a close nested in a
  facade; attempts that run out with the claim held; a stock result that hides an
  error. Correct: it is a lock, never orphaned, never reopened, errors reported.

- *Failure gates.* A failure crosses up to five stock frames, each of which
  ignores the result of its call; stopping one frame too few frees or unlocks
  what is uncertain, one too many skips work that had no failure. Correct: exactly
  the frames reached through known calls stop, and a dialog left that way is never
  admitted again.
- *Retained operations.* Closing or cleaning up between the extraction of an
  operation and the publication of its row; a publication or acknowledgement whose
  answer is ambiguous or lost; two threads that clean up. Correct: a positive
  answer is final, no row is without an outstanding operation, one intent at most.
- *Registry and captures.* Addresses that are freed without an observed retirement
  and used again; deletions by threads that failed to acquire R; foreign lock
  callbacks; a history, receipts and owners that run out one by one. Correct: every
  node of the ring has its row, a retirement ends the birth of the same incarnation,
  a caller is handed what its own invocation saw, absent is final.
- *Record transport.* A raw error that leaves open whether the record was
  appended, a caller that tries again or copies its record, a removal that fails
  half-way, a carrier that denies what the queue has already removed. Correct: an
  attempt and a birth record arrive once, what was refused never does, and the one
  silent loss is that denial, which the code answers like an empty list.
- *Journals and decoders.* Contents that change between a sample and its
  publication; an end without a begin; queue nodes freed and used again with a stale
  ticket in them; journals that run full at different times. Correct: what decodes
  as complete was undisturbed, a parent is the true cause, what honest hooks write
  decodes, history is final, scopes drain.

The full list of hazards, each at its line with the properties that would catch
it going wrong, is in `PROJECT.json`.

## 2. Modules

| Module | What it is |
|---|---|
| `MutationBracket` | abstract: numbered mutations that open, close and fail |
| `MutationGuard`, `MCMutationGuard` | the guard, one action per access to the word; its proofs are in `RevealCoordinator_proofs`, whose coordinator implements the same bracket |
| `PaintQueue`, `MCPaintQueue`, `PaintQueue_proofs` | the host paint queue, one action per method |
| `RevealGeometry` | `minimal_reveal` and the geometry it works on |
| `RevealGeometryCore` | the emitted core beside it |
| `RevealTypes`, `RowPublication`, `PlaybackPublication`, `RevealModel` | the coordinator's values and parts, operators over records |
| `RevealCoordinator`, `MCRevealCoordinator`, `RevealCoordinator_proofs` | the coordinator, one action per public method, composing the parts; proofs of it, of the core and of the guard |
| `RetentionLock` | abstract: a lock that may be quarantined |
| `RetentionGate` | the gate's word, its nested bodies and error routes |
| `DialogUnwind`, `MCDialogUnwind`, `DialogUnwind_proofs` | the stock frames above the gate and the failures that unwind them; proofs of both |
| `PaintRetirement`, `MCPaintRetirement`, `PaintRetirement_proofs` | the native queue with failing services |
| `PaintContract`, `PaintRefinement` | abstract: a paint queue as one owner sees it; and the mapping by which the native queue implements it (the host queue's is in `PaintQueue_proofs`) |
| `RetainedOperations`, `MCRetainedOperations`, `RetainedOperations_proofs` | the ledger of outstanding operations, on top of `PaintContract` |
| `RegistryHistory` | history, receipts and bindings as values: what one observation does to them |
| `NativeRegistry`, `MCNativeRegistry`, `NativeRegistry_proofs` | the ring behind its mutex with gates, observers and captures |
| `RecordTransport`, `MCRecordTransport`, `RecordTransport_proofs` | births and envelopes on their way through a native list |
| `Journal` | one append-only journal as a value |
| `ScopedLineage` | the hooks of one rendering: lineage, rows, operations, scopes, the revision clock |
| `LineageDecoder`, `DecodedLineage`, `MCDecodedLineage` | its decoders, and what they may conclude |
| `CauseTransport` | the hooks that carry a request from a notification to the rendering it causes |
| `CauseDecoder`, `DecodedCause`, `MCDecodedCause` | its decoders, and what they may conclude |
| `Journals_proofs` | proofs of both journal families |

Composition: `RevealCoordinator` is built from the four modules of its parts.
`RetainedOperations` EXTENDS `PaintContract`, whose actions are the only way in
which it touches the rows, and `PaintRetirement` implements that contract, so the
two native modules meet in it without being checked together. `DialogUnwind`
EXTENDS `RetentionGate` and its error routes are that module's `ErrorRoute`.
`NativeRegistry` and `RecordTransport` share the tables of `RegistryHistory`: the
first says how rows come and go, the second what a record of a birth meets on its
way. The two journal families share `Journal`, and each is composed with its
decoders, which are operators over a snapshot of its variables.

### MutationGuard

The packed word is a record of its high bit and its ticket. `BeginLL`, `BeginSC`,
`FinishLL`, `FinishSC` and `FaultStore` are the accesses to it; the arithmetic
between two accesses belongs to the first. `link[p]` is the reservation of thread
p, lost with any store, and a store-conditional may fail while it stands
(`Retry`), as the architecture allows. A caller may hand `finish` any register
value: the tickets and one value above the limit stand for all.

### PaintQueue

The host lock serialises the methods, so each is an action. The list of entries
is a function from tickets to owners: it is appended to with rising tickets and
filtered, so the tickets give its order. `_cancel` is the operator `Cancel`,
shared by `purge`, `retire`, `close` and the terminal errors as in the code.
`using`, `claimed` and `outcome` are histories.

### RevealGeometry and RevealGeometryCore

`MinimalReveal` is the host's function on integers. The core works on unsigned
words of `2 * (IntMax + 1)` values: `Add`, `Sub`, `Lo`, `Hi` wrap as addu, subu
and multu do, and `Signed` is what a signed branch sees. The core is not installed
yet, so the view around it is made up to reach every scroll position and every
measured word.

### RevealCoordinator

`co` is the coordinator as one record and `Change`, `Disable`, `Baseline`,
`PoisonStaging`, `Promote` are its private methods as operators from record to
record, so that an action is the whole method with the calls it makes, in their
order. The publications and the model are operators in modules of their own. A
producer's numbers are reduced to whether they confirm the collector's count.
Handles are named by the serial they were issued under. Calls with stale handles
stutter where the code ignores them; where they have an effect the constant
`Stale` supplies one. `undisturbed`, `proposals` and `reveals` are histories.

Checking it showed that `playback_fence`, which `_playback_finished` compares with
the serial, is a second line of defence: every event that moves the serial also
cancels the pending work, and the properties hold without the comparison.

### RetentionGate

Every access to the word is an action, as in the guard. `frames[p]` is the stack
of admitted bodies of a thread; a frame says whether its claim is its own or
borrowed and what it will return. Native code between accesses may call any
guarded entry again (and is refused, unless it is the close of a facade) and may
meet an error route at any point. A facade's normal tail runs into stock code
that clears the result, which is why `facade_leave` takes any word but BUSY for a
fault: `masked` records what that stock code overwrote.

### DialogUnwind

`calls[p]` is the stack of stock frames of a thread, innermost last; `ra` says
whether a saved return address is the one a helper expects (`known`), one it has
rewritten (`abort`) or any other; `at` where the frame goes on. A frame is `doomed`
as soon as a failure is on its way to it through known calls, and `strayed`
collects every frame that went on all the same, or stopped without being doomed.
The frames are private to their thread, so a helper that touches nothing shared is
one action, and `LeavesRetained` rewrites the return of a dialog in the step that
stores QUARANTINED. Assumed: stock frames nest in the orders of the audited call
chains; a guarded entry that is called from inside these frames is refused or
belongs to another thread; the image is the one in which the retention gate
replaces the release that the dialog's failure gate attempted itself; the second
constructor gate, which has no explorer helper above it, is a constructor called
from other code.

### PaintRetirement

An entry acquires, runs its body, and releases. The body reads FAULT once for its
decision and nothing but FAULT is ever stored without the mutex, so the body is
one action; the release, its failure, and the store of FAULT after a failed
release in the unchecked build are actions of their own, with other threads in
between. The mutex may fail to acquire, or be stuck, the list may fail on append,
read and removal, at any row. Disjuncts that only a broken queue could take (the
entry checks) are kept as `Consistent`, `ListFits`, `ActiveBound`, `Selected`, and
`FaultsHaveCause` says that none of them ever bites. `checked` chooses the build
at the start. The engine word of owners and rows is left out: producers must
match it, and a mismatch is a denial. A faulting append may or may not have copied
its row, and a faulting removal may or may not have removed the head.

### PaintContract and PaintRefinement

For one owner generation the queue is its rows, the claim among them, the
tombstone, the fault and the serial. `PaintRefinement` maps the queue to that for
an arbitrary owner `Watched`: a successful body is the action of its name, another
owner's ticket is `Mint`, and every exit to the fault handler, or the late store of
FAULT, is `Break`, which allows whatever was done half.

### RetainedOperations

An operation goes from reserved over queued, extracted, published and acking to
done, and its token is never used again. The ledger's mutex is released around
every call into the paint queue, so `pop_dispatch`, `complete`, `quiescent` and
`prepare_cleanup` are chains of steps: `pc` says where a call is, `next` where it
goes after its release, and `Returns` is the common tail. A body under the mutex is
one action together with `validate_locked`, which every entry runs after acquiring;
`Refused` is a body that changes nothing. The list, the mutex and the paint queue
may fail at every step, and a raw status ends the call where it is. `quiet` and
`exported` record what callers were told.

The envelope's dispatch and the owner carrier appear as the call `Dispatch`, which
answers with a nonce, an ordinary refusal, or a raw status after which a row may
be in the queue that the ledger never learns of. `PaintIsAccounted` is about those.

### RegistryHistory and NativeRegistry

A thread runs one invocation at a time and its record is the fresh frame the code
builds for it: the witness tag, the raw status, the sinks of a capture. `inc`, the
incarnation of a native node, is a history variable that no word of the code tells;
the properties compare what the code concluded from addresses with it. The captures
of registrations, constructors and births are kinds of the same invocation, as they
are wrappers around the same stock call. Faithful to the stock code are a masked
acquisition after which teardown and shutdown go on, the missing unlock when an
allocation fails, and a node that may be freed between its link and the load of its
engine (`EngineWord`). Assumed: a release by a thread that does not own R changes
nothing; a nonzero acquisition may have taken it; a foreign lock callback is not
observed and may do either. One invocation of shutdown retires one node. Faults that
only corrupt memory can raise (row-by-row schema checks) are left out.

`RetirementsFindTheirBirth` is a property of the composition. The lifecycle module by
itself warns (`reveal_registry_lifecycle_mips.py:19-21`) that a deletion nobody observed
and a rebirth at its address can make a later retirement select the wrong birth. The
model composes it with the acquire gate (`Admitted`), by which an invocation whose
acquisition failed cannot delete or free a node unobserved; the run's mutant,
`AdmittedAlways`, takes the gate away and finds what the docstring warns of.

### RecordTransport

The queue of births and the queue of envelopes are the same emitter in substance
and a behaviour follows one of them, chosen by `kind` at the start; what differs is
when the source record is spent (`Spend`) and what the consumer does with its copy
(`Compare` under R, `Dispatch` into the carrier). After a raw error the thread
touches nothing but its frame (`Uncertain`), the caller is told `raw`, and it may
present its record again. Neither queue recognizes duplicates, and their docstrings
say so: the owner of a birth record may copy it (`Copy`; `born` keeps the birth that
a record describes), and an envelope that is presented again is another attempt. Such
copies may arrive again; DeliveredOnce is about one attempt and one record object.
`pop_dispatch` returns the carrier's pair unchanged after the row was removed
(`reveal_deferred_queue_mips.py:303-308`), and `Dispatch` has the carrier's four ends:

- `Publishes`: the publication took the payload.
- `Denies`: a binding that does not match, or a publication that refuses, as for a
  retired owner or a full paint queue, gives (0,0), and so does a binding table
  that contradicts itself, which also latches the carrier's quarantine. An empty
  list gives (0,0) too: the consumer cannot tell that an envelope is gone. `denied`
  remembers these; it is no word of the code.
- `MeetsQuarantine`: the latched word gives the status kept with it, or (0,0) if
  there is none.
- `CarrierFails`: a raw status of its lock, of its unlock or of the publication.

`lost` has the attempts whose consumer was told a raw status, and nothing else.

### Journal, ScopedLineage, LineageDecoder, DecodedLineage

A journal is a log whose records are reserved and then published; the LL/SC loop of
a reservation is one step, the samples before it and the publication after it are
others. `renderer`, `worker` and `scoper` are the stock threads with the words that
their hooks keep in frames and list elements. `disturbed` remembers the borrows
whose operation ended normally although, since the entry of their renderer, a reset
or reconcile or another instrumented boundary moved the revision; the decoder has to
find out from the copy alone. The decoders state themselves that a copy need not be
coherent; the properties are about coherent copies.

### CauseTransport, CauseDecoder, DecodedCause

Four threads, six journals, two lists and the paint queue. `tail[n]` is the private
word of the queue node at address n and outlives its owner, as the allocator does
not clear it; `behind[n]` is the request that is really behind the node. `cause` in
an event is a history: the notification the step was really caused by. Interference
is a contents change or a scope of another routine, another user of the queue's
allocator, a purge of the paint list under a different mutex, a call that meets no
hook's frame, a loop that loses its contention and faults a journal.

## 3. Runs

| Run | Properties | What it shows |
|---|---|---|
| `mutation_guard` | BracketSpec, CallsReturn | three threads, instruction by instruction, with lost and spuriously failing reservations, implement the abstract bracket, and every call returns |
| `paint_queue` | HeadRetained, RevokedWorkLeaves, OutcomesAreEarned | whatever the order of producers, purges, retirements and acknowledgements |
| `geometry_core` | CoreAgrees, RevealsMinimally | all combinations of four-bit words |
| `reveal_coordinator` | IssuedIsCurrent, RowsFollowGeneration, PromotionNeverFails, PlaybackBrackets | every event with every kind of wrong argument, until the serial runs out. The bracket is about overlap: its `Publish` names no ticket, so it does not show that a finish with the ticket of an older mutation is refused |
| `reveal_promoted` | OneRevealPerPublication | well-formed events only, but two serials deeper: reveals of promoted rows |
| `retention_gate` | BusyHasOwner, ErrorsAreReported, LockSpec, StopsTheWholeChain, RetainedIsQuarantined | two threads in nested bodies with dialogs, explorers and what they call: the lock with quarantine, and failures that stop exactly the frames they reach |
| `paint_retirement` | FaultsHaveCause, LostClaimsAreFaults, DrainedForGood, OutcomesAreEarned, ImplementsContract | two threads with services that fail at any call, in both builds; what was told to be drained stays so |
| `retained_operations` | FaultsHaveCause, QuiescentIsQuiet, PaintIsAccounted, OneCleanupIntent | two threads in all entries of the ledger with failing services: what is quiescent stays so, every row is accounted for, at most one cleanup intent is exported |
| `registry` | BirthsAreObserved, RetirementsFindTheirBirth, ExportsAreHonest, AbsentForGood | two threads register, delete, tear down, shut down, capture and audit, with failing services and foreign callbacks |
| `record_transport` | DeliveredOnce, RefusedIsNeverDelivered, OnlyDenialsAreSilent | senders that try again or copy, and consumers, with failures of the list, of both mutexes and of the carrier: what arrives twice, and what is lost in silence, is no more than the code admits |
| `lineage` | CompleteIsUndisturbed, ActiveCountsScopes, HistoryIsFinal, ScopesDrain | a rendering, its worker and a contents routine at every interleaving of their accesses |
| `transport` | TrueCause, HonestDecodes, UnrejectedIsUndisturbed | requests through reused nodes, with interference |

The type invariants and the properties OneOpenMutation, WordTellsTheTruth,
TicketsAreNew, FaultIsFinal, ClaimsInOrder and LeavesOnce are proved for all
instances (section 4) and no longer part of a run.

Every property has a mutant in `PROJECT.json`: a definition of the model changed
the way a plausible mistake in the code would change it (the operators commented
`Mutant:` in the modules), under which the run finds the property violated.

### Bounds

- `mutation_guard`: 3 threads, because a third must break a reservation while two
  hold one; 2 tickets, so a delayed finish meets a newer begin and the limit is
  met; 2 attempts, so one is retried and the last one runs out.
- `paint_queue`: 2 names, 2 slots, 6 tickets: two generations of a name, full
  tables, a released slot used again, tickets that run out in every call.
- `geometry_core`: IntMax 7 makes words of four bits; the core has no case that
  depends on the width, and the proof covers every width.
- `reveal_coordinator`: 4 serials reach a view, a playback change, an interaction
  and exhaustion; 2 tracks of one folder and a foreign folder; 2 rows, of which
  one is in view. `reveal_promoted` leaves wrong inputs out to afford 6 serials,
  which a reveal of promoted rows needs.
- `retention_gate`: 2 threads (one in a body or a dialog, one entering or in an
  error route), 2 attempts, 6 stock frames in all: one thread can stand in the full
  chain of five while the other has a dialog, or both in shorter ones. A million
  states; the proofs cover every number of threads and frames.
- `paint_retirement`: 2 owners, 2 rows, 5 tickets: a row behind a claimed row of
  another owner, a publish after a retirement, exhaustion. A thread is only its
  place before a release, so two are enough for one to run while the other is
  about to release or to latch. Its deadlock check is off: a failed service may
  keep the mutex, and then every later call waits for ever, as on the device.
  The owner it watches is the first one opened.
- `retained_operations`: 3 operations, so that one is outstanding or done while
  another is listed and a third under way; a FIFO of 2, full before the ledger is;
  2 threads, one between two bodies of its call while the other closes, fails or
  cleans up; 2 tickets, either of which another owner may take. Deadlock is off
  for the same reason as above.
- `registry`: 2 threads, 2 addresses and 2 rows of every table, so that an address
  is used again and each table fills up before or after another; 4 invocations,
  which a birth, an unobserved retirement, a second birth at its address and a
  reader of either need; 2 mishaps; an audit that walks 1 node meets the longer
  ring. Deadlock is off as R may be kept.
- `record_transport`: 2 threads, 2 rows of the history at one address, so that a
  second birth follows a retirement, one copy, a list of 2, 3 attempts and
  3 extractions (a retry of each kind, a full list, an empty one), 2 mishaps.
- `lineage`: one thread of each sort, one rendering with one job and one row, one
  scope and one mishap; a revision of 6, as the operation takes 4 and the scope 2
  more; ledger, rows and operations hold exactly what that rendering writes, and a
  second scope faults its word: an end that repeats or a claim that is lost is met
  only through that fault, and any number of open scopes is ScopesAreCounted. Two million states.
- `transport`: two nodes, and two occasions, each a notification or an
  interference: two requests may be under way, or one with whatever disturbs it; room
  in the journals for one request from end to end and part of a second.
Symmetry is used for names, threads and tracks, only in runs without liveness
properties.

### Fairness

`mutation_guard` and `lineage` assume some. In the first, `FairSpec` has weak
fairness of each thread's steps inside a routine: the scheduler runs a thread which
is not blocked, and these routines never block. Nothing makes a thread call.
Spurious failures of a store-conditional may go on for ever; `CallsReturn` holds
because the code counts its attempts. In the second, `FairSpec` has weak fairness of
`ScoperStep`, a contents routine that has begun: it waits for nothing between the
hook at its entry and the one at its return. The other components promise no
progress: the queue waits for its consumer for ever by design
(`folderfollow_reveal_paint_queue.py:141`), a mutex may be kept by a failed
service, and the coordinator only reacts.

## 4. Proofs

Theorems hold for all values of the constants under the assumptions that the
modules name: limits, capacities and attempts are positive; the sentinels `NoOne`,
`"free"` and `"stuck"` are no threads; `None` is no value of the host
(`NoneAssumption`), and what callers pass to it is of its type (`InputAssumption`).
Nothing is assumed of the numbers of threads, owners, nodes, records or mishaps.

- `PaintQueue_proofs`. The three invariants support one another, with
  `ClaimedFirst` (what was claimed is in front of all that is pending) for the order of
  claims. Capacity needs the cardinality facts of the library.
  `QueueImplementsContract`: to each of its owners the host queue keeps `PaintContract`,
  the contract the native queue implements too. `Watched` is any value; the tombstone
  has to outlive the owner's record, which `release_owner` deletes, so the mapping reads
  it off the tickets: one that was issued and is neither an owner's nor an entry's was a
  released owner's. That needs `TicketsStayApart` (owners and entries draw from one
  counter). An exhausted counter and `uncertain` are `Break`, `close` is `Retire`.
- `RevealCoordinator_proofs`. `RInv` has two halves. `CInv` says of the coordinator's
  record what its parts promise each other: a fill belongs to a begun view and its rows
  differ, the public collector's counters stay behind the serial, the newest
  revision is the ticket in force, work of the model that can still lead to a
  proposal is about the folder in view. `Histories` ties `undisturbed`, `proposals`
  and `reveals` to it: whatever can still lead to a proposal is of an undisturbed
  mutation that was not proposed for, and a proposal in force is what `consume` would
  find. A method
  is a composition of a dozen helpers, so each helper has one lemma about the fields
  it writes and an action's proof only composes them. `Promote` replays the staged
  rows in a recursive function; that it never fails is shown by the least row at
  which it would (`Replay`). From `RInv` follow IssuedIsCurrent, RowsFollowGeneration,
  PromotionNeverFails, OneRevealPerPublication and, step by step, that playback
  publications implement `MutationBracket`. The second part is the emitted core:
  `CoreComputesMinimalReveal` (no operation of an accepted call wraps, hence the words
  equal the integers; where the core refuses, so does the host) and
  `RevealsMinimallyAlways`, by the three positions of a row. `CoreComputesProposals`
  joins the parts: whenever a movement is issued and the list fits into words, the
  core computes the very scroll position the host proposed. The third part is the
  mutation guard, the other implementation of `MutationBracket`. `GuardInv` adds to
  its invariants what a standing reservation and the registers tell: the word is still
  the one loaded, so the ticket to be stored is the next one, or the open one. Without
  it a store-conditional could store anything. TicketsAreNew, FaultIsFinal and the
  refinement follow step by step.
- `DialogUnwind_proofs`, first the gate. `IInv` describes the shapes of frame stacks
  (nothing, one claim, or a facade with a borrowing close), what a tail has left, what
  a reservation tells, exclusion, and that an error in a frame was preceded by the
  quarantine. The refinement of `RetentionLock` follows. Then
  `DialogImplementsGate`: every step of the stock frames is
  a step of the gate or none, because a thread with stock frames runs freely and a
  dialog that returns to poll or close stands directly on that frame (`Grounded`).
  So the gate's theorems hold with dialogs in place. `StopsTheWholeChainHolds` rests
  on `Sound`, which says of one stack: a known return names the caller's kind, only
  the innermost frame can have failed, a rewritten address is that of a wrapper in
  its abort thunk, and a frame is doomed exactly if the innermost has failed and all
  returns in between are known. Each helper is a lemma about stacks; the one that
  needs most is `RewriteProperties`, where two returns change at once.
- `PaintRetirement_proofs`. `IInv` says that the claim is the head until a removal
  faults, and marked as soon as its owner retires, that a retirement which did not
  end in a fault left no row but the claimed one (`Purged`), and that what a thread
  is about to tell is true until it has told it (`RepliesHold`), for other threads
  run between a body and its release. `FaultsHaveCause` needs all of it: each check an entry
  makes must be shown never to fail.
  `QueueImplementsContract` shows the refinement of `PaintContract` for every owner
  on top of the same invariant, action by action.
- `RetainedOperations_proofs`. `LInv` relates where a call is to the state of its
  operation: a thread between its extraction and its rebind, or between `complete` and
  its rebind, is the only one with that token, the list holds every queued token once
  until a fault, and what the barrier found stays true, as nothing that could undo it
  may start (`BarrierHolds`, `QuietHolds`). `PaintIsAccounted` counts, so the invariant carries an injection
  from the rows whose nonce the ledger does not know to the extracted operations that
  are unanswered (`RowsAccounted`), and every step restricts or extends it.
- `RecordTransport_proofs`. `TInv` says that an attempt which a consumer may see was not
  refused and is in one place only: a row of the list until it faults (`QueueHolds`),
  the one frame that removed it (`CopiesHold`), or `delivered` (`DeliveriesHold`). A
  birth record that is carried anywhere is spent, and one attempt carries it
  (`TracesHold`); an enqueue that is about to answer accepted is there already
  (`AcceptanceHolds`). DeliveredOnce and RefusedIsNeverDelivered
  are read off it, and OnlyDenialsAreSilent is its last part: a step of the carrier delivers,
  or adds to `lost`, or adds an envelope to `denied`.
- `NativeRegistry_proofs`. `NInv` says who may look at the ring: a frame with the
  witness owns R, the address in the frame is that of its own incarnation until the
  birth is observed, two nodes of the ring differ in address, and in a healthy history
  every node of the ring has its row and no older row at its address is outstanding
  (`HistoryHolds`), which is what an address is taken to tell. `Grows` and `Calm` say what a step may change at most; each action
  is shown to be within one of them, and the parts of the invariant are shown to
  survive both. The proof found two guards of the model's case distinctions that
  overlapped; they are exclusive now, as the branches of the code are.
- `Journals_proofs`, first the action-link stage. The three properties look only at the journals, so the
  invariant must say what a ticket is worth wherever it waits. `EventsFit`: an event's
  parent was published by a hook that worked for the same notification, and what the
  two sampled is in order. `WorksFit`, `ListsFit`, `NodesFit`: the ticket in a frame,
  in an element of a list, or in the tail word of a node that is queued names an event
  of the kind the next hook expects and of the same cause; nothing is said of the tail
  of a free node, which is why `Cleared` matters. `Marked`: if contents moved under a
  request, a word moved that its birth has sampled, by more than the renderer's own
  entry moves it. `Once`: a birth is linked, a root drawn and an enqueue returned from
  once. Hooks of a kind are treated together (`ReserveStep`, `PublishStep`,
  `UnmatchedStep` for any thread), native steps one by one; what a step leaves alone
  is kept by `Grows` (events only gain their magic word), `Ahead` (no word goes back)
  and `StockStep`. `UnrejectedIsUndisturbed` then follows the parents of a rendering up
  to the birth it is counted to (`PathStarts`), whose samples the assessment compares.

  Then the native-scope stage, whose journals keep no copies of tickets in nodes.
  `LineageInv` says which hook holds which record: a record that a hook has reserved
  and not published is unpublished, and no other hook holds it (`HeldApart`, for each
  of the three ledgers); every receipt a frame or a job carries is in the ledger; a
  scope that is to write its record has a ticket. Without it a publication could
  strike a record that was published before. A step leaves a ledger alone, appends to
  it or writes the one record its hook holds (`LogStays`, `LogGrows`, `LogWritten`);
  `HistoryIsFinal` follows action by action. `ActiveCountsScopes` is about the
  cardinality of the set of open scopes (`CountInv` adds that the set is finite, which
  does not assume `Scopers` finite: each step opens or closes one). The proof needed the
  answers of a row hook, `RowVerdict`, in the order in which the code returns them;
  they had been a CASE whose arms overlap.

  Last, `CompleteIsUndisturbed` of the lineage's decoder. The decoder sees only
  journals and words, while what disturbed a borrow is known to nobody; the invariant
  `MotionInv` ties the two. A renderer, job or worker that was touched knows that the
  contents are past its root's entry by the bumps it has certainly made itself (`Own`)
  and one more; a renderer that entered inside a scope knows it only once it has looked
  at the count (this is where `CountInv` is needed: a scope that is open is on the
  count, and the entry is dropped). A borrow has one worker (`BorrowsApart`), its events
  name it after it was published (`EventsNamed`), and a worker has written the events
  of the places behind it and no other, as far as the argument needs: `BIND_BEGIN` only
  from that place on, `NORMAL_END` last. So the `NORMAL_END` of a disturbed borrow that
  also wrote `BIND_BEGIN` has a revision later than entry + 3 (`Late`), and a complete
  operation has exactly entry + 3 there. `StaysPut` and `Rests` say what a step leaves
  of the threads that do not take it; `GoesOn` that a step from one place to the next
  pays for each bump it adds to `Own`. The decoder's grouping of events is `InOrder`
  rather than `SelectSeq`, whose recursion cannot be reasoned about; `PickedInOrder`
  shows that it picks only what it was told to, and an assumption of `MCDecodedLineage`
  has TLC compare the two operators on every short journal.

Every safety and every action property that a run checks is proved. Model-checked only:
the liveness properties `CallsReturn` and `ScopesDrain`, because liveness under fairness
and ENABLED are out of the prover's reach. So are the library's induction theorems that
take an operator as a parameter; an induction over numbers can still be done with a
least counterexample, as in `Replay`, or with a minimal element of a well-founded
relation, as in `PlaceOfRank`. The modules with proofs use no RECURSIVE operator.

## 5. Not modelled

- The first paint handoff (`reveal_paint_handoff_mips.py`) is superseded by the
  queue with owners: it is that queue with one owner that is never retired.
- The worker's terminal tail and the D960 guard are straight-line replacements of a
  release and of a missing null check; they share no state with another part.
- `reveal_secondary_factory_admission_gate_mips.py` is the emitter of the first
  factory gate at another address.
- The assembler, ELF layout, stages, builders and verifiers, as far as they place
  code in files, and the static analyses are pure functions of files, compared byte
  for byte by the tests. The hooks some stages emit are modelled.
- The older decoders read flat ledgers of earlier diagnostic builds, which carry no
  tickets; capture tools and the diagnostic launchers are device I/O.
- In every native module: addresses, alignment and overlap checks of pointers,
  register saves, the copied payload. Engine words matter in the registry and are
  left out of the paint queue: producers must match them, a mismatch is a denial.
- The checked build of the native paint queue leaves a claim lost in a failed
  release to its caller, which has to isolate the instance; there is no such
  caller in the sources. The same goes for a raw error of the transport's mutex.
- A snapshot that is copied while hooks run: the decoders disclaim it
  (`decode_reveal_contents_revision.py:39`), and so do the models.

## 6. Plan

Done: the modules above, the proofs of all safety and action properties, and the
contract that both paint queues keep. Left for whoever carries on:

1. A refinement of the host paint queue by the native one, step by step. Both keep the
   same contract to each owner, but the native queue refuses, faults and releases
   where the host model cannot, so the order across owners has no common abstraction yet.
