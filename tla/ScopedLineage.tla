---------------------------- MODULE ScopedLineage ----------------------------
(***************************************************************************)
(* The native-scope stage: hooks in the stock renderer, its file worker    *)
(* and two contents routines follow one rendering from its entry to the    *)
(* end of the operation that fills a list for it.  The hooks share a       *)
(* revision clock, a word that counts open scopes, and three journals.     *)
(* Nothing is locked: each action is one access to the shared words, and   *)
(* stock code goes on whatever a hook finds.                               *)
(***************************************************************************)
EXTENDS Journal

CONSTANTS Renderers, Workers, Scopers,  \* the stock threads that meet hooks
          ContentsLimit, LedgerCapacity, RowCapacity, OperationCapacity,
          ScopeCapacity,
          MaxRenderings, MaxJobs, MaxRows, \* bounds on what stock code does,
          MaxMishaps                       \* and on what goes wrong in it

ASSUME CapacityAssumption ==
    /\ ContentsLimit \in Nat \ {0}
    /\ LedgerCapacity \in Nat \ {0}
    /\ RowCapacity \in Nat \ {0}
    /\ OperationCapacity \in Nat \ {0}
    /\ ScopeCapacity \in Nat \ {0}
    /\ MaxRenderings \in Nat /\ MaxJobs \in Nat /\ MaxRows \in Nat /\ MaxMishaps \in Nat

VARIABLES
    contents,   \* the contents revision, or FAULT
    ledger,     \* journal of receipts
    rows,       \* journal of row events
    ops,        \* journal of operation events
    scopeLog,   \* journal of scopes, whose status moves on
    active,     \* open scopes, counted in the same word as they are issued
    jobs,       \* the stock work list with the private tail of each element
    renderer, worker, scoper,
    disturbed,  \* history: borrows whose contents changed under them
    renderings, \* bound: how many renderings have begun,
    spent       \* and how often the environment has gone wrong

lineageVars == <<contents, ledger, rows, ops, scopeLog, active, jobs, renderer, worker,
                 scoper, disturbed, renderings, spent>>

RowPoints == {"row", "terminal", "reset", "end"}
OperationPoints == {"fill_begin", "fill_return", "post_target", "bind_begin",
                    "bind_return", "normal_end", "error_end"}
ReceiptPoints == {"borrow", "query", "producer"}
Boundaries == {"worker_entry", "postfill", "bind"}

\* Where stock code of the worker may go from one hook to the next: callbacks
\* may be null, queries and fills may fail, a postfill may find no view.
Follow == [
    borrow |-> {"fill_begin"},
    fill_begin |-> {"worker_entry", "normal_end"},
    worker_entry |-> {"query", "fill_return"},
    query |-> {"producer", "fill_return"},
    producer |-> {"row", "terminal"}, row |-> {"row", "terminal"},
    terminal |-> {"reset"}, reset |-> {"end"}, end |-> {"fill_return"},
    fill_return |-> {"post_target", "error_end"},
    post_target |-> {"postfill", "normal_end"},
    postfill |-> {"bind_begin", "bind_return"},
    bind_begin |-> {"bind"}, bind |-> {"bind_return"},
    bind_return |-> {"normal_end"},
    normal_end |-> {"idle"}, error_end |-> {"idle"}]

Kind == [borrow |-> "BORROW", query |-> "QUERY", producer |-> "PRODUCER",
         row |-> "ROW", terminal |-> "TERMINAL", reset |-> "RESET", end |-> "END",
         fill_begin |-> "FILL_BEGIN", fill_return |-> "FILL_RETURN",
         post_target |-> "POST_TARGET", bind_begin |-> "BIND_BEGIN",
         bind_return |-> "BIND_RETURN", normal_end |-> "NORMAL_END",
         error_end |-> "ERROR_END"]

IdleRenderer == [at |-> "idle", entry |-> 0, ticket |-> 0, queued |-> 0, touched |-> FALSE]
IdleWorker == [at |-> "idle", origin |-> 0, borrow |-> 0, query |-> 0, producer |-> 0,
               slot |-> 0, read |-> FALSE, n |-> 0, count |-> 0, ok |-> TRUE,
               touched |-> FALSE]
IdleScoper == [at |-> "idle", ticket |-> 0]

LineageInit ==
    /\ contents = 0
    /\ ledger = EmptyJournal /\ rows = EmptyJournal /\ ops = EmptyJournal
    /\ scopeLog = EmptyJournal /\ active = 0
    /\ jobs = <<>>
    /\ renderer = [r \in Renderers |-> IdleRenderer]
    /\ worker = [w \in Workers |-> IdleWorker]
    /\ scoper = [s \in Scopers |-> IdleScoper]
    /\ disturbed = {} /\ renderings = 0 /\ spent = 0

Costs(c) == spent + c <= MaxMishaps /\ spent' = spent + c

-----------------------------------------------------------------------------
(* The clock. *)

(* Mutant: the limit is checked signed, and the fault word passes. *)
NextRevisionSigned == IF contents < ContentsLimit THEN contents + 1 ELSE FAULT

\* bump: the limit is checked unsigned, and a lost loop faults as well.
NextRevision == IF contents # FAULT /\ contents < ContentsLimit THEN contents + 1 ELSE FAULT

\* What a bump disturbs: every rendering under way, of whatever thread.
Touched(threads) ==
    [t \in DOMAIN threads |-> [threads[t] EXCEPT !.touched = @ \/ threads[t].at # "idle"]]
TouchedJobs == [i \in DOMAIN jobs |-> [jobs[i] EXCEPT !.touched = TRUE]]

InsideScope(s) == scoper[s].at \in {"inside", "leaving"}

\* Bound: once a word has faulted no snapshot is accepted any more.  What is
\* under way goes on and meets the fault; nothing new begins.
Accepting == ~(ledger.fault \/ rows.fault \/ ops.fault \/ scopeLog.fault) /\ contents # FAULT

-----------------------------------------------------------------------------
(* The renderer. *)

Enter(r) ==
    LET e == NextRevision IN
    /\ renderer[r].at = "idle" /\ Accepting
    /\ renderings < MaxRenderings /\ renderings' = renderings + 1
    /\ contents' = e
    /\ jobs' = TouchedJobs
    /\ worker' = Touched(worker)
    /\ renderer' = [Touched(renderer) EXCEPT
          ![r] = [IdleRenderer EXCEPT !.at = "entered",
                                      !.entry = IF e = FAULT THEN 0 ELSE e,
                                      !.touched = \E s \in Scopers : InsideScope(s)]]
    /\ UNCHANGED <<ledger, rows, ops, scopeLog, active, scoper, disturbed, spent>>

\* The scope word is read after the bump: what begins later bumps again.
CheckScope(r) ==
    /\ renderer[r].at = "entered"
    /\ renderer' = [renderer EXCEPT ![r].at = "drawing",
                                    ![r].entry = IF scopeLog.fault \/ active > 0 THEN 0 ELSE @]
    /\ UNCHANGED <<contents, ledger, rows, ops, scopeLog, active, jobs, worker, scoper,
                   disturbed, spent, renderings>>

NewReceipt(kind, parent, origin) ==
    [kind |-> kind, parent |-> parent, origin |-> origin, entry |-> 0,
     revision |-> 0, published |-> FALSE]

\* reserve for a root: render after its entry, or a private ingress without one.
MintRoot(r) ==
    /\ \/ /\ renderer[r].at = "drawing"
          /\ UNCHANGED renderings
       \/ /\ renderer[r].at = "idle" /\ Accepting
          /\ renderings < MaxRenderings /\ renderings' = renderings + 1
    /\ LET initial == renderer[r].at = "idle"
           next    == IF initial THEN "initial" ELSE "minted"
           token   == Len(ledger.log) + 1
       IN  IF CanReserve(ledger, LedgerCapacity)
           THEN /\ ledger' = Reserved(ledger, NewReceipt(IF initial THEN "INITIAL" ELSE "RENDER",
                                                         0, token))
                /\ renderer' = [renderer EXCEPT ![r].at = next, ![r].ticket = token]
           ELSE /\ ledger' = Invalidated(ledger)
                /\ renderer' = [renderer EXCEPT ![r].at = IF initial THEN "idle" ELSE "queueing",
                                                ![r].ticket = 0]
    /\ UNCHANGED <<contents, rows, ops, scopeLog, active, jobs, worker, scoper, disturbed,
                   spent>>

PublishRoot(r) ==
    /\ renderer[r].at \in {"initial", "minted"}
    /\ LET t == renderer[r].ticket IN
       ledger' = Published(ledger, t, [ledger.log[t] EXCEPT !.published = TRUE,
                                                            !.entry = renderer[r].entry])
    /\ renderer' = [renderer EXCEPT ![r].at = "queueing"]
    /\ UNCHANGED <<contents, rows, ops, scopeLog, active, jobs, worker, scoper, disturbed,
                   spent, renderings>>

\* Each job of the rendering carries its receipt, if the ledger still vouches for it.
Enqueue(r) ==
    /\ renderer[r].at = "queueing"
    /\ renderer[r].queued < MaxJobs /\ Accepting
    /\ renderer' = [renderer EXCEPT ![r].queued = @ + 1]
    /\ jobs' = Append(jobs, [origin |-> IF ledger.fault THEN 0 ELSE renderer[r].ticket,
                             touched |-> renderer[r].touched])
    /\ UNCHANGED <<contents, ledger, rows, ops, scopeLog, active, worker, scoper, disturbed,
                   spent, renderings>>

LeaveRenderer(r) ==
    /\ renderer[r].at = "queueing"
    /\ renderer' = [renderer EXCEPT ![r] = IdleRenderer]
    /\ UNCHANGED <<contents, ledger, rows, ops, scopeLog, active, jobs, worker, scoper,
                   disturbed, spent, renderings>>

-----------------------------------------------------------------------------
(* The worker. *)

Borrow(w) ==
    /\ worker[w].at = "idle" /\ jobs # <<>>
    /\ worker' = [worker EXCEPT ![w] = [IdleWorker EXCEPT !.at = "borrow",
                                                         !.origin = Head(jobs).origin,
                                                         !.touched = Head(jobs).touched]]
    /\ jobs' = Tail(jobs)
    /\ UNCHANGED <<contents, ledger, rows, ops, scopeLog, active, renderer, scoper, disturbed,
                   spent, renderings>>

\* Worker record k past its hook, on to whatever stock code does next: a row
\* more in the list, an SQL or callback result, or the end of the job.
Proceed(k, next) ==
    IF next = "idle" THEN {IdleWorker}
    ELSE LET moved == [k EXCEPT !.at = next, !.slot = 0, !.read = FALSE,
                                !.n = IF k.at = "row" THEN @ + 1 ELSE @,
                                !.count = IF next = "row" THEN @ + 1 ELSE @]
         IN  IF next \in {"terminal", "fill_return", "bind_return"}
             THEN {[moved EXCEPT !.ok = ok] : ok \in BOOLEAN}
             ELSE {moved}

\* A failed fill goes to the error end; the rows are as many as the query finds.
Continues(k) ==
    UNION {Proceed(k, next) : next \in {x \in Follow[k.at] :
              /\ k.at = "fill_return" => (x = "error_end" <=> ~k.ok)
              /\ x = "row" => k.n + (IF k.at = "row" THEN 1 ELSE 0) < MaxRows}}

\* The way a fill takes when nothing goes wrong.
Smooth(m) == m.ok /\ m.at # "error_end"
OnTheWay(k, m) ==
    /\ Smooth(m)
    /\ m.at = "normal_end" => k.at = "bind_return"
    /\ m.at = "fill_return" => k.at = "end"
    /\ m.at = "bind_return" => k.at = "bind"

GoIn(threads, w, k) ==
    \E m \in Continues(k) : /\ worker' = [threads EXCEPT ![w] = m]
                            /\ Costs(IF OnTheWay(k, m) THEN 0 ELSE 1)
Go(w, k) == GoIn(worker, w, k)
Stay(w, k) == worker' = [worker EXCEPT ![w] = k] /\ UNCHANGED spent

\* reserve of a child receipt; without a parent receipt the hook does nothing.
MintReceipt(w) ==
    LET k      == worker[w]
        parent == CASE k.at = "borrow" -> k.origin [] k.at = "query" -> k.borrow
                    [] k.at = "producer" -> k.query [] OTHER -> 0
    IN  /\ k.at \in ReceiptPoints /\ k.slot = 0
        /\ IF parent = 0
           THEN /\ Go(w, k)
                /\ UNCHANGED ledger
           ELSE IF CanReserve(ledger, LedgerCapacity)
           THEN /\ ledger' = Reserved(ledger, NewReceipt(Kind[k.at], parent, ledger.log[parent].origin))
                /\ Stay(w, [worker[w] EXCEPT !.slot = Len(ledger.log) + 1])
           ELSE /\ ledger' = Invalidated(ledger)
                /\ Go(w, k)
        /\ UNCHANGED <<contents, rows, ops, scopeLog, active, jobs, renderer, scoper,
                       disturbed, renderings>>

\* A producer's receipt keeps the revision it started in.
PublishReceipt(w) ==
    LET k == worker[w] IN
    /\ k.at \in ReceiptPoints /\ k.slot # 0
    /\ ledger' = Published(ledger, k.slot,
           [ledger.log[k.slot] EXCEPT !.published = TRUE,
                                      !.revision = IF k.at = "producer" THEN contents ELSE 0])
    /\ LET bound == [k EXCEPT !.borrow = IF k.at = "borrow" THEN k.slot ELSE @,
                              !.query = IF k.at = "query" THEN k.slot ELSE @,
                              !.producer = IF k.at = "producer" THEN k.slot ELSE @]
       IN  Go(w, bound)
    /\ UNCHANGED <<contents, rows, ops, scopeLog, active, jobs, renderer, scoper, disturbed,
                   renderings>>

\* Entry of the worker, of a postfill or of a bind: a bump, and stock code goes on.
CrossBoundary(w) ==
    /\ worker[w].at \in Boundaries
    /\ contents' = NextRevision
    /\ jobs' = TouchedJobs
    /\ renderer' = Touched(renderer)
    /\ GoIn(Touched(worker), w, worker[w])
    /\ UNCHANGED <<ledger, rows, ops, scopeLog, active, scoper, disturbed, renderings>>

-----------------------------------------------------------------------------
(* capture of the row journal. *)

\* The revision is still the one the producer started in.
RevisionHolds(k) == contents # FAULT /\ contents = ledger.log[k.producer].revision

EntryStamp(k) == ledger.log[ledger.log[k.producer].origin].entry

\* Association, revision, the frontier and scopes, in the order of the code:
\* a capture is refused for good, left out, or admitted.
RowVerdict(k) ==
    IF rows.fault \/ ledger.fault               THEN "fault"
    ELSE IF k.producer = 0                      THEN "ignore"
    ELSE IF ~RevisionHolds(k)                   THEN "fault"
    ELSE IF EntryStamp(k) = 0                   THEN "ignore"
    ELSE IF EntryStamp(k) + 1 # contents        THEN "fault"
    ELSE IF scopeLog.fault                      THEN "fault"
    ELSE IF active > 0                          THEN "ignore"
    ELSE IF ~CanReserve(rows, RowCapacity)      THEN "fault"
    ELSE "admit"

RowReserve(w) ==
    LET k == worker[w] IN
    /\ k.at \in RowPoints /\ k.slot = 0
    /\ IF RowVerdict(k) = "admit"
       THEN /\ rows' = Reserved(rows, [kind |-> Kind[k.at], producer |-> k.producer,
                                       revision |-> ledger.log[k.producer].revision,
                                       ordinal |-> k.n, count |-> 0, ok |-> k.ok,
                                       published |-> FALSE])
            /\ Stay(w, [worker[w] EXCEPT !.slot = Len(rows.log) + 1])
       ELSE /\ rows' = IF RowVerdict(k) = "fault" THEN Invalidated(rows) ELSE rows
            /\ Go(w, k)
    /\ UNCHANGED <<contents, ledger, ops, scopeLog, active, jobs, renderer, scoper, disturbed,
                   renderings>>

\* Once a slot is reserved an open scope is a fault: no gap may look healthy.
Overlapped(k) == ~RevisionHolds(k) \/ scopeLog.fault \/ active > 0

RowFault(w) ==
    /\ rows' = Invalidated(rows)
    /\ Go(w, worker[w])

\* The first read of stock memory: the count of the destination list.
RowRead(w) ==
    LET k == worker[w] IN
    /\ k.at \in RowPoints /\ k.slot # 0 /\ ~k.read
    /\ IF Overlapped(k) THEN RowFault(w)
       ELSE /\ rows' = Published(rows, k.slot, [rows.log[k.slot] EXCEPT !.count = k.count])
            /\ Stay(w, [worker[w] EXCEPT !.read = TRUE])
    /\ UNCHANGED <<contents, ledger, ops, scopeLog, active, jobs, renderer, scoper, disturbed,
                   renderings>>

RowPublish(w) ==
    LET k == worker[w] IN
    /\ k.at \in RowPoints /\ k.slot # 0 /\ k.read
    /\ IF ledger.fault \/ rows.fault \/ Overlapped(k) THEN RowFault(w)
       ELSE /\ rows' = Published(rows, k.slot, [rows.log[k.slot] EXCEPT !.published = TRUE])
            /\ Go(w, k)
    /\ UNCHANGED <<contents, ledger, ops, scopeLog, active, jobs, renderer, scoper, disturbed,
                   renderings>>

-----------------------------------------------------------------------------
(* capture of the operation journal. *)

OperationReserve(w) ==
    LET k == worker[w] IN
    /\ k.at \in OperationPoints /\ k.slot = 0
    /\ CASE k.borrow = 0 ->
              /\ Go(w, k)
              /\ UNCHANGED ops
         [] k.borrow # 0 /\ (ledger.fault \/ contents = FAULT \/ ~CanReserve(ops, OperationCapacity)) ->
              /\ ops' = Invalidated(ops)
              /\ Go(w, k)
         [] OTHER ->
              /\ ops' = Reserved(ops, [kind |-> Kind[k.at], borrow |-> k.borrow, ok |-> k.ok,
                                       revision |-> contents, published |-> FALSE])
              /\ Stay(w, [worker[w] EXCEPT !.slot = Len(ops.log) + 1])
    /\ disturbed' = IF k.touched /\ k.at = "normal_end" THEN disturbed \union {k.borrow}
                                                        ELSE disturbed
    /\ UNCHANGED <<contents, ledger, rows, scopeLog, active, jobs, renderer, scoper,
                   renderings>>

OperationPublish(w) ==
    LET k == worker[w] IN
    /\ k.at \in OperationPoints /\ k.slot # 0
    /\ ops' = IF ledger.fault \/ ops.fault \/ contents = FAULT THEN Invalidated(ops)
              ELSE Published(ops, k.slot, [ops.log[k.slot] EXCEPT !.published = TRUE])
    /\ Go(w, k)
    /\ UNCHANGED <<contents, ledger, rows, scopeLog, active, jobs, renderer, scoper, disturbed,
                   renderings>>

-----------------------------------------------------------------------------
(* The two stock routines that are scopes, reset and reconcile. *)

ScopeReserve(s) ==
    /\ scoper[s].at = "idle" /\ Accepting
    /\ IF CanReserve(scopeLog, ScopeCapacity)
       THEN /\ scopeLog' = Reserved(scopeLog, [status |-> "OPEN", published |-> FALSE])
            /\ active' = active + 1
            /\ scoper' = [scoper EXCEPT ![s] = [at |-> "reserved", ticket |-> Len(scopeLog.log) + 1]]
       ELSE /\ scopeLog' = Invalidated(scopeLog)
            /\ scoper' = [scoper EXCEPT ![s] = [at |-> "begun", ticket |-> 0]]
            /\ UNCHANGED active
    /\ UNCHANGED <<contents, ledger, rows, ops, jobs, renderer, worker, disturbed, spent,
                   renderings>>

ScopePublish(s) ==
    LET t == scoper[s].ticket IN
    /\ scoper[s].at = "reserved"
    /\ scopeLog' = IF scopeLog.fault THEN scopeLog
                   ELSE Published(scopeLog, t, [scopeLog.log[t] EXCEPT !.published = TRUE])
    /\ scoper' = [scoper EXCEPT ![s] = [at |-> "begun", ticket |-> IF scopeLog.fault THEN 0 ELSE t]]
    /\ UNCHANGED <<contents, ledger, rows, ops, active, jobs, renderer, worker, disturbed,
                   spent, renderings>>

\* The routine bumps when it has begun and again before it ends.
ScopeBump(s) ==
    /\ scoper[s].at \in {"begun", "leaving"}
    /\ contents' = NextRevision
    /\ jobs' = TouchedJobs /\ renderer' = Touched(renderer) /\ worker' = Touched(worker)
    /\ scoper' = [scoper EXCEPT ![s].at = IF @ = "begun" THEN "inside" ELSE "ending"]
    /\ UNCHANGED <<ledger, rows, ops, scopeLog, active, disturbed, spent, renderings>>

\* What it does to the contents: a list under construction loses its rows.
Mutate(s) ==
    /\ scoper[s].at = "inside"
    /\ worker' = [w \in Workers |-> [worker[w] EXCEPT !.count = 0]]
    /\ scoper' = [scoper EXCEPT ![s].at = "leaving"]
    /\ UNCHANGED <<contents, ledger, rows, ops, scopeLog, active, jobs, renderer, disturbed,
                   spent, renderings>>

(* Mutant: the claim already takes the scope off the count. *)
ScopeClaimReleasing(s) ==
    LET t == scoper[s].ticket IN
    /\ scoper[s].at = "ending"
    /\ IF t = 0 \/ scopeLog.fault
       THEN /\ scopeLog' = Invalidated(scopeLog)
            /\ scoper' = [scoper EXCEPT ![s] = IdleScoper]
            /\ UNCHANGED active
       ELSE /\ scopeLog' = Published(scopeLog, t, [scopeLog.log[t] EXCEPT !.status = "CLOSING"])
            /\ active' = active - 1
            /\ scoper' = [scoper EXCEPT ![s].at = "closing"]
    /\ UNCHANGED <<contents, ledger, rows, ops, jobs, renderer, worker, disturbed, spent,
                   renderings>>

\* end claims the record once, ...
ScopeClaim(s) ==
    LET t == scoper[s].ticket IN
    /\ scoper[s].at = "ending"
    /\ IF t = 0 \/ scopeLog.fault
       THEN /\ scopeLog' = Invalidated(scopeLog)
            /\ scoper' = [scoper EXCEPT ![s] = IdleScoper]
       ELSE /\ scopeLog' = Published(scopeLog, t, [scopeLog.log[t] EXCEPT !.status = "CLOSING"])
            /\ scoper' = [scoper EXCEPT ![s].at = "closing"]
    /\ UNCHANGED <<contents, ledger, rows, ops, active, jobs, renderer, worker, disturbed,
                   spent, renderings>>

\* ... closes it with its result, ...
ScopeClose(s) ==
    LET t == scoper[s].ticket IN
    /\ scoper[s].at = "closing"
    /\ scopeLog' = Published(scopeLog, t, [scopeLog.log[t] EXCEPT !.status = "CLOSED"])
    /\ scoper' = [scoper EXCEPT ![s].at = "closed"]
    /\ UNCHANGED <<contents, ledger, rows, ops, active, jobs, renderer, worker, disturbed,
                   spent, renderings>>

(* Mutant: the count is left as it is. *)
ScopeReleaseUncounted(s) ==
    /\ scoper[s].at = "closed"
    /\ scoper' = [scoper EXCEPT ![s] = IdleScoper]
    /\ UNCHANGED <<contents, ledger, rows, ops, scopeLog, active, jobs, renderer, worker,
                   disturbed,
                   spent, renderings>>

\* ... and takes it off the count.
ScopeRelease(s) ==
    /\ scoper[s].at = "closed"
    /\ IF scopeLog.fault THEN scopeLog' = Invalidated(scopeLog) /\ UNCHANGED active
                              ELSE active' = active - 1 /\ UNCHANGED scopeLog
    /\ scoper' = [scoper EXCEPT ![s] = IdleScoper]
    /\ UNCHANGED <<contents, ledger, rows, ops, jobs, renderer, worker, disturbed, spent,
                   renderings>>

\* Entries that only bump: a reset by name, an attempt to close.
OtherBoundary ==
    /\ Costs(1)
    /\ contents' = NextRevision
    /\ jobs' = TouchedJobs /\ renderer' = Touched(renderer) /\ worker' = Touched(worker)
    /\ UNCHANGED <<ledger, rows, ops, scopeLog, active, scoper, disturbed, renderings>>

\* A loop of some call runs out of attempts and faults its word.  The call
\* itself then goes on as one that meets the fault.
ExhaustLoop ==
    /\ \/ ledger' = Invalidated(ledger) /\ UNCHANGED <<contents, rows, ops, scopeLog>>
       \/ rows' = Invalidated(rows) /\ UNCHANGED <<contents, ledger, ops, scopeLog>>
       \/ ops' = Invalidated(ops) /\ UNCHANGED <<contents, ledger, rows, scopeLog>>
       \/ scopeLog' = Invalidated(scopeLog) /\ UNCHANGED <<contents, ledger, rows, ops>>
       \/ contents' = FAULT /\ UNCHANGED <<ledger, rows, ops, scopeLog>>
    /\ Costs(1)
    /\ UNCHANGED <<active, jobs, renderer, worker, scoper, disturbed, renderings>>

RendererStep(r) == \/ Enter(r) \/ MintRoot(r) \/ CheckScope(r) \/ PublishRoot(r)
                   \/ Enqueue(r) \/ LeaveRenderer(r)
WorkerStep(w) == \/ Borrow(w) \/ MintReceipt(w) \/ PublishReceipt(w) \/ CrossBoundary(w)
                 \/ RowReserve(w) \/ RowRead(w) \/ RowPublish(w)
                 \/ OperationReserve(w) \/ OperationPublish(w)
ScoperStep(s) == \/ ScopePublish(s) \/ ScopeBump(s) \/ Mutate(s)
                 \/ ScopeClaim(s) \/ ScopeClose(s) \/ ScopeRelease(s)

LineageNext ==
    \/ \E r \in Renderers : RendererStep(r)
    \/ \E w \in Workers : WorkerStep(w)
    \/ \E s \in Scopers : ScopeReserve(s) \/ ScoperStep(s)
    \/ OtherBoundary
    \/ ExhaustLoop

LineageSpec == LineageInit /\ [][LineageNext]_lineageVars

\* A routine that has begun goes on: it does not wait for anything.
FairSpec == LineageSpec /\ \A s \in Scopers : WF_lineageVars(ScoperStep(s))
=============================================================================
