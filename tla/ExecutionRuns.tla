---------------------------- MODULE ExecutionRuns ----------------------------
(***************************************************************************)
(* The execution_runs table and the API handlers that write it             *)
(* (services/api/src/services/execution-run.service.js).                   *)
(*                                                                         *)
(* Every handler that reads a row, decides, and later writes it back is    *)
(* split where the code awaits: the read computes the patch that will be   *)
(* written (a "call" held by a request slot), the write applies it to      *)
(* whatever the row has become meanwhile, and the attempt row is closed in *)
(* a third step.  Claim, reap and recover are single conditional UPDATEs   *)
(* and are single steps.  The database's unique indexes are guards of the  *)
(* writes they constrain.                                                  *)
(***************************************************************************)
EXTENDS Integers, Sequences, FiniteSets

CONSTANTS
  Run,          \* execution_runs ids that may be created
  Store,        \* stores; MILO keeps one cart per store account
  Cart,         \* carts
  StoreOf,      \* the store of each run
  CartOf,       \* the cart of each run
  Worker,       \* worker_id values
  Slot,         \* concurrently served API requests (both API machines)
  MaxRetries,   \* execution_runs.max_retries
  MaxAttempts,  \* bound: claims of one run that are explored
  NoWorker,     \* worker_id IS NULL; also "nobody waits for this answer"
  NoRun,        \* the run of a slot that serves nothing
  Keep          \* a column a patch does not mention

ASSUME RunAssumption ==
  /\ StoreOf \in [Run -> Store]
  /\ CartOf \in [Run -> Cart]
  /\ NoWorker \notin Worker
  /\ NoRun \notin Run

ASSUME BoundAssumption ==
  /\ MaxRetries \in Nat
  /\ MaxAttempts \in Nat \ {0}

VARIABLES
  runs,         \* execution_runs: one row per run
  attempts,     \* execution_run_attempts: per run, statuses by attempt_number
  calls         \* per slot, the handler invocation in flight

runVars == <<runs, attempts, calls>>

-----------------------------------------------------------------------------
(* Columns *)

ACTIVE_STATUSES   == {"queued", "running"}
TERMINAL_STATUSES == {"succeeded", "failed", "canceled", "submitted_unconfirmed"}
ALLOWED_STATUSES  == ACTIVE_STATUSES \cup TERMINAL_STATUSES
NotCreated        == "not_created"

\* progress_stage, as far as the reaper, the recovery and the duplicate-submit
\* tripwire look at it.
Stages == {"other", "rpa_checkout"}

\* failure_type by what isRetryableFailureType says of it; the reaper's own
\* code LK_RUN_REAPED (never retryable) is kept apart.
FailureTypes == {"none", "retryable", "final", "LK_RUN_REAPED"}

\* A patch marks an unmentioned column with Keep, which is no column's value.
ASSUME KeepAssumption ==
  /\ Keep \notin ALLOWED_STATUSES \cup Stages \cup FailureTypes
  /\ Keep \notin Worker \cup {NoWorker}
  /\ Keep \notin Nat
  /\ Keep \notin BOOLEAN

\* Age of heartbeat_at by the thresholds the code compares it with:
\* fresh, over 90 seconds, over 3 minutes, over 15 minutes.
RECOVER_STALE_SECONDS  == 1
STALE_PRESUBMIT_MINUTES == 2
STALE_RUN_MINUTES      == 3
Ages == 0 .. STALE_RUN_MINUTES

OPERATOR_ACTION ==
  {"acknowledge", "mark_for_manual_review", "retry_now", "cancel",
   "resolve_without_retry"}

AttemptStatuses == {"running", "succeeded", "failed", "canceled"}

Rows ==
  [status  : ALLOWED_STATUSES \cup {NotCreated},
   stage   : Stages,
   worker  : Worker \cup {NoWorker},
   retries : Nat,
   failure : FailureTypes,
   clicked : BOOLEAN,           \* failure_details.submit_clicked
   age     : Ages]

Patches ==
  [status  : ALLOWED_STATUSES \cup {Keep},
   stage   : Stages \cup {Keep},
   worker  : Worker \cup {NoWorker, Keep},
   retries : Nat \cup {Keep},
   failure : FailureTypes \cup {Keep},
   clicked : BOOLEAN \cup {Keep},
   beat    : BOOLEAN]           \* the patch sets heartbeat_at to now

Calls ==
  [phase  : {"idle", "write", "close", "insert"},
   run    : Run \cup {NoRun},
   patch  : Patches,
   close  : AttemptStatuses \cup {"none"},
   waiter : Worker \cup {NoWorker}]

\* What a caller reports to PATCH /execution-runs/:id/status.
StatusReports ==
  [status : ALLOWED_STATUSES, failure : {"retryable", "final"}, clicked : BOOLEAN]

TypeOK ==
  /\ runs \in [Run -> Rows]
  /\ attempts \in [Run -> Seq(AttemptStatuses)]
  /\ calls \in [Slot -> Calls]
  /\ \A c \in Slot :
       /\ calls[c].phase # "idle" => calls[c].run \in Run
       /\ calls[c].phase = "close" => calls[c].close # "none"

-----------------------------------------------------------------------------
(* Patches *)

NoPatch ==
  [status |-> Keep, stage |-> Keep, worker |-> Keep, retries |-> Keep,
   failure |-> Keep, clicked |-> Keep, beat |-> FALSE]

OrKeep(new, old) == IF new = Keep THEN old ELSE new

\* applyExecutionRunPatch: an UPDATE by id that re-checks nothing of the row it
\* overwrites.  heartbeat_at is only ever read of a running row, so the age of
\* any other row is kept at 0.
Patched(row, p) ==
  LET status == OrKeep(p.status, row.status) IN
  [status  |-> status,
   stage   |-> OrKeep(p.stage, row.stage),
   worker  |-> OrKeep(p.worker, row.worker),
   retries |-> OrKeep(p.retries, row.retries),
   failure |-> OrKeep(p.failure, row.failure),
   clicked |-> OrKeep(p.clicked, row.clicked),
   age     |-> IF p.beat \/ status # "running" THEN 0 ELSE row.age]

\* Mutants: one retry too many, one too few.
RetriesUpToMaxPlusOne(row, rep) ==
  rep.failure = "retryable" /\ ~rep.clicked /\ ~row.clicked /\ row.retries <= MaxRetries
GivesUpOneRetryEarly(row, rep) ==
  rep.failure = "retryable" /\ ~rep.clicked /\ ~row.clicked /\ row.retries + 1 < MaxRetries

\* updateExecutionRunStatus, the "failed" branch: retryable, no submit click
\* attested by the report or by the row, and retries left.
ShouldRetry(row, rep) ==
  /\ rep.failure = "retryable"
  /\ ~rep.clicked
  /\ ~row.clicked
  /\ row.retries < MaxRetries

RetryPatch(row, rep) ==
  [status |-> "queued", stage |-> "other", worker |-> NoWorker,
   retries |-> row.retries + 1, failure |-> rep.failure,
   clicked |-> rep.clicked, beat |-> TRUE]

\* The patch updateExecutionRunStatus computes from the row it has read.
StatusPatch(row, rep) ==
  CASE rep.status = "succeeded" ->
         [NoPatch EXCEPT !.status = "succeeded", !.stage = "other",
                         !.failure = "none", !.clicked = FALSE, !.beat = TRUE]
    [] rep.status = "submitted_unconfirmed" ->
         [NoPatch EXCEPT !.status = "submitted_unconfirmed", !.stage = "other",
                         !.failure = "none", !.clicked = TRUE, !.beat = TRUE]
    [] rep.status = "failed" /\ ShouldRetry(row, rep) -> RetryPatch(row, rep)
    [] rep.status = "failed" /\ ~ShouldRetry(row, rep) ->
         [NoPatch EXCEPT !.status = "failed", !.stage = "other",
                         !.failure = rep.failure, !.clicked = rep.clicked,
                         !.beat = TRUE]
    [] rep.status = "canceled" ->
         [NoPatch EXCEPT !.status = "canceled", !.stage = "other", !.beat = TRUE]
    [] rep.status = "running" ->
         [NoPatch EXCEPT !.status = "running", !.beat = TRUE]
    [] rep.status = "queued" -> [NoPatch EXCEPT !.status = "queued"]

\* The open attempt is finalized after a succeeded, failed (re-queued or not)
\* or canceled report; a submitted_unconfirmed report leaves it open.
ClosedBy(status) ==
  IF status \in {"succeeded", "failed", "canceled"} THEN status ELSE "none"

\* Mutant: any failure with retries left may be retried by hand.
RetryAnyFailure(row) == row.status = "failed" /\ row.retries < MaxRetries

\* buildRunSummary.retry_allowed
RetryAllowed(row) ==
  /\ row.status = "failed"
  /\ row.failure = "retryable"
  /\ row.retries < MaxRetries

\* applyExecutionRunOperatorAction: what is refused, and what is written.
OperatorMay(row, action) ==
  /\ action = "retry_now" => RetryAllowed(row)
  /\ action = "cancel" => row.status # "succeeded"
  /\ action = "resolve_without_retry" => row.status = "failed"

OperatorPatch(row, action) ==
  CASE action = "retry_now" ->
         [NoPatch EXCEPT !.status = "queued", !.stage = "other", !.worker = NoWorker]
    [] action = "cancel" ->
         [NoPatch EXCEPT !.status = "canceled", !.stage = "other"]
    [] action = "acknowledge" -> [NoPatch EXCEPT !.stage = row.stage]
    [] OTHER -> [NoPatch EXCEPT !.stage = "other"]

-----------------------------------------------------------------------------
(* Unique indexes *)

Created(r) == runs[r].status # NotCreated

OthersWith(r, statuses) == {q \in Run \ {r} : runs[q].status \in statuses}

\* execution_runs_one_active_per_cart_idx
CartFree(r) == \A q \in OthersWith(r, ACTIVE_STATUSES) : CartOf[q] # CartOf[r]

\* one_running_run_per_store
StoreFree(r) == \A q \in OthersWith(r, {"running"}) : StoreOf[q] # StoreOf[r]

\* Mutant: nothing looks for the store's other running run.
NoStoreIndex(r, status) == status \in ACTIVE_STATUSES => CartFree(r)

IndexesAllow(r, status) ==
  /\ status \in ACTIVE_STATUSES => CartFree(r)
  /\ status = "running" => StoreFree(r)

-----------------------------------------------------------------------------
(* Handlers *)

IdleCall ==
  [phase |-> "idle", run |-> NoRun, patch |-> NoPatch, close |-> "none",
   waiter |-> NoWorker]

\* A request occupies a free slot once its read is done and its patch decided.
Begin(c, r, p, close, w) ==
  /\ calls[c].phase = "idle"
  /\ calls' = [calls EXCEPT ![c] =
       [phase |-> "write", run |-> r, patch |-> p, close |-> close, waiter |-> w]]
  /\ UNCHANGED <<runs, attempts>>

\* createExecutionRunFromCart: the INSERT, after its check that the cart has no
\* active run (the index decides between two simultaneous inserts).
CreateRun(r) ==
  /\ ~Created(r)
  /\ CartFree(r)
  /\ runs' = [runs EXCEPT ![r].status = "queued"]
  /\ UNCHANGED <<attempts, calls>>

\* updateExecutionRunStatus up to its UPDATE: a finalized run is refused.
BeginStatusUpdate(c, r, rep, w) ==
  /\ runs[r].status \in ACTIVE_STATUSES
  /\ Begin(c, r, StatusPatch(runs[r], rep), ClosedBy(rep.status), w)

\* applyExecutionRunOperatorAction up to its UPDATE; only the cancel of a run
\* read as running closes the attempt.
BeginOperatorAction(c, r, action) ==
  /\ Created(r)
  /\ OperatorMay(runs[r], action)
  /\ Begin(c, r, OperatorPatch(runs[r], action),
           IF action = "cancel" /\ runs[r].status = "running" THEN "canceled" ELSE "none",
           NoWorker)

\* Mutant: the owner may beat a run that is no longer running.
BeatsWhateverItsStatus(r, w) == runs[r].worker \in {NoWorker, w}

\* heartbeatExecutionRun up to its UPDATE: the run must be running and not owned
\* by another worker; a run nobody owns is adopted.
MayBeat(r, w) ==
  /\ runs[r].status = "running"
  /\ runs[r].worker \in {NoWorker, w}

BeginHeartbeat(c, r, w, stage, waiter) ==
  /\ MayBeat(r, w)
  /\ Begin(c, r,
           [NoPatch EXCEPT !.stage = stage, !.beat = TRUE,
              !.worker = IF runs[r].worker = NoWorker THEN w ELSE Keep],
           "none", waiter)

\* The UPDATE of a handler that read the row earlier.
Write(c) ==
  LET k == calls[c]
      row == Patched(runs[k.run], k.patch)
  IN /\ k.phase = "write"
     /\ IndexesAllow(k.run, row.status)
     /\ runs' = [runs EXCEPT ![k.run] = row]
     /\ calls' = [calls EXCEPT ![c] =
          IF k.close = "none" THEN IdleCall
          ELSE [k EXCEPT !.phase = "close", !.patch = NoPatch]]
     /\ UNCHANGED attempts

\* getOpenExecutionRunAttempt: the newest attempt without finished_at.
OpenAttempts(r) == {n \in DOMAIN attempts[r] : attempts[r][n] = "running"}
IsNewestOpen(r, n) ==
  n \in OpenAttempts(r) /\ \A m \in OpenAttempts(r) : m <= n

\* finalizeOpenExecutionRunAttempt, the step after the UPDATE of the run.
CloseAttempt(c) ==
  LET k == calls[c] IN
  /\ k.phase = "close"
  /\ \/ /\ OpenAttempts(k.run) = {}
        /\ UNCHANGED attempts
     \/ \E n \in DOMAIN attempts[k.run] :
          /\ IsNewestOpen(k.run, n)
          /\ attempts' = [attempts EXCEPT ![k.run][n] = k.close]
  /\ calls' = [calls EXCEPT ![c] = IdleCall]
  /\ UNCHANGED runs

\* claimNextQueuedExecutionRun: the conditional UPDATE of a queued candidate.
\* Its read of the queue only chooses candidates, so any queued run may be it.
Claim(c, r, w) ==
  /\ calls[c].phase = "idle"
  /\ runs[r].status = "queued"
  /\ IndexesAllow(r, "running")
  /\ Len(attempts[r]) < MaxAttempts
  /\ runs' = [runs EXCEPT ![r] =
       [@ EXCEPT !.status = "running", !.stage = "other", !.worker = w, !.age = 0]]
  /\ calls' = [calls EXCEPT ![c] =
       [phase |-> "insert", run |-> r, patch |-> NoPatch, close |-> "none",
        waiter |-> w]]
  /\ UNCHANGED attempts

\* insertAttemptForClaimedRun: attempt_number is one more than the largest.
InsertAttempt(c) ==
  LET r == calls[c].run IN
  /\ calls[c].phase = "insert"
  /\ attempts' = [attempts EXCEPT ![r] = Append(@, "running")]
  /\ calls' = [calls EXCEPT ![c] = IdleCall]
  /\ UNCHANGED runs

\* A database error, a refused index or the death of the API process ends a
\* handler between two of its statements (serverError).
FailCall(c) ==
  /\ calls[c].phase # "idle"
  /\ calls' = [calls EXCEPT ![c] = IdleCall]
  /\ UNCHANGED <<runs, attempts>>

\* reapThresholdMinutes
ReapThreshold(stage) ==
  IF stage = "rpa_checkout" THEN STALE_RUN_MINUTES ELSE STALE_PRESUBMIT_MINUTES

\* Mutants: an orphan is put back into the queue; the reaper tidies the stage;
\* it leaves runs at checkout to a human.
ReapRequeues(r) ==
  /\ runs[r].status = "running"
  /\ runs[r].age >= ReapThreshold(runs[r].stage)
  /\ runs' = [runs EXCEPT ![r] = [@ EXCEPT !.status = "queued", !.worker = NoWorker, !.age = 0]]
  /\ UNCHANGED <<attempts, calls>>
ReapClearsStage(r) ==
  /\ runs[r].status = "running"
  /\ runs[r].age >= ReapThreshold(runs[r].stage)
  /\ runs' = [runs EXCEPT ![r] =
       [@ EXCEPT !.status = "failed", !.failure = "LK_RUN_REAPED", !.stage = "other", !.age = 0]]
  /\ UNCHANGED <<attempts, calls>>
ReapSparesCheckout(r) ==
  /\ runs[r].status = "running"
  /\ runs[r].stage # "rpa_checkout"
  /\ runs[r].age >= ReapThreshold(runs[r].stage)
  /\ runs' = [runs EXCEPT ![r] =
       [@ EXCEPT !.status = "failed", !.failure = "LK_RUN_REAPED", !.clicked = FALSE, !.age = 0]]
  /\ UNCHANGED <<attempts, calls>>

\* reapStaleExecutionRuns for one run: UPDATE ... WHERE status = running and
\* heartbeat_at < cutoff.  The stage it selected earlier can only have become
\* "other" since, for a beat would have moved heartbeat_at; the shorter
\* threshold then applies at the next pass.  progress_stage is kept.
Reap(r) ==
  /\ runs[r].status = "running"
  /\ runs[r].age >= ReapThreshold(runs[r].stage)
  /\ runs' = [runs EXCEPT ![r] =
       [@ EXCEPT !.status = "failed", !.failure = "LK_RUN_REAPED",
                 !.clicked = FALSE, !.age = 0]]
  /\ UNCHANGED <<attempts, calls>>

\* Mutant: a checkout is not spared.
RecoverAnyStale(row) == row.age >= RECOVER_STALE_SECONDS

\* shouldRecoverStuckRun
ShouldRecover(row) ==
  /\ row.stage # "rpa_checkout"
  /\ row.age >= RECOVER_STALE_SECONDS

\* recoverStuckStoreRuns for one run of the store: the user's "Start over".
Recover(r) ==
  /\ runs[r].status = "running"
  /\ ShouldRecover(runs[r])
  /\ runs' = [runs EXCEPT ![r] =
       [@ EXCEPT !.status = "canceled", !.failure = "final",
                 !.clicked = FALSE, !.age = 0]]
  /\ UNCHANGED <<attempts, calls>>

\* Time passes without a heartbeat.
HeartbeatAges(r) ==
  /\ runs[r].status = "running"
  /\ runs[r].age < STALE_RUN_MINUTES
  /\ runs' = [runs EXCEPT ![r].age = @ + 1]
  /\ UNCHANGED <<attempts, calls>>

-----------------------------------------------------------------------------
(* The table on its own, driven by callers that may call anything, any time.*)

InitialRow ==
  [status |-> NotCreated, stage |-> "other", worker |-> NoWorker, retries |-> 0,
   failure |-> "none", clicked |-> FALSE, age |-> 0]

Init ==
  /\ runs = [r \in Run |-> InitialRow]
  /\ attempts = [r \in Run |-> <<>>]
  /\ calls = [c \in Slot |-> IdleCall]

CallerSteps(c, r) ==
  \/ \E rep \in StatusReports : BeginStatusUpdate(c, r, rep, NoWorker)
  \/ \E action \in OPERATOR_ACTION : BeginOperatorAction(c, r, action)
  \/ \E w \in Worker, stage \in Stages : BeginHeartbeat(c, r, w, stage, NoWorker)
  \/ \E w \in Worker : Claim(c, r, w)

HandlerSteps(c) ==
  \/ Write(c)
  \/ CloseAttempt(c)
  \/ InsertAttempt(c)
  \/ FailCall(c)

ClockSteps(r) ==
  \/ Reap(r)
  \/ Recover(r)
  \/ HeartbeatAges(r)

Next ==
  \/ \E r \in Run : CreateRun(r) \/ ClockSteps(r)
  \/ \E c \in Slot, r \in Run : CallerSteps(c, r)
  \/ \E c \in Slot : HandlerSteps(c)

Spec == Init /\ [][Next]_runVars

-----------------------------------------------------------------------------
(* Safety *)

\* one_running_run_per_store keeps every path, the stale writes included, from
\* having two running runs of one store (they would fight over one MILO cart).
OneRunningPerStore ==
  \A q, r \in Run :
    (q # r /\ runs[q].status = "running" /\ runs[r].status = "running")
      => StoreOf[q] # StoreOf[r]

\* No path gives one cart two active runs (two orders of the same cart).
OneActivePerCart ==
  \A q, r \in Run :
    (q # r /\ runs[q].status \in ACTIVE_STATUSES /\ runs[r].status \in ACTIVE_STATUSES)
      => CartOf[q] # CartOf[r]

\* However many handlers race on a run, its retry_count stays within
\* max_retries, and so does the count any handler still means to write.
RetriesBounded ==
  /\ \A r \in Run : runs[r].retries <= MaxRetries
  /\ \A c \in Slot : calls[c].patch.retries # Keep => calls[c].patch.retries <= MaxRetries
=============================================================================
