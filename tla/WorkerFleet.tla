----------------------------- MODULE WorkerFleet -----------------------------
(***************************************************************************)
(* The RPA workers (workers/execution-worker.js, workers/run-rpa-worker.js)*)
(* driving the execution_runs table of module ExecutionRuns, the operators *)
(* and users acting on the same rows, and the one effect nobody can take   *)
(* back: the Checkout click on MILO.                                       *)
(*                                                                         *)
(* A worker works on one run at a time.  Its awaited calls end with an     *)
(* answer, with an error, or with its own 20 second timeout while the API  *)
(* still serves the request; its keepalive heartbeats are not awaited.     *)
(***************************************************************************)
EXTENDS ExecutionRuns

CONSTANTS
  Submit,       \* runs whose payload asks for mode submit and whose store is armed
  Preview,      \* runs that stop before Stage 5 (validate_only, cart_reset_only)
  OperatorActions, \* operator actions that are taken
  CrashesHappen,   \* worker machines may be restarted at any point
  StagesTimeOut,   \* Stages 3 to 5 may exceed their budgets; what they run goes on
  BeatsReorder,    \* a keepalive may be overtaken by a later awaited heartbeat
  WorkersStall     \* a worker may stay silent past the thresholds of the reaper

ASSUME FleetAssumption ==
  /\ Submit \subseteq Run
  /\ Preview \subseteq Run
  /\ Submit \cap Preview = {}
  /\ OperatorActions \subseteq OPERATOR_ACTION
  /\ {CrashesHappen, StagesTimeOut, BeatsReorder, WorkersStall} \subseteq BOOLEAN

VARIABLES
  workers,      \* what each worker is doing, and on which run
  dispatched,   \* Checkout clicks dispatched, per run
  rejected,     \* runs whose click MILO answered with its error toast
  old           \* runs that died at checkout more than 30 minutes ago

fleetVars == <<runs, attempts, calls, workers, dispatched, rejected, old>>

-----------------------------------------------------------------------------
(* processOneRpaRun by the points where it can be interleaved:
     idle       between runs, polling claim-next
     claiming   claim-next not answered yet
     working    Stages 1 and 2, or the node engine: a keepalive beats every 20 s
     adding     Stage 3, or the clearing of a cart reset: no keepalive, and an
                item MILO rejects sends no progress beat
     entering   awaited heartbeat rpa_validate not answered yet
     validating Stage 4: a keepalive beats every 15 s
     cleared    the duplicate-submit tripwire found nothing
     arming     awaited heartbeat rpa_checkout not answered yet
     armed      checkoutOnMilo runs, the Checkout button not clicked yet
     expired    its timeout has fired before the click; the stage's coroutine
                still runs until the browser is closed
     clicked    the point of no return is crossed
     reporting  finalizeRun not answered yet
     settling   the first report after the click failed; the node engine
                reports submitted_unconfirmed                                 *)
Points == {"idle", "claiming", "working", "adding", "entering", "validating",
           "cleared", "arming", "armed", "expired", "clicked", "reporting", "settling"}

WorkerStates ==
  [at : Points, run : Run \cup {NoRun},
   loose : BOOLEAN,     \* the timed-out Stage 5 coroutine is still running
   stray : BOOLEAN,     \* so is that of a timed-out Stage 3 or 4, in MILO's cart
   again : BOOLEAN]     \* a failed report will be followed by another

IdleWorker ==
  [at |-> "idle", run |-> NoRun, loose |-> FALSE, stray |-> FALSE, again |-> FALSE]

FleetTypeOK ==
  /\ TypeOK
  /\ workers \in [Worker -> WorkerStates]
  /\ dispatched \in [Run -> Nat]
  /\ rejected \in SUBSET Run
  /\ old \in SUBSET Run
  /\ \A w \in Worker :
       (workers[w].run = NoRun) <=> (workers[w].at \in {"idle", "claiming"})

\* Points at which processOneRpaRun acts on the MILO cart of its run's store.
DrivingPoints == {"working", "adding", "entering", "validating", "cleared", "arming",
                  "armed", "expired", "clicked"}

\* A worker has a run in hand while it may still come to click its Checkout.
InHand(w, r) ==
  workers[w].run = r /\ (workers[w].at \in DrivingPoints \/ workers[w].loose)

\* It acts in MILO for the run as long as any coroutine of its stages runs: that
\* of a timed-out Stage 3 or 4 types and clicks in the cart, never Checkout.
Acts(w, r) == InHand(w, r) \/ (workers[w].run = r /\ workers[w].stray)

Moves(w, point) == workers' = [workers EXCEPT ![w].at = point]
Leaves(w) == workers' = [workers EXCEPT ![w] = IdleWorker]
MiloUntouched == UNCHANGED <<dispatched, rejected, old>>

FleetInit ==
  /\ Init
  /\ workers = [w \in Worker |-> IdleWorker]
  /\ dispatched = [r \in Run |-> 0]
  /\ rejected = {}
  /\ old = {}

-----------------------------------------------------------------------------
(* Answers *)

\* Where an awaited call leaves the worker that gets its answer.  The last one
\* leads to the finally that closes the browser, and with it every coroutine.
Answered(s, r) ==
  CASE s.at = "claiming"  -> [s EXCEPT !.at = "working", !.run = r]
    [] s.at = "entering"  -> [s EXCEPT !.at = "validating"]
    [] s.at = "arming"    -> [s EXCEPT !.at = "armed"]
    [] OTHER              -> IdleWorker

\* An error or a timeout propagates out of processOneRpaRun, whatever the run's
\* row says; only the node engine's report after a click is followed by another.
Refused(s) ==
  IF s.at = "reporting" /\ s.again THEN [s EXCEPT !.at = "settling", !.again = FALSE]
  ELSE IdleWorker

\* A slot's last step answers whoever still waits for it.
HandlerStep(c) ==
  LET w == calls[c].waiter
      r == calls[c].run
  IN /\ Write(c) \/ CloseAttempt(c) \/ InsertAttempt(c)
     /\ workers' = IF w \in Worker /\ calls'[c].phase = "idle"
                     THEN [workers EXCEPT ![w] = Answered(@, r)]
                     ELSE workers
     /\ MiloUntouched

HandlerFails(c) ==
  LET w == calls[c].waiter IN
  /\ FailCall(c)
  /\ workers' = IF w \in Worker THEN [workers EXCEPT ![w] = Refused(@)] ELSE workers
  /\ MiloUntouched

\* fetchWithTimeout: the worker gives up, the API goes on.
WorkerGivesUp(c) ==
  LET w == calls[c].waiter IN
  /\ w \in Worker
  /\ calls' = [calls EXCEPT ![c].waiter = NoWorker]
  /\ workers' = [workers EXCEPT ![w] = Refused(@)]
  /\ UNCHANGED <<runs, attempts>>
  /\ MiloUntouched

-----------------------------------------------------------------------------
(* Worker *)

StartClaim(w, c, r) ==
  /\ workers[w].at = "idle"
  /\ Claim(c, r, w)
  /\ Moves(w, "claiming")
  /\ old' = old \ {r}
  /\ UNCHANGED <<dispatched, rejected>>

\* setInterval keepalives and progress beats.  The node engine's keepalive says
\* rpa_checkout from the start of a live submit to its end; Stage 3 beats for the
\* items MILO accepts; the browser's Stage 5 has none.
BeatStages(s) ==
  CASE s.at \in {"adding", "validating"} -> {"other"}
    [] s.at = "working" -> IF s.run \in Submit THEN Stages ELSE {"other"}
    [] s.at \in {"cleared", "armed", "clicked"} /\ s.run \in Submit -> {"rpa_checkout"}
    [] OTHER -> {}

Keepalive(w, c) ==
  /\ \E stage \in BeatStages(workers[w]) :
       BeginHeartbeat(c, workers[w].run, w, stage, NoWorker)
  /\ UNCHANGED workers
  /\ MiloUntouched

\* An awaited progress beat is refused: the run is no longer this worker's.
BeatRefused(w) ==
  /\ workers[w].at \in {"working", "adding", "cleared"}
  /\ ~MayBeat(workers[w].run, w)
  /\ Leaves(w)
  /\ UNCHANGED <<runs, attempts, calls>>
  /\ MiloUntouched

\* The browser's Stage 3, or a cart reset, after its awaited beat (which is one of
\* Keepalive's) was not refused.
StartAdding(w) ==
  /\ workers[w].at = "working"
  /\ MayBeat(workers[w].run, w)
  /\ Moves(w, "adding")
  /\ UNCHANGED <<runs, attempts, calls>>
  /\ MiloUntouched

\* Stage 4 begins with the awaited heartbeat that ends Stage 3's silence.
StartValidate(w, c) ==
  /\ workers[w].at = "adding"
  /\ BeginHeartbeat(c, workers[w].run, w, "other", w)
  /\ Moves(w, "entering")
  /\ MiloUntouched

\* fetchAmbiguousCheckoutDeaths: failed at rpa_checkout in the last 30 minutes.
\* A finalized failure has another stage, so only reaped runs show.
DiedAtCheckout(q) == runs[q].status = "failed" /\ runs[q].stage = "rpa_checkout"
AmbiguousDeaths(store) ==
  {q \in Run \ old : StoreOf[q] = store /\ DiedAtCheckout(q)}

\* Stage 4 is over, or the node engine about to submit; a live submit goes on only
\* past the tripwire.
PassTripwire(w) ==
  LET r == workers[w].run IN
  /\ workers[w].at \in {"working", "validating"}
  /\ r \notin Preview
  /\ r \in Submit => AmbiguousDeaths(StoreOf[r]) = {}
  /\ Moves(w, "cleared")
  /\ UNCHANGED <<runs, attempts, calls>>
  /\ MiloUntouched

PendingBeats(r) ==
  {c \in Slot : calls[c].phase = "write" /\ calls[c].run = r /\ calls[c].waiter = NoWorker
                  /\ calls[c].patch.beat /\ calls[c].patch.status = Keep}

\* The awaited heartbeat that marks the run as being at checkout.
Arm(w, c) ==
  LET r == workers[w].run IN
  /\ workers[w].at = "cleared"
  /\ ~BeatsReorder => PendingBeats(r) = {}
  /\ BeginHeartbeat(c, r, w, "rpa_checkout", w)
  /\ Moves(w, "arming")
  /\ MiloUntouched

Click(r) == dispatched' = [dispatched EXCEPT ![r] = @ + 1]

Dispatch(w) ==
  LET r == workers[w].run IN
  /\ workers[w].at = "armed"
  /\ r \in Submit
  /\ Click(r)
  /\ Moves(w, "clicked")
  /\ UNCHANGED <<runs, attempts, calls, rejected, old>>

\* withTimeout rejects before the click is marked; nothing stops run() itself.
StageTimesOut(w) ==
  /\ StagesTimeOut
  /\ workers[w].at = "armed"
  /\ workers' = [workers EXCEPT ![w].at = "expired", ![w].loose = TRUE]
  /\ UNCHANGED <<runs, attempts, calls>>
  /\ MiloUntouched

LateClick(w) ==
  LET r == workers[w].run IN
  /\ workers[w].loose
  /\ r \in Submit
  /\ Click(r)
  /\ workers' = [workers EXCEPT ![w].loose = FALSE]
  /\ UNCHANGED <<runs, attempts, calls, rejected, old>>

Report(status, failure, clicked) ==
  [status |-> status, failure |-> failure, clicked |-> clicked]

\* Mutant: a timeout after the click is a transient failure like any other.
ReportsForgettingClick(s) ==
  IF s.at \in {"working", "clicked"} THEN {Report("failed", "retryable", FALSE)} ELSE {}

\* Mutant: MILO_STAGE5_TIMEOUT is matched by its TIMEOUT and retried.
ReportsTimeoutRetryable(s) ==
  IF s.at \in {"working", "expired"} THEN {Report("failed", "retryable", FALSE)} ELSE {}

\* A refused payload, a failed or timed-out stage (the time limits of Stages 1 to 4
\* are retryable), or the end of a run that is only a preview.
StagePoints == {"working", "adding", "validating"}
ReportsFromStages(r) ==
  {Report("failed", "retryable", FALSE), Report("failed", "final", FALSE)}
  \cup IF r \in Preview THEN {Report("succeeded", "final", FALSE)} ELSE {}

\* After the tripwire MILO's cart is compared with the payload: a mismatch refuses.
ReportsAtBoundary == {Report("failed", "final", FALSE)}

\* Checkout stops before the click: on a guard, or because nothing is to be
\* submitted.
ReportsBeforeClick(r) ==
  {Report("failed", "final", FALSE)}
  \cup IF r \in Submit THEN {} ELSE {Report("succeeded", "final", FALSE)}

\* Every MILO_STAGE5 code is final.  A timed-out Stage 5 attests a click only if
\* it was marked before the throw.
ReportsOnTimeout(loose) ==
  {Report("failed", "final", clicked) : clicked \in {FALSE, ~loose}}

\* The node engine's answer to whatever goes wrong past its POST.
Unconfirmed == Report("submitted_unconfirmed", "final", TRUE)

\* Truth rule: past the click only MILO's own rejection is a failure.
ReportsAfterClick ==
  {Report("succeeded", "final", FALSE), Report("failed", "final", TRUE), Unconfirmed}

\* What processOneRpaRun may report from each point.
ReportsFrom(s) ==
  CASE s.at \in StagePoints -> ReportsFromStages(s.run)
    [] s.at = "cleared"  -> ReportsAtBoundary
    [] s.at = "armed"    -> ReportsBeforeClick(s.run)
    [] s.at = "expired"  -> ReportsOnTimeout(s.loose)
    [] s.at = "clicked"  -> ReportsAfterClick
    [] s.at = "settling" -> {Unconfirmed}
    [] OTHER -> {}

\* withOverallTimeout (Stage 3) and withTimeout (Stage 4) only reject: what they
\* were waiting for goes on while the retryable failure is reported.
MayStray(s, rep) ==
  StagesTimeOut /\ s.at \in {"adding", "validating"} /\ rep.failure = "retryable"

\* The node engine guards its reports after the click, the browser does not.
FinalizeRun(w, c, rep) ==
  LET s == workers[w] IN
  /\ rep \in ReportsFrom(s)
  /\ BeginStatusUpdate(c, s.run, rep, w)
  /\ \E again \in {FALSE, s.at = "clicked" /\ rep.status # "failed"},
        stray \in {FALSE, MayStray(s, rep)} :
       workers' = [workers EXCEPT ![w].at = "reporting", ![w].stray = stray, ![w].again = again]
  /\ rejected' = IF s.at = "clicked" /\ rep.status = "failed"
                   THEN rejected \cup {s.run} ELSE rejected
  /\ UNCHANGED <<dispatched, old>>

\* "Execution run is already finalized": the error ends processOneRpaRun; after
\* a click it leads to a report of submitted_unconfirmed, refused as well.
FinalizeRefused(w) ==
  /\ ReportsFrom(workers[w]) # {}
  /\ runs[workers[w].run].status \notin ACTIVE_STATUSES
  /\ Leaves(w)
  /\ UNCHANGED <<runs, attempts, calls>>
  /\ MiloUntouched

\* The process dies or the machine restarts; the API goes on serving its calls.
Crash(w) ==
  /\ CrashesHappen
  /\ workers[w].at # "idle"
  /\ Leaves(w)
  /\ calls' = [c \in Slot |->
       IF calls[c].waiter = w THEN [calls[c] EXCEPT !.waiter = NoWorker] ELSE calls[c]]
  /\ UNCHANGED <<runs, attempts>>
  /\ MiloUntouched

-----------------------------------------------------------------------------
(* Everyone else *)

WithoutWorkers(A) == A /\ UNCHANGED workers /\ MiloUntouched

UserCreatesRun(r) == WithoutWorkers(CreateRun(r))
UserStartsOver(r) == WithoutWorkers(Recover(r))
OperatorActs(c, r, action) ==
  action \in OperatorActions /\ WithoutWorkers(BeginOperatorAction(c, r, action))

\* The reaper runs inside claim-next, so on behalf of a polling worker.
PollReaps(w, r) ==
  /\ workers[w].at = "idle"
  /\ WithoutWorkers(Reap(r))

\* A worker beats at least every 20 s in Stages 1, 2 and 4 and in the node engine.
\* Stage 3 may be silent past the thresholds of Start over and of the reaper, but
\* ends within 10 minutes; Stage 5 has no keepalive but ends, scrape included,
\* within 9 minutes.
QuietPoints == {"armed", "expired", "clicked", "reporting", "settling"}
SilentPoints == QuietPoints \cup {"adding", "entering"}

\* A Stage 5 coroutine outlives its stage by one report (20 s) only, and a run that
\* could be claimed after that report was written is younger than 90 s.
OutlivedBy(r) ==
  \E w \in Worker :
    /\ workers[w].loose
    /\ workers[w].run # r
    /\ StoreOf[workers[w].run] = StoreOf[r]
    /\ runs[workers[w].run].status # "canceled"

SilenceAllowed(r) ==
  \/ WorkersStall
  \/ /\ \A w \in Worker : workers[w].run = r =>
          workers[w].at \in SilentPoints /\ runs[r].age < STALE_PRESUBMIT_MINUTES
     /\ \A c \in Slot :
          calls[c].phase = "insert" /\ calls[c].run = r => calls[c].waiter = NoWorker
     /\ ~OutlivedBy(r)

TimePasses(r) == SilenceAllowed(r) /\ WithoutWorkers(HeartbeatAges(r))

TripwireWindowPasses(r) ==
  /\ runs[r].status = "failed"
  /\ runs[r].failure = "LK_RUN_REAPED"
  /\ r \notin old
  /\ old' = old \cup {r}
  /\ UNCHANGED <<runs, attempts, calls, workers, dispatched, rejected>>

WorkerStep(w) ==
  \/ \E c \in Slot, r \in Run : StartClaim(w, c, r)
  \/ \E c \in Slot : Keepalive(w, c)
  \/ BeatRefused(w)
  \/ StartAdding(w)
  \/ \E c \in Slot : StartValidate(w, c)
  \/ PassTripwire(w)
  \/ \E c \in Slot : Arm(w, c)
  \/ Dispatch(w)
  \/ StageTimesOut(w)
  \/ LateClick(w)
  \/ \E c \in Slot, rep \in ReportsFrom(workers[w]) : FinalizeRun(w, c, rep)
  \/ FinalizeRefused(w)
  \/ Crash(w)

FleetNext ==
  \/ \E w \in Worker : WorkerStep(w)
  \/ \E c \in Slot : HandlerStep(c) \/ HandlerFails(c) \/ WorkerGivesUp(c)
  \/ \E r \in Run : UserCreatesRun(r) \/ UserStartsOver(r) \/ TimePasses(r) \/ TripwireWindowPasses(r)
  \/ \E c \in Slot, r \in Run, action \in OPERATOR_ACTION : OperatorActs(c, r, action)
  \/ \E w \in Worker, r \in Run : PollReaps(w, r)

FleetSpec == FleetInit /\ [][FleetNext]_fleetVars

(* Fairness.  The API bounds each database call (15 s) and the worker each API
   call (20 s), so a request ends.  A worker that has not crashed goes on: every
   stage has a time budget, and an idle worker polls.  Strong fairness stands for
   "a request finds a slot", which is scarce in the model only.  Crash, user and
   operator steps are not fair.                                              *)
WorkerAdvances(w) ==
  \/ \E c \in Slot, r \in Run : StartClaim(w, c, r)
  \/ BeatRefused(w)
  \/ StartAdding(w)
  \/ \E c \in Slot : StartValidate(w, c)
  \/ PassTripwire(w)
  \/ \E c \in Slot : Arm(w, c)
  \/ Dispatch(w)
  \/ \E c \in Slot, rep \in ReportsFrom(workers[w]) : FinalizeRun(w, c, rep)
  \/ FinalizeRefused(w)

FairFleetSpec ==
  /\ FleetSpec
  /\ \A c \in Slot : WF_fleetVars(HandlerStep(c) \/ HandlerFails(c))
  /\ \A w \in Worker : SF_fleetVars(WorkerAdvances(w))
  /\ \A w \in Worker, r \in Run : WF_fleetVars(PollReaps(w, r))
  /\ \A r \in Run : WF_fleetVars(TimePasses(r))

-----------------------------------------------------------------------------
(* Safety *)

\* Whatever races between the API's reads and writes, lost answers, stalls,
\* restarts, reaping and operator actions: one run clicks Checkout at most once.
DispatchedOncePerRun == \A r \in Run : dispatched[r] <= 1

\* "Once Stage 5 dispatches the Checkout click, no path may re-queue the run":
\* not even a write decided before the click.
DispatchedNeverRequeued ==
  \A r \in Run : dispatched[r] > 0 =>
    /\ runs[r].status # "queued"
    /\ \A c \in Slot : calls[c].run = r => calls[c].patch.status # "queued"

\* A run can be re-queued while the worker that failed it still waits for its
\* answer, and claimed by another.  Of two workers that act in MILO for one run, one
\* has already reported a timed-out Stage 3 or 4 whose coroutine is not stopped yet:
\* at most one can still come to click.
OnlyStraysOverlap ==
  \A r \in Run, v, w \in Worker :
    v # w /\ Acts(v, r) /\ Acts(w, r) => workers[v].stray \/ workers[w].stray

\* The operator's retry_now is never offered for a run a worker has processed:
\* every retryable failure with retries left has been re-queued already.
RetryNowNeverOffered == \A r \in Run : ~RetryAllowed(runs[r])

\* Stage 3's silence lets "Start over" or the reaper take a run from a worker that
\* is at work on it.  None the less, from the moment a worker asks to enter checkout
\* until it reports, the run is running and its own: a worker that lost its run
\* in Stage 3 stops before checkout, and a slow checkout is not reaped.
CheckoutPoints == {"arming", "armed", "expired", "clicked"}
CheckoutOwnsRun ==
  \A r \in Run, w \in Worker :
    (workers[w].run = r /\ workers[w].at \in CheckoutPoints)
      => runs[r].status = "running" /\ runs[r].worker = w

\* Two workers may come to drive one store's cart (a run lost in Stage 3, a stage
\* that outlives its report).  Of two that may click Checkout at once, one has
\* reported a timed-out Stage 5 and is about to close its browser.
AtCheckout(w) == workers[w].at \in CheckoutPoints \/ workers[w].loose
OneCheckoutPerStore ==
  \A v, w \in Worker :
    (v # w /\ AtCheckout(v) /\ AtCheckout(w)
       /\ StoreOf[workers[v].run] = StoreOf[workers[w].run])
      => "reporting" \in {workers[v].at, workers[w].at}

\* MILO carts are account-scoped: no two workers drive one store's cart.
OneDriverPerStore ==
  \A q, r \in Run, v, w \in Worker :
    (Acts(v, q) /\ Acts(w, r) /\ StoreOf[q] = StoreOf[r]) => v = w

\* The tripwire's purpose: within its window no Checkout is clicked for a store
\* one of whose runs clicked Checkout and then died without an outcome.
DiedAfterClick(q) ==
  /\ dispatched[q] > 0
  /\ runs[q].status = "failed"
  /\ runs[q].failure = "LK_RUN_REAPED"

NoClickAfterAmbiguousDeath ==
  [][\A q, r \in Run :
       dispatched'[r] > dispatched[r] /\ StoreOf[q] = StoreOf[r] /\ DiedAfterClick(q)
         => q \in old]_fleetVars

\* The truth rule: a run whose click was dispatched is presented as failed only
\* when MILO itself rejected the order.
FailedMeansNotOrdered ==
  \A r \in Run : runs[r].status = "failed" /\ dispatched[r] > 0 => r \in rejected

\* "Cannot cancel a succeeded run", whenever the cancel was requested.
SucceededStaysSucceeded ==
  [][\A r \in Run : runs[r].status = "succeeded" => runs'[r].status = "succeeded"]_fleetVars

-----------------------------------------------------------------------------
(* Refinement *)

\* The worker that has the run in hand; there is one at most (OnlyStraysOverlap).
\* A stray still acts in MILO's cart, but has put the run down: it never clicks.
Holder(r) ==
  IF \E w \in Worker : InHand(w, r) THEN CHOOSE w \in Worker : InHand(w, r)
  ELSE NoWorker

Promise == INSTANCE OrderOnce WITH
  asked <- {r \in Run : Created(r)},
  orders <- dispatched,
  holder <- [r \in Run |-> Holder(r)]

\* With every hazard at work, only a worker that has the run in hand clicks, it
\* clicks once, nobody takes over from a worker that still has the run, and after
\* the click no worker ever takes it again (claim-next, re-queue, retry_now).
KeepsPromise == Promise!Spec

-----------------------------------------------------------------------------
(* Liveness *)

\* Every run that is created is eventually finalized, whatever workers crash and
\* answers are lost, as long as some worker keeps polling.
RunsSettle == \A r \in Run : Created(r) ~> runs[r].status \in TERMINAL_STATUSES
=============================================================================
