---------------------------- MODULE WorkerProcess ----------------------------
(***************************************************************************)
(* One worker process around its runs: the claim loop with its dead-man    *)
(* switch and its shutdown (workers/run-rpa-worker.js), the watchdog       *)
(* (workers/loop-watchdog.js), the browser kept for reuse                  *)
(* (workers/rpa-session-manager.js), the login attempts that launch        *)
(* browsers (rpa/stages/login.js) and the places where processOneRpaRun    *)
(* (workers/execution-worker.js) takes a session and gives it back.        *)
(*                                                                         *)
(* What the runs do is left to WorkerFleet and SubmitPipeline; here they   *)
(* pass their stages, fail, throw or hang.                                 *)
(***************************************************************************)
EXTENDS Integers, Sequences

CONSTANTS
  Envs,         \* what the environment variables may switch on
  Account,      \* pairs of a store and a license runs are made for
  Browser,      \* browsers the machine has memory for
  NoBrowser,    \* the attempt has launched no browser
  NoSession,    \* a variable that holds no session
  NoClaim,      \* no run has been claimed in this iteration
  Lines,        \* numbers of lines the ordered carts may have
  MaxArrivals,  \* bound: runs that are queued
  MaxLogins     \* login attempts (maxAttempts)

ASSUME WorkerProcessAssumption ==
  /\ Envs \subseteq [persist : BOOLEAN, api : BOOLEAN]
  /\ Lines \subseteq Nat \ {0}
  /\ MaxArrivals \in Nat
  /\ MaxLogins \in Nat \ {0}
  /\ NoBrowser \notin Browser

VARIABLES
  env,          \* LK_RPA_PERSIST_SESSION=yes, LK_ORDER_ENGINE=api
  at,           \* where the loop awaits
  shuttingDown, \* a signal came
  waiting,      \* runs in the queue
  arrived,      \* runs that have been queued
  claim,        \* the run of this iteration
  streak,       \* consecutiveStage1Failures
  age,          \* seconds since lastLoopTickAt
  hung,         \* what the loop awaits never settles
  browsers,     \* the browser processes of the machine
  login,        \* the call of loginToMilo
  session,      \* the session the run drives
  held,         \* the session manager's one session
  ending,       \* how the process ended
  results       \* how the claimed runs of this process ended, in order

clock == <<age, hung>>
queue == <<waiting, arrived>>
warm == <<browsers, login, session, held>>
process == <<env, shuttingDown, streak, ending, results>>
workerVars == <<at, claim, clock, queue, warm, process>>

\* Stage 3's budget grows with the cart, from 4 minutes to 10.
AddingLimit(lines) ==
  LET scaled == 120 + 4 * lines IN
  IF scaled < 240 THEN 240 ELSE IF scaled > 600 THEN 600 ELSE scaled

\* The stages that limit themselves, and the seconds each may take of a cart.
Limited == {"login", "navigate", "adding", "validating", "checkout"}
Limit(stage, lines) ==
  CASE stage = "login"      -> 450
    [] stage = "navigate"   -> 150
    [] stage = "adding"     -> AddingLimit(lines)
    [] stage = "validating" -> 300
    [] stage = "checkout"   -> 420

WedgeOfTenMinutes == 600
WedgeLimit == 1200
Awaited == Limited \cup {"engine"}
STAGE1_DEADMAN_THRESHOLD == 3

LoopPoints == Awaited \cup {"polling", "claimed", "disposing", "syncing", "resting", "deadman",
                                "closing", "down"}

Claims == [account : Account,
           kind : {"validate", "submit", "reset"},
           lines : {0} \cup Lines,              \* of its cart, when MILO is as slow as the
                                                \* limits allow; 0 when it is not slow
           stage : Awaited \cup {"none"},       \* the last one it came to
           outcome : {"none", "ok", "failed", "stage1", "threw"}]

Sessions == [browser : Browser, account : Account,
             navigated : BOOLEAN,               \* Stage 2 has selected the license
             managed : BOOLEAN, reused : BOOLEAN]

Held == [session : Sessions, busy : BOOLEAN,
         idle : BOOLEAN]                        \* released longer than maxIdleMs ago

NoLogin == [attempt |-> 0, own |-> NoBrowser]

ASSUME NoValueAssumption == NoSession \notin Sessions \cup Held /\ NoClaim \notin Claims

WorkerTypeOK ==
  /\ env \in Envs
  /\ at \in LoopPoints
  /\ shuttingDown \in BOOLEAN /\ hung \in BOOLEAN
  /\ arrived \in 0..MaxArrivals /\ waiting \in 0..arrived
  /\ claim \in Claims \cup {NoClaim}
  /\ streak \in 0..STAGE1_DEADMAN_THRESHOLD
  /\ age \in Nat
  /\ browsers \in [Browser -> {"closed", "launching", "abandoned", "open"}]
  /\ login \in [attempt : 0..MaxLogins, own : Browser \cup {NoBrowser}]
  /\ session \in Sessions \cup {NoSession}
  /\ held \in Held \cup {NoSession}
  /\ ending \in {"none", "done", "deadman", "watchdog", "forced"}
  /\ results \in Seq({"stage1", "other"})
  /\ at \in Awaited \cup {"claimed", "disposing"} => claim # NoClaim
  /\ at \in Awaited \ {"login"} => session # NoSession
  /\ at = "down" <=> ending # "none"

WorkerInit ==
  /\ env \in Envs
  /\ at = "polling" /\ claim = NoClaim
  /\ shuttingDown = FALSE
  /\ waiting = 0 /\ arrived = 0
  /\ streak = 0 /\ results = <<>>
  /\ age = 0 /\ hung = FALSE
  /\ browsers = [b \in Browser |-> "closed"]
  /\ login = NoLogin /\ session = NoSession /\ held = NoSession
  /\ ending = "none"

-----------------------------------------------------------------------------
(* The queue, the clock and the signals *)

\* A run is queued.
Arrive ==
  /\ arrived < MaxArrivals
  /\ arrived' = arrived + 1
  /\ waiting' = waiting + 1
  /\ UNCHANGED <<at, claim, clock, warm, process>>

\* What the loop awaits is never answered, and nothing but the watchdog notices.
Hang ==
  /\ at \in LoopPoints \ {"polling", "resting", "down"} /\ ~hung
  /\ hung' = TRUE
  /\ age' = WedgeLimit + 1
  /\ UNCHANGED <<at, claim, queue, warm, process>>

\* The session has waited for longer than maxIdleMs.
SessionAges ==
  /\ held # NoSession /\ ~held.busy /\ ~held.idle
  /\ held' = [held EXCEPT !.idle = TRUE]
  /\ UNCHANGED <<at, claim, clock, queue, browsers, login, session, process>>

\* The process is gone and what it launched with it: the machine is started anew.
Exit(how) ==
  /\ at' = "down" /\ ending' = how
  /\ browsers' = [b \in Browser |-> "closed"]
  /\ login' = NoLogin /\ session' = NoSession /\ held' = NoSession

\* SIGINT or SIGTERM: the first lets the run finish, the second does not.
Signal ==
  /\ at # "down"
  /\ shuttingDown' = TRUE
  /\ \/ shuttingDown /\ Exit("forced")
     \/ ~shuttingDown /\ UNCHANGED <<at, ending, warm>>
  /\ UNCHANGED <<env, claim, clock, queue, streak, results>>

\* A watchdog of runs only, and one that a signal stops.
WatchdogOfRuns ==
  /\ at # "down" /\ age > WedgeLimit
  /\ claim # NoClaim
  /\ Exit("watchdog")
  /\ UNCHANGED <<env, claim, clock, queue, shuttingDown, streak, results>>
WatchdogUntilSignal ==
  /\ at # "down" /\ age > WedgeLimit
  /\ ~shuttingDown
  /\ Exit("watchdog")
  /\ UNCHANGED <<env, claim, clock, queue, shuttingDown, streak, results>>

\* The interval of startLoopWatchdog.
Watchdog ==
  /\ at # "down" /\ age > WedgeLimit
  /\ Exit("watchdog")
  /\ UNCHANGED <<env, claim, clock, queue, shuttingDown, streak, results>>

Restart ==
  /\ at = "down"
  /\ at' = "polling" /\ claim' = NoClaim /\ ending' = "none"
  /\ shuttingDown' = FALSE /\ streak' = 0 /\ results' = <<>>
  /\ age' = 0 /\ hung' = FALSE
  /\ UNCHANGED <<env, queue, warm>>

-----------------------------------------------------------------------------
(* The loop *)

Awaits(point) == at = point /\ ~hung

\* The top of the loop: a run is claimed, ...
ClaimRun ==
  /\ at = "polling" /\ ~shuttingDown
  /\ waiting > 0
  /\ waiting' = waiting - 1
  /\ \E a \in Account, k \in {"validate", "submit", "reset"}, n \in {0} \cup Lines :
       claim' = [account |-> a, kind |-> k, lines |-> n, stage |-> "none", outcome |-> "none"]
  /\ at' = "claimed"
  /\ age' = 0
  /\ UNCHANGED <<arrived, hung, warm, process>>

\* ... there is none, or the API did not answer and the loop backs off.
ClaimNothing ==
  /\ at = "polling" /\ ~shuttingDown
  /\ \/ waiting = 0 /\ at' = "syncing"
     \/ at' = "resting"
  /\ claim' = NoClaim
  /\ age' = 0
  /\ UNCHANGED <<hung, queue, warm, process>>

\* maybeRunOrderSyncTick returns, whatever happened in it; then the loop sleeps.
SyncEnds ==
  /\ Awaits("syncing")
  /\ at' = "resting"
  /\ UNCHANGED <<claim, clock, queue, warm, process>>

\* Woken by the time or by a signal.
Wake ==
  /\ at = "resting"
  /\ at' = "polling"
  /\ UNCHANGED <<claim, clock, queue, warm, process>>

\* forceCloseAll closes the held session, if there is one.
ClosedWith(s) == IF s = NoSession THEN browsers
                 ELSE [browsers EXCEPT ![s.browser] = "closed"]
TeardownHeld ==
  /\ browsers' = IF held = NoSession THEN browsers ELSE ClosedWith(held.session)
  /\ held' = NoSession

LeaveLoop ==
  /\ at = "polling" /\ shuttingDown
  /\ at' = "closing"
  /\ TeardownHeld
  /\ UNCHANGED <<claim, clock, queue, login, session, process>>

ExitAfterClose ==
  /\ \/ Awaits("closing") /\ Exit("done")
     \/ Awaits("deadman") /\ Exit("deadman")
  /\ UNCHANGED <<env, claim, clock, queue, shuttingDown, streak, results>>

-----------------------------------------------------------------------------
(* The run: a session, or a login *)

\* The next stage of the run, which takes next to no time or all it allows itself.
Enter(stage) ==
  /\ at' = stage
  /\ claim' = [claim EXCEPT !.stage = stage]
  /\ age' = IF claim.lines # 0 /\ stage \in Limited THEN age + Limit(stage, claim.lines) ELSE age
  /\ UNCHANGED hung

\* The run is over; the finally block comes next.
Finish(outcome) ==
  /\ at' = "disposing"
  /\ claim' = [claim EXCEPT !.outcome = outcome]
  /\ UNCHANGED clock

\* A payload or credentials that are missing, or the node engine's whole run: no browser.
EndWithoutBrowser ==
  /\ Awaits("claimed")
  /\ \E outcome \in {"ok", "failed", "threw"} : Finish(outcome)
  /\ UNCHANGED <<queue, warm, process>>

FirstStage == IF env.api /\ claim.kind = "validate" THEN "engine" ELSE "adding"

\* Reuse that does not ask whose session it is.
ReusableByAnyone ==
  /\ held # NoSession
  /\ ~held.busy
  /\ ~held.idle

Reusable ==
  /\ held # NoSession
  /\ held.session.account = claim.account
  /\ ~held.busy
  /\ ~held.idle

\* acquireSession: the held session if it is this account's, not too old and alive.
ReuseSession ==
  /\ Awaits("claimed") /\ env.persist
  /\ Reusable
  /\ session' = [held.session EXCEPT !.reused = TRUE]
  /\ held' = [held EXCEPT !.busy = TRUE]
  /\ Enter(FirstStage)
  /\ UNCHANGED <<queue, browsers, login, process>>

\* Anything else is closed, unless it is busy: a probe may fail where Reusable holds.
StartLogin ==
  /\ Awaits("claimed")
  /\ IF env.persist /\ held # NoSession /\ ~(held.session.account = claim.account /\ held.busy)
     THEN TeardownHeld ELSE UNCHANGED <<browsers, held>>
  /\ Enter("login")
  /\ login' = [attempt |-> 1, own |-> NoBrowser]
  /\ UNCHANGED <<queue, session, process>>

\* launchChromium, if the machine has room for another browser.
Launch(b) ==
  /\ Awaits("login") /\ login.own = NoBrowser
  /\ browsers[b] = "closed"
  /\ browsers' = [browsers EXCEPT ![b] = "launching"]
  /\ login' = [login EXCEPT !.own = b]
  /\ UNCHANGED <<at, claim, clock, queue, session, held, process>>

\* The launch resolves; an abandoned attempt closes the browser it gets.
LaunchResolves(b) ==
  /\ browsers[b] \in {"launching", "abandoned"}
  /\ browsers' = [browsers EXCEPT ![b] = IF @ = "launching" THEN "open" ELSE "closed"]
  /\ UNCHANGED <<at, claim, clock, queue, login, session, held, process>>

\* A launch that nobody waits for any more is forgotten.
AbandonedUnsealed ==
  IF login.own = NoBrowser THEN browsers
  ELSE [browsers EXCEPT ![login.own] = IF @ = "launching" THEN @ ELSE "closed"]

\* The attempt is over: what it launched is closed, or will be once it is there.
Abandoned ==
  IF login.own = NoBrowser THEN browsers
  ELSE [browsers EXCEPT ![login.own] = IF @ = "launching" THEN "abandoned" ELSE "closed"]

\* Only a network error, which the attempt itself reports, is tried again.
RetryLogin ==
  /\ Awaits("login") /\ login.attempt < MaxLogins
  /\ login.own # NoBrowser /\ browsers[login.own] = "open"
  /\ browsers' = Abandoned
  /\ login' = [attempt |-> login.attempt + 1, own |-> NoBrowser]
  /\ UNCHANGED <<at, claim, clock, queue, session, held, process>>

\* Timeout, CAPTCHA, wrong password, or the last attempt.
FailLogin ==
  /\ Awaits("login")
  /\ browsers' = Abandoned
  /\ login' = NoLogin
  /\ \E outcome \in {"stage1", "threw"} : Finish(outcome)
  /\ UNCHANGED <<queue, session, held, process>>

LogIn ==
  /\ Awaits("login")
  /\ login.own # NoBrowser /\ browsers[login.own] = "open"
  /\ session' = [browser |-> login.own, account |-> claim.account, navigated |-> FALSE,
                 managed |-> FALSE, reused |-> FALSE]
  /\ login' = NoLogin
  /\ Enter(IF env.api /\ claim.kind = "validate" THEN "engine" ELSE "navigate")
  /\ UNCHANGED <<queue, browsers, held, process>>

\* attachFreshSession: whatever is held is closed, and the run's session held instead.
Attach(s) ==
  /\ env.persist /\ ~s.reused
  /\ browsers' = IF held = NoSession THEN browsers ELSE ClosedWith(held.session)
  /\ session' = [s EXCEPT !.managed = TRUE]
  /\ held' = [session |-> [s EXCEPT !.managed = TRUE], busy |-> TRUE, idle |-> FALSE]

Navigate ==
  /\ Awaits("navigate")
  /\ LET s == [session EXCEPT !.navigated = TRUE]
     IN \/ Attach(s)
        \/ ~env.persist /\ session' = s /\ UNCHANGED <<browsers, held>>
  /\ Enter("adding")
  /\ UNCHANGED <<queue, login, process>>

-----------------------------------------------------------------------------
(* The run: its stages and its end *)

\* The engine called from a page attaches the session it was called on.
EngineValidates ==
  /\ Awaits("engine")
  /\ \/ Attach(session)
     \/ ~(env.persist /\ ~session.reused) /\ UNCHANGED <<browsers, session, held>>
  /\ Finish("ok")
  /\ UNCHANGED <<queue, login, process>>

\* Stage 3 ends a cart reset, Stage 4 a validation, Stage 5 a submit.
StageSucceeds ==
  /\ \/ Awaits("adding") /\ (IF claim.kind = "reset" THEN Finish("ok") ELSE Enter("validating"))
     \/ Awaits("validating") /\ (IF claim.kind = "validate" THEN Finish("ok") ELSE Enter("checkout"))
     \/ Awaits("checkout") /\ Finish("ok")
  /\ UNCHANGED <<queue, warm, process>>

\* A stage fails, or a report of its end does.
StageFails ==
  /\ ~hung /\ at \in Awaited \ {"login"}
  /\ \E outcome \in {"failed", "threw"} : Finish(outcome)
  /\ UNCHANGED <<queue, warm, process>>

\* The finally block: a managed session is released, another one is closed.
Release ==
  IF session = NoSession THEN UNCHANGED <<browsers, held>>
  ELSE IF ~session.managed THEN browsers' = ClosedWith(session) /\ UNCHANGED held
  ELSE IF claim.outcome # "ok" THEN TeardownHeld
  ELSE held' = [session |-> [session EXCEPT !.reused = FALSE], busy |-> FALSE, idle |-> FALSE]
       /\ UNCHANGED browsers

\* A count of failures of any stage.
CountedAnyFailure ==
  IF claim.outcome \in {"stage1", "failed"} THEN streak + 1 ELSE 0

\* What the loop makes of a result: only a claimed run's moves the dead-man's counter.
Counted ==
  IF claim.outcome = "stage1" THEN streak + 1 ELSE 0

\* The loop is at its top again within seconds, or half a minute after an error.
Dispose ==
  /\ Awaits("disposing")
  /\ session' = NoSession
  /\ claim' = NoClaim /\ age' = 0
  /\ \/ /\ claim.outcome = "threw"
        /\ Release
        /\ at' = "resting" /\ UNCHANGED <<streak, results>>
     \/ /\ claim.outcome # "threw"
        /\ results' = Append(results, IF claim.outcome = "stage1" THEN "stage1" ELSE "other")
        /\ streak' = Counted
        /\ IF Counted >= STAGE1_DEADMAN_THRESHOLD
           THEN at' = "deadman" /\ TeardownHeld
           ELSE at' = (IF claim.outcome = "ok" THEN "polling" ELSE "resting") /\ Release
  /\ UNCHANGED <<hung, queue, login, env, shuttingDown, ending>>

\* What the process does when its awaits are answered, and its restart.
WorkerGoesOn ==
  \/ ClaimRun \/ ClaimNothing \/ SyncEnds \/ Wake \/ LeaveLoop \/ ExitAfterClose
  \/ EndWithoutBrowser \/ ReuseSession \/ StartLogin
  \/ \E b \in Browser : Launch(b)
  \/ RetryLogin \/ FailLogin \/ LogIn \/ Navigate
  \/ EngineValidates \/ StageSucceeds \/ StageFails \/ Dispose
  \/ Watchdog \/ Restart

WorkerNext ==
  \/ Arrive \/ Hang \/ SessionAges \/ Signal
  \/ \E b \in Browser : LaunchResolves(b)
  \/ WorkerGoesOn

WorkerSpec == WorkerInit /\ [][WorkerNext]_workerVars

\* Nothing the process awaits goes on for ever: an await is answered, times out, or hangs
\* until the watchdog's interval has seen it; Fly starts a process that has exited; and an
\* API that is asked again and again answers now and then.
WorkerFairness == WF_workerVars(WorkerGoesOn) /\ SF_workerVars(ClaimRun)

-----------------------------------------------------------------------------
(* Properties *)

\* The page a run drives is its own store's and license's, in a browser that is open, and
\* what the session manager holds is marked busy exactly while a run drives it: otherwise
\* no later run could ever reuse it, or two could (acquireSession, attachFreshSession,
\* releaseSession).  Stage 2 has prepared the page for Stage 3, except where the engine
\* called from a page (LK_ORDER_ENGINE=api) left its session, which it does not navigate.
OwnSession ==
  /\ session # NoSession =>
       /\ session.account = claim.account
       /\ browsers[session.browser] = "open"
       /\ at \in {"adding", "validating", "checkout"} => session.navigated \/ env.api
  /\ held # NoSession =>
       held.busy <=> session # NoSession /\ session.managed /\ session.browser = held.session.browser

\* No browser is left that nobody will close: it is the login attempt's, the run's or the
\* session manager's (the zombie seal of loginToMilo, the finally of processOneRpaRun).
NoBrowserLeaks ==
  \A b \in Browser :
    /\ browsers[b] = "open" =>
         \/ b = login.own
         \/ session # NoSession /\ session.browser = b
         \/ held # NoSession /\ held.session.browser = b
    /\ browsers[b] = "launching" => b = login.own

\* The dead-man switch ends the process exactly when its last three runs failed to log in,
\* whatever idle polls and errors of the API came between them (main of run-rpa-worker).
LastThreeFailedLogin ==
  /\ Len(results) >= 3
  /\ \A i \in (Len(results) - 2)..Len(results) : results[i] = "stage1"
DeadManSwitch ==
  /\ LastThreeFailedLogin => at \in {"deadman", "down"}
  /\ at = "deadman" \/ ending = "deadman" => LastThreeFailedLogin

\* Of the processes that hang nowhere the watchdog ends those whose stages take all the
\* time they allow themselves: it may in Stage 5, and already in Stage 4 when the cart has
\* more than 30 lines, for then Stage 3's budget is above its minimum.  Every other slow run
\* is spared.  (loop-watchdog.js calls its 20 minutes "far above any legitimate iteration".)
WatchdogEndsWhatHangs ==
  ending = "watchdog" =>
    \/ hung
    \/ /\ claim # NoClaim
       /\ claim.stage = "checkout" \/ (claim.stage = "validating" /\ claim.lines > 30)

\* A process that was asked to stop stops, in whatever await it is stuck.
StopsWhenAsked == shuttingDown ~> at = "down"

\* Runs in the queue are claimed in the end, by this process or the one started after it,
\* even when the idle order sync of the loop hangs.
QueueServed == waiting > 0 ~> waiting = 0
=============================================================================
