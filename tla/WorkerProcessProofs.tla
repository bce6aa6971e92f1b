-------------------------- MODULE WorkerProcessProofs --------------------------
(***************************************************************************)
(* What holds of a worker process for any number of accounts, browsers,    *)
(* arrivals and login attempts, with signals, hangs and restarts at any    *)
(* moment.                                                                 *)
(***************************************************************************)
EXTENDS MCServices, WorkerFleetProofs, FiniteSetTheorems

\* Where a run drives a page, and where it may still have one.
Driving == {"engine", "navigate", "adding", "validating", "checkout"}

\* The run's session: its own account's, open, prepared; held exactly when it is managed,
\* and a session that is not managed is the only one there is.
SessionInHand ==
  session # NoSession =>
    /\ at \in Driving \cup {"disposing"}
    /\ session.account = claim.account
    /\ browsers[session.browser] = "open"
    /\ at \in {"adding", "validating", "checkout"} => session.navigated \/ env.api
    /\ session.managed =>
         /\ session.navigated \/ env.api
         /\ held # NoSession /\ held.session.browser = session.browser /\ held.busy
    /\ ~session.managed => held = NoSession
    /\ session.reused => session.managed
    /\ at = "navigate" => ~session.managed
    /\ at = "engine" => env.api /\ (session.managed => session.reused)
    /\ at = "disposing" => claim.outcome # "stage1"

\* The held session: open and prepared for the next run, busy only in a run's hand.
HeldWarm ==
  held # NoSession =>
    /\ env.persist
    /\ at # "login"
    /\ browsers[held.session.browser] = "open"
    /\ held.session.managed /\ ~held.session.reused
    /\ held.session.navigated \/ env.api
    /\ held.busy => session # NoSession /\ session.managed

\* The attempt's browser, which is nobody else's yet.
LoginInHand ==
  login.own # NoBrowser =>
    /\ at = "login"
    /\ browsers[login.own] \in {"launching", "open"}

\* The counter is the number of failed logins since the last other result.
StreakCounts ==
  /\ streak <= Len(results)
  /\ \A i \in 1..Len(results) : i > Len(results) - streak => results[i] = "stage1"
  /\ streak < 3 /\ streak < Len(results) => results[Len(results) - streak] # "stage1"
  /\ streak = 3 => at \in {"deadman", "down"}
  /\ at = "deadman" \/ ending = "deadman" => streak = 3

\* The stage a run has come to, and how old an iteration may be by then.
Budget(stage, lines) ==
  IF stage = "none" THEN 0
  ELSE IF stage \in {"login", "engine"} THEN 450
  ELSE IF stage = "navigate" THEN 600
  ELSE IF stage = "adding" THEN 600 + AddingLimit(lines)
  ELSE 900 + AddingLimit(lines)

AgeBounded ==
  /\ at \in Awaited => claim.stage = at
  /\ at = "claimed" => claim.stage = "none"
  /\ ~hung =>
       /\ claim = NoClaim => age = 0
       /\ claim # NoClaim => claim.stage = "checkout" \/ age <= Budget(claim.stage, claim.lines)

WorkerInv ==
  /\ WorkerTypeOK
  /\ SessionInHand
  /\ HeldWarm
  /\ LoginInHand
  /\ NoBrowserLeaks
  /\ StreakCounts
  /\ AgeBounded
  /\ WatchdogEndsWhatHangs

-----------------------------------------------------------------------------
(* Values *)

LEMMA StageValues ==
  /\ Limited = {"login", "navigate", "adding", "validating", "checkout"}
  /\ Awaited = {"login", "navigate", "adding", "validating", "checkout", "engine"}
  /\ Awaited = Driving \cup {"login"} /\ "login" \notin Driving
BY DEF Limited, Awaited, Driving

LEMMA LimitValues ==
  ASSUME NEW n
  PROVE  /\ Limit("login", n) = 450 /\ Limit("navigate", n) = 150
         /\ Limit("adding", n) = AddingLimit(n)
         /\ Limit("validating", n) = 300 /\ Limit("checkout", n) = 420
BY DEF Limit

\* Stage 3 takes no more than ten minutes, and four up to 30 lines.
LEMMA AddingBounded ==
  ASSUME NEW n \in {0} \cup Lines
  PROVE  /\ n \in Nat
         /\ AddingLimit(n) \in 240..600
         /\ n <= 30 => AddingLimit(n) = 240
<1>1. n \in Nat
  BY WorkerProcessAssumption
<1> QED
  BY <1>1 DEF AddingLimit

\* What was said of the browsers says what the properties say.
LEMMA OwnSessionImplied ==
  ASSUME WorkerInv
  PROVE  OwnSession
BY DEF WorkerInv, SessionInHand, HeldWarm, OwnSession

LEMMA DeadManSwitchImplied ==
  ASSUME WorkerInv
  PROVE  DeadManSwitch
<1>1. streak \in 0..3 /\ Len(results) \in Nat
  BY DEF WorkerInv, WorkerTypeOK, STAGE1_DEADMAN_THRESHOLD
<1>2. ASSUME LastThreeFailedLogin
      PROVE  streak = 3
  <2>1. SUFFICES ASSUME streak < 3
                 PROVE  FALSE
    BY <1>1
  <2>2. results[Len(results) - streak] # "stage1"
    BY <1>1, <1>2, <2>1 DEF LastThreeFailedLogin, WorkerInv, StreakCounts
  <2>3. Len(results) - streak \in (Len(results) - 2)..Len(results)
    BY <1>1, <2>1
  <2> QED
    BY <1>2, <2>2, <2>3 DEF LastThreeFailedLogin
<1>3. ASSUME streak = 3
      PROVE  LastThreeFailedLogin
  BY <1>1, <1>3 DEF LastThreeFailedLogin, WorkerInv, StreakCounts
<1> QED
  BY <1>2, <1>3 DEF DeadManSwitch, WorkerInv, StreakCounts

-----------------------------------------------------------------------------
(* Frames: what a step need not touch *)

\* The dead-man's counter, where the step neither counts nor ends anything.
LEMMA StreakFrame ==
  ASSUME StreakCounts, UNCHANGED <<streak, results, ending>>,
         at' = at \/ (at \notin {"deadman", "down"} /\ at' # "deadman")
  PROVE  StreakCounts'
BY DEF StreakCounts

\* The watchdog's verdict, where it gives none.
LEMMA EndingFrame ==
  ASSUME WorkerInv, UNCHANGED ending, at # "down" \/ UNCHANGED <<hung, claim>>
  PROVE  WatchdogEndsWhatHangs'
BY DEF WorkerInv, WorkerTypeOK, WatchdogEndsWhatHangs

\* The browsers, where the step concerns none.
LEMMA WarmFrame ==
  ASSUME WorkerInv, UNCHANGED <<warm, env>>,
         session # NoSession =>
           /\ claim'.account = claim.account
           /\ \/ at' = at /\ (at = "disposing" => claim'.outcome = claim.outcome)
              \/ at' = "disposing" /\ claim'.outcome # "stage1"
              \/ at' \in {"validating", "checkout"} /\ at \in {"adding", "validating"},
         at' = "login" => at = "login",
         at = "login" /\ login.own # NoBrowser => at' = "login"
  PROVE  SessionInHand' /\ HeldWarm' /\ LoginInHand' /\ NoBrowserLeaks'
<1>1. SessionInHand'
  BY DEF WorkerInv, SessionInHand, warm, Driving
<1>2. HeldWarm' /\ LoginInHand' /\ NoBrowserLeaks'
  BY DEF WorkerInv, HeldWarm, LoginInHand, NoBrowserLeaks, warm
<1> QED
  BY <1>1, <1>2

-----------------------------------------------------------------------------
(* The queue, the clock and the signals *)

LEMMA ArriveStep ==
  ASSUME WorkerInv, Arrive
  PROVE  WorkerInv'
<1>1. WorkerTypeOK'
  BY WorkerProcessAssumption DEF WorkerInv, WorkerTypeOK, Arrive, clock, warm, process
<1>2. SessionInHand' /\ HeldWarm' /\ LoginInHand' /\ NoBrowserLeaks'
  BY WarmFrame DEF Arrive, warm, process
<1>3. StreakCounts' /\ AgeBounded' /\ WatchdogEndsWhatHangs'
  BY StreakFrame, EndingFrame DEF WorkerInv, AgeBounded, Arrive, clock, process
<1> QED
  BY <1>1, <1>2, <1>3 DEF WorkerInv

LEMMA HangStep ==
  ASSUME WorkerInv, Hang
  PROVE  WorkerInv'
<1>1. WorkerTypeOK'
  BY DEF WorkerInv, WorkerTypeOK, Hang, WedgeLimit, queue, warm, process
<1>2. SessionInHand' /\ HeldWarm' /\ LoginInHand' /\ NoBrowserLeaks'
  BY WarmFrame DEF Hang, warm, process
<1>3. at # "down"
  BY DEF Hang
<1>4. StreakCounts' /\ AgeBounded' /\ WatchdogEndsWhatHangs'
  BY <1>3, StreakFrame, EndingFrame DEF WorkerInv, AgeBounded, Hang, process
<1> QED
  BY <1>1, <1>2, <1>4 DEF WorkerInv

LEMMA SessionAgesStep ==
  ASSUME WorkerInv, SessionAges
  PROVE  WorkerInv'
<1>1. held \in Held /\ held' \in Held /\ held'.session = held.session /\ held'.busy = held.busy
  BY DEF WorkerInv, WorkerTypeOK, SessionAges, Held
<1>2. held' # NoSession
  BY <1>1, NoValueAssumption
<1>3. WorkerTypeOK'
  BY <1>1 DEF WorkerInv, WorkerTypeOK, SessionAges, clock, queue, process
<1>4. SessionInHand' /\ HeldWarm' /\ LoginInHand' /\ NoBrowserLeaks'
  BY <1>1, <1>2 DEF WorkerInv, SessionInHand, HeldWarm, LoginInHand, NoBrowserLeaks,
                    SessionAges, process
<1>5. StreakCounts' /\ AgeBounded' /\ WatchdogEndsWhatHangs'
  BY StreakFrame, EndingFrame DEF WorkerInv, AgeBounded, SessionAges, clock, process
<1> QED
  BY <1>3, <1>4, <1>5 DEF WorkerInv

\* A run whose stages may have taken more than the watchdog allows.
OutOfTime ==
  /\ claim # NoClaim
  /\ claim.stage = "checkout" \/ (claim.stage = "validating" /\ claim.lines > 30)

\* The process is gone: nothing of it is left to lose.
LEMMA ExitKeeps ==
  ASSUME WorkerInv, NEW how \in {"done", "deadman", "watchdog", "forced"}, Exit(how), at # "down",
         UNCHANGED <<env, claim, clock, queue, streak, results>>, shuttingDown' \in BOOLEAN,
         how = "deadman" => at = "deadman",
         how = "watchdog" => hung \/ OutOfTime
  PROVE  WorkerInv'
<1>a. NoLogin \in [attempt : 0..MaxLogins, own : Browser \cup {NoBrowser}]
  BY WorkerProcessAssumption DEF NoLogin
<1>b. browsers' \in [Browser -> {"closed", "launching", "abandoned", "open"}]
  BY DEF Exit
<1>1. WorkerTypeOK'
  BY <1>a, <1>b, StageValues DEF WorkerInv, WorkerTypeOK, Exit, clock, queue, LoopPoints
<1>2. SessionInHand' /\ HeldWarm' /\ LoginInHand' /\ NoBrowserLeaks'
  BY DEF SessionInHand, HeldWarm, LoginInHand, NoBrowserLeaks, Exit, NoLogin
<1>3. StreakCounts'
  BY DEF WorkerInv, StreakCounts, Exit
<1>4. AgeBounded' /\ WatchdogEndsWhatHangs'
  BY StageValues DEF WorkerInv, AgeBounded, WatchdogEndsWhatHangs, OutOfTime, Exit, clock
<1> QED
  BY <1>1, <1>2, <1>3, <1>4 DEF WorkerInv

LEMMA SignalStep ==
  ASSUME WorkerInv, Signal
  PROVE  WorkerInv'
<1>1. CASE Exit("forced")
  BY <1>1, ExitKeeps DEF Signal, WorkerInv, WorkerTypeOK
<1>2. CASE UNCHANGED <<at, ending, warm>>
  <2>1. WorkerTypeOK'
    BY <1>2 DEF Signal, WorkerInv, WorkerTypeOK, warm, clock, queue
  <2>2. SessionInHand' /\ HeldWarm' /\ LoginInHand' /\ NoBrowserLeaks'
    BY <1>2, WarmFrame DEF Signal
  <2>3. StreakCounts' /\ AgeBounded' /\ WatchdogEndsWhatHangs'
    BY <1>2, StreakFrame, EndingFrame DEF Signal, WorkerInv, AgeBounded, clock
  <2> QED
    BY <2>1, <2>2, <2>3 DEF WorkerInv
<1> QED
  BY <1>1, <1>2 DEF Signal

\* An iteration that hangs nowhere is young enough until it has come to Stage 5, or to
\* Stage 4 with a cart of more than 30 lines.
LEMMA WatchdogStep ==
  ASSUME WorkerInv, Watchdog
  PROVE  WorkerInv'
<1>1. age \in Nat /\ age > 1200
  BY DEF WorkerInv, WorkerTypeOK, Watchdog, WedgeLimit
<1>2. hung \/ OutOfTime
  <2>1. SUFFICES ASSUME ~hung, claim # NoClaim, claim.stage # "checkout",
                        claim.stage = "validating" => ~(claim.lines > 30)
                 PROVE  FALSE
    BY <1>1 DEF WorkerInv, AgeBounded, WorkerTypeOK, OutOfTime
  <2>2. age <= Budget(claim.stage, claim.lines)
    BY <2>1 DEF WorkerInv, AgeBounded
  <2>3. claim.lines \in {0} \cup Lines /\ claim.lines \in Nat
    <3>1. claim.lines \in {0} \cup Lines
      BY <2>1 DEF WorkerInv, WorkerTypeOK, Claims
    <3>2. \A n \in {0} \cup Lines : n \in Nat
      BY AddingBounded
    <3> QED
      BY <3>1, <3>2, Zenon
  <2>4. claim.stage \in Awaited \cup {"none"}
    BY <2>1 DEF WorkerInv, WorkerTypeOK, Claims
  <2>5. Budget(claim.stage, claim.lines) \in 0..1200
    <3>1. /\ AddingLimit(claim.lines) \in 240..600
          /\ claim.stage = "validating" => AddingLimit(claim.lines) = 240
      BY <2>1, <2>3, AddingBounded
    <3> QED
      BY <2>1, <2>4, <3>1, StageValues DEF Budget
  <2> QED
    BY <1>1, <2>2, <2>5
<1> QED
  BY <1>2, ExitKeeps DEF Watchdog, WorkerInv, WorkerTypeOK

LEMMA RestartStep ==
  ASSUME WorkerInv, Restart
  PROVE  WorkerInv'
<1>a. streak' \in 0..STAGE1_DEADMAN_THRESHOLD /\ results' \in Seq({"stage1", "other"})
  BY DEF Restart, STAGE1_DEADMAN_THRESHOLD
<1>1. WorkerTypeOK'
  BY <1>a, StageValues DEF WorkerInv, WorkerTypeOK, Restart, queue, warm, LoopPoints
<1>2. session = NoSession
  BY StageValues DEF WorkerInv, SessionInHand, Restart
<1>3. SessionInHand' /\ HeldWarm' /\ LoginInHand' /\ NoBrowserLeaks'
  BY <1>2 DEF WorkerInv, SessionInHand, HeldWarm, LoginInHand, NoBrowserLeaks, Restart, warm, Driving
<1>4. StreakCounts'
  BY DEF StreakCounts, Restart
<1>5. AgeBounded' /\ WatchdogEndsWhatHangs'
  BY StageValues DEF AgeBounded, WatchdogEndsWhatHangs, Restart
<1> QED
  BY <1>1, <1>3, <1>4, <1>5 DEF WorkerInv

-----------------------------------------------------------------------------
(* The loop *)

LEMMA ClaimRunStep ==
  ASSUME WorkerInv, ClaimRun
  PROVE  WorkerInv'
<1>1. claim' \in Claims /\ claim'.stage = "none" /\ claim' # NoClaim
  BY NoValueAssumption DEF ClaimRun, Claims
<1>2. session = NoSession
  BY DEF WorkerInv, SessionInHand, ClaimRun, Driving
<1>3. waiting' \in 0..arrived
  BY DEF WorkerInv, WorkerTypeOK, ClaimRun
<1>4. WorkerTypeOK'
  BY <1>1, <1>3, StageValues DEF WorkerInv, WorkerTypeOK, ClaimRun, warm, process, LoopPoints
<1>5. SessionInHand' /\ HeldWarm' /\ LoginInHand' /\ NoBrowserLeaks'
  BY <1>2, WarmFrame DEF ClaimRun, process
<1>6. StreakCounts' /\ WatchdogEndsWhatHangs'
  BY StreakFrame, EndingFrame DEF WorkerInv, ClaimRun, process
<1>7. AgeBounded'
  BY <1>1, StageValues DEF AgeBounded, ClaimRun, Budget
<1> QED
  BY <1>4, <1>5, <1>6, <1>7 DEF WorkerInv

LEMMA ClaimNothingStep ==
  ASSUME WorkerInv, ClaimNothing
  PROVE  WorkerInv'
<1>1. session = NoSession
  BY DEF WorkerInv, SessionInHand, ClaimNothing, Driving
<1>2. WorkerTypeOK'
  BY StageValues DEF WorkerInv, WorkerTypeOK, ClaimNothing, warm, process, queue, LoopPoints
<1>3. SessionInHand' /\ HeldWarm' /\ LoginInHand' /\ NoBrowserLeaks'
  BY <1>1, WarmFrame DEF ClaimNothing, process
<1>4. StreakCounts' /\ WatchdogEndsWhatHangs'
  BY StreakFrame, EndingFrame DEF WorkerInv, ClaimNothing, process
<1>5. AgeBounded'
  BY StageValues DEF AgeBounded, ClaimNothing
<1> QED
  BY <1>2, <1>3, <1>4, <1>5 DEF WorkerInv

LEMMA RestStep ==
  ASSUME WorkerInv, SyncEnds \/ Wake
  PROVE  WorkerInv'
<1>1. session = NoSession
  BY DEF WorkerInv, SessionInHand, SyncEnds, Wake, Awaits, Driving
<1>2. WorkerTypeOK'
  BY StageValues
     DEF WorkerInv, WorkerTypeOK, SyncEnds, Wake, Awaits, clock, warm, process, queue, LoopPoints
<1>3. SessionInHand' /\ HeldWarm' /\ LoginInHand' /\ NoBrowserLeaks'
  BY <1>1, WarmFrame DEF SyncEnds, Wake, Awaits, process
<1>4. StreakCounts' /\ WatchdogEndsWhatHangs'
  BY StreakFrame, EndingFrame DEF WorkerInv, SyncEnds, Wake, Awaits, process
<1>5. AgeBounded'
  BY StageValues DEF WorkerInv, AgeBounded, SyncEnds, Wake, Awaits, clock
<1> QED
  BY <1>2, <1>3, <1>4, <1>5 DEF WorkerInv

\* Closing the held session where no run has it leaves no browser behind.
LEMMA TeardownKeeps ==
  ASSUME WorkerInv, TeardownHeld, UNCHANGED <<login, env>>, session = NoSession,
         session' = NoSession
  PROVE  /\ SessionInHand' /\ HeldWarm' /\ NoBrowserLeaks'
         /\ browsers' \in [Browser -> {"closed", "launching", "abandoned", "open"}]
         /\ held' = NoSession
         /\ login.own # NoBrowser /\ held = NoSession => browsers'[login.own] = browsers[login.own]
<1>1. held # NoSession => held.session \in Sessions /\ held.session.browser \in Browser
  BY DEF WorkerInv, WorkerTypeOK, Held, Sessions
<1>2. browsers' \in [Browser -> {"closed", "launching", "abandoned", "open"}]
  BY <1>1 DEF WorkerInv, WorkerTypeOK, TeardownHeld, ClosedWith
<1>3. NoBrowserLeaks'
  <2>1. CASE held = NoSession
    BY <2>1 DEF WorkerInv, NoBrowserLeaks, TeardownHeld
  <2>2. CASE held # NoSession
    <3>1. browsers' = ClosedWith(held.session) /\ login' = login
      BY <2>2 DEF TeardownHeld
    <3>2. held.session # NoSession
      BY <1>1, <2>2, NoValueAssumption
    <3>3. browsers' = [browsers EXCEPT ![held.session.browser] = "closed"]
      BY <3>1, <3>2 DEF ClosedWith
    <3> QED
      BY <1>1, <2>2, <3>1, <3>3 DEF WorkerInv, WorkerTypeOK, NoBrowserLeaks
  <2> QED
    BY <2>1, <2>2
<1> QED
  BY <1>2, <1>3 DEF SessionInHand, HeldWarm, TeardownHeld

LEMMA LeaveLoopStep ==
  ASSUME WorkerInv, LeaveLoop
  PROVE  WorkerInv'
<1>1. session = NoSession /\ login.own = NoBrowser
  BY DEF WorkerInv, SessionInHand, LoginInHand, LeaveLoop, Driving
<1>2. /\ SessionInHand' /\ HeldWarm' /\ NoBrowserLeaks'
      /\ browsers' \in [Browser -> {"closed", "launching", "abandoned", "open"}]
      /\ held' = NoSession
  BY <1>1, TeardownKeeps DEF LeaveLoop, process
<1>3. WorkerTypeOK' /\ LoginInHand'
  BY <1>1, <1>2, StageValues
     DEF WorkerInv, WorkerTypeOK, LoginInHand, LeaveLoop, clock, process, queue, LoopPoints
<1>4. StreakCounts' /\ WatchdogEndsWhatHangs'
  BY StreakFrame, EndingFrame DEF WorkerInv, LeaveLoop, process
<1>5. AgeBounded'
  BY StageValues DEF WorkerInv, AgeBounded, LeaveLoop, clock
<1> QED
  BY <1>2, <1>3, <1>4, <1>5 DEF WorkerInv

LEMMA ExitAfterCloseStep ==
  ASSUME WorkerInv, ExitAfterClose
  PROVE  WorkerInv'
<1>1. CASE Awaits("closing") /\ Exit("done")
  BY <1>1, ExitKeeps DEF ExitAfterClose, Awaits, WorkerInv, WorkerTypeOK
<1>2. CASE Awaits("deadman") /\ Exit("deadman")
  BY <1>2, ExitKeeps DEF ExitAfterClose, Awaits, WorkerInv, WorkerTypeOK
<1> QED
  BY <1>1, <1>2 DEF ExitAfterClose

-----------------------------------------------------------------------------
(* The run: a session, or a login *)

\* The stages that may follow a point of the loop.
Follows(stage) ==
  \/ at = "claimed" /\ stage \in {"login", "adding", "engine"}
  \/ at = "login" /\ stage \in {"engine", "navigate"}
  \/ at = "navigate" /\ stage = "adding"
  \/ at = "adding" /\ stage = "validating"
  \/ at = "validating" /\ stage = "checkout"

\* The next stage keeps whose run it is, and the iteration young enough for it.
LEMMA EnterKeeps ==
  ASSUME WorkerInv, NEW stage \in Awaited, Enter(stage), ~hung, claim # NoClaim, Follows(stage)
  PROVE  /\ AgeBounded'
         /\ claim' \in Claims /\ claim' # NoClaim /\ age' \in Nat
         /\ claim'.account = claim.account /\ claim'.kind = claim.kind
         /\ at' = stage /\ hung' = hung
<1>1. claim \in Claims /\ age \in Nat
  BY DEF WorkerInv, WorkerTypeOK
<1>2. /\ claim' \in Claims /\ claim'.stage = stage
      /\ claim'.account = claim.account /\ claim'.kind = claim.kind
  BY <1>1 DEF Enter, Claims
<1>3. claim' # NoClaim
  BY <1>2, NoValueAssumption
<1>4. claim.stage = IF at = "claimed" THEN "none" ELSE at
  BY StageValues DEF WorkerInv, AgeBounded, Follows
<1>5. age <= Budget(claim.stage, claim.lines)
  BY <1>4, StageValues DEF WorkerInv, AgeBounded, Follows
<1>6. /\ age' = IF claim.lines # 0 /\ stage \in Limited THEN age + Limit(stage, claim.lines) ELSE age
      /\ at' = stage /\ hung' = hung /\ claim'.lines = claim.lines
  BY <1>1 DEF Enter, Claims
<1>7. AddingLimit(claim.lines) \in 240..600
  BY <1>1, AddingBounded DEF Claims
<1>8. stage # "engine" => Limit(stage, claim.lines) \in Nat
  BY <1>7, LimitValues, StageValues
<1>9. age' \in Nat /\ (stage = "checkout" \/ age' <= Budget(stage, claim.lines))
  BY <1>1, <1>4, <1>5, <1>6, <1>7, <1>8, StageValues, LimitValues DEF Follows, Budget
<1> QED
  BY <1>2, <1>3, <1>6, <1>9, StageValues DEF AgeBounded

\* The end of a run keeps whose it was.
LEMMA FinishKeeps ==
  ASSUME WorkerInv, claim # NoClaim, at # "deadman", at # "down",
         NEW outcome \in {"ok", "failed", "stage1", "threw"}, Finish(outcome),
         UNCHANGED <<queue, process>>
  PROVE  /\ claim' \in Claims /\ claim' # NoClaim
         /\ claim'.account = claim.account /\ claim'.outcome = outcome
         /\ at' = "disposing" /\ UNCHANGED clock
         /\ StreakCounts' /\ AgeBounded' /\ WatchdogEndsWhatHangs'
<1>1. /\ claim' \in Claims /\ claim'.account = claim.account
      /\ claim'.outcome = outcome /\ claim'.stage = claim.stage
      /\ claim'.lines = claim.lines
  BY DEF WorkerInv, WorkerTypeOK, Finish, Claims
<1>2. claim' # NoClaim
  BY <1>1, NoValueAssumption
<1>3. StreakCounts'
  BY StreakFrame DEF WorkerInv, Finish, process
<1>4. WatchdogEndsWhatHangs'
  BY EndingFrame DEF process
<1>5. AgeBounded'
  BY <1>1, <1>2, StageValues DEF WorkerInv, AgeBounded, Finish, clock
<1> QED
  BY <1>1, <1>2, <1>3, <1>4, <1>5 DEF Finish

LEMMA EndWithoutBrowserStep ==
  ASSUME WorkerInv, EndWithoutBrowser
  PROVE  WorkerInv'
<1>1. PICK outcome \in {"ok", "failed", "threw"} : Finish(outcome)
  BY DEF EndWithoutBrowser
<1>2. at = "claimed" /\ claim # NoClaim /\ UNCHANGED <<queue, warm, process>>
  BY DEF EndWithoutBrowser, Awaits, WorkerInv, WorkerTypeOK
<1>3. /\ claim' \in Claims /\ claim' # NoClaim /\ at' = "disposing" /\ UNCHANGED clock
      /\ StreakCounts' /\ AgeBounded' /\ WatchdogEndsWhatHangs'
  BY <1>1, <1>2, FinishKeeps
<1>4. session = NoSession
  BY <1>2 DEF WorkerInv, SessionInHand, Driving
<1>5. SessionInHand' /\ HeldWarm' /\ LoginInHand' /\ NoBrowserLeaks'
  BY <1>2, <1>3, <1>4, WarmFrame DEF process
<1>6. WorkerTypeOK'
  BY <1>2, <1>3, StageValues
     DEF WorkerInv, WorkerTypeOK, clock, queue, warm, process, LoopPoints
<1> QED
  BY <1>3, <1>5, <1>6 DEF WorkerInv

LEMMA ReuseSessionStep ==
  ASSUME WorkerInv, ReuseSession
  PROVE  WorkerInv'
<1>1. /\ at = "claimed" /\ ~hung /\ env.persist /\ claim # NoClaim
      /\ held # NoSession /\ held.session.account = claim.account
      /\ UNCHANGED <<queue, browsers, login, process>>
  BY DEF ReuseSession, Awaits, Reusable, WorkerInv, WorkerTypeOK
<1>2. Enter(FirstStage)
  BY DEF ReuseSession
<1>3. FirstStage \in {"engine", "adding"} /\ (FirstStage = "engine" => env.api)
  BY DEF FirstStage
<1>4. FirstStage \in Awaited /\ Follows(FirstStage)
  BY <1>1, <1>3, StageValues DEF Follows
<1>5. /\ AgeBounded' /\ claim' \in Claims /\ claim' # NoClaim /\ age' \in Nat
      /\ claim'.account = claim.account /\ at' = FirstStage /\ hung' = hung
  BY <1>1, <1>2, <1>4, EnterKeeps
<1>6. held \in Held /\ held.session \in Sessions
  BY <1>1 DEF WorkerInv, WorkerTypeOK, Held
<1>7. /\ session' \in Sessions /\ session'.reused /\ session'.browser = held.session.browser
      /\ session'.account = held.session.account /\ session'.managed = held.session.managed
      /\ session'.navigated = held.session.navigated
      /\ held' \in Held /\ held'.session = held.session /\ held'.busy
  BY <1>6 DEF ReuseSession, Sessions, Held
<1>8. session' # NoSession /\ held' # NoSession
  BY <1>7, NoValueAssumption
<1>9. session = NoSession
  BY <1>1 DEF WorkerInv, SessionInHand, Driving
<1>10. SessionInHand'
  BY <1>1, <1>3, <1>5, <1>7, <1>8 DEF WorkerInv, HeldWarm, SessionInHand, Driving, process
<1>11. HeldWarm' /\ LoginInHand' /\ NoBrowserLeaks'
  BY <1>1, <1>3, <1>5, <1>7, <1>8, <1>9
     DEF WorkerInv, HeldWarm, LoginInHand, NoBrowserLeaks, process
<1>12. WorkerTypeOK'
  BY <1>1, <1>3, <1>5, <1>7, <1>8, StageValues
     DEF WorkerInv, WorkerTypeOK, queue, process, LoopPoints
<1>13. StreakCounts' /\ WatchdogEndsWhatHangs'
  BY <1>1, <1>3, <1>5, StreakFrame, EndingFrame DEF WorkerInv, process
<1> QED
  BY <1>5, <1>10, <1>11, <1>12, <1>13 DEF WorkerInv

LEMMA StartLoginStep ==
  ASSUME WorkerInv, StartLogin
  PROVE  WorkerInv'
<1>1. /\ at = "claimed" /\ ~hung /\ claim # NoClaim
      /\ Enter("login") /\ login' = [attempt |-> 1, own |-> NoBrowser]
      /\ UNCHANGED <<queue, session, process>>
  BY DEF StartLogin, Awaits, WorkerInv, WorkerTypeOK
<1>2. session = NoSession /\ login.own = NoBrowser
  BY <1>1 DEF WorkerInv, SessionInHand, LoginInHand, Driving
<1>3. \/ TeardownHeld
      \/ held = NoSession /\ UNCHANGED <<browsers, held>>
  BY <1>2 DEF StartLogin, WorkerInv, HeldWarm
<1>4. /\ held' = NoSession
      /\ browsers' \in [Browser -> {"closed", "launching", "abandoned", "open"}]
      /\ \A b \in Browser : browsers'[b] = "open" => browsers[b] = "open"
                                                     /\ (held # NoSession => b # held.session.browser)
      /\ \A b \in Browser : browsers'[b] = "launching" => browsers[b] = "launching"
  <2>1. held # NoSession => held.session \in Sessions /\ held.session.browser \in Browser
    BY DEF WorkerInv, WorkerTypeOK, Held, Sessions
  <2>2. held # NoSession => held.session # NoSession
    BY <2>1, NoValueAssumption
  <2>3. browsers \in [Browser -> {"closed", "launching", "abandoned", "open"}]
    BY DEF WorkerInv, WorkerTypeOK
  <2> QED
    BY <1>3, <2>1, <2>2, <2>3 DEF TeardownHeld, ClosedWith
<1>5. /\ AgeBounded' /\ claim' \in Claims /\ claim' # NoClaim /\ age' \in Nat
      /\ at' = "login" /\ hung' = hung
  BY <1>1, StageValues, EnterKeeps DEF Follows
<1>6. login' \in [attempt : 0..MaxLogins, own : Browser \cup {NoBrowser}]
  BY <1>1, WorkerProcessAssumption
<1>7. SessionInHand' /\ HeldWarm' /\ LoginInHand'
  BY <1>1, <1>2, <1>4 DEF SessionInHand, HeldWarm, LoginInHand
<1>8. NoBrowserLeaks'
  BY <1>1, <1>2, <1>4 DEF WorkerInv, NoBrowserLeaks
<1>9. WorkerTypeOK'
  BY <1>1, <1>2, <1>4, <1>5, <1>6, StageValues
     DEF WorkerInv, WorkerTypeOK, queue, process, LoopPoints
<1>10. StreakCounts' /\ WatchdogEndsWhatHangs'
  BY <1>1, <1>5, StreakFrame, EndingFrame DEF WorkerInv, process
<1> QED
  BY <1>5, <1>7, <1>8, <1>9, <1>10 DEF WorkerInv

-----------------------------------------------------------------------------
(* The login attempt and its browser *)

\* What an attempt does leaves the loop's counters alone.
LEMMA AttemptFrame ==
  ASSUME WorkerInv, UNCHANGED <<at, claim, clock, process>>
  PROVE  StreakCounts' /\ AgeBounded' /\ WatchdogEndsWhatHangs'
BY StreakFrame, EndingFrame DEF WorkerInv, AgeBounded, clock, process

LEMMA LaunchStep ==
  ASSUME WorkerInv, NEW b \in Browser, Launch(b)
  PROVE  WorkerInv'
<1>1. /\ at = "login" /\ login.own = NoBrowser /\ browsers[b] = "closed"
      /\ browsers' = [browsers EXCEPT ![b] = "launching"]
      /\ login' = [login EXCEPT !.own = b]
      /\ UNCHANGED <<at, claim, clock, queue, session, held, process>>
  BY DEF Launch, Awaits
<1>2. /\ browsers \in [Browser -> {"closed", "launching", "abandoned", "open"}]
      /\ login \in [attempt : 0..MaxLogins, own : Browser \cup {NoBrowser}]
  BY DEF WorkerInv, WorkerTypeOK
<1>3. session = NoSession /\ held = NoSession
  BY <1>1 DEF WorkerInv, SessionInHand, HeldWarm, Driving
<1>a. login'.own = b /\ browsers'[b] = "launching"
      /\ \A a \in Browser : a # b => browsers'[a] = browsers[a]
  BY <1>1, <1>2
<1>4. SessionInHand' /\ HeldWarm' /\ LoginInHand'
  BY <1>1, <1>3, <1>a DEF SessionInHand, HeldWarm, LoginInHand
<1>b. NoBrowserLeaks'
  BY <1>1, <1>3, <1>a, WorkerProcessAssumption DEF WorkerInv, NoBrowserLeaks
<1>5. WorkerTypeOK'
  BY <1>1, <1>2 DEF WorkerInv, WorkerTypeOK, clock, queue, process
<1> QED
  BY <1>1, <1>4, <1>5, <1>b, AttemptFrame DEF WorkerInv

LEMMA LaunchResolvesStep ==
  ASSUME WorkerInv, NEW b \in Browser, LaunchResolves(b)
  PROVE  WorkerInv'
<1>1. /\ browsers[b] \in {"launching", "abandoned"}
      /\ browsers' = [browsers EXCEPT ![b] = IF browsers[b] = "launching" THEN "open" ELSE "closed"]
      /\ UNCHANGED <<at, claim, clock, queue, login, session, held, process>>
  BY DEF LaunchResolves
<1>2. browsers \in [Browser -> {"closed", "launching", "abandoned", "open"}]
  BY DEF WorkerInv, WorkerTypeOK
<1>3. /\ session # NoSession => session.browser \in Browser /\ session.browser # b
      /\ held # NoSession => held.session.browser \in Browser /\ held.session.browser # b
  BY <1>1 DEF WorkerInv, WorkerTypeOK, SessionInHand, HeldWarm, Held, Sessions
<1>4. SessionInHand' /\ HeldWarm'
  BY <1>1, <1>2, <1>3 DEF WorkerInv, SessionInHand, HeldWarm, process
<1>5. LoginInHand' /\ NoBrowserLeaks'
  BY <1>1, <1>2 DEF WorkerInv, WorkerTypeOK, LoginInHand, NoBrowserLeaks
<1>6. WorkerTypeOK'
  BY <1>1, <1>2 DEF WorkerInv, WorkerTypeOK, clock, queue, process
<1> QED
  BY <1>1, <1>4, <1>5, <1>6, AttemptFrame DEF WorkerInv

\* An attempt that is over leaves no browser that is open or on its way.
LEMMA AbandonedValues ==
  ASSUME WorkerInv, at = "login"
  PROVE  /\ Abandoned \in [Browser -> {"closed", "launching", "abandoned", "open"}]
         /\ \A b \in Browser : Abandoned[b] \notin {"open", "launching"}
<1>1. browsers \in [Browser -> {"closed", "launching", "abandoned", "open"}]
  BY DEF WorkerInv, WorkerTypeOK
<1>2. session = NoSession /\ held = NoSession
  BY DEF WorkerInv, SessionInHand, HeldWarm, Driving
<1>3. \A b \in Browser : b # login.own => browsers[b] \notin {"open", "launching"}
  BY <1>2 DEF WorkerInv, NoBrowserLeaks
<1>4. login.own \in Browser \cup {NoBrowser} /\ NoBrowser \notin Browser
  BY WorkerProcessAssumption DEF WorkerInv, WorkerTypeOK
<1> QED
  BY <1>1, <1>3, <1>4 DEF Abandoned

LEMMA RetryLoginStep ==
  ASSUME WorkerInv, RetryLogin
  PROVE  WorkerInv'
<1>1. /\ at = "login" /\ login.attempt < MaxLogins /\ browsers' = Abandoned
      /\ login' = [attempt |-> login.attempt + 1, own |-> NoBrowser]
      /\ UNCHANGED <<at, claim, clock, queue, session, held, process>>
  BY DEF RetryLogin, Awaits
<1>2. login' \in [attempt : 0..MaxLogins, own : Browser \cup {NoBrowser}]
  BY <1>1, WorkerProcessAssumption DEF WorkerInv, WorkerTypeOK
<1>3. session = NoSession /\ held = NoSession
  BY <1>1 DEF WorkerInv, SessionInHand, HeldWarm, Driving
<1>4. SessionInHand' /\ HeldWarm' /\ LoginInHand' /\ NoBrowserLeaks'
  BY <1>1, <1>3, AbandonedValues DEF SessionInHand, HeldWarm, LoginInHand, NoBrowserLeaks
<1>5. WorkerTypeOK'
  BY <1>1, <1>2, AbandonedValues DEF WorkerInv, WorkerTypeOK, clock, queue, process
<1> QED
  BY <1>1, <1>4, <1>5, AttemptFrame DEF WorkerInv

LEMMA FailLoginStep ==
  ASSUME WorkerInv, FailLogin
  PROVE  WorkerInv'
<1>1. /\ at = "login" /\ claim # NoClaim /\ browsers' = Abandoned /\ login' = NoLogin
      /\ UNCHANGED <<queue, session, held, process>>
  BY StageValues DEF FailLogin, Awaits, WorkerInv, WorkerTypeOK
<1>2. PICK outcome \in {"stage1", "threw"} : Finish(outcome)
  BY DEF FailLogin
<1>3. /\ claim' \in Claims /\ claim' # NoClaim /\ at' = "disposing" /\ UNCHANGED clock
      /\ StreakCounts' /\ AgeBounded' /\ WatchdogEndsWhatHangs'
  BY <1>1, <1>2, FinishKeeps
<1>4. login' \in [attempt : 0..MaxLogins, own : Browser \cup {NoBrowser}]
  BY <1>1, WorkerProcessAssumption DEF NoLogin
<1>5. session = NoSession /\ held = NoSession
  BY <1>1 DEF WorkerInv, SessionInHand, HeldWarm, Driving
<1>6. SessionInHand' /\ HeldWarm' /\ LoginInHand' /\ NoBrowserLeaks'
  BY <1>1, <1>5, AbandonedValues DEF SessionInHand, HeldWarm, LoginInHand, NoBrowserLeaks, NoLogin
<1>7. WorkerTypeOK'
  BY <1>1, <1>3, <1>4, <1>5, AbandonedValues, StageValues
     DEF WorkerInv, WorkerTypeOK, clock, queue, process, LoopPoints
<1> QED
  BY <1>3, <1>6, <1>7 DEF WorkerInv

LEMMA LogInStep ==
  ASSUME WorkerInv, LogIn
  PROVE  WorkerInv'
<1> DEFINE next == IF env.api /\ claim.kind = "validate" THEN "engine" ELSE "navigate"
<1>1. /\ at = "login" /\ ~hung /\ claim # NoClaim
      /\ login.own # NoBrowser /\ browsers[login.own] = "open"
      /\ session' = [browser |-> login.own, account |-> claim.account, navigated |-> FALSE,
                     managed |-> FALSE, reused |-> FALSE]
      /\ login' = NoLogin /\ Enter(next)
      /\ UNCHANGED <<queue, browsers, held, process>>
  BY StageValues DEF LogIn, Awaits, WorkerInv, WorkerTypeOK
<1>2. next \in {"engine", "navigate"} /\ (next = "engine" => env.api)
  OBVIOUS
<1>3. next \in Awaited /\ Follows(next)
  BY <1>1, <1>2, StageValues DEF Follows
<1> HIDE DEF next
<1>4. /\ AgeBounded' /\ claim' \in Claims /\ claim' # NoClaim /\ age' \in Nat
      /\ claim'.account = claim.account /\ at' = next /\ hung' = hung
  BY <1>1, <1>3, EnterKeeps
<1>5. held = NoSession
  BY <1>1 DEF WorkerInv, HeldWarm
<1>a. login.own \in Browser /\ claim.account \in Account
  BY <1>1 DEF WorkerInv, WorkerTypeOK, Claims
<1>b. session' \in Sessions
  BY <1>1, <1>a DEF Sessions
<1>6. session' \in Sessions /\ session' # NoSession
  BY <1>b, NoValueAssumption
<1>7. login' \in [attempt : 0..MaxLogins, own : Browser \cup {NoBrowser}]
  BY <1>1, WorkerProcessAssumption DEF NoLogin
<1>8. SessionInHand'
  BY <1>1, <1>2, <1>4, <1>5 DEF SessionInHand, Driving, process
<1>c. session'.browser = login.own /\ login'.own = NoBrowser
  BY <1>1 DEF NoLogin
<1>d. session = NoSession
  BY <1>1 DEF WorkerInv, SessionInHand, Driving
<1>9. HeldWarm' /\ LoginInHand' /\ NoBrowserLeaks'
  BY <1>1, <1>5, <1>6, <1>c, <1>d, <1>a DEF WorkerInv, HeldWarm, LoginInHand, NoBrowserLeaks
<1>10. WorkerTypeOK'
  BY <1>1, <1>3, <1>4, <1>5, <1>6, <1>7, StageValues
     DEF WorkerInv, WorkerTypeOK, queue, process, LoopPoints
<1>11. StreakCounts' /\ WatchdogEndsWhatHangs'
  BY <1>1, <1>2, <1>4, StreakFrame, EndingFrame DEF WorkerInv, process
<1> QED
  BY <1>4, <1>8, <1>9, <1>10, <1>11 DEF WorkerInv

-----------------------------------------------------------------------------
(* The stages *)

\* A fresh session becomes the held one.
LEMMA AttachValues ==
  ASSUME WorkerInv, NEW s \in Sessions, Attach(s), held = NoSession
  PROVE  /\ env.persist /\ ~s.reused /\ browsers' = browsers
         /\ session' \in Sessions /\ held' \in Held
         /\ session' # NoSession /\ held' # NoSession
         /\ session'.browser = s.browser /\ session'.account = s.account
         /\ session'.navigated = s.navigated /\ session'.managed /\ ~session'.reused
         /\ held'.session = session' /\ held'.busy
<1>1. session' = [s EXCEPT !.managed = TRUE] /\ session' \in Sessions
  BY DEF Attach, Sessions
<1>2. /\ session'.browser = s.browser /\ session'.account = s.account
      /\ session'.navigated = s.navigated /\ session'.managed /\ session'.reused = s.reused
  BY <1>1 DEF Sessions
<1>3. held' = [session |-> session', busy |-> TRUE, idle |-> FALSE]
  BY <1>1 DEF Attach
<1>4. held' \in Held /\ held'.session = session' /\ held'.busy
  BY <1>1, <1>3 DEF Held
<1>5. env.persist /\ ~s.reused /\ browsers' = browsers
  BY DEF Attach
<1> QED
  BY <1>1, <1>2, <1>4, <1>5, NoValueAssumption

LEMMA NavigateStep ==
  ASSUME WorkerInv, Navigate
  PROVE  WorkerInv'
<1> DEFINE s == [session EXCEPT !.navigated = TRUE]
<1>1. /\ at = "navigate" /\ ~hung /\ claim # NoClaim /\ session # NoSession
      /\ Enter("adding") /\ UNCHANGED <<queue, login, process>>
      /\ \/ Attach(s)
         \/ ~env.persist /\ session' = s /\ UNCHANGED <<browsers, held>>
  BY StageValues DEF Navigate, Awaits, WorkerInv, WorkerTypeOK
<1>2. /\ AgeBounded' /\ claim' \in Claims /\ claim' # NoClaim /\ age' \in Nat
      /\ claim'.account = claim.account /\ at' = "adding" /\ hung' = hung
  BY <1>1, StageValues, EnterKeeps DEF Follows
<1>3. session \in Sessions /\ ~session.managed /\ held = NoSession /\ login.own = NoBrowser
  BY <1>1 DEF WorkerInv, WorkerTypeOK, SessionInHand, LoginInHand
<1>4. /\ s \in Sessions /\ s.navigated /\ s.browser = session.browser
      /\ s.account = session.account /\ ~s.managed /\ s.reused = session.reused
  BY <1>3 DEF Sessions
<1> HIDE DEF s
<1>5. /\ browsers' = browsers /\ session' \in Sessions /\ session' # NoSession
      /\ session'.browser = session.browser /\ session'.account = session.account
      /\ session'.navigated /\ (session'.reused => session'.managed)
      /\ \/ /\ held' = NoSession /\ ~session'.managed
         \/ /\ held' \in Held /\ env.persist /\ session'.managed /\ ~session'.reused
            /\ held'.session = session' /\ held'.busy
  <2>1. CASE Attach(s)
    BY <1>3, <1>4, <2>1, AttachValues
  <2>2. CASE ~env.persist /\ session' = s /\ UNCHANGED <<browsers, held>>
    BY <1>1, <1>3, <1>4, <2>2, NoValueAssumption DEF WorkerInv, SessionInHand
  <2> QED
    BY <1>1, <2>1, <2>2
<1>6. browsers[session.browser] = "open" /\ session.account = claim.account
  BY <1>1 DEF WorkerInv, SessionInHand
<1>7. SessionInHand'
  BY <1>1, <1>2, <1>5, <1>6, NoValueAssumption DEF SessionInHand, Driving
<1>8. HeldWarm' /\ LoginInHand' /\ NoBrowserLeaks'
  BY <1>1, <1>2, <1>3, <1>5, <1>6
     DEF WorkerInv, HeldWarm, LoginInHand, NoBrowserLeaks, process
<1>9. WorkerTypeOK'
  BY <1>1, <1>2, <1>5, StageValues DEF WorkerInv, WorkerTypeOK, queue, process, LoopPoints
<1>10. StreakCounts' /\ WatchdogEndsWhatHangs'
  BY <1>1, <1>2, StreakFrame, EndingFrame DEF WorkerInv, process
<1> QED
  BY <1>2, <1>7, <1>8, <1>9, <1>10 DEF WorkerInv

LEMMA EngineValidatesStep ==
  ASSUME WorkerInv, EngineValidates
  PROVE  WorkerInv'
<1>1. /\ at = "engine" /\ claim # NoClaim /\ session # NoSession
      /\ Finish("ok") /\ UNCHANGED <<queue, login, process>>
      /\ \/ Attach(session)
         \/ UNCHANGED <<browsers, session, held>>
  BY StageValues DEF EngineValidates, Awaits, WorkerInv, WorkerTypeOK
<1>2. /\ claim' \in Claims /\ claim' # NoClaim /\ claim'.account = claim.account
      /\ claim'.outcome = "ok" /\ at' = "disposing" /\ UNCHANGED clock
      /\ StreakCounts' /\ AgeBounded' /\ WatchdogEndsWhatHangs'
  BY <1>1, FinishKeeps
<1>3. /\ session \in Sessions /\ login.own = NoBrowser /\ env.api
      /\ browsers[session.browser] = "open" /\ session.account = claim.account
      /\ ~session.managed => held = NoSession
      /\ session.managed => session.reused
  BY <1>1 DEF WorkerInv, WorkerTypeOK, SessionInHand, LoginInHand
<1>4. CASE UNCHANGED <<browsers, session, held>>
  <2>1. SessionInHand' /\ HeldWarm' /\ LoginInHand' /\ NoBrowserLeaks'
    BY <1>1, <1>2, <1>4, WarmFrame DEF warm, process
  <2>2. WorkerTypeOK'
    BY <1>1, <1>2, <1>4, StageValues
       DEF WorkerInv, WorkerTypeOK, clock, queue, process, LoopPoints
  <2> QED
    BY <1>2, <2>1, <2>2 DEF WorkerInv
<1>5. CASE Attach(session)
  <2>1. held = NoSession
    BY <1>3, <1>5 DEF Attach
  <2>2. /\ env.persist /\ browsers' = browsers /\ session' \in Sessions /\ held' \in Held
        /\ session' # NoSession /\ held' # NoSession
        /\ session'.browser = session.browser /\ session'.account = session.account
        /\ session'.managed /\ ~session'.reused /\ held'.session = session' /\ held'.busy
    BY <1>3, <1>5, <2>1, AttachValues
  <2>3. SessionInHand'
    BY <1>1, <1>2, <1>3, <2>2 DEF SessionInHand, Driving, process
  <2>4. HeldWarm' /\ LoginInHand' /\ NoBrowserLeaks'
    BY <1>1, <1>2, <1>3, <2>1, <2>2
       DEF WorkerInv, HeldWarm, LoginInHand, NoBrowserLeaks, process
  <2>5. WorkerTypeOK'
    BY <1>1, <1>2, <2>2, StageValues
       DEF WorkerInv, WorkerTypeOK, clock, queue, process, LoopPoints
  <2> QED
    BY <1>2, <2>3, <2>4, <2>5 DEF WorkerInv
<1> QED
  BY <1>1, <1>4, <1>5

\* A stage that ends a run leaves its session to the finally block.
LEMMA StageEnds ==
  ASSUME WorkerInv, at \in Driving, NEW outcome \in {"ok", "failed", "threw"}, Finish(outcome),
         UNCHANGED <<queue, warm, process>>
  PROVE  WorkerInv'
<1>1. claim # NoClaim /\ at # "deadman" /\ at # "down"
  BY StageValues DEF WorkerInv, WorkerTypeOK, Driving
<1>2. /\ claim' \in Claims /\ claim' # NoClaim /\ claim'.account = claim.account
      /\ claim'.outcome = outcome /\ at' = "disposing" /\ UNCHANGED clock
      /\ StreakCounts' /\ AgeBounded' /\ WatchdogEndsWhatHangs'
  BY <1>1, FinishKeeps
<1>3. SessionInHand' /\ HeldWarm' /\ LoginInHand' /\ NoBrowserLeaks'
  BY <1>2, WarmFrame DEF process, Driving
<1>4. WorkerTypeOK'
  BY <1>2, StageValues DEF WorkerInv, WorkerTypeOK, clock, queue, warm, process, LoopPoints
<1> QED
  BY <1>2, <1>3, <1>4 DEF WorkerInv

\* A stage that is followed by another leaves it its session.
LEMMA StageGoesOn ==
  ASSUME WorkerInv, ~hung, NEW stage, Enter(stage),
         \/ at = "adding" /\ stage = "validating"
         \/ at = "validating" /\ stage = "checkout",
         UNCHANGED <<queue, warm, process>>
  PROVE  WorkerInv'
<1>1. claim # NoClaim /\ stage \in Awaited /\ Follows(stage)
  BY StageValues DEF WorkerInv, WorkerTypeOK, Follows
<1>2. /\ AgeBounded' /\ claim' \in Claims /\ claim' # NoClaim /\ age' \in Nat
      /\ claim'.account = claim.account /\ at' = stage /\ hung' = hung
  BY <1>1, EnterKeeps
<1>3. SessionInHand' /\ HeldWarm' /\ LoginInHand' /\ NoBrowserLeaks'
  BY <1>2, WarmFrame DEF process
<1>4. session # NoSession
  BY StageValues DEF WorkerInv, WorkerTypeOK
<1>5. WorkerTypeOK'
  BY <1>2, <1>4, StageValues DEF WorkerInv, WorkerTypeOK, queue, warm, process, LoopPoints
<1>6. StreakCounts' /\ WatchdogEndsWhatHangs'
  BY <1>2, StreakFrame, EndingFrame DEF WorkerInv, process
<1> QED
  BY <1>2, <1>3, <1>5, <1>6 DEF WorkerInv

LEMMA StageSucceedsStep ==
  ASSUME WorkerInv, StageSucceeds
  PROVE  WorkerInv'
<1>1. UNCHANGED <<queue, warm, process>>
  BY DEF StageSucceeds
<1>2. CASE Awaits("adding")
  <2>1. Finish("ok") \/ Enter("validating")
    BY <1>2 DEF StageSucceeds, Awaits
  <2>2. at = "adding" /\ ~hung
    BY <1>2 DEF Awaits
  <2>3. CASE Finish("ok")
    BY <1>1, <2>2, <2>3, StageEnds DEF Driving
  <2>4. CASE Enter("validating")
    BY <1>1, <2>2, <2>4, StageGoesOn
  <2> QED
    BY <2>1, <2>3, <2>4
<1>3. CASE Awaits("validating")
  <2>1. Finish("ok") \/ Enter("checkout")
    BY <1>3 DEF StageSucceeds, Awaits
  <2>2. at = "validating" /\ ~hung
    BY <1>3 DEF Awaits
  <2>3. CASE Finish("ok")
    BY <1>1, <2>2, <2>3, StageEnds DEF Driving
  <2>4. CASE Enter("checkout")
    BY <1>1, <2>2, <2>4, StageGoesOn
  <2> QED
    BY <2>1, <2>3, <2>4
<1>4. CASE Awaits("checkout") /\ Finish("ok")
  BY <1>1, <1>4, StageEnds DEF Awaits, Driving
<1> QED
  BY <1>2, <1>3, <1>4 DEF StageSucceeds

LEMMA StageFailsStep ==
  ASSUME WorkerInv, StageFails
  PROVE  WorkerInv'
<1>1. at \in Driving /\ UNCHANGED <<queue, warm, process>>
  BY StageValues DEF StageFails
<1>2. PICK outcome \in {"failed", "threw"} : Finish(outcome)
  BY DEF StageFails
<1> QED
  BY <1>1, <1>2, StageEnds

-----------------------------------------------------------------------------
(* The finally block, and what the loop makes of the result *)

\* Whatever the run had is closed, or held for the next one.
LEMMA ReleaseKeeps ==
  ASSUME WorkerInv, at = "disposing", Release, session' = NoSession, at' # "login",
         UNCHANGED <<login, env>>
  PROVE  /\ SessionInHand' /\ HeldWarm' /\ LoginInHand' /\ NoBrowserLeaks'
         /\ browsers' \in [Browser -> {"closed", "launching", "abandoned", "open"}]
         /\ held' \in Held \cup {NoSession}
<1>1. login.own = NoBrowser /\ browsers \in [Browser -> {"closed", "launching", "abandoned", "open"}]
  BY DEF WorkerInv, LoginInHand, WorkerTypeOK
<1>2. LoginInHand' /\ SessionInHand'
  BY <1>1 DEF LoginInHand, SessionInHand
<1>3. CASE session = NoSession
  <2>1. UNCHANGED <<browsers, held>>
    BY <1>3 DEF Release
  <2>2. HeldWarm' /\ NoBrowserLeaks'
    BY <1>3, <2>1 DEF WorkerInv, HeldWarm, NoBrowserLeaks
  <2> QED
    BY <1>1, <1>2, <2>1, <2>2 DEF WorkerInv, WorkerTypeOK
<1>4. CASE session # NoSession /\ ~session.managed
  <2>1. session \in Sessions /\ session.browser \in Browser /\ held = NoSession
    BY <1>4 DEF WorkerInv, WorkerTypeOK, SessionInHand, Sessions
  <2>2. browsers' = [browsers EXCEPT ![session.browser] = "closed"] /\ held' = held
    BY <1>4 DEF Release, ClosedWith
  <2>3. HeldWarm' /\ NoBrowserLeaks'
    BY <1>1, <1>4, <2>1, <2>2 DEF WorkerInv, HeldWarm, NoBrowserLeaks
  <2> QED
    BY <1>1, <1>2, <2>1, <2>2, <2>3
<1>5. CASE session # NoSession /\ session.managed
  <2>1. /\ session \in Sessions /\ session.browser \in Browser /\ browsers[session.browser] = "open"
        /\ held # NoSession /\ held \in Held /\ held.session \in Sessions
        /\ held.session.browser = session.browser
        /\ session.navigated \/ env.api
    BY <1>5 DEF WorkerInv, WorkerTypeOK, SessionInHand, Sessions, Held
  <2>2. CASE claim.outcome # "ok"
    <3>1. browsers' = [browsers EXCEPT ![session.browser] = "closed"] /\ held' = NoSession
      BY <1>5, <2>1, <2>2, NoValueAssumption DEF Release, TeardownHeld, ClosedWith
    <3>2. HeldWarm' /\ NoBrowserLeaks'
      BY <1>1, <1>5, <2>1, <3>1 DEF WorkerInv, HeldWarm, NoBrowserLeaks
    <3> QED
      BY <1>1, <1>2, <2>1, <3>1, <3>2
  <2>3. CASE claim.outcome = "ok"
    <3>1. /\ held' = [session |-> [session EXCEPT !.reused = FALSE], busy |-> FALSE, idle |-> FALSE]
          /\ browsers' = browsers
      BY <1>5, <2>3 DEF Release
    <3>2. [session EXCEPT !.reused = FALSE] \in Sessions
      BY <2>1 DEF Sessions
    <3>3. held' \in Held /\ ~held'.busy /\ held'.session = [session EXCEPT !.reused = FALSE]
      BY <3>1, <3>2 DEF Held
    <3>4. /\ held'.session.browser = session.browser /\ held'.session.managed
          /\ ~held'.session.reused /\ held'.session.navigated = session.navigated
      BY <1>5, <2>1, <3>3 DEF Sessions
    <3>5. env.persist /\ held' # NoSession
      BY <2>1, <3>3, NoValueAssumption DEF WorkerInv, HeldWarm
    <3>6. HeldWarm' /\ NoBrowserLeaks'
      BY <1>1, <1>5, <2>1, <3>1, <3>3, <3>4, <3>5 DEF WorkerInv, HeldWarm, NoBrowserLeaks
    <3> QED
      BY <1>1, <1>2, <3>1, <3>3, <3>6
  <2> QED
    BY <2>2, <2>3
<1> QED
  BY <1>3, <1>4, <1>5

\* The counter goes on counting the failed logins in a row.
LEMMA CountKeeps ==
  ASSUME WorkerInv, at = "disposing", UNCHANGED ending,
         streak' = Counted,
         results' = Append(results, IF claim.outcome = "stage1" THEN "stage1" ELSE "other"),
         at' = "deadman" <=> Counted >= STAGE1_DEADMAN_THRESHOLD
  PROVE  /\ StreakCounts'
         /\ streak' \in 0..STAGE1_DEADMAN_THRESHOLD /\ results' \in Seq({"stage1", "other"})
<1> DEFINE n == Len(results)
           last == IF claim.outcome = "stage1" THEN "stage1" ELSE "other"
<1>1. streak \in 0..2 /\ n \in Nat /\ results \in Seq({"stage1", "other"}) /\ streak <= n
  BY DEF WorkerInv, WorkerTypeOK, StreakCounts, STAGE1_DEADMAN_THRESHOLD
<1>2. ending # "deadman"
  BY DEF WorkerInv, WorkerTypeOK
<1>3. /\ results' \in Seq({"stage1", "other"}) /\ Len(results') = n + 1
      /\ results'[n + 1] = last
      /\ \A i \in 1..n : results'[i] = results[i]
  BY <1>1
<1>4. CASE claim.outcome = "stage1"
  <2>1. streak' = streak + 1 /\ last = "stage1"
    BY <1>4 DEF Counted
  <2>2. ASSUME NEW i \in 1..(n + 1), i > n - streak
        PROVE  results'[i] = "stage1"
    BY <1>1, <1>3, <2>1, <2>2 DEF WorkerInv, StreakCounts
  <2>3. streak' < 3 /\ streak' < n + 1 => results'[n - streak] # "stage1"
    BY <1>1, <1>3, <2>1 DEF WorkerInv, StreakCounts
  <2>4. streak' = 3 <=> at' = "deadman"
    BY <1>1, <2>1 DEF STAGE1_DEADMAN_THRESHOLD
  <2>5. StreakCounts'
    BY <1>1, <1>2, <1>3, <2>1, <2>2, <2>3, <2>4 DEF StreakCounts
  <2> QED
    BY <1>1, <1>3, <2>1, <2>5 DEF STAGE1_DEADMAN_THRESHOLD
<1>5. CASE claim.outcome # "stage1"
  <2>1. streak' = 0 /\ last = "other" /\ at' # "deadman"
    BY <1>5 DEF Counted, STAGE1_DEADMAN_THRESHOLD
  <2>2. StreakCounts'
    BY <1>1, <1>2, <1>3, <2>1 DEF StreakCounts
  <2> QED
    BY <1>3, <2>1, <2>2 DEF STAGE1_DEADMAN_THRESHOLD
<1> QED
  BY <1>4, <1>5

LEMMA DisposeStep ==
  ASSUME WorkerInv, Dispose
  PROVE  WorkerInv'
<1>1. /\ at = "disposing" /\ session' = NoSession /\ claim' = NoClaim /\ age' = 0 /\ ~hung
      /\ UNCHANGED <<hung, queue, login, env, shuttingDown, ending>>
  BY DEF Dispose, Awaits
<1>2. login.own = NoBrowser
  BY <1>1 DEF WorkerInv, LoginInHand
<1>3. AgeBounded' \/ at' \in Awaited \cup {"claimed"}
  BY <1>1 DEF AgeBounded
<1>4. WatchdogEndsWhatHangs'
  BY <1>1 DEF WorkerInv, WorkerTypeOK, WatchdogEndsWhatHangs
<1>5. CASE Release /\ at' = "resting" /\ UNCHANGED <<streak, results>>
  <2>1. /\ SessionInHand' /\ HeldWarm' /\ LoginInHand' /\ NoBrowserLeaks'
        /\ browsers' \in [Browser -> {"closed", "launching", "abandoned", "open"}]
        /\ held' \in Held \cup {NoSession}
    BY <1>1, <1>5, ReleaseKeeps
  <2>2. StreakCounts'
    BY <1>1, <1>5, StreakFrame DEF WorkerInv
  <2>3. WorkerTypeOK' /\ AgeBounded'
    BY <1>1, <1>3, <1>5, <2>1, StageValues DEF WorkerInv, WorkerTypeOK, queue, LoopPoints
  <2> QED
    BY <1>4, <2>1, <2>2, <2>3 DEF WorkerInv
<1>6. ASSUME results' = Append(results, IF claim.outcome = "stage1" THEN "stage1" ELSE "other"),
             streak' = Counted,
             IF Counted >= STAGE1_DEADMAN_THRESHOLD
             THEN at' = "deadman" /\ TeardownHeld
             ELSE at' = (IF claim.outcome = "ok" THEN "polling" ELSE "resting") /\ Release
      PROVE  WorkerInv'
  <2>1. at' = "deadman" <=> Counted >= STAGE1_DEADMAN_THRESHOLD
    BY <1>6
  <2>2. /\ StreakCounts'
        /\ streak' \in 0..STAGE1_DEADMAN_THRESHOLD /\ results' \in Seq({"stage1", "other"})
    BY <1>1, <1>6, <2>1, CountKeeps
  <2>3. /\ SessionInHand' /\ HeldWarm' /\ LoginInHand' /\ NoBrowserLeaks'
        /\ browsers' \in [Browser -> {"closed", "launching", "abandoned", "open"}]
        /\ held' \in Held \cup {NoSession}
    <3>1. CASE Counted >= STAGE1_DEADMAN_THRESHOLD
      <4>1. claim.outcome = "stage1"
        BY <3>1 DEF Counted, STAGE1_DEADMAN_THRESHOLD
      <4>2. session = NoSession
        BY <1>1, <4>1 DEF WorkerInv, SessionInHand
      <4> QED
        BY <1>1, <1>2, <1>6, <3>1, <4>2, TeardownKeeps DEF LoginInHand
    <3>2. CASE ~(Counted >= STAGE1_DEADMAN_THRESHOLD)
      BY <1>1, <1>6, <3>2, ReleaseKeeps
    <3> QED
      BY <3>1, <3>2
  <2>4. at' \in {"deadman", "polling", "resting"}
    BY <1>6
  <2>5. WorkerTypeOK' /\ AgeBounded'
    BY <1>1, <1>3, <2>2, <2>3, <2>4, StageValues DEF WorkerInv, WorkerTypeOK, queue, LoopPoints
  <2> QED
    BY <1>4, <2>2, <2>3, <2>5 DEF WorkerInv
<1> QED
  BY <1>5, <1>6 DEF Dispose

-----------------------------------------------------------------------------
(* The invariant *)

LEMMA WorkerInvInitially ==
  ASSUME WorkerInit
  PROVE  WorkerInv
<1>1. NoLogin \in [attempt : 0..MaxLogins, own : Browser \cup {NoBrowser}]
  BY WorkerProcessAssumption DEF NoLogin
<1>2. browsers \in [Browser -> {"closed", "launching", "abandoned", "open"}]
  BY DEF WorkerInit
<1>3. streak \in 0..STAGE1_DEADMAN_THRESHOLD /\ results \in Seq({"stage1", "other"})
  BY DEF WorkerInit, STAGE1_DEADMAN_THRESHOLD
<1>a. arrived \in 0..MaxArrivals /\ waiting \in 0..arrived /\ age \in Nat
  BY WorkerProcessAssumption DEF WorkerInit
<1>4. WorkerTypeOK
  BY <1>1, <1>2, <1>3, <1>a, StageValues DEF WorkerInit, WorkerTypeOK, LoopPoints
<1>5. SessionInHand /\ HeldWarm /\ LoginInHand /\ NoBrowserLeaks
  BY DEF WorkerInit, SessionInHand, HeldWarm, LoginInHand, NoBrowserLeaks, NoLogin
<1>6. StreakCounts /\ AgeBounded /\ WatchdogEndsWhatHangs
  BY StageValues DEF WorkerInit, StreakCounts, AgeBounded, WatchdogEndsWhatHangs
<1> QED
  BY <1>4, <1>5, <1>6 DEF WorkerInv

LEMMA WorkerInvKept ==
  ASSUME WorkerInv, [WorkerNext]_workerVars
  PROVE  WorkerInv'
<1>1. CASE UNCHANGED workerVars
  <2>1. UNCHANGED <<at, claim, clock, queue, warm, process>>
    BY <1>1 DEF workerVars
  <2>2. SessionInHand' /\ HeldWarm' /\ LoginInHand' /\ NoBrowserLeaks'
    BY <2>1, WarmFrame DEF process
  <2>3. WorkerTypeOK'
    BY <2>1 DEF WorkerInv, WorkerTypeOK, clock, queue, warm, process
  <2> QED
    BY <2>1, <2>2, <2>3, AttemptFrame DEF WorkerInv
<1>2. CASE Arrive \/ Hang \/ SessionAges \/ Signal \/ \E b \in Browser : LaunchResolves(b)
  BY <1>2, ArriveStep, HangStep, SessionAgesStep, SignalStep, LaunchResolvesStep
<1>3. CASE ClaimRun \/ ClaimNothing \/ SyncEnds \/ Wake \/ LeaveLoop \/ ExitAfterClose
  BY <1>3, ClaimRunStep, ClaimNothingStep, RestStep, LeaveLoopStep, ExitAfterCloseStep
<1>4. CASE EndWithoutBrowser \/ ReuseSession \/ StartLogin \/ \E b \in Browser : Launch(b)
  BY <1>4, EndWithoutBrowserStep, ReuseSessionStep, StartLoginStep, LaunchStep
<1>5. CASE RetryLogin \/ FailLogin \/ LogIn \/ Navigate
  BY <1>5, RetryLoginStep, FailLoginStep, LogInStep, NavigateStep
<1>6. CASE EngineValidates \/ StageSucceeds \/ StageFails \/ Dispose
  BY <1>6, EngineValidatesStep, StageSucceedsStep, StageFailsStep, DisposeStep
<1>7. CASE Watchdog \/ Restart
  BY <1>7, WatchdogStep, RestartStep
<1> QED
  BY <1>1, <1>2, <1>3, <1>4, <1>5, <1>6, <1>7 DEF WorkerNext, WorkerGoesOn

LEMMA WorkerInvAlways == WorkerSpec => []WorkerInv
<1> QED
  BY WorkerInvInitially, WorkerInvKept, PTL DEF WorkerSpec

\* The loop, the login, the sessions and the browsers stay well-formed for any number of
\* accounts, browsers and attempts; a process that is down has ended in some way.
THEOREM WorkerTypeCorrect == WorkerSpec => []WorkerTypeOK
<1>1. WorkerInv => WorkerTypeOK
  BY DEF WorkerInv
<1> QED
  BY <1>1, WorkerInvAlways, PTL

\* No run drives another account's page or a closed browser, and what is kept for reuse is
\* busy exactly while a run drives it, wherever a stage fails, throws or is cut off.
THEOREM RunsDriveTheirOwn == WorkerSpec => []OwnSession
<1>1. WorkerInv => OwnSession
  BY OwnSessionImplied
<1> QED
  BY <1>1, WorkerInvAlways, PTL

\* Each browser that is open or on its way belongs to somebody who will close it, whenever
\* a launch resolves.
THEOREM BrowsersHaveOwners == WorkerSpec => []NoBrowserLeaks
<1>1. WorkerInv => NoBrowserLeaks
  BY DEF WorkerInv
<1> QED
  BY <1>1, WorkerInvAlways, PTL

\* The process gives up exactly after three failed logins in a row.
THEOREM DeadManCounts == WorkerSpec => []DeadManSwitch
<1>1. WorkerInv => DeadManSwitch
  BY DeadManSwitchImplied
<1> QED
  BY <1>1, WorkerInvAlways, PTL

\* The watchdog spares every iteration that hangs nowhere and has not come to Stage 5, nor
\* to Stage 4 with a cart of more than 30 lines, whatever the numbers of lines are.
THEOREM WatchdogSparesTheSlow == WorkerSpec => []WatchdogEndsWhatHangs
<1>1. WorkerInv => WatchdogEndsWhatHangs
  BY DEF WorkerInv
<1> QED
  BY <1>1, WorkerInvAlways, PTL
-----------------------------------------------------------------------------
(* The order sync loop *)

\* The first ones of a read are no more than its limit.
LEMMA FirstOnesBounded ==
  ASSUME NEW stores, IsFiniteSet(stores), NEW limit \in Nat, NEW found \in FirstOf(stores, limit)
  PROVE  found \subseteq stores /\ Cardinality(found) <= limit
<1>1. Cardinality(stores) \in Nat
  BY FS_CardinalityType
<1> QED
  BY <1>1 DEF FirstOf

\* What a tick finds are stores, and no more than it may sync.
LEMMA TicksFindStores ==
  ASSUME SyncLoopTypeOK, NEW found \in RequestedStores \cup DueStores
  PROVE  found \subseteq Shop /\ Cardinality(found) <= MAX_STORES_PER_TICK
<1>1. /\ IsFiniteSet(Shop) /\ MAX_STORES_PER_TICK \in Nat
      /\ everAsked \subseteq Shop /\ pending \subseteq Shop /\ due \subseteq Shop
  BY SyncLoopAssumption DEF SyncLoopTypeOK
<1>2. ASSUME NEW stores \in SUBSET Shop, found \in FirstOf(stores, MAX_STORES_PER_TICK)
      PROVE  found \subseteq Shop /\ Cardinality(found) <= MAX_STORES_PER_TICK
  <2>1. IsFiniteSet(stores)
    BY <1>1, FS_Subset
  <2> QED
    BY <1>1, <1>2, <2>1, FirstOnesBounded
<1>3. CASE found \in RequestedStores
  <2>1. PICK read \in FirstOf(everAsked, STORES_READ) :
          found \in FirstOf(read \cap pending, MAX_STORES_PER_TICK)
    BY <1>3 DEF RequestedStores
  <2> QED
    BY <1>1, <1>2, <2>1
<1>4. CASE found \in DueStores
  BY <1>1, <1>2, <1>4 DEF DueStores
<1> QED
  BY <1>3, <1>4

\* The loop's stores, its batch and its session stay well-formed (order-sync-loop.js): a tick
\* syncs no more stores than it may, one at a time and never one without credentials, and a
\* tap during a sync leaves its store pending, for any stores, limits and failures.
THEOREM SyncLoopTypeCorrect == SyncLoopSpec => []SyncLoopTypeOK
<1>1. SyncLoopInit => SyncLoopTypeOK
  <2>1. Cardinality({}) = 0
    BY FS_EmptySet
  <2> SUFFICES ASSUME SyncLoopInit PROVE SyncLoopTypeOK
    OBVIOUS
  <2>2. /\ again \in BOOLEAN /\ ~again /\ throttled \in BOOLEAN
    BY Zenon DEF SyncLoopInit
  <2>3. /\ everAsked \subseteq Shop /\ pending = {} /\ due = {}
        /\ batch = {} /\ syncing = NoStore /\ wakes = 0
    BY Zenon DEF SyncLoopInit
  <2> QED
    BY <2>1, <2>2, <2>3, SyncLoopAssumption DEF SyncLoopTypeOK
<1>2. SyncLoopTypeOK /\ [SyncLoopNext]_loopVars => SyncLoopTypeOK'
  <2> SUFFICES ASSUME SyncLoopTypeOK, [SyncLoopNext]_loopVars
               PROVE  SyncLoopTypeOK'
    OBVIOUS
  <2>1. CASE UNCHANGED loopVars
    BY <2>1 DEF loopVars, SyncLoopTypeOK
  <2>2. CASE MinutePasses
    BY <2>2 DEF MinutePasses, SyncLoopTypeOK
  <2>3. CASE TickRequested
    <3>1. PICK found \in RequestedStores : batch' = found
      BY <2>3 DEF TickRequested
    <3> QED
      BY <2>3, <3>1, TicksFindStores DEF TickRequested, SyncLoopTypeOK
  <2>4. CASE TickScheduled
    <3>1. PICK found \in DueStores : batch' = found
      BY <2>4 DEF TickScheduled
    <3> QED
      BY <2>4, <3>1, TicksFindStores DEF TickScheduled, SyncLoopTypeOK
  <2>5. CASE StoreSyncEnds
    BY <2>5 DEF StoreSyncEnds, SyncSucceeds, SyncFails, SyncOver, SyncLoopTypeOK
  <2>6. ASSUME NEW s \in Shop, Tap(s)
        PROVE  SyncLoopTypeOK'
    BY <2>6, SyncLoopAssumption DEF Tap, SyncLoopTypeOK
  <2>7. ASSUME NEW s \in Shop, ComesRound(s)
        PROVE  SyncLoopTypeOK'
    BY <2>7, SyncLoopAssumption DEF ComesRound, SyncLoopTypeOK
  <2>8. ASSUME NEW s \in Shop, PassOver(s) \/ BeginSync(s)
        PROVE  SyncLoopTypeOK'
    <3>1. batch' = batch \ {s} /\ batch \subseteq Shop
      BY <2>8 DEF PassOver, BeginSync, SyncLoopTypeOK
    <3>2. IsFiniteSet(batch)
      BY <3>1, FS_Subset, SyncLoopAssumption
    <3>3. Cardinality(batch') <= Cardinality(batch) /\ Cardinality(batch) \in Nat
          /\ Cardinality(batch') \in Nat
      BY <3>1, <3>2, FS_Subset, FS_CardinalityType
    <3>4. batch' \subseteq Shop /\ Cardinality(batch') <= MAX_STORES_PER_TICK
      BY <3>1, <3>3, SyncLoopAssumption DEF SyncLoopTypeOK
    <3>5. /\ syncing' \in (Shop \ Broken) \cup {NoStore}
          /\ UNCHANGED <<everAsked, pending, due, wakes>> /\ throttled' = throttled
      BY <2>8, SyncLoopAssumption DEF PassOver, BeginSync, SyncLoopTypeOK
    <3>6. again' \in BOOLEAN /\ (again' => syncing' \in pending')
      <4>1. CASE PassOver(s)
        BY <4>1, Zenon DEF PassOver, SyncLoopTypeOK
      <4>2. CASE BeginSync(s)
        BY <4>2, Zenon DEF BeginSync
      <4> QED
        BY <2>8, <4>1, <4>2
    <3> QED
      BY <3>4, <3>5, <3>6 DEF SyncLoopTypeOK
  <2> QED
    BY <2>1, <2>2, <2>3, <2>4, <2>5, <2>6, <2>7, <2>8 DEF SyncLoopNext
<1> QED
  BY <1>1, <1>2, PTL DEF SyncLoopSpec

-----------------------------------------------------------------------------
(* The fleet, the worker process and its loop in one state space (MCServices) *)

\* The composition implements each of its parts: where one moves, the others stutter.
THEOREM ServicesImplementParts == MCSpec => FleetSpec /\ WorkerSpec /\ SyncLoopSpec
<1>1. MCInit => FleetInit /\ WorkerInit /\ SyncLoopInit
  BY DEF MCInit
<1>2. [MCNext]_serviceVars =>
        [FleetNext]_fleetVars /\ [WorkerNext]_workerVars /\ [SyncLoopNext]_loopVars
  BY DEF MCNext, serviceVars, FleetMoves, WorkerMoves, LoopMoves
<1> QED
  BY <1>1, <1>2, PTL DEF MCSpec, FleetSpec, WorkerSpec, SyncLoopSpec

\* Rows and workers, the process and its browsers, and the loop stay well-formed in the
\* composition.
THEOREM ServicesTypeCorrect == MCSpec => []ServicesTypeOK
<1>1. FleetTypeOK /\ WorkerTypeOK /\ SyncLoopTypeOK => ServicesTypeOK
  BY DEF ServicesTypeOK
<1> QED
  BY <1>1, ServicesImplementParts, FleetTypeCorrect, WorkerTypeCorrect, SyncLoopTypeCorrect,
     PTL

=============================================================================
