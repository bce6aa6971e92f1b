------------------------ MODULE FleetOwnershipProofs ------------------------
(***************************************************************************)
(* Who has a run in hand, and whose it is while a worker acts on MILO.     *)
(*                                                                         *)
(* First, module WorkerFleet implements module OrderOnce: every step of    *)
(* workers, handlers, operators, users, the reaper and the clock takes a   *)
(* run in hand, puts it down, places its order, asks for it, or stutters.  *)
(* A step changes one worker at most, and a worker has one run at most in  *)
(* hand; so what a step does to the holders it does to those of one run.   *)
(*                                                                         *)
(* Second, the table agrees where it matters.  Stage 3 is silent, so its   *)
(* worker may lose the run to Start over or to the reaper and go on with a *)
(* store's cart; but the awaited beats that end Stage 3 and open checkout  *)
(* are refused to it, and from the last of them on the run is running and  *)
(* its worker's.  That needs what the first part does without: beats that  *)
(* arrive in order and, outside Stage 3, on time, and no operator at work  *)
(* on a run (a cancel takes it away).  The argument is about time.  A      *)
(* worker at checkout is silent too, but has told the row so, and the      *)
(* reaper waits longer for it than it can take; a coroutine that outlives  *)
(* its Stage 5 is gone before anybody else's row is old enough to reap.  So*)
(* the tripwire sees every death that follows a click.                     *)
(*                                                                         *)
(* Third, the truth rule: a report that calls a run failed is the last     *)
(* that is said of it, and comes from a worker that has not clicked or has *)
(* MILO's refusal, unless its Stage 5 timed out.                           *)
(***************************************************************************)
EXTENDS WorkerFleetProofs

-----------------------------------------------------------------------------
(* Holders *)

\* The refinement mapping names the worker that has a run in hand, if there is one.
HolderHolds ==
  \A r \in Run :
    /\ \A w \in Worker : InHand(w, r) => Holder(r) = w
    /\ (\A w \in Worker : ~InHand(w, r)) => Holder(r) = NoWorker

\* Since one worker has a run in hand, Holder's CHOOSE has no choice.
LEMMA HolderIsOne == FleetInv => HolderHolds
<1> SUFFICES ASSUME FleetInv, NEW r \in Run
             PROVE  /\ \A w \in Worker : InHand(w, r) => Holder(r) = w
                    /\ (\A w \in Worker : ~InHand(w, r)) => Holder(r) = NoWorker
  BY DEF HolderHolds
<1>1. \A v, w \in Worker : InHand(v, r) /\ InHand(w, r) => v = w
  BY DEF FleetInv, OneToken
<1>2. ASSUME NEW w \in Worker, InHand(w, r) PROVE Holder(r) = w
  <2>1. Holder(r) = CHOOSE v \in Worker : InHand(v, r)
    BY <1>2 DEF Holder
  <2>2. Holder(r) \in Worker /\ InHand(Holder(r), r)
    BY <1>2, <2>1
  <2> QED
    BY <1>1, <1>2, <2>2
<1>3. (\A w \in Worker : ~InHand(w, r)) => Holder(r) = NoWorker
  BY DEF Holder
<1> QED
  BY <1>2, <1>3

\* The same of the next state.
LEMMA HolderIsOneNext == FleetInv' => HolderHolds'
  BY HolderIsOne, PTL

\* A run that stays in hand has the same holder.
LEMMA HolderStays ==
  ASSUME FleetInv, FleetInv', NEW r \in Run,
         \A w \in Worker : InHand(w, r)' <=> InHand(w, r)
  PROVE  Holder(r)' = Holder(r)
<1>1. CASE \E w \in Worker : InHand(w, r)
  BY <1>1, HolderIsOne, HolderIsOneNext DEF HolderHolds
<1>2. CASE \A w \in Worker : ~InHand(w, r)
  BY <1>2, HolderIsOne, HolderIsOneNext DEF HolderHolds
<1> QED
  BY <1>1, <1>2

\* The mapped holders after a step that changes those of one run.
LEMMA HoldersExcept ==
  ASSUME NEW r \in Run, NEW h, Holder(r)' = h,
         \A q \in Run : q # r => Holder(q)' = Holder(q)
  PROVE  [q \in Run |-> Holder(q)]' = [[q \in Run |-> Holder(q)] EXCEPT ![r] = h]
  OBVIOUS

\* No run is created or forgotten.
SameRuns == \A r \in Run : Created(r)' <=> Created(r)

\* A step is about one worker.
OneWorkerActs ==
  \A v, w \in Worker : workers'[v] # workers[v] /\ workers'[w] # workers[w] => v = w

-----------------------------------------------------------------------------
(* The steps of the promise *)

PromiseStep == Promise!Next \/ UNCHANGED Promise!vars

\* A step in which nobody takes a run in hand puts one run down at most.
LEMMA PutDownStep ==
  ASSUME FleetInv, FleetInv', SameRuns, OneWorkerActs, dispatched' = dispatched,
         \A w \in Worker, r \in Run : InHand(w, r)' => InHand(w, r)
  PROVE  PromiseStep
<1>1. UNCHANGED {r \in Run : Created(r)}
  BY DEF SameRuns
<1>2. CASE \A r \in Run : Holder(r)' = Holder(r)
  <2>1. UNCHANGED [r \in Run |-> Holder(r)]
    BY <1>2
  <2> QED
    BY <1>1, <2>1 DEF PromiseStep, Promise!vars
<1>3. CASE ~ \A r \in Run : Holder(r)' = Holder(r)
  <2>1. PICK r \in Run : Holder(r)' # Holder(r)
    BY <1>3
  <2>2. PICK w \in Worker : InHand(w, r) /\ ~InHand(w, r)'
    BY <2>1, HolderStays
  <2>3. \A v \in Worker : ~InHand(v, r)'
    BY <2>2 DEF FleetInv, OneToken
  <2>4. Holder(r)' = NoWorker
    BY <2>3, HolderIsOneNext DEF HolderHolds
  <2>5. ASSUME NEW q \in Run, q # r PROVE Holder(q)' = Holder(q)
    <3>1. ASSUME NEW v \in Worker, InHand(v, q) PROVE InHand(v, q)'
      <4>1. v # w
        BY <2>2, <2>5, <3>1 DEF InHand
      <4>2. workers'[w] # workers[w]
        BY <2>2 DEF InHand
      <4>3. workers'[v] = workers[v]
        BY <4>1, <4>2 DEF OneWorkerActs
      <4> QED
        BY <3>1, <4>3 DEF InHand
    <3> QED
      BY <3>1, HolderStays
  <2>6. Promise!PutDown(r)
    BY <1>1, <2>4, <2>5, HoldersExcept DEF Promise!PutDown
  <2> QED
    BY <2>6 DEF PromiseStep, Promise!Next
<1> QED
  BY <1>2, <1>3

\* The answer of claim-next gives the run to a worker: nobody has it in hand and
\* its order has not been placed.
LEMMA TakeStep ==
  ASSUME FleetInv, FleetInv', SameRuns, dispatched' = dispatched,
         NEW c \in Slot, NEW w \in Worker, NEW r \in Run,
         HandsOver(c, r), workers'[w].run = r, workers'[w].at = "working",
         workers[w].run = NoRun,
         \A v \in Worker : v # w => workers'[v] = workers[v]
  PROVE  PromiseStep
<1>1. UNCHANGED {q \in Run : Created(q)}
  BY DEF SameRuns
<1>2. Created(r) /\ r \in {q \in Run : Created(q)}
  BY DEF HandsOver, FleetInv, NothingBeforeCreation
<1>3. dispatched[r] = 0
  BY DEF HandsOver, FleetInv, TokenGoneAfterClick
<1>4. Holder(r) = NoWorker
  BY HolderIsOne DEF HolderHolds, FleetInv, OneToken
<1>5. Holder(r)' = w
  <2>1. InHand(w, r)'
    BY DEF InHand, DrivingPoints
  <2> QED
    BY <2>1, HolderIsOneNext DEF HolderHolds
<1>6. ASSUME NEW q \in Run, q # r PROVE Holder(q)' = Holder(q)
  <2>1. \A v \in Worker : InHand(v, q)' <=> InHand(v, q)
    BY <1>6, RunAssumption DEF InHand
  <2> QED
    BY <2>1, HolderStays
<1>7. Promise!Take(w, r)
  BY <1>1, <1>2, <1>3, <1>4, <1>5, <1>6, HoldersExcept DEF Promise!Take
<1> QED
  BY <1>7 DEF PromiseStep, Promise!Next

\* A click, in time or late, places the order; a late one of a worker that has
\* reported already puts the run down as well.
LEMMA PlaceStep ==
  ASSUME FleetInv, FleetInv', NEW w \in Worker, Dispatch(w) \/ LateClick(w)
  PROVE  PromiseStep
<1>1. PICK r \in Run : workers[w].run = r
  BY FleetAssumption DEF Dispatch, LateClick
<1>2. /\ Click(r)
      /\ runs' = runs
      /\ \A v \in Worker : v # w => workers'[v] = workers[v]
      /\ workers'[w].run = r
      /\ InHand(w, r)
      /\ MayClick(w, r)
  BY <1>1 DEF Dispatch, LateClick, Moves, InHand, DrivingPoints, MayClick, BeforeClick,
              FleetInv, FleetTypeOK, WorkerStates
<1>3. UNCHANGED {q \in Run : Created(q)}
  BY <1>2 DEF Created
<1>4. dispatched[r] = 0
  BY <1>2 DEF FleetInv, TokenGoneAfterClick
<1>5. dispatched' = [dispatched EXCEPT ![r] = 1]
  BY <1>2, <1>4 DEF Click
<1>6. Holder(r) = w
  BY <1>2, HolderIsOne DEF HolderHolds
<1>7. ASSUME NEW q \in Run, q # r PROVE Holder(q)' = Holder(q)
  <2>1. \A v \in Worker : InHand(v, q)' <=> InHand(v, q)
    BY <1>1, <1>2, <1>7 DEF InHand
  <2> QED
    BY <2>1, HolderStays
<1>8. Holder(r)' \in {Holder(r), NoWorker}
  <2>1. \A v \in Worker : v # w => ~InHand(v, r)'
    BY <1>2 DEF InHand, FleetInv, OneToken
  <2> QED
    BY <1>6, <2>1, HolderIsOneNext DEF HolderHolds
<1>9. [q \in Run |-> Holder(q)]' \in
         {[q \in Run |-> Holder(q)], [[q \in Run |-> Holder(q)] EXCEPT ![r] = NoWorker]}
  BY <1>7, <1>8
<1>10. Promise!Place(r)
  BY <1>3, <1>4, <1>5, <1>6, <1>9, RunAssumption DEF Promise!Place
<1> QED
  BY <1>10 DEF PromiseStep, Promise!Next

\* A new run is asked for.
LEMMA AskStep ==
  ASSUME FleetInv, FleetInv', NEW r \in Run, UserCreatesRun(r)
  PROVE  PromiseStep
<1>1. /\ workers' = workers
      /\ dispatched' = dispatched
      /\ runs' = [runs EXCEPT ![r].status = "queued"]
  BY DEF UserCreatesRun, WithoutWorkers, MiloUntouched, CreateRun
<1>2. {q \in Run : Created(q)}' = {q \in Run : Created(q)} \cup {r}
  BY <1>1 DEF Created, NotCreated, FleetInv, FleetTypeOK, TypeOK, Rows
<1>3. \A q \in Run : Holder(q)' = Holder(q)
  BY <1>1, HolderStays DEF InHand
<1>4. UNCHANGED [q \in Run |-> Holder(q)]
  BY <1>3
<1>5. Promise!Ask(r)
  BY <1>1, <1>2, <1>4 DEF Promise!Ask
<1> QED
  BY <1>5 DEF PromiseStep, Promise!Next

-----------------------------------------------------------------------------
(* What each action is *)

\* Handlers rewrite rows; none creates a run or makes one disappear.
LEMMA WriteKeepsRuns ==
  ASSUME FleetInv, NEW c \in Slot, Write(c)
  PROVE  SameRuns
<1> DEFINE r == calls[c].run
           p == calls[c].patch
<1>1. /\ r \in Run
      /\ p \in Patches
      /\ Created(r)
  BY Shapes, OnlyCreatedRuns DEF Write
<1>2. /\ \A q \in Run : q # r => runs'[q] = runs[q]
      /\ runs'[r].status = OrKeep(p.status, runs[r].status)
  BY <1>1 DEF Write, Patched, FleetInv, FleetTypeOK, TypeOK
<1> QED
  BY <1>1, <1>2
  DEF SameRuns, Created, OrKeep, Patches, ALLOWED_STATUSES, ACTIVE_STATUSES,
      TERMINAL_STATUSES, NotCreated

\* The reaper, Start over and the clock write rows of running runs.
LEMMA RowKeepsRuns ==
  ASSUME FleetInv, NEW r \in Run, Reap(r) \/ Recover(r) \/ HeartbeatAges(r)
  PROVE  SameRuns
<1>1. /\ runs[r].status = "running"
      /\ \A q \in Run : q # r => runs'[q] = runs[q]
  BY DEF Reap, Recover, HeartbeatAges, FleetInv, FleetTypeOK, TypeOK
<1>2. runs'[r].status \in {"failed", "canceled", "running"}
  BY DEF Reap, Recover, HeartbeatAges, FleetInv, FleetTypeOK, TypeOK, Rows
<1> QED
  BY <1>1, <1>2 DEF SameRuns, Created, NotCreated

\* No worker moves.
LEMMA NobodyMoves ==
  ASSUME FleetInv, FleetInv', SameRuns, workers' = workers, dispatched' = dispatched
  PROVE  PromiseStep
<1>1. OneWorkerActs
  BY DEF OneWorkerActs
<1>2. \A w \in Worker, r \in Run : InHand(w, r)' => InHand(w, r)
  BY DEF InHand
<1> QED
  BY <1>1, <1>2, PutDownStep

\* One worker moves, and takes no run in hand that it did not have.
LEMMA WorkerMoves ==
  ASSUME FleetInv, FleetInv', SameRuns, dispatched' = dispatched,
         NEW w \in Worker,
         \A v \in Worker : v # w => workers'[v] = workers[v],
         workers'[w].run \in {workers[w].run, NoRun},
         workers'[w].at \in DrivingPoints \/ workers'[w].loose
           => workers[w].at \in DrivingPoints \/ workers[w].loose
  PROVE  PromiseStep
<1>1. OneWorkerActs
  BY DEF OneWorkerActs
<1>2. \A r \in Run : InHand(w, r)' => InHand(w, r)
  BY RunAssumption DEF InHand
<1>3. \A v \in Worker, r \in Run : v # w => (InHand(v, r)' => InHand(v, r))
  BY DEF InHand
<1> QED
  BY <1>1, <1>2, <1>3, PutDownStep

\* An error or a timeout leaves no worker with a run it did not have in hand.
LEMMA RefusedMoves ==
  ASSUME FleetInv, NEW w \in Worker, workers'[w] = Refused(workers[w])
  PROVE  /\ workers'[w].run \in {workers[w].run, NoRun}
         /\ workers'[w].at \notin DrivingPoints
         /\ workers'[w].loose => workers[w].loose
<1>1. CASE workers[w].at = "reporting" /\ workers[w].again
  <2>1. workers'[w] = [workers[w] EXCEPT !.at = "settling", !.again = FALSE]
    BY <1>1 DEF Refused
  <2>2. /\ workers'[w].at = "settling"
        /\ workers'[w].run = workers[w].run
        /\ workers'[w].loose = workers[w].loose
    BY <2>1, Shapes DEF WorkerStates
  <2> QED
    BY <2>2 DEF DrivingPoints
<1>2. CASE ~(workers[w].at = "reporting" /\ workers[w].again)
  BY <1>2 DEF Refused, IdleWorker, DrivingPoints
<1> QED
  BY <1>1, <1>2

\* A request that fails, or whose worker gives up, puts a run down at most.
LEMMA RequestRefused ==
  ASSUME FleetInv, FleetInv', NEW c \in Slot, HandlerFails(c) \/ WorkerGivesUp(c)
  PROVE  PromiseStep
<1> DEFINE w == calls[c].waiter
<1>1. runs' = runs /\ dispatched' = dispatched
  BY DEF HandlerFails, WorkerGivesUp, FailCall, MiloUntouched
<1>2. SameRuns
  BY <1>1 DEF SameRuns, Created
<1>3. CASE w \in Worker
  <2>1. /\ workers'[w] = Refused(workers[w])
        /\ \A v \in Worker : v # w => workers'[v] = workers[v]
    BY <1>3 DEF HandlerFails, WorkerGivesUp, FleetInv, FleetTypeOK
  <2> QED
    BY <1>1, <1>2, <1>3, <2>1, RefusedMoves, WorkerMoves
<1>4. CASE w \notin Worker
  <2>1. workers' = workers
    BY <1>4 DEF HandlerFails, WorkerGivesUp
  <2> QED
    BY <1>1, <1>2, <2>1, NobodyMoves
<1> QED
  BY <1>3, <1>4

\* The last step of a request answers its worker: the answer of claim-next is
\* Take, any other leaves the worker going on with the run it had, or idle.
LEMMA RequestServed ==
  ASSUME FleetInv, FleetInv', NEW c \in Slot, HandlerStep(c)
  PROVE  PromiseStep
<1> DEFINE w == calls[c].waiter
           r == calls[c].run
<1>1. dispatched' = dispatched
  BY DEF HandlerStep, MiloUntouched
<1>2. SameRuns
  <2>1. CASE Write(c)
    BY <2>1, WriteKeepsRuns
  <2>2. CASE runs' = runs
    BY <2>2 DEF SameRuns, Created
  <2> QED
    BY <2>1, <2>2 DEF HandlerStep, CloseAttempt, InsertAttempt
<1>3. CASE ~(w \in Worker /\ calls'[c].phase = "idle")
  <2>1. workers' = workers
    BY <1>3 DEF HandlerStep
  <2> QED
    BY <1>1, <1>2, <2>1, NobodyMoves
<1>4. CASE w \in Worker /\ calls'[c].phase = "idle"
  <2>1. /\ workers'[w] = Answered(workers[w], r)
        /\ \A v \in Worker : v # w => workers'[v] = workers[v]
    BY <1>4 DEF HandlerStep, FleetInv, FleetTypeOK
  <2>2. workers[w].at \in {"claiming", "entering", "arming", "reporting"}
    BY <1>4 DEF FleetInv, AnswersFit
  <2>3. workers[w] \in WorkerStates
    BY <1>4, Shapes
  <2>4. CASE workers[w].at = "claiming"
    <3>1. calls[c].phase = "insert" /\ r \in Run
      BY <1>4, <2>4, Shapes DEF FleetInv, AnswersFit
    <3>2. HandsOver(c, r)
      BY <1>4, <3>1 DEF HandsOver
    <3>3. workers'[w] = [workers[w] EXCEPT !.at = "working", !.run = r]
      BY <2>1, <2>4 DEF Answered
    <3>4. workers'[w].run = r /\ workers'[w].at = "working"
      BY <2>3, <3>3 DEF WorkerStates
    <3>5. workers[w].run = NoRun
      BY <1>4, <2>4, Shapes
    <3> QED
      BY <1>1, <1>2, <1>4, <2>1, <3>1, <3>2, <3>4, <3>5, TakeStep
  <2>5. CASE workers[w].at \in {"entering", "arming"}
    <3>1. PICK a \in {"validating", "armed"} : workers'[w] = [workers[w] EXCEPT !.at = a]
      BY <2>1, <2>5 DEF Answered
    <3>2. workers'[w].run = workers[w].run
      BY <2>3, <3>1 DEF WorkerStates
    <3> QED
      BY <1>1, <1>2, <1>4, <2>1, <2>5, <3>2, WorkerMoves DEF DrivingPoints
  <2>6. CASE workers[w].at = "reporting"
    <3>1. workers'[w] = IdleWorker
      BY <2>1, <2>6 DEF Answered
    <3>2. /\ workers'[w].run = NoRun
          /\ workers'[w].at \notin DrivingPoints
          /\ ~workers'[w].loose
      BY <3>1 DEF IdleWorker, DrivingPoints
    <3> QED
      BY <1>1, <1>2, <1>4, <2>1, <3>2, WorkerMoves
  <2> QED
    BY <2>2, <2>4, <2>5, <2>6
<1> QED
  BY <1>3, <1>4

\* A worker that leaves its run puts it down.
LEMMA WorkerLeaves ==
  ASSUME FleetInv, FleetInv', NEW w \in Worker,
         BeatRefused(w) \/ FinalizeRefused(w) \/ Crash(w)
  PROVE  PromiseStep
<1>1. runs' = runs /\ dispatched' = dispatched /\ Leaves(w)
  BY DEF BeatRefused, FinalizeRefused, Crash, MiloUntouched
<1>2. /\ \A v \in Worker : v # w => workers'[v] = workers[v]
      /\ workers'[w] = IdleWorker
  BY <1>1 DEF Leaves, FleetInv, FleetTypeOK
<1>3. SameRuns
  BY <1>1 DEF SameRuns, Created
<1>4. /\ workers'[w].run = NoRun
      /\ workers'[w].at \notin DrivingPoints
      /\ ~workers'[w].loose
  BY <1>2 DEF IdleWorker, DrivingPoints
<1> QED
  BY <1>1, <1>2, <1>3, <1>4, WorkerMoves

\* A worker on its way to the click keeps its run; claiming is not yet having.
LEMMA WorkerGoesOn ==
  ASSUME FleetInv, FleetInv', NEW w \in Worker,
         \/ \E c \in Slot, r \in Run : StartClaim(w, c, r)
         \/ StartAdding(w)
         \/ \E c \in Slot : StartValidate(w, c)
         \/ PassTripwire(w)
         \/ \E c \in Slot : Arm(w, c)
         \/ StageTimesOut(w)
  PROVE  PromiseStep
<1>1. workers[w] \in WorkerStates
  BY Shapes
<1>2. dispatched' = dispatched
  BY DEF StartClaim, StartAdding, StartValidate, PassTripwire, Arm, StageTimesOut,
         MiloUntouched
<1>3. SameRuns
  <2>1. ASSUME NEW c \in Slot, NEW r \in Run, StartClaim(w, c, r)
        PROVE  SameRuns
    <3> DEFINE row == [runs[r] EXCEPT !.status = "running", !.stage = "other",
                                      !.worker = w, !.age = 0]
    <3>1. runs \in [Run -> Rows] /\ runs[r] \in Rows
      BY Shapes DEF FleetInv, FleetTypeOK, TypeOK
    <3>2. runs[r].status = "queued" /\ runs' = [runs EXCEPT ![r] = row]
      BY <2>1 DEF StartClaim, Claim
    <3>3. row.status = "running"
      BY <3>1 DEF Rows
    <3> HIDE DEF row
    <3> QED
      BY <3>1, <3>2, <3>3 DEF SameRuns, Created, NotCreated
  <2>2. CASE runs' = runs
    BY <2>2 DEF SameRuns, Created
  <2> QED
    BY <2>1, <2>2
    DEF StartAdding, StartValidate, PassTripwire, Arm, BeginHeartbeat, Begin, StageTimesOut
<1>4. /\ \A v \in Worker : v # w => workers'[v] = workers[v]
      /\ workers'[w].run = workers[w].run
      /\ workers'[w].at \in DrivingPoints \/ workers'[w].loose
           => workers[w].at \in DrivingPoints \/ workers[w].loose
  <2>1. ASSUME NEW point \in Points, Moves(w, point)
        PROVE  /\ \A v \in Worker : v # w => workers'[v] = workers[v]
               /\ workers'[w].at = point
               /\ workers'[w].run = workers[w].run
               /\ workers'[w].loose = workers[w].loose
    <3>1. /\ \A v \in Worker : v # w => workers'[v] = workers[v]
          /\ workers'[w] = [workers[w] EXCEPT !.at = point]
      BY <2>1 DEF Moves, FleetInv, FleetTypeOK
    <3> QED
      BY <1>1, <3>1, WorkerRecords
  <2>2. CASE \E c \in Slot, r \in Run : StartClaim(w, c, r)
    <3>1. Moves(w, "claiming") /\ "claiming" \in Points
      BY <2>2 DEF StartClaim, Points
    <3> QED
      BY <2>1, <3>1 DEF DrivingPoints
  <2>3. CASE PassTripwire(w)
    <3>1. /\ Moves(w, "cleared") /\ "cleared" \in Points
          /\ workers[w].at \in {"working", "validating"}
      BY <2>3 DEF PassTripwire, Points
    <3> QED
      BY <2>1, <3>1 DEF DrivingPoints
  <2>4. CASE \E c \in Slot : Arm(w, c)
    <3>1. Moves(w, "arming") /\ "arming" \in Points /\ workers[w].at = "cleared"
      BY <2>4 DEF Arm, Points
    <3> QED
      BY <2>1, <3>1 DEF DrivingPoints
  <2>5. CASE StageTimesOut(w)
    <3>1. /\ workers[w].at = "armed"
          /\ workers' = [workers EXCEPT ![w] =
                           [workers[w] EXCEPT !.at = "expired", !.loose = TRUE]]
      BY <2>5 DEF StageTimesOut, FleetInv, FleetTypeOK
    <3>2. [workers[w] EXCEPT !.at = "expired", !.loose = TRUE].run = workers[w].run
      BY <1>1 DEF WorkerStates
    <3>3. workers \in [Worker -> WorkerStates]
      BY DEF FleetInv, FleetTypeOK
    <3> QED
      BY <3>1, <3>2, <3>3 DEF DrivingPoints
  <2>6. CASE StartAdding(w)
    <3>1. Moves(w, "adding") /\ "adding" \in Points /\ workers[w].at = "working"
      BY <2>6 DEF StartAdding, Points
    <3> QED
      BY <2>1, <3>1 DEF DrivingPoints
  <2>7. CASE \E c \in Slot : StartValidate(w, c)
    <3>1. Moves(w, "entering") /\ "entering" \in Points /\ workers[w].at = "adding"
      BY <2>7 DEF StartValidate, Points
    <3> QED
      BY <2>1, <3>1 DEF DrivingPoints
  <2> QED
    BY <2>2, <2>3, <2>4, <2>5, <2>6, <2>7
<1> QED
  BY <1>2, <1>3, <1>4, WorkerMoves

\* A report puts the run down, unless the stage that timed out is still running.
LEMMA WorkerReports ==
  ASSUME FleetInv, FleetInv', NEW w \in Worker, NEW c \in Slot,
         NEW rep \in ReportsFrom(workers[w]), FinalizeRun(w, c, rep)
  PROVE  PromiseStep
<1>1. runs' = runs /\ dispatched' = dispatched
  BY DEF FinalizeRun, BeginStatusUpdate, Begin
<1>2. SameRuns
  BY <1>1 DEF SameRuns, Created
<1>3. PICK again, stray :
        workers' = [workers EXCEPT ![w].at = "reporting", ![w].stray = stray, ![w].again = again]
  BY DEF FinalizeRun
<1>4. /\ workers \in [Worker -> WorkerStates]
      /\ workers[w] \in WorkerStates
  BY DEF FleetInv, FleetTypeOK
<1>5. workers'[w] = [workers[w] EXCEPT !.at = "reporting", !.stray = stray, !.again = again]
  BY <1>3, <1>4
<1>6. /\ workers'[w].at = "reporting"
      /\ workers'[w].run = workers[w].run
      /\ workers'[w].loose = workers[w].loose
  BY <1>4, <1>5 DEF WorkerStates
<1>7. \A v \in Worker : v # w => workers'[v] = workers[v]
  BY <1>3, <1>4
<1> QED
  BY <1>1, <1>2, <1>6, <1>7, WorkerMoves DEF DrivingPoints

-----------------------------------------------------------------------------
(* The refinement *)

\* At first nothing is asked for, in hand or placed.
LEMMA InitImplements == FleetInit => Promise!Init
<1> SUFFICES ASSUME FleetInit PROVE Promise!Init
  OBVIOUS
<1>1. \A r \in Run : ~Created(r)
  BY DEF FleetInit, Init, InitialRow, Created, NotCreated
<1>2. \A r \in Run, w \in Worker : ~InHand(w, r)
  BY RunAssumption DEF FleetInit, IdleWorker, InHand
<1>3. \A r \in Run : Holder(r) = NoWorker
  BY <1>2 DEF Holder
<1> QED
  BY <1>1, <1>3 DEF Promise!Init, FleetInit

\* Every step of the fleet is a step of the promise or a stutter.
LEMMA NextImplements ==
  FleetInv /\ FleetInv' /\ [FleetNext]_fleetVars => [Promise!Next]_(Promise!vars)
<1> SUFFICES ASSUME FleetInv, FleetInv', [FleetNext]_fleetVars PROVE PromiseStep
  BY DEF PromiseStep
<1>1. ASSUME runs' = runs, workers' = workers, dispatched' = dispatched
      PROVE  PromiseStep
  BY <1>1, NobodyMoves DEF SameRuns, Created
<1>2. CASE UNCHANGED fleetVars
  BY <1>1, <1>2 DEF fleetVars
<1>3. ASSUME NEW w \in Worker, WorkerStep(w) PROVE PromiseStep
  <2>1. ASSUME NEW c \in Slot, Keepalive(w, c) PROVE PromiseStep
    BY <1>1, <2>1 DEF Keepalive, BeginHeartbeat, Begin, MiloUntouched
  <2> QED
    BY <1>3, <2>1, WorkerGoesOn, WorkerLeaves, WorkerReports, PlaceStep DEF WorkerStep
<1>4. ASSUME NEW c \in Slot, HandlerStep(c) \/ HandlerFails(c) \/ WorkerGivesUp(c)
      PROVE  PromiseStep
  BY <1>4, RequestServed, RequestRefused
<1>5. ASSUME NEW r \in Run, UserCreatesRun(r) PROVE PromiseStep
  BY <1>5, AskStep
<1>6. ASSUME NEW r \in Run, UserStartsOver(r) \/ TimePasses(r) PROVE PromiseStep
  BY <1>6, RowKeepsRuns, NobodyMoves
  DEF UserStartsOver, TimePasses, WithoutWorkers, MiloUntouched
<1>7. ASSUME NEW r \in Run, TripwireWindowPasses(r) PROVE PromiseStep
  BY <1>1, <1>7 DEF TripwireWindowPasses
<1>8. ASSUME NEW c \in Slot, NEW r \in Run, NEW action \in OPERATOR_ACTION,
             OperatorActs(c, r, action)
      PROVE  PromiseStep
  BY <1>1, <1>8 DEF OperatorActs, WithoutWorkers, BeginOperatorAction, Begin, MiloUntouched
<1>9. ASSUME NEW w \in Worker, NEW r \in Run, PollReaps(w, r) PROVE PromiseStep
  BY <1>9, RowKeepsRuns, NobodyMoves DEF PollReaps, WithoutWorkers, MiloUntouched
<1> QED
  BY <1>2, <1>3, <1>4, <1>5, <1>6, <1>7, <1>8, <1>9 DEF FleetNext

\* For any number of runs, workers and requests, with every hazard at work, beats of
\* Stage 3 that never come and coroutines that outlive their stage included: only the
\* one worker that has a run in hand places its order, the order is placed once, and
\* a run whose order was placed is never taken in hand again.
THEOREM FleetKeepsPromise == FleetSpec => KeepsPromise
<1>1. FleetInv /\ [FleetNext]_fleetVars => [Promise!Next]_(Promise!vars)
  BY FleetNextKeepsInv, NextImplements
<1> QED
  BY <1>1, InitImplements, FleetInvariant, PTL DEF FleetSpec, KeepsPromise, Promise!Spec

-----------------------------------------------------------------------------
(* Whose a run is *)

\* Beats are neither reordered nor late, and operators leave the runs alone (retry_now is
\* never offered, so it may be among the actions they would take).
Undisturbed ==
  /\ ~BeatsReorder
  /\ ~WorkersStall
  /\ OperatorActions \subseteq {"retry_now"}

-----------------------------------------------------------------------------
(* The invariant *)

\* A worker on a run, at a point where it acts on the store's MILO cart.
DrivesAt(w, r) == workers[w].run = r /\ workers[w].at \in DrivingPoints

\* A request that will write a status that ends the run.
Ends(c, r) == calls[c].run = r /\ calls[c].patch.status \notin {Keep, "queued"}

\* A pending patch is a beat or a report.  A beat touches the stage only; a report ends
\* the run or queues it, and only what queues the run takes its worker away.
PatchesPlain ==
  \A c \in Slot :
    /\ calls[c].patch.status \notin {"running", "canceled"}
    /\ calls[c].patch.failure # "LK_RUN_REAPED"
    /\ calls[c].patch.status = Keep => calls[c].patch.failure = Keep
    /\ calls[c].patch.worker # Keep => calls[c].patch.status = "queued"
    /\ calls[c].phase = "write" /\ calls[c].patch.status = Keep =>
         calls[c].patch.beat /\ calls[c].close = "none"

\* The worker that waits for a beat is about to enter Stage 4 or checkout; who waits for a
\* report has stopped driving.
WaitersFit ==
  \A c \in Slot, w \in Worker : calls[c].waiter = w =>
    /\ calls[c].phase = "write" =>
         \/ workers[w].at = "entering" /\ calls[c].patch.status = Keep
         \/ /\ workers[w].at = "arming"
            /\ calls[c].patch.stage = "rpa_checkout"
            /\ calls[c].patch.status = Keep
         \/ workers[w].at = "reporting" /\ calls[c].patch.status # Keep
    /\ calls[c].phase = "close" => workers[w].at = "reporting"

\* A run whose end is going to be written has no token and no driver.
EndsAreLast ==
  \A c \in Slot, r \in Run : Ends(c, r) =>
    /\ ~Queued(r)
    /\ \A d \in Slot : ~Requeues(d, r) /\ ~HandsOver(d, r)
    /\ \A w \in Worker : ~DrivesAt(w, r)

\* A worker that reports after its click is the last that had the run.
LastReport ==
  \A v, w \in Worker, r \in Run :
    workers[w].run = r /\ (workers[w].at = "settling" \/ workers[w].again) => ~DrivesAt(v, r)

RunningIsOwned == \A r \in Run : runs[r].status = "running" => runs[r].worker \in Worker

\* From the beat that marks the checkout on no other stage is going to be written.
OnlyCheckoutBeats(r) ==
  \A c \in Slot : calls[c].phase = "write" /\ calls[c].run = r /\ calls[c].patch.status = Keep
    => calls[c].patch.stage = "rpa_checkout"

\* The row of a driven run, unless it was lost in a silence: its worker's, and fresh while
\* the worker beats.  At checkout it is not lost: it is marked and not yet reapable.
Owns(w, r) ==
  /\ runs[r].status = "running" =>
       /\ runs[r].worker = w
       /\ workers[w].at \notin SilentPoints => runs[r].age = 0
  /\ workers[w].at \in CheckoutPoints => runs[r].status = "running" /\ OnlyCheckoutBeats(r)
  /\ workers[w].at \in QuietPoints =>
       runs[r].age < STALE_RUN_MINUTES /\ runs[r].stage = "rpa_checkout"

DriversOwn == \A w \in Worker, r \in Run : DrivesAt(w, r) => Owns(w, r)

\* The row of a run whose claim has not been answered yet.
ClaimsOwn ==
  \A c \in Slot, r \in Run : HandsOver(c, r) =>
    runs[r].status = "running" /\ runs[r].worker = calls[c].waiter /\ runs[r].age = 0

OwnInv ==
  /\ PatchesPlain
  /\ WaitersFit
  /\ EndsAreLast
  /\ LastReport
  /\ RunningIsOwned
  /\ DriversOwn
  /\ ClaimsOwn

-----------------------------------------------------------------------------
(* Steps that leave the rows alone and begin no request *)

\* A request that goes on as it was, or nothing that matters here is left of it.
LEMMA RequestGoesOn ==
  ASSUME FleetInv, NEW c \in Slot, RequestEndsOrStays(c)
  PROVE  \/ calls'[c] = calls[c]
         \/ calls'[c] = IdleCall
         \/ /\ calls'[c].phase = calls[c].phase
            /\ calls'[c].run = calls[c].run
            /\ calls'[c].patch = calls[c].patch
            /\ calls'[c].close = calls[c].close
            /\ calls'[c].waiter = NoWorker
<1>1. CASE calls'[c] = [calls[c] EXCEPT !.waiter = NoWorker]
  <2>1. calls[c] \in Calls
    BY Shapes
  <2> QED
    BY <1>1, <2>1 DEF Calls
<1> QED
  BY <1>1 DEF RequestEndsOrStays

\* What an idle slot holds means nothing.
LEMMA IdleMeansNothing ==
  /\ IdleCall.phase = "idle" /\ IdleCall.run = NoRun
  /\ IdleCall.waiter = NoWorker /\ IdleCall.patch = NoPatch
  /\ NoPatch.status = Keep /\ NoPatch.worker = Keep
  /\ NoPatch.failure = Keep /\ NoPatch.stage = Keep
  /\ Keep \notin {"running", "queued", "failed", "canceled", "LK_RUN_REAPED", "rpa_checkout"}
  /\ NoRun \notin Run /\ NoWorker \notin Worker
<1>1. Keep \notin {"running", "queued", "failed", "canceled", "LK_RUN_REAPED", "rpa_checkout"}
  BY KeepAssumption
  DEF ALLOWED_STATUSES, ACTIVE_STATUSES, TERMINAL_STATUSES, FailureTypes, Stages
<1> QED
  BY <1>1, RunAssumption DEF IdleCall, NoPatch

\* A worker waits for nothing any more, has not taken a run, and if it still drives its
\* run it does not begin to beat, nor is it at checkout unless it was.
DriverGoesOn(w) ==
  /\ \A c \in Slot : calls'[c].waiter # w
  /\ workers'[w].run \in {workers[w].run, NoRun}
  /\ workers'[w].at \in DrivingPoints =>
       /\ workers[w].at \in DrivingPoints
       /\ workers[w].at \in SilentPoints => workers'[w].at \in SilentPoints
       /\ workers'[w].at \in QuietPoints => workers[w].at \in QuietPoints
       /\ workers'[w].at \in CheckoutPoints => workers[w].at \in CheckoutPoints
  /\ workers'[w].at = "settling" \/ workers'[w].again =>
       workers[w].at = "settling" \/ workers[w].again

\* Then whoever owned a run still does.
LEMMA OwnersStay ==
  ASSUME FleetInv, OwnInv, runs' = runs,
         \A c \in Slot : RequestEndsOrStays(c),
         \A w \in Worker : workers'[w] = workers[w] \/ DriverGoesOn(w)
  PROVE  OwnInv'
<1>1. \A c \in Slot :
        \/ calls'[c] = calls[c]
        \/ calls'[c] = IdleCall
        \/ /\ calls'[c].phase = calls[c].phase
           /\ calls'[c].run = calls[c].run
           /\ calls'[c].patch = calls[c].patch
           /\ calls'[c].close = calls[c].close
           /\ calls'[c].waiter = NoWorker
  BY RequestGoesOn
<1>2. \A c \in Slot, r \in Run :
        /\ Ends(c, r)' => Ends(c, r)
        /\ Requeues(c, r)' => Requeues(c, r)
        /\ HandsOver(c, r)' => HandsOver(c, r) /\ calls'[c] = calls[c]
  BY <1>1, IdleMeansNothing DEF Ends, Requeues, HandsOver
<1>3. \A w \in Worker, r \in Run : workers'[w].run = r => workers[w].run = r
  BY IdleMeansNothing DEF DriverGoesOn
<1>4. \A w \in Worker, r \in Run : DrivesAt(w, r)' => DrivesAt(w, r)
  BY <1>3 DEF DrivesAt, DriverGoesOn
<1>5. PatchesPlain'
  BY <1>1, IdleMeansNothing DEF OwnInv, PatchesPlain
<1>6. WaitersFit'
  <2> SUFFICES ASSUME NEW c \in Slot, NEW w \in Worker, calls'[c].waiter = w
               PROVE  /\ calls'[c].phase = "write" =>
                           \/ workers'[w].at = "entering" /\ calls'[c].patch.status = Keep
                           \/ /\ workers'[w].at = "arming"
                              /\ calls'[c].patch.stage = "rpa_checkout"
                              /\ calls'[c].patch.status = Keep
                           \/ workers'[w].at = "reporting" /\ calls'[c].patch.status # Keep
                      /\ calls'[c].phase = "close" => workers'[w].at = "reporting"
    BY DEF WaitersFit
  <2>1. calls'[c] = calls[c] /\ workers'[w] = workers[w]
    BY <1>1, IdleMeansNothing DEF DriverGoesOn
  <2> QED
    BY <2>1 DEF OwnInv, WaitersFit
<1>7. EndsAreLast'
  BY <1>2, <1>4 DEF OwnInv, EndsAreLast, Queued
<1>8. LastReport'
  <2> SUFFICES ASSUME NEW v \in Worker, NEW w \in Worker, NEW r \in Run,
                      workers'[w].run = r, workers'[w].at = "settling" \/ workers'[w].again
               PROVE  ~DrivesAt(v, r)'
    BY DEF LastReport
  <2>1. workers[w].run = r /\ (workers[w].at = "settling" \/ workers[w].again)
    BY <1>3 DEF DriverGoesOn
  <2> QED
    BY <2>1, <1>4 DEF OwnInv, LastReport
<1>9. RunningIsOwned'
  BY DEF OwnInv, RunningIsOwned
<1>10. \A r \in Run : OnlyCheckoutBeats(r) => OnlyCheckoutBeats(r)'
  BY <1>1, IdleMeansNothing DEF OnlyCheckoutBeats
<1>11. DriversOwn'
  <2> SUFFICES ASSUME NEW w \in Worker, NEW r \in Run, DrivesAt(w, r)' PROVE Owns(w, r)'
    BY DEF DriversOwn
  <2>1. DrivesAt(w, r) /\ Owns(w, r)
    BY <1>4 DEF OwnInv, DriversOwn
  <2>2. /\ workers[w].at \in SilentPoints => workers'[w].at \in SilentPoints
        /\ workers'[w].at \in QuietPoints => workers[w].at \in QuietPoints
        /\ workers'[w].at \in CheckoutPoints => workers[w].at \in CheckoutPoints
    BY DEF DrivesAt, DriverGoesOn
  <2> QED
    BY <2>1, <2>2, <1>10 DEF Owns
<1>12. ClaimsOwn'
  BY <1>2 DEF OwnInv, ClaimsOwn
<1> QED
  BY <1>5, <1>6, <1>7, <1>8, <1>9, <1>11, <1>12 DEF OwnInv

\* So do those beside a worker that stops, or that moves without calling the API.
LEMMA OwnersStayAlone ==
  ASSUME FleetInv, OwnInv, NEW w \in Worker, NEW s,
         UNCHANGED <<runs, attempts, calls>>,
         workers' = [workers EXCEPT ![w] = s],
         DriverGoesOn(w)
  PROVE  OwnInv'
<1>1. \A v \in Worker : workers'[v] = workers[v] \/ DriverGoesOn(v)
  BY DEF FleetInv, FleetTypeOK
<1>2. \A c \in Slot : RequestEndsOrStays(c)
  BY DEF RequestEndsOrStays
<1> QED
  BY <1>1, <1>2, OwnersStay

\* A worker that stops has nothing to own.
LEMMA IdleGoesOn ==
  ASSUME NEW w \in Worker, workers'[w] = IdleWorker, \A c \in Slot : calls'[c].waiter # w
  PROVE  DriverGoesOn(w)
  BY DEF DriverGoesOn, IdleWorker, DrivingPoints

\* Neither has a worker whose awaited call failed: it did not drive while it waited.
LEMMA RefusedGoesOn ==
  ASSUME FleetInv, NEW w \in Worker, workers'[w] = Refused(workers[w]),
         \A c \in Slot : calls'[c].waiter # w
  PROVE  DriverGoesOn(w)
<1>1. CASE workers[w].at = "reporting" /\ workers[w].again
  <2>1. workers'[w] = [workers[w] EXCEPT !.at = "settling", !.again = FALSE]
    BY <1>1 DEF Refused
  <2>2. workers'[w].at = "settling" /\ workers'[w].run = workers[w].run
    BY <2>1, Shapes DEF WorkerStates
  <2> QED
    BY <1>1, <2>2 DEF DriverGoesOn, DrivingPoints
<1>2. CASE ~(workers[w].at = "reporting" /\ workers[w].again)
  BY <1>2, IdleGoesOn DEF Refused
<1> QED
  BY <1>1, <1>2

\* A worker that moves from one driving point to another and does not begin to beat.
LEMMA PointGoesOn ==
  ASSUME FleetInv, NEW w \in Worker, NEW s,
         workers'[w] = s, s.run = workers[w].run, s.again = workers[w].again,
         UNCHANGED calls,
         workers[w].at \notin {"claiming", "entering", "arming", "reporting"},
         \/ workers[w].at = "working" /\ s.at = "adding"
         \/ workers[w].at \in {"working", "validating"} /\ s.at = "cleared"
         \/ workers[w].at = "armed" /\ s.at \in {"expired", "clicked"}
  PROVE  DriverGoesOn(w)
<1>1. \A c \in Slot : calls'[c].waiter # w
  BY NobodyWaits
<1> QED
  BY <1>1 DEF DriverGoesOn, DrivingPoints, SilentPoints, QuietPoints, CheckoutPoints

\* Ownership when the worker leaves, falls silent in Stage 3, passes the tripwire, clicks,
\* or times out.
LEMMA WorkerAloneKeepsOwners ==
  ASSUME FleetInv, OwnInv, NEW w \in Worker,
         \/ BeatRefused(w) \/ FinalizeRefused(w) \/ StartAdding(w)
         \/ PassTripwire(w) \/ Dispatch(w) \/ StageTimesOut(w)
  PROVE  OwnInv'
<1>1. CASE BeatRefused(w) \/ FinalizeRefused(w)
  <2>1. workers[w].at \notin {"claiming", "entering", "arming", "reporting"}
    BY <1>1, Shapes DEF BeatRefused, FinalizeRefused, ReportsFrom, StagePoints, Points
  <2>2. UNCHANGED <<runs, attempts, calls>> /\ workers' = [workers EXCEPT ![w] = IdleWorker]
    BY <1>1 DEF BeatRefused, FinalizeRefused, Leaves
  <2>3. workers'[w] = IdleWorker /\ \A c \in Slot : calls'[c].waiter # w
    BY <2>1, <2>2, NobodyWaits DEF FleetInv, FleetTypeOK
  <2> QED
    BY <2>2, <2>3, IdleGoesOn, OwnersStayAlone
<1>2. CASE PassTripwire(w)
  <2> DEFINE s == [workers[w] EXCEPT !.at = "cleared"]
  <2>1. /\ UNCHANGED <<runs, attempts, calls>>
        /\ workers[w].at \in {"working", "validating"}
        /\ workers' = [workers EXCEPT ![w] = s]
        /\ workers'[w] = s
    BY <1>2 DEF PassTripwire, Moves, FleetInv, FleetTypeOK
  <2>2. s.at = "cleared" /\ s.run = workers[w].run /\ s.again = workers[w].again
    BY PointChanged, PointsMovedTo
  <2> HIDE DEF s
  <2> QED
    BY <2>1, <2>2, PointGoesOn, OwnersStayAlone
<1>3. CASE Dispatch(w)
  <2> DEFINE s == [workers[w] EXCEPT !.at = "clicked"]
  <2>1. /\ UNCHANGED <<runs, attempts, calls>>
        /\ workers[w].at = "armed"
        /\ workers' = [workers EXCEPT ![w] = s]
        /\ workers'[w] = s
    BY <1>3 DEF Dispatch, Moves, FleetInv, FleetTypeOK
  <2>2. s.at = "clicked" /\ s.run = workers[w].run /\ s.again = workers[w].again
    BY PointChanged, PointsMovedTo
  <2> HIDE DEF s
  <2> QED
    BY <2>1, <2>2, PointGoesOn, OwnersStayAlone
<1>4. CASE StageTimesOut(w)
  <2> DEFINE s == [workers[w] EXCEPT !.at = "expired", !.loose = TRUE]
  <2>1. /\ UNCHANGED <<runs, attempts, calls>>
        /\ workers[w].at = "armed"
        /\ workers' = [workers EXCEPT ![w] = s]
        /\ workers'[w] = s
    BY <1>4 DEF StageTimesOut, FleetInv, FleetTypeOK
  <2>2. s.at = "expired" /\ s.run = workers[w].run /\ s.again = workers[w].again
    BY Shapes DEF WorkerStates
  <2> HIDE DEF s
  <2> QED
    BY <2>1, <2>2, PointGoesOn, OwnersStayAlone
<1>5. CASE StartAdding(w)
  <2> DEFINE s == [workers[w] EXCEPT !.at = "adding"]
  <2>1. /\ UNCHANGED <<runs, attempts, calls>>
        /\ workers[w].at = "working"
        /\ workers' = [workers EXCEPT ![w] = s]
        /\ workers'[w] = s
    BY <1>5 DEF StartAdding, Moves, FleetInv, FleetTypeOK
  <2>2. s.at = "adding" /\ s.run = workers[w].run /\ s.again = workers[w].again
    BY PointChanged, PointsMovedTo
  <2> HIDE DEF s
  <2> QED
    BY <2>1, <2>2, PointGoesOn, OwnersStayAlone
<1> QED
  BY <1>1, <1>2, <1>3, <1>4, <1>5

\* A late click comes from a coroutine, not from where the worker is.
LEMMA LateClickKeepsOwners ==
  ASSUME FleetInv, OwnInv, NEW w \in Worker, LateClick(w)
  PROVE  OwnInv'
<1> DEFINE s == [workers[w] EXCEPT !.loose = FALSE]
<1>1. /\ runs' = runs /\ calls' = calls
      /\ workers' = [workers EXCEPT ![w] = s]
      /\ workers'[w] = s
      /\ \A v \in Worker : v # w => workers'[v] = workers[v]
  BY DEF LateClick, FleetInv, FleetTypeOK
<1>2. s.at = workers[w].at /\ s.run = workers[w].run
  BY Shapes DEF WorkerStates
<1>3. s.again = workers[w].again
  BY Shapes DEF WorkerStates
<1> HIDE DEF s
<1>4. \A v \in Worker :
        /\ workers'[v].at = workers[v].at
        /\ workers'[v].run = workers[v].run
        /\ workers'[v].again = workers[v].again
  BY <1>1, <1>2, <1>3
<1>5. PatchesPlain' /\ WaitersFit' /\ EndsAreLast' /\ LastReport'
  BY <1>1, <1>4
  DEF OwnInv, PatchesPlain, WaitersFit, EndsAreLast, LastReport, DrivesAt, Queued, Ends,
      Requeues, HandsOver
<1>6. RunningIsOwned' /\ DriversOwn' /\ ClaimsOwn'
  BY <1>1, <1>4
  DEF OwnInv, RunningIsOwned, DriversOwn, ClaimsOwn, DrivesAt, Owns, OnlyCheckoutBeats,
      HandsOver
<1> QED
  BY <1>5, <1>6 DEF OwnInv

\* Ownership when a handler fails, or loses the worker that waited for it.
LEMMA FailureKeepsOwners ==
  ASSUME FleetInv, OwnInv, NEW c \in Slot, HandlerFails(c) \/ WorkerGivesUp(c)
  PROVE  OwnInv'
<1>1. /\ runs' = runs
      /\ \A d \in Slot : d # c => calls'[d] = calls[d]
      /\ RequestEndsOrStays(c)
      /\ calls'[c].waiter = NoWorker
  <2>1. CASE HandlerFails(c)
    BY <2>1, IdleMeansNothing
    DEF HandlerFails, FailCall, RequestEndsOrStays, FleetInv, FleetTypeOK, TypeOK
  <2>2. CASE WorkerGivesUp(c)
    <3>1. /\ runs' = runs
          /\ \A d \in Slot : d # c => calls'[d] = calls[d]
          /\ calls'[c] = [calls[c] EXCEPT !.waiter = NoWorker]
      BY <2>2 DEF WorkerGivesUp, FleetInv, FleetTypeOK, TypeOK
    <3>2. [calls[c] EXCEPT !.waiter = NoWorker].waiter = NoWorker
      BY Shapes, DropTyped
    <3> QED
      BY <3>1, <3>2 DEF RequestEndsOrStays
  <2> QED
    BY <2>1, <2>2
<1>2. \A d \in Slot : RequestEndsOrStays(d)
  BY <1>1 DEF RequestEndsOrStays
<1>3. CASE calls[c].waiter \in Worker
  <2>1. PICK w \in Worker : calls[c].waiter = w
    BY <1>3
  <2>2. /\ workers'[w] = Refused(workers[w])
        /\ \A v \in Worker : v # w => workers'[v] = workers[v]
    BY <2>1 DEF HandlerFails, WorkerGivesUp, FleetInv, FleetTypeOK
  <2>3. \A d \in Slot : calls'[d].waiter # w
    BY <1>1, <2>1, NobodyWaitsForFreed
  <2> QED
    BY <1>1, <1>2, <2>2, <2>3, RefusedGoesOn, OwnersStay
<1>4. CASE calls[c].waiter \notin Worker
  <2>1. workers' = workers
    BY <1>4 DEF HandlerFails, WorkerGivesUp
  <2> QED
    BY <1>1, <1>2, <2>1, OwnersStay
<1> QED
  BY <1>3, <1>4

\* Ownership when a worker dies: the run stays its own until it is reaped.
LEMMA CrashKeepsOwners ==
  ASSUME FleetInv, OwnInv, NEW w \in Worker, Crash(w)
  PROVE  OwnInv'
<1>1. /\ runs' = runs
      /\ workers'[w] = IdleWorker
      /\ \A v \in Worker : v # w => workers'[v] = workers[v]
      /\ \A c \in Slot : calls'[c] =
           IF calls[c].waiter = w THEN [calls[c] EXCEPT !.waiter = NoWorker] ELSE calls[c]
  BY DEF Crash, Leaves, FleetInv, FleetTypeOK
<1>2. \A c \in Slot : RequestEndsOrStays(c)
  BY <1>1 DEF RequestEndsOrStays
<1>3. ASSUME NEW c \in Slot PROVE calls'[c].waiter # w
  <2> DEFINE t == [calls[c] EXCEPT !.waiter = NoWorker]
  <2>1. t.waiter = NoWorker
    BY Shapes, DropTyped
  <2>2. calls'[c] = IF calls[c].waiter = w THEN t ELSE calls[c]
    BY <1>1
  <2> HIDE DEF t
  <2> QED
    BY <2>1, <2>2, IdleMeansNothing
<1> QED
  BY <1>1, <1>2, <1>3, IdleGoesOn, OwnersStay

-----------------------------------------------------------------------------
(* Steps of a single row *)

\* The reaper, Start over, the clock and a new run: nobody at checkout loses its run.
LEMMA RowKeepsOwners ==
  ASSUME FleetInv, OwnInv, UNCHANGED <<calls, workers>>,
         NEW r \in Run,
         \A q \in Run : q # r => runs'[q] = runs[q],
         runs'[r].status = "queued" => ~Created(r),
         runs'[r].status = "running" =>
           runs[r].status = "running" /\ runs'[r].worker = runs[r].worker,
         \A w \in Worker : DrivesAt(w, r) => Owns(w, r)',
         \A c \in Slot : HandsOver(c, r) =>
           /\ runs'[r].status = "running"
           /\ runs'[r].worker = runs[r].worker
           /\ runs'[r].age = 0
  PROVE  OwnInv'
<1>1. PatchesPlain' /\ WaitersFit' /\ LastReport'
  BY DEF OwnInv, PatchesPlain, WaitersFit, LastReport, DrivesAt
<1>2. EndsAreLast'
  <2> SUFFICES ASSUME NEW c \in Slot, NEW q \in Run, Ends(c, q)'
               PROVE  /\ ~Queued(q)'
                      /\ \A d \in Slot : ~Requeues(d, q)' /\ ~HandsOver(d, q)'
                      /\ \A w \in Worker : ~DrivesAt(w, q)'
    BY DEF EndsAreLast
  <2>1. Ends(c, q) /\ calls[c].run = q
    BY DEF Ends
  <2>2. Created(q) /\ ~Queued(q)
    BY <2>1, OnlyCreatedRuns DEF OwnInv, EndsAreLast
  <2>3. ~Queued(q)'
    BY <2>2 DEF Queued
  <2> QED
    BY <2>1, <2>3 DEF OwnInv, EndsAreLast, Requeues, HandsOver, DrivesAt
<1>3. RunningIsOwned'
  BY DEF OwnInv, RunningIsOwned
<1>4. DriversOwn'
  <2> SUFFICES ASSUME NEW w \in Worker, NEW q \in Run, DrivesAt(w, q)' PROVE Owns(w, q)'
    BY DEF DriversOwn
  <2>1. DrivesAt(w, q)
    BY DEF DrivesAt
  <2>2. CASE q = r
    BY <2>1, <2>2
  <2>3. CASE q # r
    BY <2>1, <2>3 DEF OwnInv, DriversOwn, Owns, OnlyCheckoutBeats
  <2> QED
    BY <2>2, <2>3
<1>5. ClaimsOwn'
  BY DEF OwnInv, ClaimsOwn, HandsOver
<1> QED
  BY <1>1, <1>2, <1>3, <1>4, <1>5 DEF OwnInv

\* Neither the reaper nor Start over takes a run at checkout, or one whose claim is not
\* answered yet: the row of a worker that beats is too fresh, that of a silent one at
\* checkout is marked and not yet stale there.  (Whoever is silent in Stage 3 may lose it.)
LEMMA CheckoutIsNotReaped ==
  ASSUME FleetInv, OwnInv, NEW r \in Run, Reap(r) \/ Recover(r)
  PROVE  /\ \A w \in Worker : workers[w].run = r => workers[w].at \notin CheckoutPoints
         /\ \A c \in Slot : ~HandsOver(c, r)
<1>1. runs[r].age \in Nat
  BY Shapes DEF Rows, Ages, STALE_RUN_MINUTES
<1>2. ASSUME NEW w \in Worker, workers[w].run = r, workers[w].at \in CheckoutPoints
      PROVE  FALSE
  <2>1. Owns(w, r)
    BY <1>2 DEF OwnInv, DriversOwn, DrivesAt, DrivingPoints, CheckoutPoints
  <2>2. \/ runs[r].age = 0
        \/ runs[r].age < STALE_RUN_MINUTES /\ runs[r].stage = "rpa_checkout"
    BY <1>2, <2>1 DEF Owns, CheckoutPoints, SilentPoints, QuietPoints
  <2> QED
    BY <1>1, <2>2
    DEF Reap, Recover, ShouldRecover, ReapThreshold, STALE_RUN_MINUTES,
        STALE_PRESUBMIT_MINUTES, RECOVER_STALE_SECONDS
<1>3. ASSUME NEW c \in Slot, HandsOver(c, r) PROVE FALSE
  <2>1. runs[r].age = 0
    BY <1>3 DEF OwnInv, ClaimsOwn
  <2> QED
    BY <2>1
    DEF Reap, Recover, ShouldRecover, ReapThreshold, STALE_RUN_MINUTES,
        STALE_PRESUBMIT_MINUTES, RECOVER_STALE_SECONDS
<1> QED
  BY <1>2, <1>3

\* What the reaper, Start over and the clock write.
LEMMA ClockWrites ==
  ASSUME FleetInv, NEW r \in Run, Reap(r) \/ Recover(r) \/ HeartbeatAges(r)
  PROVE  /\ \A q \in Run : q # r => runs'[q] = runs[q]
         /\ calls' = calls
         /\ runs[r].status = "running"
         /\ runs'[r].stage = runs[r].stage
         /\ Reap(r) => runs'[r].status = "failed" /\ runs'[r].failure = "LK_RUN_REAPED"
         /\ Recover(r) => runs'[r].status = "canceled"
         /\ HeartbeatAges(r) =>
              /\ runs'[r].status = "running"
              /\ runs'[r].worker = runs[r].worker
              /\ runs'[r].age = runs[r].age + 1
<1> DEFINE reaped == [runs[r] EXCEPT !.status = "failed", !.failure = "LK_RUN_REAPED",
                                     !.clicked = FALSE, !.age = 0]
           recovered == [runs[r] EXCEPT !.status = "canceled", !.failure = "final",
                                        !.clicked = FALSE, !.age = 0]
           aged == [runs[r] EXCEPT !.age = runs[r].age + 1]
<1>1. /\ \A q \in Run : q # r => runs'[q] = runs[q]
      /\ calls' = calls
      /\ runs[r].status = "running"
      /\ Reap(r) => runs'[r] = reaped
      /\ Recover(r) => runs'[r] = recovered
      /\ HeartbeatAges(r) => runs'[r] = aged
  BY DEF Reap, Recover, HeartbeatAges, FleetInv, FleetTypeOK, TypeOK
<1>2. runs[r] \in Rows
  BY Shapes
<1>3. /\ reaped.stage = runs[r].stage /\ reaped.status = "failed"
      /\ reaped.failure = "LK_RUN_REAPED"
  BY <1>2 DEF Rows
<1>4. recovered.stage = runs[r].stage /\ recovered.status = "canceled"
  BY <1>2 DEF Rows
<1>5. /\ aged.stage = runs[r].stage /\ aged.worker = runs[r].worker
      /\ aged.status = runs[r].status /\ aged.age = runs[r].age + 1
  BY <1>2 DEF Rows
<1> HIDE DEF reaped, recovered, aged
<1> QED
  BY <1>1, <1>3, <1>4, <1>5

\* Ownership when a run is reaped, started over or only grows older.
LEMMA ClockKeepsOwners ==
  ASSUME FleetInv, OwnInv, ~WorkersStall, UNCHANGED workers, NEW r \in Run,
         Reap(r) \/ Recover(r) \/ (HeartbeatAges(r) /\ SilenceAllowed(r))
  PROVE  OwnInv'
<1>1. /\ \A q \in Run : q # r => runs'[q] = runs[q]
      /\ UNCHANGED <<calls, workers>>
      /\ runs[r].status = "running"
      /\ runs'[r].stage = runs[r].stage
      /\ Reap(r) => runs'[r].status = "failed"
      /\ Recover(r) => runs'[r].status = "canceled"
      /\ HeartbeatAges(r) =>
           /\ runs'[r].status = "running"
           /\ runs'[r].worker = runs[r].worker
           /\ runs'[r].age = runs[r].age + 1
  BY ClockWrites
<1>2. CASE Reap(r) \/ Recover(r)
  <2>1. /\ \A w \in Worker : workers[w].run = r => workers[w].at \notin CheckoutPoints
        /\ \A c \in Slot : ~HandsOver(c, r)
    BY <1>2, CheckoutIsNotReaped
  <2>2. runs'[r].status \in {"failed", "canceled"}
    BY <1>1, <1>2
  <2>3. \A w \in Worker : DrivesAt(w, r) => Owns(w, r)'
    BY <1>1, <2>1, <2>2 DEF DrivesAt, Owns, DrivingPoints, QuietPoints, CheckoutPoints
  <2> QED
    BY <1>1, <2>1, <2>2, <2>3, RowKeepsOwners
<1>3. CASE HeartbeatAges(r) /\ SilenceAllowed(r)
  <2>1. runs[r].age \in Nat
    BY Shapes DEF Rows, Ages, STALE_RUN_MINUTES
  <2>2. ASSUME NEW w \in Worker, DrivesAt(w, r) PROVE Owns(w, r)'
    <3>1. Owns(w, r)
      BY <2>2 DEF OwnInv, DriversOwn
    <3>2. workers[w].at \in SilentPoints /\ runs[r].age < STALE_PRESUBMIT_MINUTES
      BY <1>3, <2>2 DEF SilenceAllowed, DrivesAt
    <3>3. OnlyCheckoutBeats(r) => OnlyCheckoutBeats(r)'
      BY <1>1 DEF OnlyCheckoutBeats
    <3>4. runs'[r].age < STALE_RUN_MINUTES
      BY <1>1, <1>3, <2>1, <3>2 DEF STALE_RUN_MINUTES, STALE_PRESUBMIT_MINUTES
    <3> QED
      BY <1>1, <1>3, <3>1, <3>2, <3>3, <3>4 DEF Owns
  <2>3. \A c \in Slot : ~HandsOver(c, r)
    BY <1>3, RunAssumption DEF SilenceAllowed, HandsOver
  <2> QED
    BY <1>1, <1>3, <2>2, <2>3, RowKeepsOwners
<1> QED
  BY <1>2, <1>3

\* Nobody has a run before it exists.
LEMMA CreateKeepsOwners ==
  ASSUME FleetInv, OwnInv, NEW r \in Run, UserCreatesRun(r)
  PROVE  OwnInv'
<1>1. /\ UNCHANGED <<calls, workers>>
      /\ ~Created(r)
      /\ \A q \in Run : q # r => runs'[q] = runs[q]
      /\ runs' = [runs EXCEPT ![r] = [runs[r] EXCEPT !.status = "queued"]]
  BY DEF UserCreatesRun, WithoutWorkers, CreateRun, FleetInv, FleetTypeOK, TypeOK
<1>2. runs'[r].status = "queued"
  BY <1>1, Shapes DEF Rows, FleetInv, FleetTypeOK, TypeOK
<1>3. /\ \A w \in Worker : ~DrivesAt(w, r)
      /\ \A c \in Slot : ~HandsOver(c, r)
  BY <1>1 DEF FleetInv, NothingBeforeCreation, DrivesAt, HandsOver
<1> QED
  BY <1>1, <1>2, <1>3, RowKeepsOwners

-----------------------------------------------------------------------------
(* Claims *)

\* A claim writes the claiming worker into a row nobody has.
LEMMA ClaimKeepsOwners ==
  ASSUME FleetInv, OwnInv, NEW w \in Worker, NEW c \in Slot, NEW r \in Run,
         StartClaim(w, c, r)
  PROVE  OwnInv'
<1>1. /\ workers[w].at = "idle"
      /\ calls[c].phase = "idle"
      /\ Queued(r)
  BY DEF StartClaim, Claim, Queued
<1>2. /\ \A q \in Run : q # r => runs'[q] = runs[q]
      /\ runs'[r].status = "running"
      /\ runs'[r].worker = w
      /\ runs'[r].age = 0
  <2> DEFINE row == [runs[r] EXCEPT !.status = "running", !.stage = "other",
                                    !.worker = w, !.age = 0]
  <2>1. runs' = [runs EXCEPT ![r] = row]
    BY DEF StartClaim, Claim, FleetInv, FleetTypeOK, TypeOK
  <2>2. row.status = "running" /\ row.worker = w /\ row.age = 0
    BY Shapes DEF Rows
  <2> HIDE DEF row
  <2> QED
    BY <2>1, <2>2 DEF FleetInv, FleetTypeOK, TypeOK
<1>3. /\ \A d \in Slot : d # c => calls'[d] = calls[d]
      /\ calls'[c].phase = "insert"
      /\ calls'[c].run = r
      /\ calls'[c].patch = NoPatch
      /\ calls'[c].waiter = w
  BY DEF StartClaim, Claim, FleetInv, FleetTypeOK, TypeOK
<1>4. /\ \A v \in Worker : v # w => workers'[v] = workers[v]
      /\ workers'[w].at = "claiming"
      /\ workers'[w].run = workers[w].run
      /\ workers'[w].again = workers[w].again
  BY PointChanged, PointsMovedTo DEF StartClaim, Moves, FleetInv, FleetTypeOK
<1>5. /\ \A d \in Slot : ~Requeues(d, r) /\ ~HandsOver(d, r) /\ ~Ends(d, r)
      /\ \A v \in Worker : ~InHand(v, r) /\ ~DrivesAt(v, r)
  BY <1>1 DEF FleetInv, OneToken, OwnInv, EndsAreLast, InHand, DrivesAt
<1>6. \A d \in Slot : calls[d].waiter # w
  BY <1>1, NobodyWaits
<1>7. /\ \A v \in Worker, q \in Run :
           DrivesAt(v, q)' => DrivesAt(v, q) /\ workers'[v] = workers[v]
      /\ \A d \in Slot, q \in Run :
           /\ Ends(d, q)' => Ends(d, q)
           /\ Requeues(d, q)' => Requeues(d, q)
           /\ HandsOver(d, q)' => (d = c /\ q = r) \/ (HandsOver(d, q) /\ calls'[d] = calls[d])
           /\ Queued(q)' => Queued(q)
  BY <1>2, <1>3, <1>4, IdleMeansNothing
  DEF DrivesAt, DrivingPoints, Ends, Requeues, HandsOver, Queued
<1>8. PatchesPlain'
  BY <1>3, IdleMeansNothing DEF OwnInv, PatchesPlain
<1>9. WaitersFit'
  BY <1>3, <1>4, <1>6 DEF OwnInv, WaitersFit
<1>10. EndsAreLast'
  BY <1>5, <1>7 DEF OwnInv, EndsAreLast
<1>11. LastReport'
  BY <1>1, <1>4, <1>7 DEF OwnInv, LastReport
<1>12. RunningIsOwned'
  BY <1>2 DEF OwnInv, RunningIsOwned
<1>13. DriversOwn'
  <2> SUFFICES ASSUME NEW v \in Worker, NEW q \in Run, DrivesAt(v, q)' PROVE Owns(v, q)'
    BY DEF DriversOwn
  <2>1. DrivesAt(v, q) /\ q # r /\ workers'[v] = workers[v] /\ runs'[q] = runs[q]
    BY <1>2, <1>5, <1>7
  <2>2. OnlyCheckoutBeats(q) => OnlyCheckoutBeats(q)'
    BY <1>3 DEF OnlyCheckoutBeats
  <2> QED
    BY <2>1, <2>2 DEF OwnInv, DriversOwn, Owns
<1>14. ClaimsOwn'
  BY <1>2, <1>3, <1>5, <1>7 DEF OwnInv, ClaimsOwn
<1> QED
  BY <1>8, <1>9, <1>10, <1>11, <1>12, <1>13, <1>14 DEF OwnInv

\* The claim's answer finds the row as the claim left it.
LEMMA HandOverKeepsOwners ==
  ASSUME FleetInv, OwnInv, NEW c \in Slot, InsertAttempt(c),
         NEW w \in Worker, calls[c].waiter = w,
         workers' = [workers EXCEPT ![w] = Answered(workers[w], calls[c].run)]
  PROVE  OwnInv'
<1>1. PICK r \in Run : calls[c].run = r
  BY Shapes DEF InsertAttempt
<1>2. /\ HandsOver(c, r)
      /\ workers[w].at = "claiming"
      /\ runs' = runs
      /\ \A d \in Slot : d # c => calls'[d] = calls[d]
      /\ calls'[c] = IdleCall
  BY <1>1 DEF HandsOver, InsertAttempt, FleetInv, FleetTypeOK, TypeOK, AnswersFit
<1> DEFINE s == [workers[w] EXCEPT !.at = "working", !.run = r]
<1>3. /\ \A v \in Worker : v # w => workers'[v] = workers[v]
      /\ workers'[w] = s
  BY <1>1, <1>2 DEF Answered, FleetInv, FleetTypeOK
<1>4. s.at = "working" /\ s.run = r /\ s.again = FALSE
  <2>1. workers[w] \in WorkerStates /\ workers[w].again = FALSE
    BY <1>2, Shapes DEF FleetInv, PointsTell
  <2>2. s.at = "working" /\ s.run = r
    BY <2>1 DEF WorkerStates
  <2>3. s.again = workers[w].again
    BY <2>1 DEF WorkerStates
  <2> HIDE DEF s
  <2> QED
    BY <2>1, <2>2, <2>3
<1> HIDE DEF s
<1>5. /\ dispatched[r] = 0
      /\ \A d \in Slot : ~Ends(d, r) /\ ~Requeues(d, r)
      /\ \A v \in Worker : ~InHand(v, r)
  BY <1>2 DEF FleetInv, OneToken, TokenGoneAfterClick, OwnInv, EndsAreLast
<1>6. \A d \in Slot : calls'[d].waiter # w
  BY <1>2, IdleMeansNothing DEF FleetInv, AnswersFit
<1>7. /\ \A v \in Worker, q \in Run :
           DrivesAt(v, q)' => (v = w /\ q = r) \/ (DrivesAt(v, q) /\ workers'[v] = workers[v])
      /\ \A d \in Slot, q \in Run :
           /\ Ends(d, q)' => Ends(d, q)
           /\ Requeues(d, q)' => Requeues(d, q)
           /\ HandsOver(d, q)' => HandsOver(d, q) /\ calls'[d] = calls[d]
  BY <1>2, <1>3, <1>4, IdleMeansNothing DEF DrivesAt, Ends, Requeues, HandsOver
<1>8. PatchesPlain'
  BY <1>2, IdleMeansNothing DEF OwnInv, PatchesPlain
<1>9. WaitersFit'
  BY <1>2, <1>3, <1>6, IdleMeansNothing DEF OwnInv, WaitersFit
<1>10. EndsAreLast'
  BY <1>2, <1>5, <1>7 DEF OwnInv, EndsAreLast, Queued
<1>11. LastReport'
  <2> SUFFICES ASSUME NEW v \in Worker, NEW u \in Worker, NEW q \in Run,
                      workers'[u].run = q, workers'[u].at = "settling" \/ workers'[u].again
               PROVE  ~DrivesAt(v, q)'
    BY DEF LastReport
  <2>1. workers'[u] = workers[u]
    BY <1>3, <1>4
  <2>2. dispatched[q] > 0
    BY <2>1 DEF FleetInv, PointsTell
  <2>3. q # r
    BY <1>5, <2>2
  <2> QED
    BY <1>7, <2>1, <2>3 DEF OwnInv, LastReport
<1>12. RunningIsOwned'
  BY <1>2 DEF OwnInv, RunningIsOwned
<1>13. DriversOwn'
  <2> SUFFICES ASSUME NEW v \in Worker, NEW q \in Run, DrivesAt(v, q)' PROVE Owns(v, q)'
    BY DEF DriversOwn
  <2>1. CASE v = w /\ q = r
    BY <1>2, <1>3, <1>4, <2>1
    DEF OwnInv, ClaimsOwn, Owns, SilentPoints, QuietPoints, CheckoutPoints
  <2>2. CASE DrivesAt(v, q) /\ workers'[v] = workers[v]
    <3>1. OnlyCheckoutBeats(q) => OnlyCheckoutBeats(q)'
      BY <1>2, IdleMeansNothing DEF OnlyCheckoutBeats
    <3> QED
      BY <1>2, <2>2, <3>1 DEF OwnInv, DriversOwn, Owns
  <2> QED
    BY <1>7, <2>1, <2>2
<1>14. ClaimsOwn'
  BY <1>2, <1>7 DEF OwnInv, ClaimsOwn
<1> QED
  BY <1>8, <1>9, <1>10, <1>11, <1>12, <1>13, <1>14 DEF OwnInv

-----------------------------------------------------------------------------
(* Writes *)

\* What the late UPDATE of a handler does to the row and to its slot.
LEMMA WriteFacts ==
  ASSUME FleetInv, NEW c \in Slot, Write(c)
  PROVE  LET r == calls[c].run
             p == calls[c].patch
         IN /\ r \in Run
            /\ calls[c].phase = "write"
            /\ \A q \in Run : q # r => runs'[q] = runs[q]
            /\ runs'[r].status = OrKeep(p.status, runs[r].status)
            /\ runs'[r].stage = OrKeep(p.stage, runs[r].stage)
            /\ runs'[r].worker = OrKeep(p.worker, runs[r].worker)
            /\ runs'[r].failure = OrKeep(p.failure, runs[r].failure)
            /\ p.beat => runs'[r].age = 0
            /\ \A d \in Slot : d # c => calls'[d] = calls[d]
            /\ calls[c].close = "none" => calls'[c] = IdleCall
            /\ \/ calls'[c] = IdleCall
               \/ /\ calls'[c].phase = "close"
                  /\ calls'[c].run = r
                  /\ calls'[c].patch = NoPatch
                  /\ calls'[c].waiter = calls[c].waiter
<1> DEFINE k == calls[c]
           r == k.run
           p == k.patch
           closing == [k EXCEPT !.phase = "close", !.patch = NoPatch]
<1>1. r \in Run /\ k.phase = "write" /\ k \in Calls
  BY Shapes DEF Write
<1>2. /\ \A q \in Run : q # r => runs'[q] = runs[q]
      /\ runs'[r] = Patched(runs[r], p)
      /\ \A d \in Slot : d # c => calls'[d] = calls[d]
      /\ calls'[c] = IF k.close = "none" THEN IdleCall ELSE closing
  BY <1>1 DEF Write, FleetInv, FleetTypeOK, TypeOK
<1>3. /\ closing.phase = "close" /\ closing.run = r
      /\ closing.patch = NoPatch /\ closing.waiter = k.waiter
  BY <1>1 DEF Calls
<1>4. /\ Patched(runs[r], p).status = OrKeep(p.status, runs[r].status)
      /\ Patched(runs[r], p).stage = OrKeep(p.stage, runs[r].stage)
      /\ Patched(runs[r], p).worker = OrKeep(p.worker, runs[r].worker)
      /\ Patched(runs[r], p).failure = OrKeep(p.failure, runs[r].failure)
      /\ p.beat => Patched(runs[r], p).age = 0
  BY DEF Patched
<1> HIDE DEF closing
<1> QED
  BY <1>1, <1>2, <1>3, <1>4

\* A beat that is written keeps its run running, its owner's, and fresh; at checkout it
\* says so.
LEMMA BeatIsWritten ==
  ASSUME FleetInv, OwnInv, NEW c \in Slot, Write(c), calls[c].patch.status = Keep
  PROVE  LET r == calls[c].run
         IN /\ r \in Run
            /\ calls'[c] = IdleCall
            /\ runs'[r].status = runs[r].status
            /\ runs'[r].worker = runs[r].worker
            /\ runs'[r].failure = runs[r].failure
            /\ runs'[r].age = 0
            /\ OnlyCheckoutBeats(r) => runs'[r].stage = "rpa_checkout"
<1>1. /\ calls[c].phase = "write" /\ calls[c].run \in Run
      /\ calls[c].patch.beat
      /\ calls[c].close = "none"
      /\ calls[c].patch.failure = Keep
      /\ calls[c].patch.worker = Keep
  BY WriteFacts, IdleMeansNothing DEF OwnInv, PatchesPlain
<1>2. OnlyCheckoutBeats(calls[c].run) => calls[c].patch.stage = "rpa_checkout"
  BY <1>1 DEF OnlyCheckoutBeats
<1> QED
  BY <1>1, <1>2, WriteFacts, IdleMeansNothing DEF OrKeep

\* A report that is written finds nobody driving the run, whose claim is answered.
LEMMA ReportIsWritten ==
  ASSUME FleetInv, OwnInv, NEW c \in Slot, Write(c), calls[c].patch.status # Keep
  PROVE  LET r == calls[c].run
         IN /\ r \in Run
            /\ runs'[r].status = calls[c].patch.status
            /\ runs'[r].status # "running"
            /\ runs'[r].status = "queued" => \A d \in Slot : ~Ends(d, r)
            /\ \A w \in Worker : ~DrivesAt(w, r)
            /\ \A d \in Slot : ~HandsOver(d, r)
<1>1. PICK r \in Run : calls[c].run = r
  BY WriteFacts
<1>2. runs'[r].status = calls[c].patch.status /\ runs'[r].status # "running"
  BY <1>1, WriteFacts DEF OrKeep, OwnInv, PatchesPlain
<1>3. Requeues(c, r) \/ Ends(c, r)
  BY <1>1 DEF Requeues, Ends
<1>4. CASE Requeues(c, r)
  BY <1>1, <1>2, <1>4 DEF FleetInv, OneToken, OwnInv, EndsAreLast, DrivesAt, InHand
<1>5. CASE Ends(c, r)
  BY <1>1, <1>2, <1>5 DEF OwnInv, EndsAreLast, Ends
<1> QED
  BY <1>3, <1>4, <1>5

\* Ownership when a patch is written, and answered or closed next.
LEMMA WriteKeepsOwners ==
  ASSUME FleetInv, OwnInv, NEW c \in Slot, Write(c),
         \A v \in Worker :
           \/ workers'[v] = workers[v] /\ (calls[c].waiter = v => calls'[c].phase # "idle")
           \/ /\ calls[c].waiter = v
              /\ calls'[c].phase = "idle"
              /\ workers'[v].run \in {workers[v].run, NoRun}
              /\ ~workers'[v].again
              /\ \/ workers'[v].at = "idle"
                 \/ workers[v].at = "entering" /\ workers'[v].at = "validating"
                 \/ workers[v].at = "arming" /\ workers'[v].at = "armed"
  PROVE  OwnInv'
<1> DEFINE r == calls[c].run
           p == calls[c].patch
<1>1. /\ r \in Run
      /\ calls[c].phase = "write"
      /\ \A q \in Run : q # r => runs'[q] = runs[q]
      /\ \A d \in Slot : d # c => calls'[d] = calls[d]
      /\ \/ calls'[c] = IdleCall
         \/ /\ calls'[c].phase = "close"
            /\ calls'[c].run = r
            /\ calls'[c].patch = NoPatch
            /\ calls'[c].waiter = calls[c].waiter
  BY WriteFacts
<1>2. \A d \in Slot, q \in Run :
        /\ Ends(d, q)' => Ends(d, q)
        /\ Requeues(d, q)' => d # c /\ Requeues(d, q)
        /\ HandsOver(d, q)' => HandsOver(d, q) /\ calls'[d] = calls[d]
        /\ OnlyCheckoutBeats(q) => OnlyCheckoutBeats(q)'
  BY <1>1, IdleMeansNothing DEF Ends, Requeues, HandsOver, OnlyCheckoutBeats
<1>3. \A v \in Worker, q \in Run :
        DrivesAt(v, q)' =>
          /\ DrivesAt(v, q)
          /\ \/ workers'[v] = workers[v]
             \/ /\ calls[c].waiter = v
                /\ \/ workers[v].at = "entering" /\ workers'[v].at = "validating"
                   \/ workers[v].at = "arming" /\ workers'[v].at = "armed"
  BY IdleMeansNothing DEF DrivesAt, DrivingPoints
<1>4. PatchesPlain'
  BY <1>1, IdleMeansNothing DEF OwnInv, PatchesPlain
<1>5. WaitersFit'
  <2> SUFFICES ASSUME NEW d \in Slot, NEW v \in Worker, calls'[d].waiter = v
               PROVE  /\ calls'[d].phase = "write" =>
                           \/ workers'[v].at = "entering" /\ calls'[d].patch.status = Keep
                           \/ /\ workers'[v].at = "arming"
                              /\ calls'[d].patch.stage = "rpa_checkout"
                              /\ calls'[d].patch.status = Keep
                           \/ workers'[v].at = "reporting" /\ calls'[d].patch.status # Keep
                      /\ calls'[d].phase = "close" => workers'[v].at = "reporting"
    BY DEF WaitersFit
  <2>1. calls[d].waiter = v
    BY <1>1, IdleMeansNothing
  <2>2. CASE d = c
    <3>1. calls'[c].phase = "close" /\ workers'[v] = workers[v]
      BY <1>1, <2>1, <2>2, IdleMeansNothing
    <3>2. p.status # Keep
      BY <3>1, BeatIsWritten, IdleMeansNothing
    <3> QED
      BY <1>1, <2>1, <2>2, <3>1, <3>2 DEF OwnInv, WaitersFit
  <2>3. CASE d # c
    <3>1. calls[c].waiter # v
      BY <2>1, <2>3 DEF FleetInv, AnswersFit
    <3> QED
      BY <1>1, <2>1, <2>3, <3>1 DEF OwnInv, WaitersFit
  <2> QED
    BY <2>2, <2>3
<1>6. EndsAreLast'
  <2> SUFFICES ASSUME NEW d \in Slot, NEW q \in Run, Ends(d, q)'
               PROVE  ~Queued(q)'
    BY <1>2, <1>3 DEF OwnInv, EndsAreLast
  <2>1. Ends(d, q) /\ ~Queued(q)
    BY <1>2 DEF OwnInv, EndsAreLast
  <2> QED
    BY <1>1, <2>1, BeatIsWritten, ReportIsWritten DEF Queued
<1>7. LastReport'
  <2> SUFFICES ASSUME NEW v \in Worker, NEW u \in Worker, NEW q \in Run,
                      workers'[u].run = q, workers'[u].at = "settling" \/ workers'[u].again
               PROVE  ~DrivesAt(v, q)'
    BY DEF LastReport
  <2>1. workers'[u] = workers[u]
    OBVIOUS
  <2> QED
    BY <1>3, <2>1 DEF OwnInv, LastReport
<1>8. RunningIsOwned'
  BY <1>1, BeatIsWritten, ReportIsWritten DEF OwnInv, RunningIsOwned
<1>9. DriversOwn'
  <2> SUFFICES ASSUME NEW v \in Worker, NEW q \in Run, DrivesAt(v, q)' PROVE Owns(v, q)'
    BY DEF DriversOwn
  <2>1. DrivesAt(v, q) /\ Owns(v, q)
    BY <1>3 DEF OwnInv, DriversOwn
  <2>2. CASE q # r
    <3>1. calls[c].waiter = v => workers[v].run = r
      BY <1>1 DEF FleetInv, AnswersFit
    <3>2. workers'[v] = workers[v]
      BY <1>3, <2>1, <2>2, <3>1 DEF DrivesAt
    <3> QED
      BY <1>1, <1>2, <2>1, <2>2, <3>2 DEF Owns
  <2>3. CASE q = r
    <3>1. p.status = Keep
      BY <2>1, <2>3, ReportIsWritten
    <3>2. /\ runs'[q].status = runs[q].status
          /\ runs'[q].worker = runs[q].worker
          /\ runs'[q].age = 0
          /\ OnlyCheckoutBeats(q) => runs'[q].stage = "rpa_checkout"
      BY <2>3, <3>1, BeatIsWritten
    <3>3. workers'[v].at \in CheckoutPoints => workers[v].at \in CheckoutPoints
      BY <1>3 DEF CheckoutPoints
    <3>4. workers'[v].at \in QuietPoints => workers'[v].at \in CheckoutPoints
      BY DEF DrivesAt, DrivingPoints, QuietPoints, CheckoutPoints
    <3> QED
      BY <1>2, <2>1, <3>2, <3>3, <3>4 DEF Owns, STALE_RUN_MINUTES
  <2> QED
    BY <2>2, <2>3
<1>10. ClaimsOwn'
  <2> SUFFICES ASSUME NEW d \in Slot, NEW q \in Run, HandsOver(d, q)'
               PROVE  /\ runs'[q].status = "running"
                      /\ runs'[q].worker = calls'[d].waiter
                      /\ runs'[q].age = 0
    BY DEF ClaimsOwn
  <2>1. HandsOver(d, q) /\ calls'[d] = calls[d]
    BY <1>2
  <2> QED
    BY <1>1, <2>1, BeatIsWritten, ReportIsWritten DEF OwnInv, ClaimsOwn
<1> QED
  BY <1>4, <1>5, <1>6, <1>7, <1>8, <1>9, <1>10 DEF OwnInv

\* Ownership across the handlers' steps.
LEMMA HandlerKeepsOwners ==
  ASSUME FleetInv, OwnInv, NEW c \in Slot, HandlerStep(c)
  PROVE  OwnInv'
<1> DEFINE w == calls[c].waiter
           r == calls[c].run
           done == w \in Worker /\ calls'[c].phase = "idle"
<1>1. workers' = IF done THEN [workers EXCEPT ![w] = Answered(workers[w], r)] ELSE workers
  BY DEF HandlerStep, FleetInv, FleetTypeOK
<1>2. /\ done => /\ workers'[w] = Answered(workers[w], r)
                 /\ \A v \in Worker : v # w => workers'[v] = workers[v]
      /\ ~done => workers' = workers
  BY <1>1 DEF FleetInv, FleetTypeOK
<1>3. w \in Worker /\ calls[c].phase \in {"write", "close"} =>
        /\ workers[w].at \in {"entering", "arming", "reporting"}
        /\ calls[c].phase = "close" => workers[w].at = "reporting"
        /\ workers[w].at \in {"entering", "arming"} => ~workers[w].again
  BY DEF FleetInv, AnswersFit, PointsTell, OwnInv, WaitersFit
<1>4. CASE Write(c)
  <2>1. calls[c].phase = "write"
    BY <1>4 DEF Write
  <2>2. done =>
          /\ workers'[w].run \in {workers[w].run, NoRun}
          /\ ~workers'[w].again
          /\ \/ workers'[w].at = "idle"
             \/ workers[w].at = "entering" /\ workers'[w].at = "validating"
             \/ workers[w].at = "arming" /\ workers'[w].at = "armed"
    <3> SUFFICES ASSUME done
                 PROVE  /\ workers'[w].run \in {workers[w].run, NoRun}
                        /\ ~workers'[w].again
                        /\ \/ workers'[w].at = "idle"
                           \/ workers[w].at = "entering" /\ workers'[w].at = "validating"
                           \/ workers[w].at = "arming" /\ workers'[w].at = "armed"
      OBVIOUS
    <3>1. CASE workers[w].at = "reporting"
      <4>1. workers'[w] = IdleWorker
        BY <1>2, <3>1 DEF Answered
      <4> QED
        BY <4>1 DEF IdleWorker
    <3>2. CASE workers[w].at = "arming"
      <4> DEFINE s == [workers[w] EXCEPT !.at = "armed"]
      <4>1. workers'[w] = s
        BY <1>2, <3>2 DEF Answered
      <4>2. s.at = "armed" /\ s.run = workers[w].run /\ s.again = workers[w].again
        BY PointChanged, PointsMovedTo
      <4> HIDE DEF s
      <4> QED
        BY <1>3, <2>1, <3>2, <4>1, <4>2
    <3>3. CASE workers[w].at = "entering"
      <4> DEFINE s == [workers[w] EXCEPT !.at = "validating"]
      <4>1. workers'[w] = s
        BY <1>2, <3>3 DEF Answered
      <4>2. s.at = "validating" /\ s.run = workers[w].run /\ s.again = workers[w].again
        BY PointChanged, PointsMovedTo
      <4> HIDE DEF s
      <4> QED
        BY <1>3, <2>1, <3>3, <4>1, <4>2
    <3> QED
      BY <1>3, <2>1, <3>1, <3>2, <3>3
  <2>3. \A v \in Worker :
          \/ workers'[v] = workers[v] /\ (calls[c].waiter = v => calls'[c].phase # "idle")
          \/ /\ calls[c].waiter = v
             /\ calls'[c].phase = "idle"
             /\ workers'[v].run \in {workers[v].run, NoRun}
             /\ ~workers'[v].again
             /\ \/ workers'[v].at = "idle"
                \/ workers[v].at = "entering" /\ workers'[v].at = "validating"
                \/ workers[v].at = "arming" /\ workers'[v].at = "armed"
    BY <1>2, <2>2
  <2> QED
    BY <1>4, <2>3, WriteKeepsOwners
<1>5. CASE CloseAttempt(c)
  <2>1. /\ calls[c].phase = "close"
        /\ runs' = runs
        /\ calls'[c] = IdleCall
        /\ \A d \in Slot : d # c => calls'[d] = calls[d]
    BY <1>5 DEF CloseAttempt, FleetInv, FleetTypeOK, TypeOK
  <2>2. \A d \in Slot : RequestEndsOrStays(d)
    BY <2>1 DEF RequestEndsOrStays
  <2>3. CASE w \in Worker
    <3>1. workers'[w] = IdleWorker
      BY <1>2, <1>3, <2>1, <2>3, IdleMeansNothing DEF Answered
    <3>2. \A d \in Slot : calls'[d].waiter # w
      BY <2>1, <2>3, NobodyWaitsForFreed, IdleMeansNothing
    <3>3. \A v \in Worker : workers'[v] = workers[v] \/ DriverGoesOn(v)
      BY <1>2, <2>3, <3>1, <3>2, IdleGoesOn
    <3> QED
      BY <2>1, <2>2, <3>3, OwnersStay
  <2>4. CASE w \notin Worker
    BY <1>2, <2>1, <2>2, <2>4, OwnersStay
  <2> QED
    BY <2>3, <2>4
<1>6. CASE InsertAttempt(c)
  <2>1. /\ runs' = runs
        /\ calls'[c] = IdleCall
        /\ \A d \in Slot : d # c => calls'[d] = calls[d]
    BY <1>6 DEF InsertAttempt, FleetInv, FleetTypeOK, TypeOK
  <2>2. CASE w \in Worker
    BY <1>1, <1>6, <2>1, <2>2, HandOverKeepsOwners, IdleMeansNothing
  <2>3. CASE w \notin Worker
    <3>1. \A d \in Slot : RequestEndsOrStays(d)
      BY <2>1 DEF RequestEndsOrStays
    <3> QED
      BY <1>2, <2>1, <2>3, <3>1, OwnersStay
  <2> QED
    BY <2>2, <2>3
<1> QED
  BY <1>4, <1>5, <1>6 DEF HandlerStep

-----------------------------------------------------------------------------
(* Requests that begin *)

\* What begins is a beat or a report.
LEMMA RequestFacts ==
  ASSUME FleetInv, NEW c \in Slot, NEW r \in Run, NEW p, NEW close, NEW w,
         Begin(c, r, p, close, w)
  PROVE  /\ runs' = runs
         /\ \A d \in Slot : d # c => calls'[d] = calls[d]
         /\ calls[c] = IdleCall
         /\ calls'[c].phase = "write"
         /\ calls'[c].run = r
         /\ calls'[c].patch = p
         /\ calls'[c].close = close
         /\ calls'[c].waiter = w
<1>1. /\ runs' = runs
      /\ \A d \in Slot : d # c => calls'[d] = calls[d]
      /\ calls[c] = IdleCall
      /\ calls'[c] = [phase |-> "write", run |-> r, patch |-> p, close |-> close, waiter |-> w]
  BY DEF Begin, FleetInv, FleetTypeOK, TypeOK, SlotsTidy
<1> QED
  BY <1>1

\* Only the owner beats, so a beat takes nobody's run; at checkout it says so.
LEMMA BeatKeepsOwners ==
  ASSUME FleetInv, OwnInv, NEW w \in Worker, NEW c \in Slot, NEW r \in Run,
         NEW stage, NEW waiter \in {w, NoWorker},
         workers[w].run = r, BeginHeartbeat(c, r, w, stage, waiter),
         workers[w].at \in {"working", "adding", "validating", "cleared", "armed", "clicked"},
         workers[w].at \in {"armed", "clicked"} => stage = "rpa_checkout",
         IF waiter = w
           THEN /\ \/ workers[w].at = "adding" /\ workers'[w].at = "entering"
                   \/ /\ workers[w].at = "cleared" /\ workers'[w].at = "arming"
                      /\ stage = "rpa_checkout" /\ OnlyCheckoutBeats(r)
                /\ workers'[w].run = r
                /\ ~workers'[w].again
                /\ \A v \in Worker : v # w => workers'[v] = workers[v]
           ELSE workers' = workers
  PROVE  OwnInv'
<1> DEFINE p == [NoPatch EXCEPT !.stage = stage, !.beat = TRUE,
                   !.worker = IF runs[r].worker = NoWorker THEN w ELSE Keep]
<1>1. Begin(c, r, p, "none", waiter) /\ MayBeat(r, w)
  BY DEF BeginHeartbeat
<1>2. runs[r].status = "running" /\ runs[r].worker = w
  BY <1>1, IdleMeansNothing DEF MayBeat, OwnInv, RunningIsOwned
<1>3. /\ p.status = Keep /\ p.failure = Keep /\ p.worker = Keep
      /\ p.stage = stage /\ p.beat
  BY <1>2, IdleMeansNothing DEF NoPatch
<1> HIDE DEF p
<1>4. /\ runs' = runs
      /\ \A d \in Slot : d # c => calls'[d] = calls[d]
      /\ calls[c] = IdleCall
      /\ calls'[c].phase = "write"
      /\ calls'[c].run = r
      /\ calls'[c].patch = p
      /\ calls'[c].close = "none"
      /\ calls'[c].waiter = waiter
  BY <1>1, RequestFacts
<1>5. \A d \in Slot, q \in Run :
        /\ Ends(d, q)' => Ends(d, q)
        /\ Requeues(d, q)' => Requeues(d, q)
        /\ HandsOver(d, q)' => HandsOver(d, q) /\ calls'[d] = calls[d]
  BY <1>3, <1>4, IdleMeansNothing DEF Ends, Requeues, HandsOver
<1>6. InHand(w, r) /\ DrivesAt(w, r)
  BY DEF InHand, DrivesAt, DrivingPoints
<1>7. \A v \in Worker, q \in Run : DrivesAt(v, q)' => DrivesAt(v, q)
  BY <1>6 DEF DrivesAt
<1>8. \A v \in Worker, q \in Run :
        DrivesAt(v, q)' => v = w \/ (workers'[v] = workers[v] /\ q # r)
  BY <1>6, <1>7 DEF FleetInv, OneToken, DrivesAt, InHand
<1>9. PatchesPlain'
  BY <1>3, <1>4, IdleMeansNothing DEF OwnInv, PatchesPlain
<1>10. WaitersFit'
  <2>1. \A d \in Slot : calls[d].waiter # w
    BY NobodyWaits
  <2> QED
    BY <1>3, <1>4, <2>1, IdleMeansNothing DEF OwnInv, WaitersFit
<1>11. EndsAreLast'
  BY <1>4, <1>5, <1>7 DEF OwnInv, EndsAreLast, Queued
<1>12. LastReport'
  BY <1>7 DEF OwnInv, LastReport
<1>13. RunningIsOwned'
  BY <1>4 DEF OwnInv, RunningIsOwned
<1>14. DriversOwn'
  <2> SUFFICES ASSUME NEW v \in Worker, NEW q \in Run, DrivesAt(v, q)' PROVE Owns(v, q)'
    BY DEF DriversOwn
  <2>1. DrivesAt(v, q) /\ Owns(v, q)
    BY <1>7 DEF OwnInv, DriversOwn
  <2>2. CASE v # w
    <3>1. workers'[v] = workers[v] /\ q # r
      BY <1>8, <2>2
    <3>2. OnlyCheckoutBeats(q) => OnlyCheckoutBeats(q)'
      BY <1>4, <3>1 DEF OnlyCheckoutBeats
    <3> QED
      BY <1>4, <2>1, <3>1, <3>2 DEF Owns
  <2>3. CASE v = w
    <3>1. q = r
      BY <2>1, <2>3 DEF DrivesAt
    <3>2. OnlyCheckoutBeats(r) /\ stage = "rpa_checkout" => OnlyCheckoutBeats(r)'
      BY <1>3, <1>4 DEF OnlyCheckoutBeats
    <3> QED
      BY <1>2, <1>4, <2>1, <2>3, <3>1, <3>2 DEF Owns, SilentPoints, QuietPoints, CheckoutPoints
  <2> QED
    BY <2>2, <2>3
<1>15. ClaimsOwn'
  BY <1>4, <1>5 DEF OwnInv, ClaimsOwn
<1> QED
  BY <1>9, <1>10, <1>11, <1>12, <1>13, <1>14, <1>15 DEF OwnInv

\* Ownership when a keepalive is sent.
LEMMA KeepaliveKeepsOwners ==
  ASSUME FleetInv, OwnInv, NEW w \in Worker, NEW c \in Slot, Keepalive(w, c)
  PROVE  OwnInv'
<1>1. PICK stage \in BeatStages(workers[w]) :
        BeginHeartbeat(c, workers[w].run, w, stage, NoWorker)
  BY DEF Keepalive
<1>2. /\ workers[w].at \in {"working", "adding", "validating", "cleared", "armed", "clicked"}
      /\ workers[w].at \in {"armed", "clicked"} => stage = "rpa_checkout"
  BY DEF BeatStages
<1>3. workers[w].run \in Run
  BY <1>2, Shapes
<1>4. workers' = workers
  BY DEF Keepalive
<1> QED
  BY <1>1, <1>2, <1>3, <1>4, BeatKeepsOwners, IdleMeansNothing

\* Ownership when the beat of the checkout is sent: no other beat is on its way.
LEMMA ArmKeepsOwners ==
  ASSUME FleetInv, OwnInv, ~BeatsReorder, NEW w \in Worker, NEW c \in Slot, Arm(w, c)
  PROVE  OwnInv'
<1>1. PICK r \in Run : workers[w].run = r
  BY Shapes DEF Arm
<1> DEFINE s == [workers[w] EXCEPT !.at = "arming"]
<1>2. /\ workers[w].at = "cleared"
      /\ PendingBeats(r) = {}
      /\ BeginHeartbeat(c, r, w, "rpa_checkout", w)
      /\ workers'[w] = s
      /\ \A v \in Worker : v # w => workers'[v] = workers[v]
  BY <1>1 DEF Arm, Moves, FleetInv, FleetTypeOK
<1>3. s.at = "arming" /\ s.run = r /\ ~s.again
  <2>1. ~workers[w].again
    BY <1>2 DEF FleetInv, PointsTell
  <2> QED
    BY <1>1, <2>1, PointChanged, PointsMovedTo
<1> HIDE DEF s
<1>4. OnlyCheckoutBeats(r)
  <2> SUFFICES ASSUME NEW d \in Slot, calls[d].phase = "write", calls[d].run = r,
                      calls[d].patch.status = Keep
               PROVE  FALSE
    BY DEF OnlyCheckoutBeats
  <2>1. calls[d].patch.beat
    BY DEF OwnInv, PatchesPlain
  <2>2. calls[d].waiter # NoWorker
    BY <1>2, <2>1 DEF PendingBeats
  <2>3. PICK v \in Worker : calls[d].waiter = v
    BY <2>2, Shapes
  <2>4. workers[v].at \in {"entering", "arming"} /\ workers[v].run = r
    BY <2>3 DEF OwnInv, WaitersFit, FleetInv, AnswersFit
  <2>5. InHand(v, r) /\ InHand(w, r)
    BY <1>1, <1>2, <2>4 DEF InHand, DrivingPoints
  <2> QED
    BY <1>2, <2>4, <2>5 DEF FleetInv, OneToken
<1> QED
  BY <1>1, <1>2, <1>3, <1>4, BeatKeepsOwners

\* Ownership when the beat that begins Stage 4 is sent.
LEMMA StartValidateKeepsOwners ==
  ASSUME FleetInv, OwnInv, NEW w \in Worker, NEW c \in Slot, StartValidate(w, c)
  PROVE  OwnInv'
<1>1. PICK r \in Run : workers[w].run = r
  BY Shapes DEF StartValidate
<1> DEFINE s == [workers[w] EXCEPT !.at = "entering"]
<1>2. /\ workers[w].at = "adding"
      /\ BeginHeartbeat(c, r, w, "other", w)
      /\ workers'[w] = s
      /\ \A v \in Worker : v # w => workers'[v] = workers[v]
  BY <1>1 DEF StartValidate, Moves, FleetInv, FleetTypeOK
<1>3. s.at = "entering" /\ s.run = r /\ ~s.again
  <2>1. ~workers[w].again
    BY <1>2 DEF FleetInv, PointsTell
  <2> QED
    BY <1>1, <2>1, PointChanged, PointsMovedTo
<1> HIDE DEF s
<1> QED
  BY <1>1, <1>2, <1>3, BeatKeepsOwners

\* What a report writes.
LEMMA ReportPlain ==
  ASSUME NEW row, NEW s \in WorkerStates, NEW rep \in ReportsFrom(s)
  PROVE  LET p == StatusPatch(row, rep)
         IN /\ p.status \notin {Keep, "running", "canceled"}
            /\ p.failure # "LK_RUN_REAPED"
            /\ p.worker # Keep => p.status = "queued"
<1> DEFINE p == StatusPatch(row, rep)
<1>1. /\ rep.status \in {"failed", "succeeded", "submitted_unconfirmed"}
      /\ rep.failure \in {"retryable", "final"}
  BY ReportFacts DEF StatusReports
<1>2. Keep \notin {"failed", "succeeded", "submitted_unconfirmed", "queued"}
  BY KeepAssumption DEF ALLOWED_STATUSES, ACTIVE_STATUSES, TERMINAL_STATUSES
<1>3. CASE rep.status = "failed" /\ ShouldRetry(row, rep)
  <2>1. p.status = "queued" /\ p.failure = rep.failure
    BY <1>3 DEF StatusPatch, RetryPatch
  <2> QED
    BY <1>1, <1>2, <2>1
<1>4. CASE rep.status = "failed" /\ ~ShouldRetry(row, rep)
  <2>1. p.status = "failed" /\ p.failure = rep.failure /\ p.worker = Keep
    BY <1>4 DEF StatusPatch, NoPatch
  <2> QED
    BY <1>1, <1>2, <2>1
<1>5. CASE rep.status = "succeeded"
  <2>1. p.status = "succeeded" /\ p.failure = "none" /\ p.worker = Keep
    BY <1>5 DEF StatusPatch, NoPatch
  <2> QED
    BY <1>2, <2>1
<1>6. CASE rep.status = "submitted_unconfirmed"
  <2>1. p.status = "submitted_unconfirmed" /\ p.failure = "none" /\ p.worker = Keep
    BY <1>6 DEF StatusPatch, NoPatch
  <2> QED
    BY <1>2, <2>1
<1> QED
  BY <1>1, <1>3, <1>4, <1>5, <1>6

\* Who reports is the last that has the run, and stops driving it.
LEMMA FinalizeKeepsOwners ==
  ASSUME FleetInv, OwnInv, NEW w \in Worker, NEW c \in Slot,
         NEW rep \in ReportsFrom(workers[w]),
         FinalizeRun(w, c, rep)
  PROVE  OwnInv'
<1>0. PICK r \in Run : workers[w].run = r
  BY ReportSound
<1> DEFINE p == StatusPatch(runs[r], rep)
           close == ClosedBy(rep.status)
<1>1. PICK again \in {FALSE, workers[w].at = "clicked" /\ rep.status # "failed"},
           stray \in {FALSE, MayStray(workers[w], rep)} :
        workers' = [workers EXCEPT ![w].at = "reporting", ![w].stray = stray, ![w].again = again]
  BY DEF FinalizeRun
<1> DEFINE s == [workers[w] EXCEPT !.at = "reporting", !.stray = stray, !.again = again]
<1>2. /\ Begin(c, r, p, close, w)
      /\ workers'[w] = s
      /\ \A v \in Worker : v # w => workers'[v] = workers[v]
  BY <1>0, <1>1 DEF FinalizeRun, BeginStatusUpdate, FleetInv, FleetTypeOK
<1>3. /\ workers[w] \in WorkerStates
      /\ workers[w].at \in StagePoints \cup {"cleared", "armed", "expired", "clicked", "settling"}
  BY Shapes, ReportFacts
<1>4. s.at = "reporting" /\ s.run = r
  BY <1>0, <1>3 DEF WorkerStates
<1>5. /\ p.status \notin {Keep, "running", "canceled"}
      /\ p.failure # "LK_RUN_REAPED"
      /\ p.worker # Keep => p.status = "queued"
  BY <1>3, ReportPlain
<1> HIDE DEF p, close, s
<1>6. /\ runs' = runs
      /\ \A d \in Slot : d # c => calls'[d] = calls[d]
      /\ calls[c] = IdleCall
      /\ calls'[c].phase = "write"
      /\ calls'[c].run = r
      /\ calls'[c].patch = p
      /\ calls'[c].waiter = w
  BY <1>2, RequestFacts
<1>7. /\ ~Queued(r)
      /\ \A d \in Slot : ~Requeues(d, r) /\ ~HandsOver(d, r)
      /\ workers[w].at # "settling" => \A d \in Slot : ~Ends(d, r)
      /\ \A v \in Worker : v # w => ~DrivesAt(v, r)
  <2>1. CASE workers[w].at = "settling"
    <3>1. dispatched[r] > 0
      BY <1>0, <2>1 DEF FleetInv, PointsTell
    <3>2. ~Queued(r) /\ \A d \in Slot : ~Requeues(d, r) /\ ~HandsOver(d, r)
      BY <3>1 DEF FleetInv, TokenGoneAfterClick
    <3>3. \A v \in Worker : ~DrivesAt(v, r)
      BY <1>0, <2>1 DEF OwnInv, LastReport
    <3> QED
      BY <2>1, <3>2, <3>3
  <2>2. CASE workers[w].at # "settling"
    <3>1. InHand(w, r) /\ DrivesAt(w, r)
      BY <1>0, <1>3, <2>2 DEF InHand, DrivesAt, DrivingPoints, StagePoints
    <3>2. ~Queued(r) /\ \A d \in Slot : ~Requeues(d, r) /\ ~HandsOver(d, r)
      BY <3>1 DEF FleetInv, OneToken
    <3>3. \A d \in Slot : ~Ends(d, r)
      BY <3>1 DEF OwnInv, EndsAreLast
    <3>4. \A v \in Worker : DrivesAt(v, r) => v = w
      BY <3>1 DEF FleetInv, OneToken, DrivesAt, InHand
    <3> QED
      BY <3>2, <3>3, <3>4
  <2> QED
    BY <2>1, <2>2
<1>8. p.status = "queued" => \A d \in Slot : ~Ends(d, r)
  <2>1. p.status = "queued" => workers[w].at \in StagePoints
    BY <1>0, ReportSound DEF p
  <2> QED
    BY <1>7, <2>1 DEF StagePoints
<1>9. /\ \A d \in Slot, q \in Run :
           /\ Ends(d, q)' => Ends(d, q) \/ (d = c /\ q = r /\ p.status # "queued")
           /\ Requeues(d, q)' => Requeues(d, q) \/ (d = c /\ q = r /\ p.status = "queued")
           /\ HandsOver(d, q)' => HandsOver(d, q) /\ calls'[d] = calls[d]
      /\ \A q \in Run : OnlyCheckoutBeats(q) => OnlyCheckoutBeats(q)'
  BY <1>5, <1>6, IdleMeansNothing DEF Ends, Requeues, HandsOver, OnlyCheckoutBeats
<1>10. \A v \in Worker, q \in Run :
         DrivesAt(v, q)' => v # w /\ q # r /\ DrivesAt(v, q) /\ workers'[v] = workers[v]
  BY <1>2, <1>4, <1>7 DEF DrivesAt, DrivingPoints
<1>11. PatchesPlain'
  BY <1>5, <1>6 DEF OwnInv, PatchesPlain
<1>12. WaitersFit'
  <2>1. \A d \in Slot : calls[d].waiter # w
    BY <1>3, NobodyWaits DEF StagePoints
  <2> QED
    BY <1>2, <1>4, <1>5, <1>6, <2>1 DEF OwnInv, WaitersFit
<1>13. EndsAreLast'
  <2> SUFFICES ASSUME NEW d \in Slot, NEW q \in Run, Ends(d, q)'
               PROVE  /\ ~Queued(q)'
                      /\ \A e \in Slot : ~Requeues(e, q)' /\ ~HandsOver(e, q)'
                      /\ \A v \in Worker : ~DrivesAt(v, q)'
    BY DEF EndsAreLast
  <2>1. Queued(q)' <=> Queued(q)
    BY <1>6 DEF Queued
  <2>2. CASE Ends(d, q)
    BY <1>8, <1>9, <1>10, <2>1, <2>2 DEF OwnInv, EndsAreLast
  <2>3. CASE q = r /\ p.status # "queued"
    BY <1>7, <1>9, <1>10, <2>1, <2>3
  <2> QED
    BY <1>9, <2>2, <2>3
<1>14. LastReport'
  <2> SUFFICES ASSUME NEW v \in Worker, NEW u \in Worker, NEW q \in Run, DrivesAt(v, q)',
                      workers'[u].run = q, workers'[u].at = "settling" \/ workers'[u].again
               PROVE  FALSE
    BY DEF LastReport
  <2>1. u # w
    BY <1>2, <1>4, <1>10
  <2> QED
    BY <1>2, <1>10, <2>1 DEF OwnInv, LastReport
<1>15. RunningIsOwned'
  BY <1>6 DEF OwnInv, RunningIsOwned
<1>16. DriversOwn'
  BY <1>6, <1>9, <1>10 DEF OwnInv, DriversOwn, Owns
<1>17. ClaimsOwn'
  BY <1>6, <1>9 DEF OwnInv, ClaimsOwn
<1> QED
  BY <1>11, <1>12, <1>13, <1>14, <1>15, <1>16, <1>17 DEF OwnInv

-----------------------------------------------------------------------------
(* The invariant is kept *)

\* Nobody owns anything in the beginning.
LEMMA InitOwners == FleetInit => OwnInv
<1> SUFFICES ASSUME FleetInit PROVE OwnInv
  OBVIOUS
<1>1. /\ \A w \in Worker : workers[w].at = "idle" /\ workers[w].run = NoRun /\ ~workers[w].again
      /\ \A r \in Run : runs[r].status = NotCreated
      /\ \A c \in Slot : calls[c] = IdleCall
  BY DEF FleetInit, Init, IdleWorker, InitialRow
<1>2. \A c \in Slot, r \in Run : ~Ends(c, r) /\ ~HandsOver(c, r)
  BY <1>1, IdleMeansNothing DEF Ends, HandsOver
<1>3. \A w \in Worker, r \in Run : ~DrivesAt(w, r)
  BY <1>1 DEF DrivesAt, DrivingPoints
<1>4. PatchesPlain /\ WaitersFit
  BY <1>1, IdleMeansNothing DEF PatchesPlain, WaitersFit
<1>5. EndsAreLast /\ LastReport /\ RunningIsOwned /\ DriversOwn /\ ClaimsOwn
  BY <1>1, <1>2, <1>3
  DEF EndsAreLast, LastReport, RunningIsOwned, DriversOwn, ClaimsOwn, NotCreated
<1> QED
  BY <1>4, <1>5 DEF OwnInv

\* An operator who may only ever retry by hand never gets to.
LEMMA NoOperatorActs ==
  ASSUME FleetInv, Undisturbed, NEW c \in Slot, NEW r \in Run, NEW action \in OPERATOR_ACTION
  PROVE  ~OperatorActs(c, r, action)
<1>1. runs[r].retries \in Nat /\ MaxRetries \in Nat
  BY Shapes, BoundAssumption DEF Rows
<1>2. ~RetryAllowed(runs[r])
  BY <1>1 DEF RetryAllowed, FleetInv, RetriesUsedUp
<1> QED
  BY <1>2 DEF OperatorActs, WithoutWorkers, BeginOperatorAction, OperatorMay, Undisturbed

\* Every step keeps the owners.
LEMMA NextKeepsOwners ==
  ASSUME Undisturbed, FleetInv, OwnInv, [FleetNext]_fleetVars
  PROVE  OwnInv'
<1>1. CASE UNCHANGED <<runs, attempts, calls, workers>>
  <2>1. \A c \in Slot : RequestEndsOrStays(c)
    BY <1>1 DEF RequestEndsOrStays
  <2> QED
    BY <1>1, <2>1, OwnersStay
<1>2. ASSUME NEW w \in Worker, WorkerStep(w) PROVE OwnInv'
  BY <1>2, ClaimKeepsOwners, KeepaliveKeepsOwners, WorkerAloneKeepsOwners, ArmKeepsOwners,
     StartValidateKeepsOwners, LateClickKeepsOwners, FinalizeKeepsOwners, CrashKeepsOwners
  DEF WorkerStep, Undisturbed
<1>3. ASSUME NEW c \in Slot, HandlerStep(c) \/ HandlerFails(c) \/ WorkerGivesUp(c)
      PROVE  OwnInv'
  BY <1>3, HandlerKeepsOwners, FailureKeepsOwners
<1>4. ASSUME NEW r \in Run, UserCreatesRun(r)
      PROVE  OwnInv'
  BY <1>4, CreateKeepsOwners
<1>5. ASSUME NEW r \in Run, UserStartsOver(r) \/ TimePasses(r)
      PROVE  OwnInv'
  BY <1>5, ClockKeepsOwners DEF UserStartsOver, TimePasses, WithoutWorkers, Undisturbed
<1>6. ASSUME NEW w \in Worker, NEW r \in Run, PollReaps(w, r)
      PROVE  OwnInv'
  BY <1>6, ClockKeepsOwners DEF PollReaps, WithoutWorkers, Undisturbed
<1>7. ASSUME NEW c \in Slot, NEW r \in Run, NEW action \in OPERATOR_ACTION,
             OperatorActs(c, r, action)
      PROVE  OwnInv'
  BY <1>7, NoOperatorActs
<1>8. ASSUME NEW r \in Run, TripwireWindowPasses(r)
      PROVE  OwnInv'
  BY <1>8, <1>1 DEF TripwireWindowPasses
<1>9. CASE UNCHANGED fleetVars
  BY <1>9, <1>1 DEF fleetVars
<1> QED
  BY <1>2, <1>3, <1>4, <1>5, <1>6, <1>7, <1>8, <1>9 DEF FleetNext

\* The owners' invariant holds in every reachable state.
LEMMA OwnInvariant ==
  ASSUME Undisturbed
  PROVE  FleetSpec => [](FleetInv /\ OwnInv)
<1>1. FleetInit => OwnInv
  BY InitOwners
<1>2. FleetInv /\ OwnInv /\ [FleetNext]_fleetVars => OwnInv'
  BY NextKeepsOwners
<1> QED
  BY <1>1, <1>2, FleetInitInv, FleetNextKeepsInv, PTL DEF FleetSpec

-----------------------------------------------------------------------------
(* The tripwire *)

\* How a step may change a worker.
LEMMA WorkerShapes ==
  ASSUME FleetInv, FleetNext, NEW w \in Worker
  PROVE  \/ workers'[w] = workers[w]
         \/ workers'[w] \in {IdleWorker, Refused(workers[w])}
         \/ \E c \in Slot :
              calls[c].waiter = w /\ workers'[w] = Answered(workers[w], calls[c].run)
         \/ workers'[w] = [workers[w] EXCEPT !.at = "claiming"]
         \/ workers[w].at = "working" /\ workers'[w] = [workers[w] EXCEPT !.at = "adding"]
         \/ workers[w].at = "adding" /\ workers'[w] = [workers[w] EXCEPT !.at = "entering"]
         \/ PassTripwire(w) /\ workers'[w] = [workers[w] EXCEPT !.at = "cleared"]
         \/ workers[w].at = "cleared" /\ workers'[w] = [workers[w] EXCEPT !.at = "arming"]
         \/ workers'[w] = [workers[w] EXCEPT !.at = "clicked"]
         \/ \E again, stray :
              workers'[w] = [workers[w] EXCEPT !.at = "reporting", !.stray = stray, !.again = again]
         \/ workers'[w] = [workers[w] EXCEPT !.loose = FALSE]
         \/ StageTimesOut(w)
<1> DEFINE Shaped ==
      \/ workers'[w] = workers[w]
      \/ workers'[w] \in {IdleWorker, Refused(workers[w])}
      \/ \E c \in Slot :
           calls[c].waiter = w /\ workers'[w] = Answered(workers[w], calls[c].run)
      \/ workers'[w] = [workers[w] EXCEPT !.at = "claiming"]
      \/ workers[w].at = "working" /\ workers'[w] = [workers[w] EXCEPT !.at = "adding"]
      \/ workers[w].at = "adding" /\ workers'[w] = [workers[w] EXCEPT !.at = "entering"]
      \/ PassTripwire(w) /\ workers'[w] = [workers[w] EXCEPT !.at = "cleared"]
      \/ workers[w].at = "cleared" /\ workers'[w] = [workers[w] EXCEPT !.at = "arming"]
      \/ workers'[w] = [workers[w] EXCEPT !.at = "clicked"]
      \/ \E again, stray :
           workers'[w] = [workers[w] EXCEPT !.at = "reporting", !.stray = stray, !.again = again]
      \/ workers'[w] = [workers[w] EXCEPT !.loose = FALSE]
      \/ StageTimesOut(w)
<1>1. workers \in [Worker -> WorkerStates]
  BY DEF FleetInv, FleetTypeOK
<1>2. ASSUME NEW v \in Worker, WorkerStep(v) PROVE Shaped
  <2>1. CASE v # w
    <3>1. workers'[w] = workers[w]
      BY <1>1, <1>2, <2>1
      DEF WorkerStep, StartClaim, Keepalive, BeatRefused, StartAdding, StartValidate,
          PassTripwire, Arm, Dispatch, StageTimesOut, LateClick, FinalizeRun,
          FinalizeRefused, Crash, Moves, Leaves
    <3> QED
      BY <3>1
  <2>2. CASE v = w
    <3>1. ASSUME NEW c \in Slot, NEW r \in Run, StartClaim(w, c, r) PROVE Shaped
      BY <1>1, <3>1 DEF StartClaim, Moves
    <3>2. ASSUME NEW c \in Slot, Keepalive(w, c) PROVE Shaped
      BY <3>2 DEF Keepalive
    <3>3. CASE BeatRefused(w) \/ FinalizeRefused(w) \/ Crash(w)
      BY <1>1, <3>3 DEF BeatRefused, FinalizeRefused, Crash, Leaves
    <3>4. CASE PassTripwire(w)
      BY <1>1, <3>4 DEF PassTripwire, Moves
    <3>5. ASSUME NEW c \in Slot, Arm(w, c) PROVE Shaped
      BY <1>1, <3>5 DEF Arm, Moves
    <3>6. CASE Dispatch(w)
      BY <1>1, <3>6 DEF Dispatch, Moves
    <3>7. CASE LateClick(w)
      BY <1>1, <3>7 DEF LateClick
    <3>8. ASSUME NEW c \in Slot, NEW rep \in ReportsFrom(workers[w]), FinalizeRun(w, c, rep)
          PROVE  Shaped
      <4>1. PICK again, stray :
              workers' = [workers EXCEPT ![w].at = "reporting", ![w].stray = stray,
                                         ![w].again = again]
        BY <3>8 DEF FinalizeRun
      <4> QED
        BY <1>1, <4>1
    <3>9. CASE StartAdding(w)
      BY <1>1, <3>9 DEF StartAdding, Moves
    <3>10. ASSUME NEW c \in Slot, StartValidate(w, c) PROVE Shaped
      BY <1>1, <3>10 DEF StartValidate, Moves
    <3> QED
      BY <1>2, <2>2, <3>1, <3>2, <3>3, <3>4, <3>5, <3>6, <3>7, <3>8, <3>9, <3>10
      DEF WorkerStep
  <2> QED
    BY <2>1, <2>2
<1>3. ASSUME NEW c \in Slot, HandlerStep(c) PROVE Shaped
  BY <1>1, <1>3 DEF HandlerStep
<1>4. ASSUME NEW c \in Slot, HandlerFails(c) \/ WorkerGivesUp(c) PROVE Shaped
  BY <1>1, <1>4 DEF HandlerFails, WorkerGivesUp
<1>5. CASE workers' = workers
  BY <1>5
<1> QED
  BY <1>2, <1>3, <1>4, <1>5
  DEF FleetNext, UserCreatesRun, UserStartsOver, TimePasses, TripwireWindowPasses,
      OperatorActs, PollReaps, WithoutWorkers

\* From the tripwire to the click.
TripwirePoints == {"cleared", "arming", "armed"}

\* A worker at those points was there before, on the same run, or has just passed the
\* tripwire; its coroutine was loose before, or its Stage 5 times out.
ComesFrom(w) ==
  /\ workers'[w].loose =>
       workers'[w].run = workers[w].run /\ (workers[w].loose \/ StageTimesOut(w))
  /\ workers'[w].at \in TripwirePoints =>
       workers'[w].run = workers[w].run
         /\ (workers[w].at \in TripwirePoints \/ PassTripwire(w))

\* Nobody gets there in another way.
LEMMA WorkersComeFrom ==
  ASSUME FleetInv, [FleetNext]_fleetVars, NEW w \in Worker
  PROVE  ComesFrom(w)
<1> DEFINE s == workers[w]
<1>1. s \in WorkerStates
  BY Shapes
<1>2. CASE workers'[w] = s
  BY <1>2 DEF ComesFrom
<1>3. CASE workers'[w] = IdleWorker
  BY <1>3 DEF ComesFrom, IdleWorker, TripwirePoints
<1>4. CASE workers'[w] = Refused(s)
  <2> DEFINE t == [s EXCEPT !.at = "settling", !.again = FALSE]
  <2>1. t.at = "settling" /\ t.loose = s.loose /\ t.run = s.run
    BY <1>1 DEF WorkerStates
  <2>2. workers'[w] = t \/ workers'[w] = IdleWorker
    BY <1>4 DEF Refused
  <2> HIDE DEF t
  <2> QED
    BY <1>3, <2>1, <2>2 DEF ComesFrom, TripwirePoints
<1>5. ASSUME NEW c \in Slot, workers'[w] = Answered(s, calls[c].run) PROVE ComesFrom(w)
  <2> DEFINE t == [s EXCEPT !.at = "working", !.run = calls[c].run]
             u == [s EXCEPT !.at = "armed"]
             x == [s EXCEPT !.at = "validating"]
  <2>1. t.at = "working" /\ t.loose = s.loose
    BY <1>1 DEF WorkerStates
  <2>2. /\ u.at = "armed" /\ u.loose = s.loose /\ u.run = s.run
        /\ x.at = "validating" /\ x.loose = s.loose /\ x.run = s.run
    BY PointChanged, PointsMovedTo
  <2>3. \/ s.at = "claiming" /\ workers'[w] = t
        \/ s.at = "arming" /\ workers'[w] = u
        \/ workers'[w] \in {x, IdleWorker}
    BY <1>5 DEF Answered
  <2>4. s.at = "claiming" => ~s.loose
    BY DEF FleetInv, PointsTell
  <2> HIDE DEF t, u, x
  <2> QED
    BY <1>3, <2>1, <2>2, <2>3, <2>4 DEF ComesFrom, TripwirePoints
<1>6. ASSUME NEW a \in {"claiming", "adding", "entering", "clicked"},
             workers'[w] = [s EXCEPT !.at = a]
      PROVE  ComesFrom(w)
  <2>1. workers'[w].at = a /\ workers'[w].loose = s.loose /\ workers'[w].run = s.run
    BY <1>6, PointChanged, PointsMovedTo
  <2> QED
    BY <2>1 DEF ComesFrom, TripwirePoints
<1>7. CASE PassTripwire(w) /\ workers'[w] = [s EXCEPT !.at = "cleared"]
  BY <1>7, PointChanged, PointsMovedTo DEF ComesFrom
<1>8. CASE s.at = "cleared" /\ workers'[w] = [s EXCEPT !.at = "arming"]
  BY <1>8, PointChanged, PointsMovedTo DEF ComesFrom, TripwirePoints
<1>9. ASSUME NEW again, NEW stray,
             workers'[w] = [s EXCEPT !.at = "reporting", !.stray = stray, !.again = again]
      PROVE  ComesFrom(w)
  <2>1. /\ workers'[w].at = "reporting" /\ workers'[w].loose = s.loose
        /\ workers'[w].run = s.run
    BY <1>1, <1>9 DEF WorkerStates
  <2> QED
    BY <2>1 DEF ComesFrom, TripwirePoints
<1>10. CASE workers'[w] = [s EXCEPT !.loose = FALSE]
  <2>1. workers'[w].at = s.at /\ workers'[w].run = s.run
    BY <1>1, <1>10 DEF WorkerStates
  <2>2. workers'[w].loose = FALSE
    BY <1>1, <1>10 DEF WorkerStates
  <2> QED
    BY <2>1, <2>2 DEF ComesFrom
<1>11. CASE StageTimesOut(w)
  <2>1. workers'[w] = [s EXCEPT !.at = "expired", !.loose = TRUE]
    BY <1>11 DEF StageTimesOut, FleetInv, FleetTypeOK
  <2>2. workers'[w].at = "expired" /\ workers'[w].run = s.run
    BY <1>1, <2>1 DEF WorkerStates
  <2> QED
    BY <1>11, <2>2 DEF ComesFrom, TripwirePoints
<1>12. CASE UNCHANGED fleetVars
  BY <1>2, <1>12 DEF fleetVars
<1>13. CASE FleetNext
  BY <1>2, <1>3, <1>4, <1>5, <1>6, <1>7, <1>8, <1>9, <1>10, <1>11, <1>13, WorkerShapes
<1> QED
  BY <1>12, <1>13

\* What a reaped row looks like.
Reaped(r) == runs[r].status = "failed" /\ runs[r].failure = "LK_RUN_REAPED"

\* How a row goes on: it is created, claimed, beaten, reported on, reaped, started over
\* or grows older.
RowGoes(q) ==
  \/ runs'[q] = runs[q]
  \/ ~Created(q) /\ runs'[q].status = "queued"
  \/ Queued(q) /\ runs'[q].status = "running" /\ runs'[q].age = 0
  \/ /\ runs'[q].status = runs[q].status /\ runs'[q].failure = runs[q].failure
     /\ runs'[q].age = 0
     /\ OnlyCheckoutBeats(q) => runs'[q].stage = "rpa_checkout"
  \/ /\ runs'[q].status \notin {"running", "canceled"} /\ ~Reaped(q)'
     /\ runs'[q].status = "queued" => \E c \in Slot : Requeues(c, q)
  \/ /\ runs[q].status = "running" /\ runs[q].age >= ReapThreshold(runs[q].stage)
     /\ Reaped(q)' /\ runs'[q].stage = runs[q].stage
  \/ /\ runs[q].status = "running" /\ runs[q].stage # "rpa_checkout"
     /\ runs'[q].status = "canceled"
  \/ /\ runs[q].status = "running" /\ SilenceAllowed(q)
     /\ runs'[q].status = "running" /\ runs'[q].stage = runs[q].stage
     /\ runs'[q].age = runs[q].age + 1

LEMMA RowsGo ==
  ASSUME Undisturbed, FleetInv, OwnInv, [FleetNext]_fleetVars, NEW q \in Run
  PROVE  RowGoes(q)
<1>1. CASE runs'[q] = runs[q]
  BY <1>1 DEF RowGoes
<1>2. ASSUME NEW w \in Worker, NEW c \in Slot, NEW r \in Run, StartClaim(w, c, r)
      PROVE  RowGoes(q)
  <2> DEFINE row == [runs[r] EXCEPT !.status = "running", !.stage = "other",
                                    !.worker = w, !.age = 0]
  <2>1. runs \in [Run -> Rows] /\ runs[r] \in Rows
    BY Shapes DEF FleetInv, FleetTypeOK, TypeOK
  <2>2. runs' = [runs EXCEPT ![r] = row] /\ Queued(r)
    BY <1>2 DEF StartClaim, Claim, Queued
  <2>3. row.status = "running" /\ row.age = 0
    BY <2>1 DEF Rows
  <2> HIDE DEF row
  <2> QED
    BY <1>1, <2>1, <2>2, <2>3 DEF RowGoes
<1>3. ASSUME NEW c \in Slot, Write(c) PROVE RowGoes(q)
  <2>1. CASE calls[c].run # q
    BY <1>1, <1>3, <2>1, WriteFacts
  <2>2. CASE calls[c].run = q /\ calls[c].patch.status = Keep
    BY <1>3, <2>2, BeatIsWritten DEF RowGoes
  <2>3. CASE calls[c].run = q /\ calls[c].patch.status # Keep
    <3>1. runs'[q].status = calls[c].patch.status /\ runs'[q].status # "running"
      BY <1>3, <2>3, ReportIsWritten
    <3>2. runs'[q].status # "canceled" /\ calls[c].patch.failure # "LK_RUN_REAPED"
      BY <3>1 DEF OwnInv, PatchesPlain
    <3>3. runs'[q].status = "failed" => runs'[q].failure = calls[c].patch.failure
      BY <1>3, <2>3, <3>1, WriteFacts DEF FleetInv, RetriesUsedUp, OrKeep
    <3>4. ~Reaped(q)'
      BY <3>2, <3>3 DEF Reaped
    <3> QED
      BY <2>3, <3>1, <3>2, <3>4 DEF RowGoes, Requeues
  <2> QED
    BY <2>1, <2>2, <2>3
<1>4. ASSUME NEW r \in Run, UserCreatesRun(r) PROVE RowGoes(q)
  <2>1. /\ ~Created(r)
        /\ q # r => runs'[q] = runs[q]
        /\ runs'[r].status = "queued"
    BY <1>4
    DEF UserCreatesRun, WithoutWorkers, CreateRun, FleetInv, FleetTypeOK, TypeOK, Rows
  <2> QED
    BY <1>1, <2>1 DEF RowGoes
<1>5. ASSUME NEW r \in Run, Reap(r) \/ Recover(r) \/ (HeartbeatAges(r) /\ SilenceAllowed(r))
      PROVE  RowGoes(q)
  <2>1. CASE q # r
    BY <1>1, <1>5, <2>1, ClockWrites
  <2>2. CASE q = r
    <3>1. Reap(r) => runs[r].age >= ReapThreshold(runs[r].stage)
      BY DEF Reap
    <3>2. Recover(r) => runs[r].stage # "rpa_checkout"
      BY DEF Recover, ShouldRecover
    <3> QED
      BY <1>5, <2>2, <3>1, <3>2, ClockWrites DEF RowGoes, Reaped
  <2> QED
    BY <2>1, <2>2
<1>6. CASE runs' = runs
  BY <1>1, <1>6
<1>7. ASSUME NEW w \in Worker, WorkerStep(w) PROVE RowGoes(q)
  <2>1. \/ runs' = runs
        \/ \E c \in Slot, r \in Run : StartClaim(w, c, r)
    BY <1>7
    DEF WorkerStep, Keepalive, BeatRefused, StartAdding, StartValidate, PassTripwire, Arm,
        Dispatch, StageTimesOut, LateClick, FinalizeRun, FinalizeRefused, Crash,
        BeginHeartbeat, BeginStatusUpdate, Begin
  <2> QED
    BY <1>2, <1>6, <2>1
<1>8. ASSUME NEW c \in Slot, HandlerStep(c) \/ HandlerFails(c) \/ WorkerGivesUp(c)
      PROVE  RowGoes(q)
  BY <1>3, <1>6, <1>8
  DEF HandlerStep, CloseAttempt, InsertAttempt, HandlerFails, FailCall, WorkerGivesUp
<1>9. ASSUME NEW r \in Run, UserStartsOver(r) \/ TimePasses(r) PROVE RowGoes(q)
  BY <1>5, <1>9 DEF UserStartsOver, TimePasses, WithoutWorkers
<1>10. ASSUME NEW w \in Worker, NEW r \in Run, PollReaps(w, r) PROVE RowGoes(q)
  BY <1>5, <1>10 DEF PollReaps, WithoutWorkers
<1>11. ASSUME NEW c \in Slot, NEW r \in Run, NEW action \in OPERATOR_ACTION,
              OperatorActs(c, r, action)
       PROVE  RowGoes(q)
  BY <1>11, NoOperatorActs
<1>12. ASSUME NEW r \in Run, TripwireWindowPasses(r) PROVE RowGoes(q)
  BY <1>6, <1>12 DEF TripwireWindowPasses
<1> QED
  BY <1>4, <1>6, <1>7, <1>8, <1>9, <1>10, <1>11, <1>12 DEF FleetNext, fleetVars

\* Points at which a worker may still send a beat of another stage.
EarlyPoints == {"working", "adding", "validating"}

\* Only a worker in Stages 1 to 4 begins a beat that does not say rpa_checkout.
BeatsGo(q) ==
  OnlyCheckoutBeats(q) =>
    OnlyCheckoutBeats(q)' \/ \E w \in Worker : workers[w].run = q /\ workers[w].at \in EarlyPoints

LEMMA BeatsGoOn ==
  ASSUME FleetInv, OwnInv, Undisturbed, [FleetNext]_fleetVars, NEW q \in Run
  PROVE  BeatsGo(q)
<1>1. ASSUME \A c \in Slot : RequestEndsOrStays(c) PROVE BeatsGo(q)
  BY <1>1, RequestGoesOn, IdleMeansNothing DEF BeatsGo, OnlyCheckoutBeats
<1>2. CASE calls' = calls
  BY <1>2 DEF BeatsGo, OnlyCheckoutBeats
<1>3. ASSUME NEW w \in Worker, NEW c \in Slot, NEW stage, NEW v,
             BeginHeartbeat(c, workers[w].run, w, stage, v), workers[w].run \in Run,
             workers[w].at \notin EarlyPoints => stage = "rpa_checkout"
      PROVE  BeatsGo(q)
  <2>1. PICK r \in Run : workers[w].run = r
    BY <1>3
  <2> DEFINE p == [NoPatch EXCEPT !.stage = stage, !.beat = TRUE,
                     !.worker = IF runs[r].worker = NoWorker THEN w ELSE Keep]
  <2>2. Begin(c, r, p, "none", v) /\ p.stage = stage
    BY <1>3, <2>1 DEF BeginHeartbeat, NoPatch
  <2> HIDE DEF p
  <2>3. /\ \A d \in Slot : d # c => calls'[d] = calls[d]
        /\ calls'[c].run = r
        /\ calls'[c].patch = p
    BY <2>2, RequestFacts
  <2> QED
    BY <1>3, <2>1, <2>2, <2>3 DEF BeatsGo, OnlyCheckoutBeats
<1>4. ASSUME NEW w \in Worker, WorkerStep(w) PROVE BeatsGo(q)
  <2>1. ASSUME NEW c \in Slot, NEW r \in Run, StartClaim(w, c, r) PROVE BeatsGo(q)
    <3>1. /\ \A d \in Slot : d # c => calls'[d] = calls[d]
          /\ calls'[c].phase = "insert"
      BY <2>1 DEF StartClaim, Claim, FleetInv, FleetTypeOK, TypeOK
    <3> QED
      BY <3>1 DEF BeatsGo, OnlyCheckoutBeats
  <2>2. ASSUME NEW c \in Slot, Keepalive(w, c) PROVE BeatsGo(q)
    <3>1. PICK stage \in BeatStages(workers[w]) :
            BeginHeartbeat(c, workers[w].run, w, stage, NoWorker)
      BY <2>2 DEF Keepalive
    <3>2. /\ workers[w].run \in Run
          /\ workers[w].at \notin EarlyPoints => stage = "rpa_checkout"
      BY <3>1, Shapes DEF BeatStages, EarlyPoints
    <3> QED
      BY <1>3, <3>1, <3>2
  <2>3. ASSUME NEW c \in Slot, Arm(w, c) PROVE BeatsGo(q)
    <3>1. workers[w].run \in Run
      BY <2>3, Shapes DEF Arm
    <3> QED
      BY <1>3, <2>3, <3>1 DEF Arm
  <2>4. ASSUME NEW c \in Slot, StartValidate(w, c) PROVE BeatsGo(q)
    <3>1. workers[w].run \in Run /\ workers[w].at \in EarlyPoints
      BY <2>4, Shapes DEF StartValidate, EarlyPoints
    <3> QED
      BY <1>3, <2>4, <3>1 DEF StartValidate
  <2>5. ASSUME NEW c \in Slot, NEW rep \in ReportsFrom(workers[w]), FinalizeRun(w, c, rep)
        PROVE  BeatsGo(q)
    <3>1. PICK r \in Run : workers[w].run = r
      BY ReportSound
    <3> DEFINE p == StatusPatch(runs[r], rep)
               close == ClosedBy(rep.status)
    <3>2. Begin(c, r, p, close, w)
      BY <2>5, <3>1 DEF FinalizeRun, BeginStatusUpdate
    <3>3. p.status # Keep
      BY Shapes, ReportPlain
    <3> HIDE DEF p, close
    <3>4. /\ \A d \in Slot : d # c => calls'[d] = calls[d]
          /\ calls'[c].patch = p
      BY <3>2, RequestFacts
    <3> QED
      BY <3>3, <3>4 DEF BeatsGo, OnlyCheckoutBeats
  <2>6. CASE Crash(w)
    BY <1>1, <2>6 DEF Crash, RequestEndsOrStays
  <2>7. CASE \/ BeatRefused(w) \/ StartAdding(w) \/ PassTripwire(w) \/ Dispatch(w)
             \/ StageTimesOut(w) \/ LateClick(w) \/ FinalizeRefused(w)
    BY <1>2, <2>7
    DEF BeatRefused, StartAdding, PassTripwire, Dispatch, StageTimesOut, LateClick,
        FinalizeRefused
  <2> QED
    BY <1>4, <2>1, <2>2, <2>3, <2>4, <2>5, <2>6, <2>7 DEF WorkerStep
<1>5. ASSUME NEW c \in Slot, HandlerStep(c) \/ HandlerFails(c) \/ WorkerGivesUp(c)
      PROVE  BeatsGo(q)
  <2>1. CASE Write(c)
    <3>1. /\ \A d \in Slot : d # c => calls'[d] = calls[d]
          /\ calls'[c] = IdleCall \/ calls'[c].phase = "close"
      BY <2>1, WriteFacts
    <3> QED
      BY <3>1, IdleMeansNothing DEF BeatsGo, OnlyCheckoutBeats
  <2>2. CASE CloseAttempt(c) \/ InsertAttempt(c) \/ HandlerFails(c) \/ WorkerGivesUp(c)
    <3>1. /\ \A d \in Slot : d # c => calls'[d] = calls[d]
          /\ calls'[c] \in {IdleCall, [calls[c] EXCEPT !.waiter = NoWorker]}
      BY <2>2
      DEF CloseAttempt, InsertAttempt, HandlerFails, FailCall, WorkerGivesUp, FleetInv,
          FleetTypeOK, TypeOK
    <3> QED
      BY <1>1, <3>1 DEF RequestEndsOrStays
  <2> QED
    BY <1>5, <2>1, <2>2 DEF HandlerStep
<1>6. ASSUME NEW c \in Slot, NEW r \in Run, NEW action \in OPERATOR_ACTION,
             OperatorActs(c, r, action)
      PROVE  BeatsGo(q)
  BY <1>6, NoOperatorActs
<1>7. ASSUME NEW r \in Run,
             \/ UserCreatesRun(r) \/ UserStartsOver(r) \/ TimePasses(r)
             \/ TripwireWindowPasses(r) \/ \E w \in Worker : PollReaps(w, r)
      PROVE  BeatsGo(q)
  BY <1>2, <1>7
  DEF UserCreatesRun, UserStartsOver, TimePasses, TripwireWindowPasses, PollReaps,
      WithoutWorkers, CreateRun, Recover, HeartbeatAges, Reap
<1> QED
  BY <1>2, <1>4, <1>5, <1>6, <1>7 DEF FleetNext, fleetVars

\* Who clicks is armed, or its coroutine is loose; rows, requests and the window stay.
LEMMA ClicksCome ==
  ASSUME FleetInv, [FleetNext]_fleetVars, NEW r \in Run, dispatched'[r] # dispatched[r]
  PROVE  \E w \in Worker :
           /\ workers[w].run = r /\ r \in Submit
           /\ workers[w].at = "armed" \/ workers[w].loose
           /\ UNCHANGED <<runs, calls, old>>
<1>1. PICK w \in Worker : Dispatch(w) \/ LateClick(w)
  BY DEF FleetNext, fleetVars, WorkerStep, StartClaim, Keepalive, BeatRefused, StartAdding,
         StartValidate, PassTripwire, Arm, StageTimesOut, FinalizeRun, FinalizeRefused,
         Crash, HandlerStep, HandlerFails, WorkerGivesUp, UserCreatesRun, UserStartsOver,
         TimePasses, TripwireWindowPasses, OperatorActs, PollReaps, WithoutWorkers,
         MiloUntouched
<1>2. workers[w].run = r
  BY <1>1 DEF Dispatch, LateClick, Click, FleetInv, FleetTypeOK
<1> QED
  BY <1>1, <1>2 DEF Dispatch, LateClick

\* A death that is old stays old until the run is claimed again.
LEMMA OldStays ==
  ASSUME FleetInv, [FleetNext]_fleetVars, NEW q \in Run, q \in old, runs'[q].status = "failed"
  PROVE  q \in old'
<1>1. ASSUME NEW w \in Worker, NEW c \in Slot, NEW r \in Run, StartClaim(w, c, r)
      PROVE  q \in old'
  <2> DEFINE row == [runs[r] EXCEPT !.status = "running", !.stage = "other",
                                    !.worker = w, !.age = 0]
  <2>1. runs \in [Run -> Rows] /\ runs[r] \in Rows
    BY Shapes DEF FleetInv, FleetTypeOK, TypeOK
  <2>2. runs' = [runs EXCEPT ![r] = row] /\ old' = old \ {r}
    BY <1>1 DEF StartClaim, Claim
  <2>3. row.status = "running"
    BY <2>1 DEF Rows
  <2> HIDE DEF row
  <2> QED
    BY <2>1, <2>2, <2>3
<1>2. ASSUME NEW w \in Worker, WorkerStep(w) PROVE q \in old'
  BY <1>1, <1>2
  DEF WorkerStep, Keepalive, BeatRefused, StartAdding, StartValidate, PassTripwire, Arm,
      Dispatch, StageTimesOut, LateClick, FinalizeRun, FinalizeRefused, Crash, MiloUntouched
<1> QED
  BY <1>2
  DEF FleetNext, fleetVars, HandlerStep, HandlerFails, WorkerGivesUp, UserCreatesRun,
      UserStartsOver, TimePasses, TripwireWindowPasses, OperatorActs, PollReaps,
      WithoutWorkers, MiloUntouched

-----------------------------------------------------------------------------
(* Its invariant *)

\* The run's Stage 5 has timed out and its coroutine still runs.
HasLoose(r) == \E w \in Worker : workers[w].loose /\ workers[w].run = r

\* The run is at checkout for good: it was clicked, or a coroutine may yet click it.
Committed(r) == dispatched[r] > 0 \/ HasLoose(r)

\* While it runs, or has been reaped, its row says so.
CommittedAtCheckout ==
  \A r \in Run : Committed(r) =>
    /\ runs[r].status = "running" \/ Reaped(r) => runs[r].stage = "rpa_checkout"
    /\ OnlyCheckoutBeats(r)

\* A loose coroutine is gone before its run can be reaped, or any other run of its store.
LooseApart ==
  \A r \in Run : HasLoose(r) =>
    /\ runs[r].status = "running" => runs[r].age < STALE_RUN_MINUTES
    /\ runs[r].status # "canceled"
    /\ ~Reaped(r)
    /\ \A q \in Run : q # r /\ StoreOf[q] = StoreOf[r] /\ runs[q].status = "running"
         => runs[q].age = 0

\* A worker that has passed the tripwire and may click its run.
Passed(w, r) ==
  /\ workers[w].run = r
  /\ r \in Submit
  /\ \/ workers[w].at \in TripwirePoints /\ runs[r].status = "running"
     \/ workers[w].loose

\* Past the tripwire every death after a click that the store has seen is an old one.
TripwireHolds ==
  \A w \in Worker, q, r \in Run :
    Passed(w, r) /\ StoreOf[q] = StoreOf[r] /\ DiedAfterClick(q) => q \in old

TripInv == CommittedAtCheckout /\ LooseApart /\ TripwireHolds

\* A committed run has no token left but the loose coroutine's.
LEMMA CommittedHasNoToken ==
  ASSUME FleetInv, NEW r \in Run, Committed(r)
  PROVE  /\ Created(r) /\ ~Queued(r)
         /\ \A c \in Slot : ~Requeues(c, r)
         /\ \A w \in Worker : workers[w].run = r => workers[w].at \notin EarlyPoints
<1>1. CASE dispatched[r] > 0
  BY <1>1 DEF FleetInv, TokenGoneAfterClick, NothingBeforeCreation, MayClick, BeforeClick,
              EarlyPoints
<1>2. CASE HasLoose(r)
  <2>1. PICK v \in Worker : workers[v].loose /\ workers[v].run = r
    BY <1>2 DEF HasLoose
  <2>2. InHand(v, r) /\ workers[v].at \notin EarlyPoints
    BY <2>1 DEF InHand, FleetInv, PointsTell, EarlyPoints
  <2>3. \A w \in Worker : workers[w].run = r /\ workers[w].at \in EarlyPoints => InHand(w, r)
    BY DEF InHand, DrivingPoints, EarlyPoints
  <2> QED
    BY <2>1, <2>2, <2>3 DEF FleetInv, OneToken, NothingBeforeCreation
<1> QED
  BY <1>1, <1>2 DEF Committed

\* A worker that is armed has its run running, at checkout and not yet reapable.
LEMMA ArmedAtCheckout ==
  ASSUME FleetInv, OwnInv, NEW w \in Worker, NEW r \in Run,
         workers[w].run = r, workers[w].at = "armed"
  PROVE  /\ runs[r].status = "running" /\ runs[r].stage = "rpa_checkout"
         /\ runs[r].age < STALE_RUN_MINUTES
         /\ OnlyCheckoutBeats(r)
<1>1. Owns(w, r)
  BY DEF OwnInv, DriversOwn, DrivesAt, DrivingPoints
<1> QED
  BY <1>1 DEF Owns, QuietPoints, CheckoutPoints

\* A run becomes committed when a worker that is armed clicks, or times out.
LEMMA CommittedFrom ==
  ASSUME FleetInv, [FleetNext]_fleetVars, NEW r \in Run, Committed(r)'
  PROVE  \/ Committed(r)
         \/ /\ \E w \in Worker : workers[w].run = r /\ workers[w].at = "armed"
            /\ UNCHANGED <<runs, calls>>
<1>1. CASE dispatched'[r] > 0
  <2>1. CASE dispatched'[r] # dispatched[r]
    BY <2>1, ClicksCome DEF Committed, HasLoose
  <2>2. CASE dispatched'[r] = dispatched[r]
    BY <1>1, <2>2 DEF Committed
  <2> QED
    BY <2>1, <2>2
<1>2. CASE HasLoose(r)'
  <2>1. PICK w \in Worker : workers'[w].loose /\ workers'[w].run = r
    BY <1>2 DEF HasLoose
  <2>2. workers[w].run = r /\ (workers[w].loose \/ StageTimesOut(w))
    BY <2>1, WorkersComeFrom DEF ComesFrom
  <2> QED
    BY <2>2 DEF Committed, HasLoose, StageTimesOut
<1> QED
  BY <1>1, <1>2 DEF Committed

LEMMA CommittedStays ==
  ASSUME Undisturbed, FleetInv, OwnInv, TripInv, [FleetNext]_fleetVars
  PROVE  CommittedAtCheckout'
<1> SUFFICES ASSUME NEW r \in Run, Committed(r)'
             PROVE  /\ runs'[r].status = "running" \/ Reaped(r)' => runs'[r].stage = "rpa_checkout"
                    /\ OnlyCheckoutBeats(r)'
  BY DEF CommittedAtCheckout
<1>1. CASE Committed(r)
  <2>1. /\ runs[r].status = "running" \/ Reaped(r) => runs[r].stage = "rpa_checkout"
        /\ OnlyCheckoutBeats(r)
    BY <1>1 DEF TripInv, CommittedAtCheckout
  <2>2. /\ Created(r) /\ ~Queued(r)
        /\ \A w \in Worker : workers[w].run = r => workers[w].at \notin EarlyPoints
    BY <1>1, CommittedHasNoToken
  <2>3. OnlyCheckoutBeats(r)'
    BY <2>1, <2>2, BeatsGoOn DEF BeatsGo
  <2>4. RowGoes(r)
    BY RowsGo
  <2> QED
    BY <2>1, <2>2, <2>3, <2>4 DEF RowGoes, Reaped
<1>2. CASE /\ \E w \in Worker : workers[w].run = r /\ workers[w].at = "armed"
           /\ UNCHANGED <<runs, calls>>
  BY <1>2, ArmedAtCheckout DEF OnlyCheckoutBeats
<1> QED
  BY <1>1, <1>2, CommittedFrom

LEMMA LooseStaysApart ==
  ASSUME Undisturbed, FleetInv, OwnInv, TripInv, [FleetNext]_fleetVars
  PROVE  LooseApart'
<1> SUFFICES ASSUME NEW w \in Worker, NEW r \in Run, workers'[w].loose, workers'[w].run = r
             PROVE  /\ runs'[r].status = "running" => runs'[r].age < STALE_RUN_MINUTES
                    /\ runs'[r].status # "canceled"
                    /\ ~Reaped(r)'
                    /\ \A q \in Run : q # r /\ StoreOf[q] = StoreOf[r]
                                        /\ runs'[q].status = "running" => runs'[q].age = 0
  BY DEF LooseApart, HasLoose
<1>1. workers[w].run = r /\ (workers[w].loose \/ StageTimesOut(w))
  BY WorkersComeFrom DEF ComesFrom
<1>2. runs[r].age \in Nat
  BY Shapes DEF Rows, Ages, STALE_RUN_MINUTES
<1>3. CASE workers[w].loose
  <2>1. Committed(r) /\ HasLoose(r)
    BY <1>1, <1>3 DEF Committed, HasLoose
  <2>2. /\ runs[r].status = "running" =>
             runs[r].age < STALE_RUN_MINUTES /\ runs[r].stage = "rpa_checkout"
        /\ runs[r].status # "canceled" /\ ~Reaped(r)
    BY <2>1 DEF TripInv, LooseApart, CommittedAtCheckout
  <2>3. Created(r) /\ ~Queued(r)
    BY <2>1, CommittedHasNoToken
  <2>4. SilenceAllowed(r) => runs[r].age < STALE_PRESUBMIT_MINUTES
    BY <1>1 DEF SilenceAllowed, Undisturbed
  <2>5. runs[r].status = "running" => ~(runs[r].age >= ReapThreshold(runs[r].stage))
    BY <1>2, <2>2 DEF ReapThreshold, STALE_RUN_MINUTES
  <2>6. RowGoes(r)
    BY RowsGo
  <2>7. /\ runs'[r].status = "running" => runs'[r].age < STALE_RUN_MINUTES
        /\ runs'[r].status # "canceled"
        /\ ~Reaped(r)'
    BY <1>2, <2>2, <2>3, <2>4, <2>5, <2>6
    DEF RowGoes, Reaped, STALE_RUN_MINUTES, STALE_PRESUBMIT_MINUTES
  <2>8. ASSUME NEW q \in Run, q # r, StoreOf[q] = StoreOf[r], runs'[q].status = "running"
        PROVE  runs'[q].age = 0
    <3>1. runs[q].status = "running" => runs[q].age = 0
      BY <2>1, <2>8 DEF TripInv, LooseApart
    <3>2. OutlivedBy(q)
      BY <1>1, <1>3, <2>2, <2>8 DEF OutlivedBy
    <3>3. ~SilenceAllowed(q)
      BY <3>2 DEF SilenceAllowed, Undisturbed
    <3>4. RowGoes(q)
      BY RowsGo
    <3> QED
      BY <2>8, <3>1, <3>3, <3>4 DEF RowGoes, Reaped
  <2> QED
    BY <2>7, <2>8
<1>4. CASE StageTimesOut(w)
  <2>1. workers[w].at = "armed" /\ runs' = runs
    BY <1>4 DEF StageTimesOut
  <2>2. runs[r].status = "running" /\ runs[r].age < STALE_RUN_MINUTES
    BY <1>1, <2>1, ArmedAtCheckout
  <2>3. \A q \in Run : q # r /\ StoreOf[q] = StoreOf[r] => runs[q].status # "running"
    BY <2>2 DEF FleetInv, TableInv, OneRunningPerStore
  <2> QED
    BY <2>1, <2>2, <2>3 DEF Reaped
<1> QED
  BY <1>1, <1>3, <1>4

LEMMA TripwireStaysHeld ==
  ASSUME Undisturbed, FleetInv, OwnInv, TripInv, LooseApart', [FleetNext]_fleetVars
  PROVE  TripwireHolds'
<1> SUFFICES ASSUME NEW w \in Worker, NEW q \in Run, NEW r \in Run, Passed(w, r)',
                    StoreOf[q] = StoreOf[r], DiedAfterClick(q)'
             PROVE  q \in old'
  BY DEF TripwireHolds
<1>1. dispatched'[q] > 0 /\ Reaped(q)' /\ runs'[q].status = "failed"
  BY DEF DiedAfterClick, Reaped
<1>2. workers[w].run = r /\ r \in Submit
  BY WorkersComeFrom DEF Passed, ComesFrom
<1>3. CASE PassTripwire(w)
  <2>1. /\ UNCHANGED <<runs, dispatched, old>>
        /\ AmbiguousDeaths(StoreOf[r]) = {}
    BY <1>2, <1>3 DEF PassTripwire, MiloUntouched
  <2>2. DiedAtCheckout(q)
    BY <1>1, <2>1 DEF TripInv, CommittedAtCheckout, Committed, DiedAtCheckout, Reaped
  <2> QED
    BY <2>1, <2>2 DEF AmbiguousDeaths
<1>4. CASE ~PassTripwire(w)
  <2>1. dispatched[q] > 0
    <3>1. ASSUME dispatched'[q] # dispatched[q] PROVE FALSE
      <4>1. PICK v \in Worker :
              /\ workers[v].run = q
              /\ workers[v].at = "armed" \/ workers[v].loose
              /\ runs' = runs
        BY <3>1, ClicksCome
      <4>2. Reaped(q)
        BY <1>1, <4>1 DEF Reaped
      <4>3. workers[v].at # "armed"
        BY <4>1, <4>2, ArmedAtCheckout DEF Reaped
      <4> QED
        BY <4>1, <4>2, <4>3 DEF TripInv, LooseApart, HasLoose
    <3> QED
      BY <1>1, <3>1
  <2>2. Passed(w, r)
    <3>1. CASE workers'[w].loose
      <4>1. workers[w].loose \/ StageTimesOut(w)
        BY <3>1, WorkersComeFrom DEF ComesFrom
      <4>2. StageTimesOut(w) => workers[w].at = "armed" /\ runs[r].status = "running"
        BY <1>2, ArmedAtCheckout DEF StageTimesOut
      <4> QED
        BY <1>2, <4>1, <4>2 DEF Passed, TripwirePoints
    <3>2. CASE workers'[w].at \in TripwirePoints /\ runs'[r].status = "running"
      <4>1. workers[w].at \in TripwirePoints
        BY <1>4, <3>2, WorkersComeFrom DEF ComesFrom
      <4>2. InHand(w, r)
        BY <1>2, <4>1 DEF InHand, DrivingPoints, TripwirePoints
      <4>3. ~Queued(r)
        BY <4>2 DEF FleetInv, OneToken
      <4>4. RowGoes(r)
        BY RowsGo
      <4>5. runs[r].status = "running"
        BY <3>2, <4>3, <4>4 DEF RowGoes, Reaped
      <4> QED
        BY <1>2, <4>1, <4>5 DEF Passed
    <3> QED
      BY <3>1, <3>2 DEF Passed
  <2>3. CASE Reaped(q)
    <3>1. DiedAfterClick(q)
      BY <2>1, <2>3 DEF DiedAfterClick, Reaped
    <3>2. q \in old
      BY <2>2, <3>1 DEF TripInv, TripwireHolds
    <3> QED
      BY <1>1, <3>2, OldStays
  <2>4. CASE ~Reaped(q)
    <3>1. RowGoes(q)
      BY RowsGo
    <3>2. runs[q].status = "running" /\ runs[q].age >= ReapThreshold(runs[q].stage)
      BY <1>1, <2>4, <3>1 DEF RowGoes, Reaped
    <3>3. runs[q].age # 0
      BY <3>2 DEF ReapThreshold, STALE_RUN_MINUTES, STALE_PRESUBMIT_MINUTES
    <3>4. q # r
      BY <1>1 DEF Passed, LooseApart, HasLoose, Reaped
    <3>5. ~workers[w].loose
      BY <1>2, <3>2, <3>3, <3>4 DEF TripInv, LooseApart, HasLoose
    <3>6. runs[r].status = "running"
      BY <2>2, <3>5 DEF Passed
    <3> QED
      BY <3>2, <3>4, <3>6 DEF FleetInv, TableInv, OneRunningPerStore
  <2> QED
    BY <2>3, <2>4
<1> QED
  BY <1>3, <1>4

\* It holds in every reachable state.
LEMMA TripInvariant ==
  ASSUME Undisturbed
  PROVE  FleetSpec => [](FleetInv /\ OwnInv /\ TripInv)
<1>1. FleetInit => TripInv
  <2> SUFFICES ASSUME FleetInit PROVE TripInv
    OBVIOUS
  <2>1. /\ \A w \in Worker : workers[w].at = "idle" /\ ~workers[w].loose
        /\ \A r \in Run : dispatched[r] = 0
    BY DEF FleetInit, IdleWorker
  <2>2. \A r \in Run : ~Committed(r) /\ ~HasLoose(r)
    BY <2>1 DEF Committed, HasLoose
  <2>3. \A w \in Worker, r \in Run : ~Passed(w, r)
    BY <2>1 DEF Passed, TripwirePoints
  <2> QED
    BY <2>2, <2>3 DEF TripInv, CommittedAtCheckout, LooseApart, TripwireHolds
<1>2. FleetInv /\ OwnInv /\ TripInv /\ [FleetNext]_fleetVars => TripInv'
  BY CommittedStays, LooseStaysApart, TripwireStaysHeld DEF TripInv
<1> QED
  BY <1>1, <1>2, OwnInvariant, PTL DEF FleetSpec

-----------------------------------------------------------------------------
(* The truth rule *)

\* Nobody has, or is going to get, the right to click for the run.
TokenGone(r) ==
  /\ ~Queued(r)
  /\ \A c \in Slot : ~Requeues(c, r) /\ ~HandsOver(c, r)
  /\ \A w \in Worker : ~MayClick(w, r)

\* A run that a worker has said to have failed, or is about to say.
ReportsFailure(c, r) == calls[c].run = r /\ calls[c].patch.status = "failed"
ReportedFailed(r) == runs[r].status = "failed" /\ ~Reaped(r)
FailureKnown(r) == ReportedFailed(r) \/ \E c \in Slot : ReportsFailure(c, r)

\* No Stage 5 has timed out.
NoneExpired == \A w \in Worker : workers[w].at # "expired" /\ ~workers[w].loose

\* What leaves the status alone says nothing of a failure.
FailuresHaveStatus ==
  \A c \in Slot : calls[c].patch.status = Keep => calls[c].patch.failure = Keep

\* A failure is the last that is said of a run, and if it was clicked for, MILO said no.
FailuresAreLast ==
  \A r \in Run : FailureKnown(r) => TokenGone(r) /\ (dispatched[r] > 0 => r \in rejected)

TruthInv == NoneExpired /\ FailuresHaveStatus /\ FailuresAreLast

\* Who may click could before, or is handed the run.
LEMMA ClickersStay ==
  ASSUME FleetInv, [FleetNext]_fleetVars, NEW w \in Worker, NEW r \in Run, MayClick(w, r)'
  PROVE  MayClick(w, r) \/ \E c \in Slot : HandsOver(c, r)
<1> DEFINE s == workers[w]
<1>1. s \in WorkerStates
  BY Shapes
<1>2. CASE workers'[w] = s
  BY <1>2 DEF MayClick
<1>3. CASE workers'[w] = IdleWorker
  BY <1>3 DEF MayClick, IdleWorker, BeforeClick
<1>4. CASE workers'[w] = Refused(s)
  <2> DEFINE t == [s EXCEPT !.at = "settling", !.again = FALSE]
  <2>1. t.at = "settling" /\ t.loose = s.loose /\ t.run = s.run
    BY <1>1 DEF WorkerStates
  <2>2. workers'[w] = t \/ workers'[w] = IdleWorker
    BY <1>4 DEF Refused
  <2> HIDE DEF t
  <2> QED
    BY <1>3, <2>1, <2>2 DEF MayClick, BeforeClick
<1>5. ASSUME NEW c \in Slot, calls[c].waiter = w, workers'[w] = Answered(s, calls[c].run)
      PROVE  MayClick(w, r) \/ HandsOver(c, r)
  <2> DEFINE t == [s EXCEPT !.at = "working", !.run = calls[c].run]
             u == [s EXCEPT !.at = "armed"]
             x == [s EXCEPT !.at = "validating"]
  <2>1. t.loose = s.loose /\ t.run = calls[c].run
    BY <1>1 DEF WorkerStates
  <2>2. u.loose = s.loose /\ u.run = s.run /\ x.loose = s.loose /\ x.run = s.run
    BY PointChanged, PointsMovedTo
  <2>3. \/ s.at = "claiming" /\ workers'[w] = t
        \/ s.at = "entering" /\ workers'[w] = x
        \/ s.at = "arming" /\ workers'[w] = u
        \/ workers'[w] = IdleWorker
    BY <1>5 DEF Answered
  <2>4. s.at = "claiming" => calls[c].phase = "insert"
    BY <1>5 DEF FleetInv, AnswersFit
  <2> HIDE DEF t, u, x
  <2>5. CASE s.at = "claiming" /\ workers'[w] = t
    BY <1>5, <2>1, <2>4, <2>5 DEF MayClick, HandsOver
  <2>6. CASE s.at = "arming" /\ workers'[w] = u
    BY <2>2, <2>6 DEF MayClick, BeforeClick
  <2>7. CASE s.at = "entering" /\ workers'[w] = x
    BY <2>2, <2>7 DEF MayClick, BeforeClick
  <2>8. CASE workers'[w] = IdleWorker
    BY <2>8 DEF MayClick, IdleWorker, BeforeClick
  <2> QED
    BY <2>3, <2>5, <2>6, <2>7, <2>8
<1>6. ASSUME NEW a \in {"claiming", "clicked"}, workers'[w] = [s EXCEPT !.at = a]
      PROVE  MayClick(w, r)
  <2>1. workers'[w].at = a /\ workers'[w].run = s.run /\ workers'[w].loose = s.loose
    BY <1>6, PointChanged, PointsMovedTo
  <2> QED
    BY <2>1 DEF MayClick, BeforeClick
<1>7. CASE PassTripwire(w) /\ workers'[w] = [s EXCEPT !.at = "cleared"]
  <2>1. s.at \in {"working", "validating"} /\ workers'[w].run = s.run
    BY <1>7, PointChanged, PointsMovedTo DEF PassTripwire
  <2> QED
    BY <2>1 DEF MayClick, BeforeClick
<1>8. ASSUME NEW a \in {"adding", "entering", "arming"}, s.at \in BeforeClick,
             workers'[w] = [s EXCEPT !.at = a]
      PROVE  MayClick(w, r)
  <2>1. workers'[w].run = s.run
    BY <1>8, PointChanged, PointsMovedTo
  <2> QED
    BY <1>8, <2>1 DEF MayClick
<1>9. ASSUME NEW again, NEW stray,
             workers'[w] = [s EXCEPT !.at = "reporting", !.stray = stray, !.again = again]
      PROVE  MayClick(w, r)
  <2>1. /\ workers'[w].at = "reporting" /\ workers'[w].loose = s.loose
        /\ workers'[w].run = s.run
    BY <1>1, <1>9 DEF WorkerStates
  <2> QED
    BY <2>1 DEF MayClick, BeforeClick
<1>10. CASE workers'[w] = [s EXCEPT !.loose = FALSE]
  <2>1. workers'[w].at = s.at /\ workers'[w].run = s.run
    BY <1>1, <1>10 DEF WorkerStates
  <2>2. workers'[w].loose = FALSE
    BY <1>1, <1>10 DEF WorkerStates
  <2> QED
    BY <2>1, <2>2 DEF MayClick
<1>11. CASE StageTimesOut(w)
  <2>1. workers'[w] = [s EXCEPT !.at = "expired", !.loose = TRUE] /\ s.at = "armed"
    BY <1>11 DEF StageTimesOut, FleetInv, FleetTypeOK
  <2>2. workers'[w].run = s.run
    BY <1>1, <2>1 DEF WorkerStates
  <2> QED
    BY <2>1, <2>2 DEF MayClick, BeforeClick
<1>12. CASE UNCHANGED fleetVars
  BY <1>2, <1>12 DEF fleetVars
<1>13. CASE FleetNext
  BY <1>2, <1>3, <1>4, <1>5, <1>6, <1>7, <1>8, <1>9, <1>10, <1>11, <1>13, WorkerShapes
  DEF BeforeClick
<1> QED
  BY <1>12, <1>13

\* What a report sends.
LEMMA ReportSent ==
  ASSUME FleetInv, NEW w \in Worker, NEW c \in Slot, NEW rep \in ReportsFrom(workers[w]),
         FinalizeRun(w, c, rep)
  PROVE  /\ workers[w].run \in Run
         /\ runs' = runs
         /\ dispatched' = dispatched
         /\ \A d \in Slot : d # c => calls'[d] = calls[d]
         /\ calls'[c].phase = "write"
         /\ calls'[c].run = workers[w].run
         /\ calls'[c].patch = StatusPatch(runs[workers[w].run], rep)
         /\ workers'[w].at = "reporting"
         /\ workers'[w].loose = workers[w].loose
         /\ \A v \in Worker : v # w => workers'[v] = workers[v]
<1>1. PICK r \in Run : workers[w].run = r
  BY ReportSound
<1>2. PICK again, stray :
        workers' = [workers EXCEPT ![w].at = "reporting", ![w].stray = stray, ![w].again = again]
  BY DEF FinalizeRun
<1> DEFINE s == [workers[w] EXCEPT !.at = "reporting", !.stray = stray, !.again = again]
<1>3. /\ workers'[w] = s
      /\ \A v \in Worker : v # w => workers'[v] = workers[v]
  BY <1>2 DEF FleetInv, FleetTypeOK
<1>4. s.at = "reporting" /\ s.loose = workers[w].loose
  BY Shapes DEF WorkerStates
<1>5. /\ Begin(c, r, StatusPatch(runs[r], rep), ClosedBy(rep.status), w)
      /\ dispatched' = dispatched
  BY <1>1 DEF FinalizeRun, BeginStatusUpdate
<1> HIDE DEF s
<1> QED
  BY <1>1, <1>3, <1>4, <1>5, RequestFacts

\* A request that ends, goes on, or loses its waiter, asks for nothing new.
NothingNew(c) ==
  \/ calls'[c].patch = NoPatch /\ calls'[c].phase # "insert"
  \/ /\ calls'[c].run = calls[c].run /\ calls'[c].patch = calls[c].patch
     /\ calls'[c].phase = calls[c].phase
     /\ calls'[c].waiter \in {calls[c].waiter, NoWorker}

\* How a step may change a request.
LEMMA RequestShapes ==
  ASSUME FleetInv, [FleetNext]_fleetVars, NEW c \in Slot
  PROVE  \/ NothingNew(c)
         \/ \E r \in Run : Queued(r) /\ calls'[c].run = r /\ calls'[c].patch = NoPatch
         \/ /\ calls'[c].phase = "write"
            /\ calls'[c].patch.status \in {Keep, "canceled"}
            /\ calls'[c].patch.failure = Keep
         \/ \E w \in Worker : \E rep \in ReportsFrom(workers[w]) : FinalizeRun(w, c, rep)
<1> DEFINE Shaped ==
      \/ NothingNew(c)
      \/ \E r \in Run : Queued(r) /\ calls'[c].run = r /\ calls'[c].patch = NoPatch
      \/ /\ calls'[c].phase = "write"
         /\ calls'[c].patch.status \in {Keep, "canceled"}
         /\ calls'[c].patch.failure = Keep
      \/ \E w \in Worker : \E rep \in ReportsFrom(workers[w]) : FinalizeRun(w, c, rep)
<1>1. ASSUME RequestEndsOrStays(c) PROVE Shaped
  BY <1>1, RequestGoesOn, IdleMeansNothing DEF NothingNew
<1>2. CASE calls'[c] = calls[c]
  BY <1>1, <1>2 DEF RequestEndsOrStays
<1>3. ASSUME NEW w \in Worker, WorkerStep(w) PROVE Shaped
  <2>1. ASSUME NEW d \in Slot, NEW r \in Run, StartClaim(w, d, r) PROVE Shaped
    <3>1. /\ Queued(r)
          /\ c # d => calls'[c] = calls[c]
          /\ calls'[d].run = r /\ calls'[d].patch = NoPatch
      BY <2>1 DEF StartClaim, Claim, Queued, FleetInv, FleetTypeOK, TypeOK
    <3> QED
      BY <1>2, <3>1
  <2>2. ASSUME NEW d \in Slot, NEW stage, NEW v,
               BeginHeartbeat(d, workers[w].run, w, stage, v), workers[w].run \in Run
        PROVE  Shaped
    <3>1. PICK r \in Run : workers[w].run = r
      BY <2>2
    <3> DEFINE p == [NoPatch EXCEPT !.stage = stage, !.beat = TRUE,
                       !.worker = IF runs[r].worker = NoWorker THEN w ELSE Keep]
    <3>2. Begin(d, r, p, "none", v) /\ p.status = Keep /\ p.failure = Keep
      BY <2>2, <3>1 DEF BeginHeartbeat, NoPatch
    <3> HIDE DEF p
    <3> QED
      BY <1>2, <3>2, RequestFacts
  <2>3. ASSUME NEW d \in Slot, Keepalive(w, d) PROVE Shaped
    <3>1. workers[w].run \in Run
      BY <2>3, Shapes DEF Keepalive, BeatStages
    <3> QED
      BY <2>2, <2>3, <3>1 DEF Keepalive
  <2>4. ASSUME NEW d \in Slot, Arm(w, d) PROVE Shaped
    <3>1. workers[w].run \in Run
      BY <2>4, Shapes DEF Arm
    <3> QED
      BY <2>2, <2>4, <3>1 DEF Arm
  <2>5. ASSUME NEW d \in Slot, NEW rep \in ReportsFrom(workers[w]), FinalizeRun(w, d, rep)
        PROVE  Shaped
    BY <1>2, <2>5, ReportSent
  <2>6. CASE Crash(w)
    BY <1>1, <2>6 DEF Crash, RequestEndsOrStays
  <2>7. CASE \/ BeatRefused(w) \/ StartAdding(w) \/ PassTripwire(w) \/ Dispatch(w)
             \/ StageTimesOut(w) \/ LateClick(w) \/ FinalizeRefused(w)
    BY <1>2, <2>7
    DEF BeatRefused, StartAdding, PassTripwire, Dispatch, StageTimesOut, LateClick,
        FinalizeRefused
  <2>8. ASSUME NEW d \in Slot, StartValidate(w, d) PROVE Shaped
    <3>1. workers[w].run \in Run
      BY <2>8, Shapes DEF StartValidate
    <3> QED
      BY <2>2, <2>8, <3>1 DEF StartValidate
  <2> QED
    BY <1>3, <2>1, <2>3, <2>4, <2>5, <2>6, <2>7, <2>8 DEF WorkerStep
<1>4. ASSUME NEW d \in Slot, HandlerStep(d) \/ HandlerFails(d) \/ WorkerGivesUp(d)
      PROVE  Shaped
  <2>1. CASE Write(d)
    BY <1>2, <2>1, WriteFacts, IdleMeansNothing DEF NothingNew
  <2>2. CASE CloseAttempt(d) \/ InsertAttempt(d) \/ HandlerFails(d) \/ WorkerGivesUp(d)
    <3>1. /\ d # c => calls'[c] = calls[c]
          /\ d = c => calls'[c] \in {IdleCall, [calls[c] EXCEPT !.waiter = NoWorker]}
      BY <2>2
      DEF CloseAttempt, InsertAttempt, HandlerFails, FailCall, WorkerGivesUp, FleetInv,
          FleetTypeOK, TypeOK
    <3> QED
      BY <1>1, <3>1 DEF RequestEndsOrStays
  <2> QED
    BY <1>4, <2>1, <2>2 DEF HandlerStep
<1>5. ASSUME NEW d \in Slot, NEW r \in Run, NEW action \in OPERATOR_ACTION,
             OperatorActs(d, r, action)
      PROVE  Shaped
  <2> DEFINE p == OperatorPatch(runs[r], action)
  <2>1. action # "retry_now"
    <3>1. runs[r].retries \in Nat /\ MaxRetries \in Nat
      BY Shapes, BoundAssumption DEF Rows
    <3>2. ~RetryAllowed(runs[r])
      BY <3>1 DEF RetryAllowed, FleetInv, RetriesUsedUp
    <3> QED
      BY <1>5, <3>2 DEF OperatorActs, WithoutWorkers, BeginOperatorAction, OperatorMay
  <2>2. p.status \in {Keep, "canceled"} /\ p.failure = Keep
    BY <2>1 DEF OperatorPatch, NoPatch
  <2>3. PICK close : Begin(d, r, p, close, NoWorker)
    BY <1>5 DEF OperatorActs, WithoutWorkers, BeginOperatorAction
  <2> HIDE DEF p
  <2> QED
    BY <1>2, <2>2, <2>3, RequestFacts
<1>6. CASE calls' = calls
  BY <1>2, <1>6
<1>7. ASSUME NEW r \in Run,
             \/ UserCreatesRun(r) \/ UserStartsOver(r) \/ TimePasses(r)
             \/ TripwireWindowPasses(r) \/ \E w \in Worker : PollReaps(w, r)
      PROVE  Shaped
  BY <1>6, <1>7
  DEF UserCreatesRun, UserStartsOver, TimePasses, TripwireWindowPasses, PollReaps,
      WithoutWorkers, CreateRun, Recover, HeartbeatAges, Reap
<1> QED
  BY <1>3, <1>4, <1>5, <1>6, <1>7 DEF FleetNext, fleetVars

\* How a step may change a row: runs are queued when they are created or re-queued, and
\* fail when a report is written or the reaper finds them.
LEMMA RowShapes ==
  ASSUME FleetInv, FailuresHaveStatus, [FleetNext]_fleetVars, NEW r \in Run
  PROVE  /\ Queued(r)' => Queued(r) \/ ~Created(r) \/ \E c \in Slot : Requeues(c, r)
         /\ ReportedFailed(r)' => FailureKnown(r)
<1> DEFINE Shaped ==
      /\ Queued(r)' => Queued(r) \/ ~Created(r) \/ \E c \in Slot : Requeues(c, r)
      /\ ReportedFailed(r)' => FailureKnown(r)
<1>1. CASE runs'[r] = runs[r]
  BY <1>1 DEF Queued, ReportedFailed, Reaped, FailureKnown
<1>2. CASE runs'[r].status = "running"
  BY <1>2 DEF Queued, ReportedFailed
<1>3. ASSUME NEW w \in Worker, NEW c \in Slot, NEW q \in Run, StartClaim(w, c, q)
      PROVE  Shaped
  <2> DEFINE row == [runs[q] EXCEPT !.status = "running", !.stage = "other",
                                    !.worker = w, !.age = 0]
  <2>1. runs \in [Run -> Rows] /\ runs[q] \in Rows
    BY Shapes DEF FleetInv, FleetTypeOK, TypeOK
  <2>2. runs' = [runs EXCEPT ![q] = row]
    BY <1>3 DEF StartClaim, Claim
  <2>3. row.status = "running"
    BY <2>1 DEF Rows
  <2> HIDE DEF row
  <2> QED
    BY <1>1, <1>2, <2>1, <2>2, <2>3
<1>4. ASSUME NEW c \in Slot, Write(c) PROVE Shaped
  <2>1. CASE calls[c].run # r
    BY <1>1, <1>4, <2>1, WriteFacts
  <2>2. CASE calls[c].run = r /\ calls[c].patch.status = Keep
    BY <1>4, <2>2, WriteFacts
    DEF FailuresHaveStatus, OrKeep, Queued, ReportedFailed, Reaped, FailureKnown
  <2>3. CASE calls[c].run = r /\ calls[c].patch.status # Keep
    <3>1. runs'[r].status = calls[c].patch.status
      BY <1>4, <2>3, WriteFacts DEF OrKeep
    <3> QED
      BY <2>3, <3>1 DEF Queued, Requeues, ReportedFailed, FailureKnown, ReportsFailure
  <2> QED
    BY <2>1, <2>2, <2>3
<1>5. ASSUME NEW q \in Run, UserCreatesRun(q) PROVE Shaped
  <2>1. CASE q # r
    BY <1>1, <1>5, <2>1 DEF UserCreatesRun, WithoutWorkers, CreateRun
  <2>2. CASE q = r
    <3>1. ~Created(r) /\ runs'[r].status = "queued"
      BY <1>5, <2>2
      DEF UserCreatesRun, WithoutWorkers, CreateRun, FleetInv, FleetTypeOK, TypeOK, Rows
    <3> QED
      BY <3>1 DEF ReportedFailed
  <2> QED
    BY <2>1, <2>2
<1>6. ASSUME NEW q \in Run, Reap(q) \/ Recover(q) \/ HeartbeatAges(q) PROVE Shaped
  <2>1. CASE q # r
    BY <1>1, <1>6, <2>1, ClockWrites
  <2>2. CASE q = r
    BY <1>6, <2>2, ClockWrites DEF Queued, ReportedFailed, Reaped
  <2> QED
    BY <2>1, <2>2
<1>7. CASE runs' = runs
  BY <1>1, <1>7
<1>8. ASSUME NEW w \in Worker, WorkerStep(w) PROVE Shaped
  <2>1. \/ runs' = runs
        \/ \E c \in Slot, q \in Run : StartClaim(w, c, q)
    BY <1>8
    DEF WorkerStep, Keepalive, BeatRefused, StartAdding, StartValidate, PassTripwire, Arm,
        Dispatch, StageTimesOut, LateClick, FinalizeRun, FinalizeRefused, Crash,
        BeginHeartbeat, BeginStatusUpdate, Begin
  <2> QED
    BY <1>3, <1>7, <2>1
<1>9. ASSUME NEW c \in Slot, HandlerStep(c) \/ HandlerFails(c) \/ WorkerGivesUp(c)
      PROVE  Shaped
  BY <1>4, <1>7, <1>9
  DEF HandlerStep, CloseAttempt, InsertAttempt, HandlerFails, FailCall, WorkerGivesUp
<1>10. ASSUME NEW q \in Run, UserStartsOver(q) \/ TimePasses(q) PROVE Shaped
  BY <1>6, <1>10 DEF UserStartsOver, TimePasses, WithoutWorkers
<1>11. ASSUME NEW w \in Worker, NEW q \in Run, PollReaps(w, q) PROVE Shaped
  BY <1>6, <1>11 DEF PollReaps, WithoutWorkers
<1>12. ASSUME NEW c \in Slot, NEW q \in Run, NEW action \in OPERATOR_ACTION,
              OperatorActs(c, q, action)
       PROVE  Shaped
  BY <1>7, <1>12 DEF OperatorActs, WithoutWorkers, BeginOperatorAction, Begin
<1>13. ASSUME NEW q \in Run, TripwireWindowPasses(q) PROVE Shaped
  BY <1>7, <1>13 DEF TripwireWindowPasses
<1> QED
  BY <1>5, <1>7, <1>8, <1>9, <1>10, <1>11, <1>12, <1>13 DEF FleetNext, fleetVars

\* Who clicks had the right to, and what MILO has rejected it has rejected.
LEMMA ClicksAndRejections ==
  ASSUME FleetInv, [FleetNext]_fleetVars
  PROVE  /\ \A r \in Run : dispatched'[r] = dispatched[r] \/ \E w \in Worker : MayClick(w, r)
         /\ rejected \subseteq rejected'
<1>1. ASSUME NEW w \in Worker, Dispatch(w) \/ LateClick(w)
      PROVE  /\ \A r \in Run : dispatched'[r] = dispatched[r] \/ MayClick(w, r)
             /\ rejected' = rejected
  <2>1. /\ workers[w].at = "armed" \/ workers[w].loose
        /\ Click(workers[w].run)
        /\ rejected' = rejected
    BY <1>1 DEF Dispatch, LateClick
  <2>2. \A r \in Run : r # workers[w].run => dispatched'[r] = dispatched[r]
    BY <2>1 DEF Click, FleetInv, FleetTypeOK
  <2> QED
    BY <2>1, <2>2 DEF MayClick, BeforeClick
<1>2. ASSUME NEW w \in Worker, WorkerStep(w)
      PROVE  \/ Dispatch(w) \/ LateClick(w)
             \/ dispatched' = dispatched /\ rejected \subseteq rejected'
  BY <1>2
  DEF WorkerStep, StartClaim, Keepalive, BeatRefused, StartAdding, StartValidate,
      PassTripwire, Arm, StageTimesOut, FinalizeRun, FinalizeRefused, Crash, MiloUntouched
<1> QED
  BY <1>1, <1>2
  DEF FleetNext, fleetVars, HandlerStep, HandlerFails, WorkerGivesUp, UserCreatesRun,
      UserStartsOver, TimePasses, TripwireWindowPasses, OperatorActs, PollReaps,
      WithoutWorkers, MiloUntouched

\* Who reports a failure has the run in hand and puts it down: nobody clicks for it any
\* more, and if the worker itself has clicked, MILO has rejected the order.
LEMMA FailureIsLast ==
  ASSUME FleetInv, NoneExpired,
         NEW w \in Worker, NEW c \in Slot, NEW rep \in ReportsFrom(workers[w]),
         FinalizeRun(w, c, rep), NEW r \in Run, workers[w].run = r,
         calls'[c].patch.status = "failed"
  PROVE  TokenGone(r)' /\ (dispatched'[r] > 0 => r \in rejected')
<1>1. workers[w] \in WorkerStates
  BY Shapes
<1>2. rep.status = "failed"
  <2>1. calls'[c].patch = StatusPatch(runs[r], rep)
    BY ReportSent
  <2>2. CASE rep.status = "succeeded"
    BY <2>1, <2>2 DEF StatusPatch, NoPatch
  <2>3. CASE rep.status = "submitted_unconfirmed"
    BY <2>1, <2>3 DEF StatusPatch, NoPatch
  <2> QED
    BY <1>1, <2>2, <2>3, ReportFacts
<1>3. workers[w].at \in StagePoints \cup {"cleared", "armed", "clicked"}
  <2>1. workers[w].at \notin {"expired", "settling"}
    BY <1>2 DEF NoneExpired, ReportsFrom, Unconfirmed, Report
  <2> QED
    BY <1>1, <2>1, ReportFacts
<1>4. InHand(w, r)
  BY <1>3 DEF InHand, DrivingPoints, StagePoints
<1>5. /\ runs' = runs
      /\ dispatched' = dispatched
      /\ \A d \in Slot : d # c => calls'[d] = calls[d]
      /\ calls'[c].phase = "write"
      /\ workers'[w].at = "reporting" /\ ~workers'[w].loose
      /\ \A v \in Worker : v # w => workers'[v] = workers[v]
  BY ReportSent DEF NoneExpired
<1>6. /\ ~Queued(r)
      /\ \A d \in Slot : ~Requeues(d, r) /\ ~HandsOver(d, r)
      /\ \A v \in Worker : v # w => ~InHand(v, r)
  BY <1>4 DEF FleetInv, OneToken
<1>7. ~Queued(r)' /\ \A d \in Slot : ~Requeues(d, r)' /\ ~HandsOver(d, r)'
  BY <1>5, <1>6 DEF Queued, Requeues, HandsOver
<1>8. \A v \in Worker : ~MayClick(v, r)'
  BY <1>5, <1>6 DEF MayClick, BeforeClick, InHand, DrivingPoints
<1>9. dispatched[r] > 0 => r \in rejected'
  <2>1. CASE workers[w].at = "clicked"
    BY <1>2, <2>1 DEF FinalizeRun
  <2>2. CASE workers[w].at # "clicked"
    <3>1. MayClick(w, r)
      BY <1>3, <2>2 DEF MayClick, BeforeClick, StagePoints
    <3> QED
      BY <3>1 DEF FleetInv, TokenGoneAfterClick
  <2> QED
    BY <2>1, <2>2
<1> QED
  BY <1>5, <1>7, <1>8, <1>9 DEF TokenGone

\* A run whose failure is known stays as it is.
LEMMA FailureStaysLast ==
  ASSUME FleetInv, TruthInv, [FleetNext]_fleetVars, NEW r \in Run, FailureKnown(r)
  PROVE  TokenGone(r)' /\ (dispatched'[r] > 0 => r \in rejected')
<1>1. TokenGone(r) /\ (dispatched[r] > 0 => r \in rejected)
  BY DEF TruthInv, FailuresAreLast
<1>2. Created(r)
  BY DEF FailureKnown, ReportedFailed, ReportsFailure, Created, NotCreated, FleetInv,
         NothingBeforeCreation
<1>3. ~Queued(r)'
  BY <1>1, <1>2, RowShapes DEF TokenGone, TruthInv
<1>4. ASSUME NEW c \in Slot PROVE ~Requeues(c, r)' /\ ~HandsOver(c, r)'
  <2>1. CASE NothingNew(c)
    BY <1>1, <2>1, IdleMeansNothing DEF NothingNew, TokenGone, Requeues, HandsOver
  <2>2. CASE \E q \in Run : Queued(q) /\ calls'[c].run = q /\ calls'[c].patch = NoPatch
    BY <1>1, <2>2, IdleMeansNothing DEF TokenGone, Requeues, HandsOver
  <2>3. CASE calls'[c].phase = "write" /\ calls'[c].patch.status \in {Keep, "canceled"}
    BY <2>3, IdleMeansNothing DEF Requeues, HandsOver
  <2>4. ASSUME NEW w \in Worker, NEW rep \in ReportsFrom(workers[w]), FinalizeRun(w, c, rep)
        PROVE  ~Requeues(c, r)' /\ ~HandsOver(c, r)'
    <3>1. /\ calls'[c].phase = "write" /\ calls'[c].run = workers[w].run
          /\ calls'[c].patch = StatusPatch(runs[workers[w].run], rep)
      BY <2>4, ReportSent
    <3>2. calls'[c].patch.status = "queued" => workers[w].at \in StagePoints
      BY <2>4, <3>1, ReportSound
    <3>3. ~MayClick(w, r)
      BY <1>1 DEF TokenGone
    <3> QED
      BY <3>1, <3>2, <3>3 DEF Requeues, HandsOver, MayClick, BeforeClick, StagePoints
  <2> QED
    BY <2>1, <2>2, <2>3, <2>4, RequestShapes
<1>5. \A w \in Worker : ~MayClick(w, r)'
  BY <1>1, ClickersStay DEF TokenGone
<1>6. dispatched'[r] = dispatched[r] /\ rejected \subseteq rejected'
  BY <1>1, ClicksAndRejections DEF TokenGone
<1> QED
  BY <1>1, <1>3, <1>4, <1>5, <1>6 DEF TokenGone

\* Without timeouts of Stage 5 nobody expires.
LEMMA NobodyExpires ==
  ASSUME FleetInv, NoneExpired, ~StagesTimeOut, [FleetNext]_fleetVars
  PROVE  NoneExpired'
<1> SUFFICES ASSUME NEW w \in Worker PROVE workers'[w].at # "expired" /\ ~workers'[w].loose
  BY DEF NoneExpired
<1> DEFINE s == workers[w]
<1>1. s \in WorkerStates /\ s.at # "expired"
  BY Shapes DEF NoneExpired
<1>2. ~workers'[w].loose
  BY WorkersComeFrom DEF NoneExpired, ComesFrom, StageTimesOut
<1>3. \A a \in Points : [s EXCEPT !.at = a].at = a
  BY PointChanged
<1>4. IdleWorker.at = "idle"
  BY DEF IdleWorker
<1>5. \A again, stray :
        [s EXCEPT !.at = "reporting", !.stray = stray, !.again = again].at = "reporting"
  BY <1>1 DEF WorkerStates
<1>6. [s EXCEPT !.loose = FALSE].at = s.at
  BY <1>1 DEF WorkerStates
<1>7. Refused(s).at \in {"settling", "idle"}
  <2>1. [s EXCEPT !.at = "settling", !.again = FALSE].at = "settling"
    BY <1>1 DEF WorkerStates
  <2> QED
    BY <1>4, <2>1 DEF Refused
<1>8. \A r : Answered(s, r).at \in {"working", "validating", "armed", "idle"}
  <2>1. \A r : [s EXCEPT !.at = "working", !.run = r].at = "working"
    BY <1>1 DEF WorkerStates
  <2> QED
    BY <1>3, <1>4, <2>1, PointsMovedTo DEF Answered
<1>9. ~StageTimesOut(w)
  BY DEF StageTimesOut
<1>10. CASE UNCHANGED fleetVars
  BY <1>1, <1>2, <1>10 DEF fleetVars
<1>11. CASE FleetNext
  BY <1>1, <1>2, <1>3, <1>4, <1>5, <1>6, <1>7, <1>8, <1>9, <1>11, WorkerShapes,
     PointsMovedTo
<1> QED
  BY <1>10, <1>11

\* Every step leaves the truth rule as it was.
LEMMA NextKeepsTruth ==
  ASSUME FleetInv, TruthInv, ~StagesTimeOut, [FleetNext]_fleetVars
  PROVE  TruthInv'
<1>1. NoneExpired'
  BY NobodyExpires DEF TruthInv
<1>2. FailuresHaveStatus'
  <2> SUFFICES ASSUME NEW c \in Slot, calls'[c].patch.status = Keep
               PROVE  calls'[c].patch.failure = Keep
    BY DEF FailuresHaveStatus
  <2>1. CASE NothingNew(c)
    BY <2>1, IdleMeansNothing DEF NothingNew, TruthInv, FailuresHaveStatus
  <2>2. CASE calls'[c].patch = NoPatch \/ calls'[c].patch.failure = Keep
    BY <2>2, IdleMeansNothing
  <2>3. ASSUME NEW w \in Worker, NEW rep \in ReportsFrom(workers[w]), FinalizeRun(w, c, rep)
        PROVE  FALSE
    BY <2>3, Shapes, ReportSent, ReportPlain
  <2> QED
    BY <2>1, <2>2, <2>3, RequestShapes
<1>3. ASSUME NEW r \in Run, FailureKnown(r)'
      PROVE  TokenGone(r)' /\ (dispatched'[r] > 0 => r \in rejected')
  <2>1. CASE FailureKnown(r)
    BY <2>1, FailureStaysLast
  <2>2. CASE ~FailureKnown(r)
    <3>1. PICK c \in Slot : ReportsFailure(c, r)'
      BY <1>3, <2>2, RowShapes DEF FailureKnown, TruthInv
    <3>2. ~ReportsFailure(c, r)
      BY <2>2 DEF FailureKnown
    <3>3. PICK w \in Worker : \E rep \in ReportsFrom(workers[w]) : FinalizeRun(w, c, rep)
      <4>1. calls'[c].patch.status \notin {Keep, "canceled"} /\ calls'[c].patch # NoPatch
        BY <3>1, IdleMeansNothing DEF ReportsFailure
      <4>2. ~NothingNew(c)
        BY <3>1, <3>2, <4>1 DEF NothingNew, ReportsFailure
      <4> QED
        BY <4>1, <4>2, RequestShapes
    <3>4. workers[w].run = r /\ calls'[c].patch.status = "failed"
      BY <3>1, <3>3, ReportSent DEF ReportsFailure
    <3> QED
      BY <3>3, <3>4, FailureIsLast DEF TruthInv
  <2> QED
    BY <2>1, <2>2
<1> QED
  BY <1>1, <1>2, <1>3 DEF TruthInv, FailuresAreLast

\* At first nothing has failed and nobody is at work.
LEMMA InitTruth == FleetInit => TruthInv
<1> SUFFICES ASSUME FleetInit PROVE TruthInv
  OBVIOUS
<1>1. /\ \A w \in Worker : workers[w] = IdleWorker
      /\ \A c \in Slot : calls[c] = IdleCall
      /\ \A r \in Run : runs[r].status = NotCreated
  BY DEF FleetInit, Init, InitialRow
<1>2. NoneExpired
  BY <1>1 DEF NoneExpired, IdleWorker
<1>3. FailuresHaveStatus
  BY <1>1, IdleMeansNothing DEF FailuresHaveStatus
<1>4. \A r \in Run : ~FailureKnown(r)
  BY <1>1, IdleMeansNothing DEF FailureKnown, ReportedFailed, ReportsFailure, NotCreated
<1> QED
  BY <1>2, <1>3, <1>4 DEF TruthInv, FailuresAreLast

\* TruthInv together with FleetInv is inductive as long as no Stage 5 times out.
LEMMA TruthInvariant ==
  ASSUME ~StagesTimeOut
  PROVE  FleetSpec => [](FleetInv /\ TruthInv)
<1>1. FleetInv /\ TruthInv /\ [FleetNext]_fleetVars => TruthInv'
  BY NextKeepsTruth
<1> QED
  BY <1>1, InitTruth, FleetInitInv, FleetNextKeepsInv, PTL DEF FleetSpec

-----------------------------------------------------------------------------
(* Theorems *)

\* From the moment a worker asks to enter checkout until it reports, the run is running
\* and its own: a run that "Start over" or the reaper took in the silence of Stage 3 has no
\* worker that goes on to checkout, and no checkout is reaped for being slow.  (Workers
\* crash, answers are lost, and Stages 3 to 5 may time out.)
THEOREM CheckoutsOwnTheirRuns ==
  ASSUME Undisturbed
  PROVE  FleetSpec => []CheckoutOwnsRun
<1>1. FleetInv /\ OwnInv => CheckoutOwnsRun
  <2> SUFFICES ASSUME FleetInv, OwnInv, NEW r \in Run, NEW w \in Worker,
                      workers[w].run = r, workers[w].at \in CheckoutPoints
               PROVE  runs[r].status = "running" /\ runs[r].worker = w
    BY DEF CheckoutOwnsRun
  <2>1. Owns(w, r)
    BY DEF OwnInv, DriversOwn, DrivesAt, DrivingPoints, CheckoutPoints
  <2> QED
    BY <2>1 DEF Owns
<1> QED
  BY <1>1, OwnInvariant, PTL

\* MILO carts are account-scoped: of two workers at checkout in one store's cart, one is
\* closing the browser of a Stage 5 that has timed out.
THEOREM StoresHaveOneCheckout ==
  ASSUME Undisturbed
  PROVE  FleetSpec => []OneCheckoutPerStore
<1>1. FleetInv /\ OwnInv => OneCheckoutPerStore
  <2> SUFFICES ASSUME FleetInv, OwnInv, NEW v \in Worker, NEW w \in Worker,
                      AtCheckout(v), AtCheckout(w),
                      StoreOf[workers[v].run] = StoreOf[workers[w].run],
                      workers[v].at # "reporting", workers[w].at # "reporting"
               PROVE  v = w
    BY DEF OneCheckoutPerStore
  <2>1. workers[v].at \in CheckoutPoints /\ workers[w].at \in CheckoutPoints
    BY DEF AtCheckout, CheckoutPoints, FleetInv, PointsTell
  <2>2. workers[v].run \in Run /\ workers[w].run \in Run
    BY <2>1, Shapes DEF CheckoutPoints
  <2>3. DrivesAt(v, workers[v].run) /\ DrivesAt(w, workers[w].run)
    BY <2>1 DEF DrivesAt, DrivingPoints, CheckoutPoints
  <2>4. runs[workers[v].run].status = "running" /\ runs[workers[w].run].status = "running"
    BY <2>1, <2>2, <2>3 DEF OwnInv, DriversOwn, Owns
  <2>5. workers[v].run = workers[w].run
    BY <2>2, <2>4 DEF FleetInv, TableInv, OneRunningPerStore
  <2> QED
    BY <2>2, <2>3, <2>5 DEF FleetInv, OneToken, DrivesAt, InHand
<1> QED
  BY <1>1, OwnInvariant, PTL

\* The duplicate-submit tripwire does what it is for, though Stage 3 may be reaped alive
\* and Stage 5 may outlive its timeout: Checkout is not clicked for a store one of whose
\* runs clicked and was then reaped in the last 30 minutes, for whatever a worker read
\* before it armed its own click.
THEOREM TripwireHoldsBack ==
  ASSUME Undisturbed
  PROVE  FleetSpec => NoClickAfterAmbiguousDeath
<1> DEFINE Quiet ==
      \A q, r \in Run :
        dispatched'[r] > dispatched[r] /\ StoreOf[q] = StoreOf[r] /\ DiedAfterClick(q)
          => q \in old
<1>1. FleetInv /\ OwnInv /\ TripInv /\ [FleetNext]_fleetVars => Quiet
  <2> SUFFICES ASSUME FleetInv, OwnInv, TripInv, [FleetNext]_fleetVars,
                      NEW q \in Run, NEW r \in Run,
                      dispatched'[r] > dispatched[r], StoreOf[q] = StoreOf[r],
                      DiedAfterClick(q)
               PROVE  q \in old
    OBVIOUS
  <2>1. dispatched[r] \in Nat
    BY Shapes
  <2>2. PICK w \in Worker : /\ workers[w].run = r /\ r \in Submit
                            /\ workers[w].at = "armed" \/ workers[w].loose
    BY <2>1, ClicksCome
  <2>3. Passed(w, r)
    BY <2>2, ArmedAtCheckout DEF Passed, TripwirePoints
  <2> QED
    BY <2>3 DEF TripInv, TripwireHolds
<1>2. [](FleetInv /\ OwnInv /\ TripInv) /\ [][FleetNext]_fleetVars => [][Quiet]_fleetVars
  BY <1>1, PTL
<1>3. NoClickAfterAmbiguousDeath <=> [][Quiet]_fleetVars
  BY DEF NoClickAfterAmbiguousDeath
<1> HIDE DEF Quiet
<1> QED
  BY <1>2, <1>3, TripInvariant, PTL DEF FleetSpec

\* The truth rule, as far as it holds: with crashes, stalls, reordered beats and operators
\* at work, a clicked run that shows as failed was rejected by MILO or has been reaped
\* (which the tripwire remembers), provided that no stage times out.  A run that breaks
\* FailedMeansNotOrdered is therefore one the reaper or a timeout speaks for.
THEOREM FailuresAreTrue ==
  ASSUME ~StagesTimeOut
  PROVE  FleetSpec =>
           [](\A r \in Run : runs[r].status = "failed" /\ dispatched[r] > 0 =>
                r \in rejected \/ runs[r].failure = "LK_RUN_REAPED")
<1> DEFINE Truthful ==
      \A r \in Run : runs[r].status = "failed" /\ dispatched[r] > 0 =>
        r \in rejected \/ runs[r].failure = "LK_RUN_REAPED"
<1>1. FleetInv /\ TruthInv => Truthful
  BY DEF TruthInv, FailuresAreLast, FailureKnown, ReportedFailed, Reaped
<1> HIDE DEF Truthful
<1>2. FleetSpec => []Truthful
  BY <1>1, TruthInvariant, PTL
<1> QED
  BY <1>2 DEF Truthful
=============================================================================
