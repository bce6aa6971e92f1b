------------------------------ MODULE MCServices ------------------------------
(***************************************************************************)
(* The workers' services on small instances, in one state space: a run     *)
(* under a worker that crashes (WorkerFleet), the worker process, and its  *)
(* order sync loop.  They share no state, and each behaviour moves the one *)
(* its focus names, while the others stay where they began.                *)
(***************************************************************************)
EXTENDS MCWorkerFleet, WorkerProcess, OrderSyncLoop

VARIABLE focus

serviceVars == <<focus, fleetVars, workerVars, loopVars>>

\* Both switches off, as shipped, or both on.
MCEnvs == {[persist |-> b, api |-> b] : b \in BOOLEAN}

Focus(part) == focus = part

FleetMoves == Focus("fleet") /\ UNCHANGED <<focus, workerVars, loopVars>>
WorkerMoves == Focus("worker") /\ UNCHANGED <<focus, fleetVars, loopVars>>
LoopMoves == Focus("loop") /\ UNCHANGED <<focus, fleetVars, workerVars>>

MCInit ==
  /\ focus \in {"fleet", "worker", "loop"}
  /\ FleetInit
  /\ WorkerInit /\ (Focus("worker") \/ env.api)
  /\ SyncLoopInit /\ (Focus("loop") \/ everAsked = {})

MCNext ==
  \/ FleetMoves /\ FleetNext
  \/ WorkerMoves /\ WorkerNext
  \/ LoopMoves /\ SyncLoopNext

\* FairFleetSpec's fairness, WorkerFairness and SyncLoopFairness, of the part that moves.
\* Since one part moves, conditions of different parts can be stated as one; since there is
\* one worker and one slot, so can those of any worker and of any slot.
MCFairness ==
  /\ SF_serviceVars(\/ FleetMoves /\ \E w \in Worker : WorkerAdvances(w)
                    \/ WorkerMoves /\ ClaimRun
                    \/ LoopMoves /\ SyncSucceeds)
  /\ WF_serviceVars(\/ FleetMoves /\ \E c \in Slot : HandlerStep(c) \/ HandlerFails(c)
                    \/ WorkerMoves /\ WorkerGoesOn
                    \/ LoopMoves /\ MinutePasses)
  /\ \A r \in Run :
       /\ WF_fleetVars(Focus("fleet") /\ \E w \in Worker : PollReaps(w, r))
       /\ WF_fleetVars(Focus("fleet") /\ TimePasses(r))
  /\ WF_loopVars(Focus("loop") /\ (TickRequested \/ TickScheduled))
  /\ WF_loopVars(Focus("loop") /\ \E s \in Shop : PassOver(s) \/ BeginSync(s))
  /\ WF_loopVars(Focus("loop") /\ StoreSyncEnds)

\* The type invariants of the three parts, of the one that moves: rows, slots and workers;
\* the loop, its session and the browsers; the requests and the tick of the order sync.
ServicesTypeOK ==
  /\ Focus("fleet") => FleetTypeOK
  /\ Focus("worker") => WorkerTypeOK
  /\ Focus("loop") => SyncLoopTypeOK

MCSpec == MCInit /\ [][MCNext]_serviceVars /\ MCFairness
=============================================================================
