-------------------------- MODULE WorkerFleetProofs --------------------------
(***************************************************************************)
(* The Checkout click of a run is dispatched at most once: for any number  *)
(* of runs, workers and concurrent requests and any max_retries, with      *)
(* crashes, stalls, lost answers, reordered beats, stage timeouts and      *)
(* operator actions in any interleaving.                                   *)
(*                                                                         *)
(* The argument treats the right to drive a run as a token.  It lies in    *)
(* the row while the run is queued, in the claim's answer, with the worker *)
(* that drives, or in the write that will put the run back into the queue. *)
(* There is never a second one, and it is gone after the click.            *)
(***************************************************************************)
EXTENDS WorkerFleet, SequenceTheorems, TLAPS

-----------------------------------------------------------------------------
(* The table on its own, whatever the callers of its handlers do *)

\* What keeps the table's promises across every step.
TableInv ==
  /\ TypeOK
  /\ RetriesBounded
  /\ OneRunningPerStore
  /\ OneActivePerCart

-----------------------------------------------------------------------------
(* Rows and patches *)

\* The empty patch is a patch, and an idle request slot is a request slot.
LEMMA IdleTypes == NoPatch \in Patches /\ IdleCall \in Calls
  BY DEF NoPatch, Patches, IdleCall, Calls

\* The values that claim, reap and recover write are columns' values.
LEMMA ColumnValues ==
  /\ {"running", "failed", "canceled"} \subseteq ALLOWED_STATUSES \cup {NotCreated}
  /\ {"final", "LK_RUN_REAPED"} \subseteq FailureTypes
  /\ "other" \in Stages
  /\ 0 \in Ages
  BY DEF ALLOWED_STATUSES, ACTIVE_STATUSES, TERMINAL_STATUSES, FailureTypes, Stages, Ages,
         STALE_RUN_MINUTES

\* applyExecutionRunPatch yields a row.
LEMMA PatchedType ==
  ASSUME NEW row \in Rows, NEW p \in Patches
  PROVE  Patched(row, p) \in Rows
  BY KeepAssumption DEF Rows, Patches, Patched, OrKeep, Ages, STALE_RUN_MINUTES

\* updateExecutionRunStatus computes a patch, and never more retries than allowed.
LEMMA StatusPatchType ==
  ASSUME NEW row \in Rows, NEW rep \in StatusReports
  PROVE  /\ StatusPatch(row, rep) \in Patches
         /\ StatusPatch(row, rep).retries # Keep
              => StatusPatch(row, rep).retries <= MaxRetries
<1>1. /\ rep.status \in ALLOWED_STATUSES
      /\ rep.failure \in FailureTypes
      /\ rep.clicked \in BOOLEAN
  BY DEF StatusReports, FailureTypes
<1>2. row.retries \in Nat
  BY DEF Rows
<1>3. CASE rep.status = "failed" /\ ShouldRetry(row, rep)
  <2>1. StatusPatch(row, rep) = RetryPatch(row, rep)
    BY <1>3 DEF StatusPatch
  <2>2. RetryPatch(row, rep) \in Patches
    BY <1>1, <1>2 DEF RetryPatch, Patches, ALLOWED_STATUSES, ACTIVE_STATUSES, Stages
  <2>3. RetryPatch(row, rep).retries <= MaxRetries
    BY <1>2, <1>3, BoundAssumption DEF RetryPatch, ShouldRetry
  <2> QED
    BY <2>1, <2>2, <2>3
<1>4. CASE ~(rep.status = "failed" /\ ShouldRetry(row, rep))
  <2>1. /\ StatusPatch(row, rep) \in Patches
        /\ StatusPatch(row, rep).retries = Keep
    BY <1>1, <1>4
    DEF StatusPatch, NoPatch, Patches, ALLOWED_STATUSES, ACTIVE_STATUSES,
        TERMINAL_STATUSES, Stages, FailureTypes
  <2> QED
    BY <2>1
<1> QED
  BY <1>3, <1>4

\* The operator actions compute patches that leave the retries alone.
LEMMA OperatorPatchType ==
  ASSUME NEW row \in Rows, NEW action \in OPERATOR_ACTION
  PROVE  /\ OperatorPatch(row, action) \in Patches
         /\ OperatorPatch(row, action).retries = Keep
  BY DEF Rows, OperatorPatch, NoPatch, Patches, OPERATOR_ACTION, Stages,
         ALLOWED_STATUSES, ACTIVE_STATUSES, TERMINAL_STATUSES

\* A beat's patch leaves the retries alone.
LEMMA BeatPatchType ==
  ASSUME NEW stage \in Stages, NEW w \in Worker \cup {NoWorker, Keep}
  PROVE  /\ [NoPatch EXCEPT !.stage = stage, !.beat = TRUE, !.worker = w] \in Patches
         /\ [NoPatch EXCEPT !.stage = stage, !.beat = TRUE, !.worker = w].retries = Keep
  BY DEF NoPatch, Patches

-----------------------------------------------------------------------------
(* Steps *)

\* A handler that begins touches its own slot only.
LEMMA BeginKeepsInv ==
  ASSUME TableInv,
         NEW c \in Slot, NEW r \in Run, NEW p \in Patches,
         p.retries # Keep => p.retries <= MaxRetries,
         NEW close \in AttemptStatuses \cup {"none"},
         NEW w \in Worker \cup {NoWorker},
         Begin(c, r, p, close, w)
  PROVE  TableInv'
<1>1. runs' = runs /\ attempts' = attempts
  BY DEF Begin
<1>2. calls' = [calls EXCEPT ![c] =
        [phase |-> "write", run |-> r, patch |-> p, close |-> close, waiter |-> w]]
  BY DEF Begin
<1>3. [phase |-> "write", run |-> r, patch |-> p, close |-> close, waiter |-> w] \in Calls
  BY DEF Calls
<1>4. TypeOK'
  BY <1>1, <1>2, <1>3 DEF TableInv, TypeOK
<1>5. RetriesBounded'
  BY <1>1, <1>2 DEF TableInv, TypeOK, RetriesBounded
<1> QED
  BY <1>1, <1>4, <1>5 DEF TableInv, OneRunningPerStore, OneActivePerCart

\* A run that becomes or stays active where the indexes allow it keeps them
\* satisfied; so does one that ends.
LEMMA IndexesKept ==
  ASSUME TypeOK, OneRunningPerStore, OneActivePerCart,
         NEW r \in Run, NEW row \in Rows,
         runs' = [runs EXCEPT ![r] = row],
         IndexesAllow(r, row.status)
  PROVE  OneRunningPerStore' /\ OneActivePerCart'
<1>1. \A q \in Run : runs'[q] = IF q = r THEN row ELSE runs[q]
  BY DEF TypeOK
<1>2. OneRunningPerStore'
  BY <1>1 DEF OneRunningPerStore, IndexesAllow, StoreFree, OthersWith
<1>3. OneActivePerCart'
  BY <1>1 DEF OneActivePerCart, IndexesAllow, CartFree, OthersWith, ACTIVE_STATUSES
<1> QED
  BY <1>2, <1>3

\* A step that only replaces one row, by a well-typed one the indexes allow and
\* whose retries are bounded, and frees or advances one slot, keeps the invariant.
LEMMA RowReplaced ==
  ASSUME TableInv, TypeOK',
         NEW r \in Run, NEW row \in Rows,
         runs' = [runs EXCEPT ![r] = row],
         IndexesAllow(r, row.status),
         row.retries <= MaxRetries,
         \A c \in Slot : calls'[c] = calls[c] \/ calls'[c].patch = NoPatch
  PROVE  TableInv'
<1>1. OneRunningPerStore' /\ OneActivePerCart'
  BY IndexesKept DEF TableInv
<1>2. RetriesBounded'
  BY DEF TableInv, TypeOK, RetriesBounded, NoPatch
<1> QED
  BY <1>1, <1>2 DEF TableInv

\* The late UPDATE of a handler that read the row before.
LEMMA WriteKeepsInv ==
  ASSUME TableInv, NEW c \in Slot, Write(c)
  PROVE  TableInv'
<1> DEFINE k == calls[c]
           row == Patched(runs[k.run], k.patch)
<1>1. /\ k \in Calls
      /\ k.phase = "write"
      /\ k.run \in Run
      /\ k.patch \in Patches
  BY DEF TableInv, TypeOK, Write, Calls
<1>2. runs[k.run] \in Rows
  BY <1>1 DEF TableInv, TypeOK
<1>3. row \in Rows
  BY <1>1, <1>2, PatchedType
<1>4. runs' = [runs EXCEPT ![k.run] = row] /\ IndexesAllow(k.run, row.status)
  BY DEF Write
<1>5. row.retries <= MaxRetries
  BY <1>1, <1>2 DEF TableInv, RetriesBounded, Patched, OrKeep
<1>6. calls' = [calls EXCEPT ![c] =
        IF k.close = "none" THEN IdleCall
        ELSE [k EXCEPT !.phase = "close", !.patch = NoPatch]]
  BY DEF Write
<1>7. /\ IdleCall \in Calls
      /\ [k EXCEPT !.phase = "close", !.patch = NoPatch] \in Calls
  BY <1>1, IdleTypes DEF Calls
<1>8. TypeOK'
  <2>1. runs' \in [Run -> Rows]
    BY <1>3, <1>4 DEF TableInv, TypeOK
  <2>2. attempts' = attempts
    BY DEF Write
  <2>3. calls' \in [Slot -> Calls]
    BY <1>6, <1>7 DEF TableInv, TypeOK
  <2>4. \A d \in Slot : /\ calls'[d].phase # "idle" => calls'[d].run \in Run
                        /\ calls'[d].phase = "close" => calls'[d].close # "none"
    BY <1>1, <1>6 DEF TableInv, TypeOK, IdleCall, Calls
  <2> QED
    BY <2>1, <2>2, <2>3, <2>4 DEF TableInv, TypeOK
<1>9. \A d \in Slot : calls'[d] = calls[d] \/ calls'[d].patch = NoPatch
  BY <1>1, <1>6 DEF TableInv, TypeOK, IdleCall, Calls
<1> QED
  BY <1>1, <1>3, <1>4, <1>5, <1>8, <1>9, RowReplaced

\* A step that frees a slot, or moves on to inserting an attempt, and leaves the
\* rows alone.
LEMMA SlotFreed ==
  ASSUME TableInv, NEW c \in Slot, runs' = runs,
         attempts' \in [Run -> Seq(AttemptStatuses)],
         calls' = [calls EXCEPT ![c] = IdleCall]
  PROVE  TableInv'
<1>1. TypeOK'
  BY IdleTypes DEF TableInv, TypeOK, IdleCall
<1>2. RetriesBounded'
  BY DEF TableInv, TypeOK, RetriesBounded, IdleCall, NoPatch
<1> QED
  BY <1>1, <1>2 DEF TableInv, OneRunningPerStore, OneActivePerCart

\* The attempt that is closed is given the status the handler decided.
LEMMA CloseAttemptKeepsInv ==
  ASSUME TableInv, NEW c \in Slot, CloseAttempt(c)
  PROVE  TableInv'
<1> DEFINE k == calls[c]
<1>1. k.run \in Run /\ k.close \in AttemptStatuses
  BY DEF CloseAttempt, TableInv, TypeOK, Calls
<1>2. attempts[k.run] \in Seq(AttemptStatuses)
  BY <1>1 DEF TableInv, TypeOK
<1>3. attempts' \in [Run -> Seq(AttemptStatuses)]
  <2>1. CASE attempts' = attempts
    BY <2>1 DEF TableInv, TypeOK
  <2>2. CASE \E n \in DOMAIN attempts[k.run] :
               attempts' = [attempts EXCEPT ![k.run][n] = k.close]
    <3>1. PICK n \in DOMAIN attempts[k.run] :
                 attempts' = [attempts EXCEPT ![k.run][n] = k.close]
      BY <2>2
    <3>2. [attempts[k.run] EXCEPT ![n] = k.close] \in Seq(AttemptStatuses)
      BY <1>1, <1>2, ExceptSeq
    <3>3. attempts' = [attempts EXCEPT ![k.run] = [attempts[k.run] EXCEPT ![n] = k.close]]
      BY <3>1, <1>1 DEF TableInv, TypeOK
    <3> QED
      BY <3>2, <3>3, <1>1 DEF TableInv, TypeOK
  <2> QED
    BY <2>1, <2>2 DEF CloseAttempt
<1>4. runs' = runs /\ calls' = [calls EXCEPT ![c] = IdleCall]
  BY DEF CloseAttempt
<1> QED
  BY <1>3, <1>4, SlotFreed

\* The claim's attempt row is appended after the run row is already running.
LEMMA InsertAttemptKeepsInv ==
  ASSUME TableInv, NEW c \in Slot, InsertAttempt(c)
  PROVE  TableInv'
<1> DEFINE r == calls[c].run
<1>1. r \in Run
  BY DEF InsertAttempt, TableInv, TypeOK
<1>2. attempts' = [attempts EXCEPT ![r] = Append(attempts[r], "running")]
  BY <1>1 DEF InsertAttempt, TableInv, TypeOK
<1>3. Append(attempts[r], "running") \in Seq(AttemptStatuses)
  BY <1>1 DEF TableInv, TypeOK, AttemptStatuses
<1>4. attempts' \in [Run -> Seq(AttemptStatuses)]
  BY <1>1, <1>2, <1>3 DEF TableInv, TypeOK
<1>5. runs' = runs /\ calls' = [calls EXCEPT ![c] = IdleCall]
  BY DEF InsertAttempt
<1> QED
  BY <1>4, <1>5, SlotFreed

\* claim-next is one conditional UPDATE, guarded by both indexes.
LEMMA ClaimKeepsInv ==
  ASSUME TableInv, NEW c \in Slot, NEW r \in Run, NEW w \in Worker, Claim(c, r, w)
  PROVE  TableInv'
<1> DEFINE row == [runs[r] EXCEPT !.status = "running", !.stage = "other",
                                  !.worker = w, !.age = 0]
           call == [phase |-> "insert", run |-> r, patch |-> NoPatch,
                    close |-> "none", waiter |-> w]
<1>1. runs[r] \in Rows
  BY DEF TableInv, TypeOK
<1>2. row \in Rows /\ row.status = "running" /\ row.retries = runs[r].retries
  BY <1>1, ColumnValues DEF Rows
<1>3. /\ runs' = [runs EXCEPT ![r] = row]
      /\ calls' = [calls EXCEPT ![c] = call]
      /\ attempts' = attempts
      /\ IndexesAllow(r, "running")
  BY DEF Claim, TableInv, TypeOK
<1>4. call \in Calls
  BY IdleTypes DEF Calls
<1>5. TypeOK'
  BY <1>2, <1>3, <1>4 DEF TableInv, TypeOK
<1>6. \A d \in Slot : calls'[d] = calls[d] \/ calls'[d].patch = NoPatch
  BY <1>3 DEF TableInv, TypeOK
<1>7. row.retries <= MaxRetries
  BY <1>2 DEF TableInv, RetriesBounded
<1> QED
  BY <1>2, <1>3, <1>5, <1>6, <1>7, RowReplaced

\* A run that is created, reaped, recovered, or whose heartbeat ages.
LEMMA RowStepKeepsInv ==
  ASSUME TableInv, NEW r \in Run,
         CreateRun(r) \/ Reap(r) \/ Recover(r) \/ HeartbeatAges(r)
  PROVE  TableInv'
<1>1. runs[r] \in Rows
  BY DEF TableInv, TypeOK
<1>2. attempts' = attempts /\ calls' = calls
  BY DEF CreateRun, Reap, Recover, HeartbeatAges
<1>3. SUFFICES ASSUME NEW row \in Rows,
                      runs' = [runs EXCEPT ![r] = row],
                      IndexesAllow(r, row.status),
                      row.retries = runs[r].retries
               PROVE  TableInv'
  <2>1. CASE CreateRun(r)
    BY <2>1, <1>1, <1>3
    DEF CreateRun, Rows, ALLOWED_STATUSES, ACTIVE_STATUSES, IndexesAllow, TableInv, TypeOK
  <2>2. CASE Reap(r)
    <3> DEFINE row == [runs[r] EXCEPT !.status = "failed", !.failure = "LK_RUN_REAPED",
                                      !.clicked = FALSE, !.age = 0]
    <3>1. row \in Rows /\ row.status = "failed" /\ row.retries = runs[r].retries
      BY <1>1, ColumnValues DEF Rows
    <3>2. runs' = [runs EXCEPT ![r] = row]
      BY <2>2 DEF Reap, TableInv, TypeOK
    <3>3. IndexesAllow(r, "failed")
      BY DEF IndexesAllow, ACTIVE_STATUSES
    <3> QED
      BY <3>1, <3>2, <3>3, <1>3
  <2>3. CASE Recover(r)
    <3> DEFINE row == [runs[r] EXCEPT !.status = "canceled", !.failure = "final",
                                      !.clicked = FALSE, !.age = 0]
    <3>1. row \in Rows /\ row.status = "canceled" /\ row.retries = runs[r].retries
      BY <1>1, ColumnValues DEF Rows
    <3>2. runs' = [runs EXCEPT ![r] = row]
      BY <2>3 DEF Recover, TableInv, TypeOK
    <3>3. IndexesAllow(r, "canceled")
      BY DEF IndexesAllow, ACTIVE_STATUSES
    <3> QED
      BY <3>1, <3>2, <3>3, <1>3
  <2>4. CASE HeartbeatAges(r)
    <3> DEFINE row == [runs[r] EXCEPT !.age = runs[r].age + 1]
    <3>1. row \in Rows /\ row.status = "running" /\ row.retries = runs[r].retries
      BY <2>4, <1>1 DEF HeartbeatAges, Rows, Ages, STALE_RUN_MINUTES
    <3>2. runs' = [runs EXCEPT ![r] = row]
      BY <2>4 DEF HeartbeatAges, TableInv, TypeOK
    <3>3. IndexesAllow(r, "running")
      BY <2>4
      DEF HeartbeatAges, IndexesAllow, CartFree, StoreFree, OthersWith, TableInv,
          OneRunningPerStore, OneActivePerCart, ACTIVE_STATUSES
    <3> QED
      BY <3>1, <3>2, <3>3, <1>3
  <2> QED
    BY <2>1, <2>2, <2>3, <2>4
<1>4. TypeOK'
  BY <1>2, <1>3 DEF TableInv, TypeOK
<1>5. row.retries <= MaxRetries
  BY <1>3 DEF TableInv, RetriesBounded
<1> QED
  BY <1>2, <1>3, <1>4, <1>5, RowReplaced

\* Whatever a caller asks for.
LEMMA CallerKeepsInv ==
  ASSUME TableInv, NEW c \in Slot, NEW r \in Run, CallerSteps(c, r)
  PROVE  TableInv'
<1>1. runs[r] \in Rows
  BY DEF TableInv, TypeOK
<1>2. ASSUME NEW rep \in StatusReports, BeginStatusUpdate(c, r, rep, NoWorker)
      PROVE  TableInv'
  <2>1. ClosedBy(rep.status) \in AttemptStatuses \cup {"none"}
    BY DEF ClosedBy, AttemptStatuses
  <2> QED
    BY <1>1, <1>2, <2>1, StatusPatchType, BeginKeepsInv DEF BeginStatusUpdate
<1>3. ASSUME NEW action \in OPERATOR_ACTION, BeginOperatorAction(c, r, action)
      PROVE  TableInv'
  BY <1>1, <1>3, OperatorPatchType, BeginKeepsInv DEF BeginOperatorAction, AttemptStatuses
<1>4. ASSUME NEW w \in Worker, NEW stage \in Stages,
             BeginHeartbeat(c, r, w, stage, NoWorker)
      PROVE  TableInv'
  BY <1>4, BeatPatchType, BeginKeepsInv DEF BeginHeartbeat
<1>5. ASSUME NEW w \in Worker, Claim(c, r, w)
      PROVE  TableInv'
  BY <1>5, ClaimKeepsInv
<1> QED
  BY <1>2, <1>3, <1>4, <1>5 DEF CallerSteps

-----------------------------------------------------------------------------
(* The table's theorems *)

\* Before any run exists the invariant holds.
LEMMA InitInv == Init => TableInv
<1> SUFFICES ASSUME Init PROVE TableInv
  OBVIOUS
<1>1. InitialRow \in Rows
  BY DEF InitialRow, Rows, Stages, FailureTypes, Ages, STALE_RUN_MINUTES
<1>2. TypeOK
  BY <1>1, IdleTypes DEF Init, TypeOK, IdleCall
<1>3. RetriesBounded
  BY BoundAssumption DEF Init, RetriesBounded, InitialRow, IdleCall, NoPatch
<1> QED
  BY <1>2, <1>3
  DEF Init, TableInv, OneRunningPerStore, OneActivePerCart, InitialRow, NotCreated,
      ACTIVE_STATUSES

\* Every step of callers, handlers and the clock keeps the invariant.
LEMMA NextKeepsInv == TableInv /\ [Next]_runVars => TableInv'
<1> SUFFICES ASSUME TableInv, [Next]_runVars PROVE TableInv'
  OBVIOUS
<1>1. CASE UNCHANGED runVars
  BY <1>1
  DEF runVars, TableInv, TypeOK, RetriesBounded, OneRunningPerStore, OneActivePerCart
<1>2. ASSUME NEW r \in Run, CreateRun(r) \/ ClockSteps(r) PROVE TableInv'
  BY <1>2, RowStepKeepsInv DEF ClockSteps
<1>3. ASSUME NEW c \in Slot, NEW r \in Run, CallerSteps(c, r) PROVE TableInv'
  BY <1>3, CallerKeepsInv
<1>4. ASSUME NEW c \in Slot, HandlerSteps(c) PROVE TableInv'
  <2>1. CASE FailCall(c)
    BY <2>1, SlotFreed DEF FailCall, TableInv, TypeOK
  <2> QED
    BY <1>4, <2>1, WriteKeepsInv, CloseAttemptKeepsInv, InsertAttemptKeepsInv
    DEF HandlerSteps
<1> QED
  BY <1>1, <1>2, <1>3, <1>4 DEF Next

\* The inductive invariant holds in every reachable state of the table.
LEMMA TableInvariant == Spec => []TableInv
  BY InitInv, NextKeepsInv, PTL DEF Spec

\* Every handler, in any interleaving, keeps the tables well-formed.
THEOREM TypeCorrect == Spec => []TypeOK
<1>1. TableInv => TypeOK
  BY DEF TableInv
<1> QED
  BY <1>1, TableInvariant, PTL

\* retry_count never exceeds max_retries, whoever races with whom.
THEOREM RetriesStayBounded == Spec => []RetriesBounded
<1>1. TableInv => RetriesBounded
  BY DEF TableInv
<1> QED
  BY <1>1, TableInvariant, PTL

\* No path, the writes of handlers that read an old row included, leaves one
\* store with two running runs.
THEOREM StoresRunOneAtATime == Spec => []OneRunningPerStore
<1>1. TableInv => OneRunningPerStore
  BY DEF TableInv
<1> QED
  BY <1>1, TableInvariant, PTL

\* No path gives one cart two active runs.
THEOREM CartsHaveOneActiveRun == Spec => []OneActivePerCart
<1>1. TableInv => OneActivePerCart
  BY DEF TableInv
<1> QED
  BY <1>1, TableInvariant, PTL

-----------------------------------------------------------------------------
(* The token *)

Queued(r) == runs[r].status = "queued"
Requeues(c, r) == calls[c].run = r /\ calls[c].patch.status = "queued"
HandsOver(c, r) == calls[c].phase = "insert" /\ calls[c].run = r /\ calls[c].waiter \in Worker

OneToken ==
  \A r \in Run :
    /\ Queued(r) => \A c \in Slot : ~Requeues(c, r) /\ ~HandsOver(c, r)
    /\ Queued(r) => \A w \in Worker : ~InHand(w, r)
    /\ \A c, d \in Slot : Requeues(c, r) => ~HandsOver(d, r)
    /\ \A c, d \in Slot : Requeues(c, r) /\ Requeues(d, r) => c = d
    /\ \A c, d \in Slot : HandsOver(c, r) /\ HandsOver(d, r) => c = d
    /\ \A c \in Slot, w \in Worker : Requeues(c, r) \/ HandsOver(c, r) => ~InHand(w, r)
    /\ \A v, w \in Worker : InHand(v, r) /\ InHand(w, r) => v = w

\* Points from which a worker clicks unless something stops it.
BeforeClick == {"working", "adding", "entering", "validating", "cleared", "arming", "armed"}

\* A worker that may still click.
MayClick(w, r) ==
  workers[w].run = r
    /\ (workers[w].at \in BeforeClick \/ workers[w].loose)

TokenGoneAfterClick ==
  \A r \in Run :
    /\ dispatched[r] \in {0, 1}
    /\ dispatched[r] > 0 =>
         /\ ~Queued(r)
         /\ \A c \in Slot : ~Requeues(c, r) /\ ~HandsOver(c, r)
         /\ \A w \in Worker : ~MayClick(w, r)

-----------------------------------------------------------------------------
(* What the token's argument needs of requests, workers and rows *)

\* A slot that serves nothing is empty, and a patch is there only to be written.
SlotsTidy ==
  \A c \in Slot :
    /\ calls[c].phase = "idle" => calls[c] = IdleCall
    /\ calls[c].phase # "write" => calls[c].patch = NoPatch

\* Nothing refers to a run that does not exist yet.
NothingBeforeCreation ==
  \A r \in Run : ~Created(r) =>
    /\ dispatched[r] = 0
    /\ \A c \in Slot : calls[c].run # r
    /\ \A w \in Worker : workers[w].run # r

\* A worker waits for one answer, and for one that fits the point it is at.
AnswersFit ==
  \A c \in Slot, w \in Worker : calls[c].waiter = w =>
    /\ \/ calls[c].phase = "insert" /\ workers[w].at = "claiming"
       \/ /\ calls[c].phase \in {"write", "close"}
          /\ workers[w].at \in {"entering", "arming", "reporting"}
          /\ workers[w].run = calls[c].run
    /\ \A d \in Slot : calls[d].waiter = w => d = c

\* What a worker's point says about the click.
PointsTell ==
  \A w \in Worker :
    /\ workers[w].loose => workers[w].at \in {"expired", "reporting"} /\ ~workers[w].again
    /\ workers[w].stray => workers[w].at = "reporting" /\ ~workers[w].loose /\ ~workers[w].again
    /\ workers[w].again => workers[w].at = "reporting"
    /\ \/ workers[w].at \in {"clicked", "settling"}
       \/ workers[w].again
       \/ workers[w].at = "expired" /\ ~workers[w].loose
       => dispatched[workers[w].run] > 0

\* Nobody attests a click that was not dispatched.
AttestedMeansDispatched ==
  /\ \A r \in Run : runs[r].clicked => dispatched[r] > 0
  /\ \A c \in Slot : calls[c].patch.clicked = TRUE => dispatched[calls[c].run] > 0

\* A retryable failure is final only when the retries are used up.
RetriesUsedUp ==
  /\ \A r \in Run : runs[r].status = "failed" /\ runs[r].failure = "retryable"
       => runs[r].retries >= MaxRetries
  /\ \A c \in Slot :
       LET p == calls[c].patch
           row == runs[calls[c].run]
       IN /\ p.status = "queued" => p.retries = row.retries + 1
          /\ p.retries # Keep => p.status = "queued"
          /\ p.status = "failed" => p.failure # Keep
          /\ p.failure = "retryable" =>
               \/ p.status = "queued"
               \/ p.status = "failed" /\ row.retries >= MaxRetries

FleetInv ==
  /\ FleetTypeOK
  /\ TableInv
  /\ OneToken
  /\ TokenGoneAfterClick
  /\ SlotsTidy
  /\ NothingBeforeCreation
  /\ AnswersFit
  /\ PointsTell
  /\ AttestedMeansDispatched
  /\ RetriesUsedUp

-----------------------------------------------------------------------------
(* Types *)

\* What the type invariant says of one request, one worker and one row.
LEMMA Shapes ==
  ASSUME FleetInv
  PROVE  /\ \A r \in Run : runs[r] \in Rows
         /\ \A c \in Slot :
              /\ calls[c] \in Calls
              /\ calls[c].phase \in {"idle", "write", "close", "insert"}
              /\ calls[c].run \in Run \cup {NoRun}
              /\ calls[c].phase # "idle" => calls[c].run \in Run
              /\ calls[c].patch \in Patches
              /\ calls[c].waiter \in Worker \cup {NoWorker}
         /\ \A w \in Worker :
              /\ workers[w] \in WorkerStates
              /\ workers[w].at \in Points
              /\ workers[w].run \in Run \cup {NoRun}
              /\ workers[w].run = NoRun <=> workers[w].at \in {"idle", "claiming"}
              /\ workers[w].loose \in BOOLEAN
              /\ workers[w].stray \in BOOLEAN
              /\ workers[w].again \in BOOLEAN
         /\ \A r \in Run : dispatched[r] \in Nat
<1>1. \A r \in Run : runs[r] \in Rows
  BY DEF FleetInv, FleetTypeOK, TypeOK
<1>2. \A c \in Slot : calls[c] \in Calls /\ (calls[c].phase # "idle" => calls[c].run \in Run)
  BY DEF FleetInv, FleetTypeOK, TypeOK
<1>3. \A k \in Calls :
        /\ k.phase \in {"idle", "write", "close", "insert"}
        /\ k.run \in Run \cup {NoRun}
        /\ k.patch \in Patches
        /\ k.waiter \in Worker \cup {NoWorker}
  BY DEF Calls
<1>4. \A w \in Worker :
        /\ workers[w] \in WorkerStates
        /\ workers[w].run = NoRun <=> workers[w].at \in {"idle", "claiming"}
  BY DEF FleetInv, FleetTypeOK
<1>5. \A s \in WorkerStates :
        /\ s.at \in Points /\ s.run \in Run \cup {NoRun}
        /\ s.loose \in BOOLEAN /\ s.stray \in BOOLEAN /\ s.again \in BOOLEAN
  BY DEF WorkerStates
<1>6. \A r \in Run : dispatched[r] \in Nat
  BY DEF FleetInv, FleetTypeOK
<1> QED
  BY <1>1, <1>2, <1>3, <1>4, <1>5, <1>6

\* Runs that exist, exist for good reasons: somebody serves or works on them.
LEMMA OnlyCreatedRuns ==
  ASSUME FleetInv
  PROVE  /\ \A c \in Slot : calls[c].run \in Run => Created(calls[c].run)
         /\ \A w \in Worker : workers[w].run \in Run => Created(workers[w].run)
  BY DEF FleetInv, NothingBeforeCreation

\* No request works for a worker that is not waiting.
LEMMA NobodyWaits ==
  ASSUME FleetInv, NEW w \in Worker,
         workers[w].at \notin {"claiming", "entering", "arming", "reporting"}
  PROVE  \A c \in Slot : calls[c].waiter # w
  BY DEF FleetInv, AnswersFit

\* No run has a token it did not have before.
TokensOnlyVanish ==
  \A r \in Run :
    /\ Queued(r)' => Queued(r)
    /\ \A c \in Slot : Requeues(c, r)' => Requeues(c, r)
    /\ \A c \in Slot : HandsOver(c, r)' => HandsOver(c, r)
    /\ \A w \in Worker : InHand(w, r)' => InHand(w, r)
    /\ \A w \in Worker : MayClick(w, r)' => MayClick(w, r)

\* Such a step keeps the token unique, and gone where it was gone.
LEMMA TokensVanish ==
  ASSUME FleetInv, dispatched' = dispatched, TokensOnlyVanish
  PROVE  OneToken' /\ TokenGoneAfterClick'
<1>1. OneToken'
  BY DEF FleetInv, OneToken, TokensOnlyVanish
<1>2. TokenGoneAfterClick'
  BY DEF FleetInv, TokenGoneAfterClick, TokensOnlyVanish
<1> QED
  BY <1>1, <1>2

\* The empty patch mentions no column.
LEMMA NoPatchKeeps ==
  /\ NoPatch.status = Keep
  /\ NoPatch.retries = Keep
  /\ NoPatch.failure = Keep
  /\ NoPatch.clicked = Keep
  /\ Keep \notin {"queued", "failed", "retryable", TRUE}
<1>1. Keep # TRUE
  BY KeepAssumption, Zenon
<1>2. Keep \notin {"queued", "failed", "retryable"}
  BY KeepAssumption DEF ALLOWED_STATUSES, ACTIVE_STATUSES, TERMINAL_STATUSES, FailureTypes
<1> QED
  BY <1>1, <1>2 DEF NoPatch

\* What a worker's record looks like after it moved.
LEMMA WorkerRecords ==
  ASSUME NEW s \in WorkerStates
  PROVE  /\ IdleWorker \in WorkerStates
         /\ \A a \in Points :
              /\ [s EXCEPT !.at = a] \in WorkerStates
              /\ [s EXCEPT !.at = a].at = a
              /\ [s EXCEPT !.at = a].run = s.run
              /\ [s EXCEPT !.at = a].loose = s.loose
              /\ [s EXCEPT !.at = a].stray = s.stray
              /\ [s EXCEPT !.at = a].again = s.again
  BY DEF WorkerStates, IdleWorker, Points

\* The same of a worker of the fleet.
LEMMA PointChanged ==
  ASSUME FleetInv, NEW w \in Worker, NEW a \in Points
  PROVE  /\ [workers[w] EXCEPT !.at = a] \in WorkerStates
         /\ [workers[w] EXCEPT !.at = a].at = a
         /\ [workers[w] EXCEPT !.at = a].run = workers[w].run
         /\ [workers[w] EXCEPT !.at = a].loose = workers[w].loose
         /\ [workers[w] EXCEPT !.at = a].stray = workers[w].stray
         /\ [workers[w] EXCEPT !.at = a].again = workers[w].again
<1>1. workers[w] \in WorkerStates
  BY DEF FleetInv, FleetTypeOK
<1> QED
  BY <1>1, WorkerRecords

\* The points workers move to.
LEMMA PointsMovedTo ==
  {"claiming", "adding", "entering", "validating", "cleared", "arming", "armed", "clicked",
   "reporting"} \subseteq Points
  BY DEF Points

-----------------------------------------------------------------------------
(* Steps that create no token *)

\* A run keeps its row, or gets one that is neither queued nor a retryable failure.
RunEndsOrStays(r) ==
  \/ runs'[r] = runs[r]
  \/ /\ Created(r) /\ Created(r)'
     /\ runs'[r].status # "queued"
     /\ runs'[r].retries = runs[r].retries
     /\ runs'[r].clicked => runs[r].clicked
     /\ runs'[r].status = "failed" => runs'[r].failure # "retryable"

\* A request goes on, ends, or loses the worker that waited for it.
RequestEndsOrStays(c) ==
  \/ calls'[c] = calls[c]
  \/ calls'[c] = IdleCall
  \/ calls'[c] = [calls[c] EXCEPT !.waiter = NoWorker]

\* A worker waits for nothing any more, has not come closer to its click than it
\* was, and is where PointsTell lets it be.
WorkerStepsBack(w) ==
  /\ \A c \in Slot : calls'[c].waiter # w
  /\ workers'[w].run \in {workers[w].run, NoRun}
  /\ workers'[w].at \in DrivingPoints => workers[w].at \in DrivingPoints
  /\ workers'[w].at \in BeforeClick => workers[w].at \in BeforeClick
  /\ workers'[w].loose =>
       /\ workers[w].loose \/ workers[w].at = "armed"
       /\ workers'[w].at \in {"expired", "reporting"}
       /\ ~workers'[w].again
  /\ ~workers'[w].stray
  /\ workers'[w].again => workers'[w].at = "reporting"
  /\ \/ workers'[w].at \in {"clicked", "settling"}
     \/ workers'[w].again
     \/ workers'[w].at = "expired" /\ ~workers'[w].loose
     => dispatched[workers'[w].run] > 0

\* Such a worker gains no right to drive or to click.
LEMMA NoCloserToClick ==
  ASSUME NEW w \in Worker, NEW r \in Run,
         workers'[w] = workers[w] \/ WorkerStepsBack(w)
  PROVE  /\ InHand(w, r)' => InHand(w, r)
         /\ MayClick(w, r)' => MayClick(w, r)
<1>1. CASE workers'[w] = workers[w]
  BY <1>1 DEF InHand, MayClick
<1>2. CASE WorkerStepsBack(w)
  <2>1. workers'[w].run = r => workers[w].run = r
    BY <1>2, RunAssumption DEF WorkerStepsBack
  <2>2. InHand(w, r)' => InHand(w, r)
    BY <1>2, <2>1 DEF WorkerStepsBack, InHand, DrivingPoints
  <2>3. MayClick(w, r)' => MayClick(w, r)
    BY <1>2, <2>1 DEF WorkerStepsBack, MayClick, BeforeClick
  <2> QED
    BY <2>2, <2>3
<1> QED
  BY <1>1, <1>2

\* Retries are left alone: no new retryable failure, and no patch that was not there.
LEMMA RetriesLeftAlone ==
  ASSUME FleetInv,
         \A r \in Run : runs'[r].status = "failed" /\ runs'[r].failure = "retryable"
           => /\ runs[r].status = "failed" /\ runs[r].failure = "retryable"
              /\ runs'[r].retries = runs[r].retries,
         \A c \in Slot :
           \/ calls'[c].patch = NoPatch
           \/ /\ calls'[c].patch = calls[c].patch
              /\ runs'[calls'[c].run].retries = runs[calls[c].run].retries
  PROVE  RetriesUsedUp'
<1>1. \A r \in Run : runs'[r].status = "failed" /\ runs'[r].failure = "retryable"
        => runs'[r].retries >= MaxRetries
  BY DEF FleetInv, RetriesUsedUp
<1>2. ASSUME NEW c \in Slot
      PROVE  LET p == calls'[c].patch
                 row == runs'[calls'[c].run]
             IN /\ p.status = "queued" => p.retries = row.retries + 1
                /\ p.retries # Keep => p.status = "queued"
                /\ p.status = "failed" => p.failure # Keep
                /\ p.failure = "retryable" =>
                     \/ p.status = "queued"
                     \/ p.status = "failed" /\ row.retries >= MaxRetries
  <2>1. CASE calls'[c].patch = NoPatch
    BY <2>1, NoPatchKeeps
  <2>2. CASE calls'[c].patch # NoPatch
    BY <2>2 DEF FleetInv, RetriesUsedUp
  <2> QED
    BY <2>1, <2>2
<1> QED
  BY <1>1, <1>2 DEF RetriesUsedUp

\* If nobody gains a token and what the new points tell is true, the invariant
\* survives.
LEMMA NobodyGains ==
  ASSUME FleetInv, FleetTypeOK', TableInv', dispatched' = dispatched,
         \A r \in Run : RunEndsOrStays(r),
         \A c \in Slot : RequestEndsOrStays(c),
         \A w \in Worker : workers'[w] = workers[w] \/ WorkerStepsBack(w)
  PROVE  FleetInv'
<1>1. \A c \in Slot :
        /\ calls'[c].patch \in {calls[c].patch, NoPatch}
        /\ calls'[c].run \in {calls[c].run, NoRun}
        /\ calls'[c].phase \in {calls[c].phase, "idle"}
        /\ calls'[c].phase = "idle" => calls'[c] = IdleCall
        /\ calls'[c].patch # NoPatch => calls'[c].patch = calls[c].patch /\ calls'[c].run = calls[c].run
        /\ calls'[c].waiter \in {calls[c].waiter, NoWorker}
        /\ calls'[c].waiter \in Worker => calls'[c] = calls[c]
  <2> SUFFICES ASSUME NEW c \in Slot
               PROVE  /\ calls'[c].patch \in {calls[c].patch, NoPatch}
                      /\ calls'[c].run \in {calls[c].run, NoRun}
                      /\ calls'[c].phase \in {calls[c].phase, "idle"}
                      /\ calls'[c].phase = "idle" => calls'[c] = IdleCall
                      /\ calls'[c].patch # NoPatch
                           => calls'[c].patch = calls[c].patch /\ calls'[c].run = calls[c].run
                      /\ calls'[c].waiter \in {calls[c].waiter, NoWorker}
                      /\ calls'[c].waiter \in Worker => calls'[c] = calls[c]
    OBVIOUS
  <2>1. CASE calls'[c] = IdleCall
    BY <2>1, RunAssumption DEF IdleCall
  <2>2. CASE calls'[c] = calls[c]
    BY <2>2 DEF FleetInv, SlotsTidy
  <2>3. CASE calls'[c] = [calls[c] EXCEPT !.waiter = NoWorker]
    <3>1. calls[c] \in Calls
      BY Shapes
    <3>2. /\ calls'[c].patch = calls[c].patch
          /\ calls'[c].run = calls[c].run
          /\ calls'[c].phase = calls[c].phase
          /\ calls'[c].waiter = NoWorker
      BY <2>3, <3>1 DEF Calls
    <3>3. calls'[c].phase = "idle" => calls'[c] = IdleCall
      BY <2>3, <3>2 DEF FleetInv, SlotsTidy, IdleCall
    <3> QED
      BY <3>2, <3>3, RunAssumption
  <2> QED
    BY <2>1, <2>2, <2>3 DEF RequestEndsOrStays
<1>2. \A r \in Run :
        /\ Created(r)' <=> Created(r)
        /\ Queued(r)' => Queued(r)
        /\ runs'[r].retries = runs[r].retries
        /\ runs'[r].clicked => runs[r].clicked
        /\ runs'[r].status = "failed" /\ runs'[r].failure = "retryable"
             => runs[r].status = "failed" /\ runs[r].failure = "retryable"
  BY DEF RunEndsOrStays, Created, Queued
<1>3. \A c \in Slot, r \in Run :
        /\ Requeues(c, r)' => Requeues(c, r)
        /\ HandsOver(c, r)' => HandsOver(c, r)
  BY <1>1, NoPatchKeeps DEF Requeues, HandsOver
<1>4. \A w \in Worker, r \in Run :
        /\ InHand(w, r)' => InHand(w, r)
        /\ MayClick(w, r)' => MayClick(w, r)
  BY NoCloserToClick
<1>5. OneToken' /\ TokenGoneAfterClick'
  <2>1. TokensOnlyVanish
    BY <1>2, <1>3, <1>4 DEF TokensOnlyVanish
  <2> QED
    BY <2>1, TokensVanish
<1>6. SlotsTidy'
  BY <1>1 DEF FleetInv, SlotsTidy, IdleCall
<1>7. NothingBeforeCreation'
  BY <1>1, <1>2, RunAssumption DEF FleetInv, NothingBeforeCreation, WorkerStepsBack, Created
<1>8. AnswersFit'
  BY <1>1 DEF FleetInv, AnswersFit, WorkerStepsBack
<1>9. PointsTell'
  BY DEF FleetInv, PointsTell, WorkerStepsBack
<1>10. AttestedMeansDispatched'
  BY <1>1, <1>2, NoPatchKeeps DEF FleetInv, AttestedMeansDispatched
<1>11. RetriesUsedUp'
  <2>1. \A c \in Slot : calls'[c].patch # NoPatch =>
          /\ calls'[c].patch = calls[c].patch
          /\ runs'[calls'[c].run].retries = runs[calls[c].run].retries
    BY <1>1, <1>2, Shapes DEF FleetInv, SlotsTidy
  <2> QED
    BY <2>1, <1>2, RetriesLeftAlone
<1> QED
  BY <1>5, <1>6, <1>7, <1>8, <1>9, <1>10, <1>11 DEF FleetInv

-----------------------------------------------------------------------------
(* Requests *)

\* What a patch may ask for, given the row it was computed from.
SoundPatch(r, p) ==
  /\ p.status = "queued" => p.retries = runs[r].retries + 1
  /\ p.retries # Keep => p.status = "queued" /\ p.retries <= MaxRetries
  /\ p.status = "failed" => p.failure # Keep
  /\ p.failure = "retryable" =>
       \/ p.status = "queued"
       \/ p.status = "failed" /\ runs[r].retries >= MaxRetries
  /\ p.clicked = TRUE => dispatched[r] > 0

\* A worker starts to wait for the answer of a request about its run.
WorkerWaits(w, r) ==
  /\ \A d \in Slot : calls[d].waiter # w
  /\ workers[w].run = r /\ workers'[w].run = r
  /\ \/ workers'[w].at \in {"entering", "arming"} /\ workers[w].at \in BeforeClick
     \/ workers'[w].at = "reporting"
  /\ workers'[w].loose => workers[w].loose /\ workers'[w].at = "reporting" /\ ~workers'[w].again
  /\ workers'[w].stray =>
       workers'[w].at = "reporting" /\ ~workers'[w].loose /\ ~workers'[w].again
  /\ workers'[w].again => workers'[w].at = "reporting" /\ dispatched[r] > 0

\* The worker that drove the run lays the token into the request.
TokenLaidDown(r) ==
  /\ dispatched[r] = 0
  /\ \E v \in Worker : InHand(v, r)
  /\ \A v \in Worker : ~InHand(v, r)'

\* A request whose patch is sound begins; if it re-queues the run, the token goes
\* from the worker that drove the run into the patch.
LEMMA RequestBegins ==
  ASSUME FleetInv, FleetTypeOK', TableInv', dispatched' = dispatched,
         NEW c \in Slot, NEW r \in Run, NEW p, NEW close,
         NEW w \in Worker \cup {NoWorker},
         Begin(c, r, p, close, w), Created(r), SoundPatch(r, p),
         p.status = "queued" => TokenLaidDown(r),
         \A v \in Worker : v # w => workers'[v] = workers[v],
         w \in Worker => WorkerWaits(w, r)
  PROVE  FleetInv'
<1>1. /\ runs' = runs
      /\ \A d \in Slot : d # c => calls'[d] = calls[d]
      /\ calls'[c] = [phase |-> "write", run |-> r, patch |-> p, close |-> close, waiter |-> w]
  BY DEF Begin, FleetInv, FleetTypeOK, TypeOK
<1>2. /\ calls'[c].phase = "write"
      /\ calls'[c].run = r
      /\ calls'[c].patch = p
      /\ calls'[c].waiter = w
  BY <1>1
<1>3. /\ calls[c].patch = NoPatch
      /\ calls[c].phase = "idle"
      /\ calls[c].run = NoRun
      /\ calls[c].waiter = NoWorker
  BY DEF Begin, FleetInv, SlotsTidy, IdleCall
<1>4. \A v \in Worker, q \in Run :
        /\ InHand(v, q)' => InHand(v, q)
        /\ MayClick(v, q)' => MayClick(v, q)
  <2> SUFFICES ASSUME NEW v \in Worker, NEW q \in Run
               PROVE  /\ InHand(v, q)' => InHand(v, q)
                      /\ MayClick(v, q)' => MayClick(v, q)
    OBVIOUS
  <2>1. CASE v # w
    BY <2>1 DEF InHand, MayClick
  <2>2. CASE v = w
    BY <2>2 DEF WorkerWaits, InHand, MayClick, DrivingPoints, BeforeClick
  <2> QED
    BY <2>1, <2>2
<1>5. \A d \in Slot, q \in Run :
        /\ Requeues(d, q)' => (d = c /\ q = r /\ p.status = "queued") \/ (d # c /\ Requeues(d, q))
        /\ HandsOver(d, q)' => HandsOver(d, q)
  BY <1>1, <1>2 DEF Requeues, HandsOver
<1>6. \A q \in Run : Queued(q)' => Queued(q)
  BY <1>1 DEF Queued
<1>7. OneToken' /\ TokenGoneAfterClick'
  <2>1. CASE p.status # "queued"
    <3>1. TokensOnlyVanish
      BY <2>1, <1>4, <1>5, <1>6 DEF TokensOnlyVanish
    <3> QED
      BY <3>1, TokensVanish
  <2>2. CASE p.status = "queued"
    <3>1. /\ ~Queued(r)
          /\ \A d \in Slot : ~Requeues(d, r) /\ ~HandsOver(d, r)
          /\ \A v \in Worker : ~InHand(v, r)'
          /\ dispatched[r] = 0
      BY <2>2 DEF TokenLaidDown, FleetInv, OneToken
    <3>2. OneToken'
      BY <3>1, <1>4, <1>5, <1>6 DEF FleetInv, OneToken
    <3>3. TokenGoneAfterClick'
      BY <3>1, <1>4, <1>5, <1>6 DEF FleetInv, TokenGoneAfterClick
    <3> QED
      BY <3>2, <3>3
  <2> QED
    BY <2>1, <2>2
<1>8. SlotsTidy'
  BY <1>1, <1>2 DEF FleetInv, SlotsTidy
<1>9. NothingBeforeCreation'
  <2>1. \A v \in Worker : workers'[v].run = workers[v].run
    BY DEF WorkerWaits
  <2> QED
    BY <2>1, <1>1, <1>2 DEF FleetInv, NothingBeforeCreation, Created
<1>10. AnswersFit'
  <2> SUFFICES ASSUME NEW d \in Slot, NEW v \in Worker, calls'[d].waiter = v
               PROVE  /\ \/ calls'[d].phase = "insert" /\ workers'[v].at = "claiming"
                         \/ /\ calls'[d].phase \in {"write", "close"}
                            /\ workers'[v].at \in {"entering", "arming", "reporting"}
                            /\ workers'[v].run = calls'[d].run
                      /\ \A e \in Slot : calls'[e].waiter = v => e = d
    BY DEF AnswersFit
  <2>1. CASE d = c
    BY <2>1, <1>1, <1>2 DEF WorkerWaits
  <2>2. CASE d # c
    <3>1. calls[d].waiter = v /\ v # w
      BY <2>2, <1>1 DEF WorkerWaits
    <3> QED
      BY <2>2, <3>1, <1>1, <1>2 DEF FleetInv, AnswersFit
  <2> QED
    BY <2>1, <2>2
<1>11. PointsTell'
  <2>1. \A v \in Worker : v # w => workers'[v] = workers[v]
    OBVIOUS
  <2> QED
    BY <2>1 DEF FleetInv, PointsTell, WorkerWaits
<1>12. AttestedMeansDispatched'
  BY <1>1, <1>2 DEF FleetInv, AttestedMeansDispatched, SoundPatch
<1>13. RetriesUsedUp'
  BY <1>1, <1>2 DEF FleetInv, RetriesUsedUp, SoundPatch
<1> QED
  BY <1>7, <1>8, <1>9, <1>10, <1>11, <1>12, <1>13 DEF FleetInv

-----------------------------------------------------------------------------
(* Answers *)

\* A worker that stops for good, or between two runs, steps back.
LEMMA IdleStepsBack ==
  ASSUME NEW w \in Worker, workers'[w] = IdleWorker, \A c \in Slot : calls'[c].waiter # w
  PROVE  WorkerStepsBack(w)
  BY DEF WorkerStepsBack, IdleWorker, DrivingPoints, BeforeClick

\* The end of a request that frees its slot leaves nobody waiting for it.
LEMMA NobodyWaitsForFreed ==
  ASSUME FleetInv, NEW c \in Slot, NEW w \in Worker, calls[c].waiter = w,
         \A d \in Slot : d # c => calls'[d] = calls[d],
         calls'[c].waiter = NoWorker
  PROVE  \A d \in Slot : calls'[d].waiter # w
  BY RunAssumption DEF FleetInv, AnswersFit

\* The answer of a heartbeat or report leaves the worker where it was or idle.
LEMMA AnswerStepsBack ==
  ASSUME FleetInv, NEW c \in Slot, NEW w \in Worker, NEW r,
         calls[c].waiter = w, calls[c].phase \in {"write", "close"},
         \A d \in Slot : calls'[d].waiter # w,
         workers'[w] = Answered(workers[w], r)
  PROVE  WorkerStepsBack(w)
<1>1. workers[w].at \in {"entering", "arming", "reporting"}
  BY DEF FleetInv, AnswersFit
<1>2. CASE workers[w].at \in {"entering", "arming"}
  <2>1. PICK a \in {"validating", "armed"} : workers'[w] = [workers[w] EXCEPT !.at = a]
    BY <1>2 DEF Answered
  <2>2. /\ workers'[w].at = a
        /\ workers'[w].run = workers[w].run
        /\ workers'[w].loose = workers[w].loose
        /\ workers'[w].stray = workers[w].stray
        /\ workers'[w].again = workers[w].again
    BY <2>1, PointChanged, PointsMovedTo
  <2>3. ~workers[w].loose /\ ~workers[w].again /\ ~workers[w].stray
    BY <1>2 DEF FleetInv, PointsTell
  <2> QED
    BY <1>2, <2>2, <2>3 DEF WorkerStepsBack, DrivingPoints, BeforeClick
<1>3. CASE workers[w].at = "reporting"
  BY <1>3, IdleStepsBack DEF Answered
<1> QED
  BY <1>1, <1>2, <1>3

\* An error answer leaves the worker idle, or due to report once more.
LEMMA RefusalStepsBack ==
  ASSUME FleetInv, NEW w \in Worker,
         \A d \in Slot : calls'[d].waiter # w,
         workers'[w] = Refused(workers[w])
  PROVE  WorkerStepsBack(w)
<1>1. CASE workers[w].at = "reporting" /\ workers[w].again
  <2>1. workers'[w] = [workers[w] EXCEPT !.at = "settling", !.again = FALSE]
    BY <1>1 DEF Refused
  <2>2. /\ workers'[w].at = "settling"
        /\ workers'[w].run = workers[w].run
        /\ workers'[w].loose = workers[w].loose
        /\ workers'[w].stray = workers[w].stray
        /\ workers'[w].again = FALSE
    BY <2>1, Shapes DEF WorkerStates
  <2>3. ~workers[w].loose /\ ~workers[w].stray /\ dispatched[workers[w].run] > 0
    BY <1>1 DEF FleetInv, PointsTell
  <2> QED
    BY <2>2, <2>3 DEF WorkerStepsBack, DrivingPoints, BeforeClick
<1>2. CASE ~(workers[w].at = "reporting" /\ workers[w].again)
  BY <1>2, IdleStepsBack DEF Refused
<1> QED
  BY <1>1, <1>2

-----------------------------------------------------------------------------
(* Steps that pass a token on *)

\* The late UPDATE of a handler puts the run back into the queue only if that was
\* the run's token; no other write does.
LEMMA WriteStep ==
  ASSUME FleetInv, FleetTypeOK', TableInv', dispatched' = dispatched,
         NEW c \in Slot, Write(c),
         \A w \in Worker :
           workers'[w] = workers[w] \/ (calls'[c].phase = "idle" /\ WorkerStepsBack(w))
  PROVE  FleetInv'
<1> DEFINE r == calls[c].run
           p == calls[c].patch
<1>1. /\ r \in Run
      /\ p \in Patches
      /\ calls[c].phase = "write"
      /\ runs[r] \in Rows
      /\ Created(r)
  BY Shapes, OnlyCreatedRuns DEF Write
<1>2. /\ \A q \in Run : q # r => runs'[q] = runs[q]
      /\ runs'[r].status = OrKeep(p.status, runs[r].status)
      /\ runs'[r].retries = OrKeep(p.retries, runs[r].retries)
      /\ runs'[r].failure = OrKeep(p.failure, runs[r].failure)
      /\ runs'[r].clicked = OrKeep(p.clicked, runs[r].clicked)
  BY <1>1 DEF Write, Patched, FleetInv, FleetTypeOK, TypeOK
<1>3. /\ \A d \in Slot : d # c => calls'[d] = calls[d]
      /\ calls'[c].patch = NoPatch
      /\ \/ calls'[c] = IdleCall
         \/ /\ calls'[c].phase = "close"
            /\ calls'[c].run = r
            /\ calls'[c].waiter = calls[c].waiter
  <2>1. calls' = [calls EXCEPT ![c] =
          IF calls[c].close = "none" THEN IdleCall
          ELSE [calls[c] EXCEPT !.phase = "close", !.patch = NoPatch]]
    BY DEF Write
  <2>2. calls \in [Slot -> Calls]
    BY DEF FleetInv, FleetTypeOK, TypeOK
  <2>3. \A k \in Calls :
          LET closing == [k EXCEPT !.phase = "close", !.patch = NoPatch]
          IN /\ closing.phase = "close"
             /\ closing.patch = NoPatch
             /\ closing.run = k.run
             /\ closing.waiter = k.waiter
    BY DEF Calls
  <2>4. IdleCall.patch = NoPatch
    BY DEF IdleCall
  <2> QED
    BY <2>1, <2>2, <2>3, <2>4
<1>4. /\ IdleCall.phase = "idle" /\ IdleCall.run = NoRun /\ IdleCall.waiter = NoWorker
      /\ NoRun \notin Run /\ NoWorker \notin Worker
  BY RunAssumption DEF IdleCall
<1>5. \A q \in Run :
        /\ Queued(q)' => Queued(q) \/ (q = r /\ Requeues(c, r))
        /\ \A d \in Slot : Requeues(d, q)' => d # c /\ Requeues(d, q)
        /\ \A d \in Slot : HandsOver(d, q)' => HandsOver(d, q)
        /\ \A w \in Worker : InHand(w, q)' => InHand(w, q)
        /\ \A w \in Worker : MayClick(w, q)' => MayClick(w, q)
  <2>1. \A q \in Run : Queued(q)' => Queued(q) \/ (q = r /\ Requeues(c, r))
    BY <1>1, <1>2 DEF Queued, Requeues, OrKeep
  <2>2. \A d \in Slot, q \in Run : Requeues(d, q)' => d # c /\ Requeues(d, q)
    BY <1>3, NoPatchKeeps DEF Requeues
  <2>3. \A d \in Slot, q \in Run : HandsOver(d, q)' => HandsOver(d, q)
    BY <1>3, <1>4 DEF HandsOver
  <2> QED
    BY <2>1, <2>2, <2>3, NoCloserToClick
<1>6. OneToken'
  BY <1>1, <1>5 DEF FleetInv, OneToken
<1>7. TokenGoneAfterClick'
  BY <1>1, <1>5 DEF FleetInv, TokenGoneAfterClick
<1>8. SlotsTidy'
  BY <1>3, <1>4 DEF FleetInv, SlotsTidy
<1>9. NothingBeforeCreation'
  <2>1. \A q \in Run : Created(q)' <=> Created(q)
    BY <1>1, <1>2
    DEF Created, OrKeep, Patches, ALLOWED_STATUSES, ACTIVE_STATUSES, TERMINAL_STATUSES, NotCreated
  <2>2. \A q \in Run : ~Created(q) =>
          /\ dispatched'[q] = 0
          /\ \A d \in Slot : calls'[d].run # q
          /\ \A w \in Worker : workers'[w].run # q
    BY <1>1, <1>3, <1>4 DEF FleetInv, NothingBeforeCreation, WorkerStepsBack
  <2> QED
    BY <2>1, <2>2 DEF NothingBeforeCreation
<1>10. AnswersFit'
  BY <1>1, <1>3, <1>4 DEF FleetInv, AnswersFit, WorkerStepsBack
<1>11. PointsTell'
  BY DEF FleetInv, PointsTell, WorkerStepsBack
<1>12. AttestedMeansDispatched'
  BY <1>1, <1>2, <1>3, NoPatchKeeps DEF FleetInv, AttestedMeansDispatched, OrKeep, Patches, Rows
<1>13. RetriesUsedUp'
  <2>1. runs[r].retries \in Nat /\ MaxRetries \in Nat
    BY <1>1, BoundAssumption DEF Rows
  <2>2. /\ p.status = "queued" => p.retries = runs[r].retries + 1
        /\ p.retries # Keep => p.status = "queued"
        /\ p.status = "failed" => p.failure # Keep
        /\ p.failure = "retryable" =>
             \/ p.status = "queued"
             \/ p.status = "failed" /\ runs[r].retries >= MaxRetries
    BY DEF FleetInv, RetriesUsedUp
  <2>3. \A q \in Run : runs'[q].status = "failed" /\ runs'[q].failure = "retryable"
         => runs'[q].retries >= MaxRetries
    BY <1>1, <1>2, <2>2, NoPatchKeeps DEF FleetInv, RetriesUsedUp, OrKeep
  <2>4. \A q \in Run : runs[q].retries >= MaxRetries => runs'[q].retries >= MaxRetries
    BY <1>2, <2>1, <2>2 DEF OrKeep
  <2>5. \A q \in Run : runs'[q].retries = runs[q].retries \/ (q = r /\ Requeues(c, r))
    BY <1>2, <2>2 DEF Requeues, OrKeep
  <2>6. ASSUME NEW d \in Slot
        PROVE  /\ calls'[d].patch.status = "queued" =>
                    calls'[d].patch.retries = runs'[calls'[d].run].retries + 1
               /\ calls'[d].patch.retries # Keep => calls'[d].patch.status = "queued"
               /\ calls'[d].patch.status = "failed" => calls'[d].patch.failure # Keep
               /\ calls'[d].patch.failure = "retryable" =>
                    \/ calls'[d].patch.status = "queued"
                    \/ /\ calls'[d].patch.status = "failed"
                       /\ runs'[calls'[d].run].retries >= MaxRetries
    <3>1. CASE d = c
      BY <3>1, <1>3, NoPatchKeeps
    <3>2. CASE d # c /\ calls[d].patch = NoPatch
      BY <3>2, <1>3, NoPatchKeeps
    <3>3. CASE d # c /\ calls[d].patch # NoPatch
      <4>1. calls'[d] = calls[d] /\ calls[d].run \in Run
        BY <3>3, <1>3, Shapes DEF FleetInv, SlotsTidy
      <4>2. calls[d].patch.status = "queued" => runs'[calls[d].run].retries = runs[calls[d].run].retries
        BY <3>3, <4>1, <2>5 DEF FleetInv, OneToken, Requeues
      <4> QED
        BY <4>1, <4>2, <2>4 DEF FleetInv, RetriesUsedUp
    <3> QED
      BY <3>1, <3>2, <3>3
  <2> QED
    BY <2>3, <2>6 DEF RetriesUsedUp
<1> QED
  BY <1>6, <1>7, <1>8, <1>9, <1>10, <1>11, <1>12, <1>13 DEF FleetInv

\* The claim's answer hands the token to the worker that waits for it.
LEMMA HandOverStep ==
  ASSUME FleetInv, FleetTypeOK', TableInv', dispatched' = dispatched,
         NEW c \in Slot, InsertAttempt(c),
         NEW w \in Worker, calls[c].waiter = w,
         workers' = [workers EXCEPT ![w] = Answered(workers[w], calls[c].run)]
  PROVE  FleetInv'
<1> DEFINE r == calls[c].run
<1>1. /\ calls[c].phase = "insert"
      /\ r \in Run
      /\ workers[w].at = "claiming"
      /\ runs' = runs
      /\ \A d \in Slot : d # c => calls'[d] = calls[d]
      /\ calls'[c] = IdleCall
  BY Shapes DEF InsertAttempt, FleetInv, FleetTypeOK, TypeOK, AnswersFit
<1>2. /\ IdleCall.phase = "idle" /\ IdleCall.run = NoRun /\ IdleCall.waiter = NoWorker
      /\ IdleCall.patch = NoPatch
      /\ NoRun \notin Run /\ NoWorker \notin Worker
  BY RunAssumption DEF IdleCall
<1>3. /\ \A v \in Worker : v # w => workers'[v] = workers[v]
      /\ workers'[w] = [workers[w] EXCEPT !.at = "working", !.run = r]
  BY <1>1 DEF Answered, FleetInv, FleetTypeOK
<1>4. /\ workers'[w].at = "working"
      /\ workers'[w].run = r
      /\ workers'[w].loose = FALSE
      /\ workers'[w].stray = FALSE
      /\ workers'[w].again = FALSE
  <2>1. /\ workers[w] \in WorkerStates
        /\ workers[w].loose = FALSE /\ workers[w].stray = FALSE /\ workers[w].again = FALSE
    BY <1>1, Shapes DEF FleetInv, PointsTell
  <2>2. r \in Run /\ workers'[w] = [workers[w] EXCEPT !.at = "working", !.run = r]
    BY <1>1, <1>3
  <2>3. workers'[w].at = "working" /\ workers'[w].run = r
    BY <2>1, <2>2 DEF WorkerStates
  <2>4. workers'[w].loose = workers[w].loose
    BY <2>1, <2>2 DEF WorkerStates
  <2>5. workers'[w].again = workers[w].again
    BY <2>1, <2>2 DEF WorkerStates
  <2>6. workers'[w].stray = workers[w].stray
    BY <2>1, <2>2 DEF WorkerStates
  <2> QED
    BY <2>1, <2>3, <2>4, <2>5, <2>6
<1>5. HandsOver(c, r)
  BY <1>1 DEF HandsOver
<1>6. \A q \in Run :
        /\ Queued(q)' => Queued(q)
        /\ \A d \in Slot : Requeues(d, q)' => d # c /\ Requeues(d, q)
        /\ \A d \in Slot : HandsOver(d, q)' => d # c /\ HandsOver(d, q)
        /\ \A v \in Worker : InHand(v, q)' => InHand(v, q) \/ (v = w /\ q = r)
        /\ \A v \in Worker : MayClick(v, q)' => MayClick(v, q) \/ (v = w /\ q = r)
  <2>1. \A q \in Run : Queued(q)' => Queued(q)
    BY <1>1 DEF Queued
  <2>2. \A d \in Slot, q \in Run : Requeues(d, q)' => d # c /\ Requeues(d, q)
    BY <1>1, <1>2 DEF Requeues
  <2>3. \A d \in Slot, q \in Run : HandsOver(d, q)' => d # c /\ HandsOver(d, q)
    BY <1>1, <1>2 DEF HandsOver
  <2>4. \A v \in Worker, q \in Run :
          /\ InHand(v, q)' => InHand(v, q) \/ (v = w /\ q = r)
          /\ MayClick(v, q)' => MayClick(v, q) \/ (v = w /\ q = r)
    BY <1>3, <1>4 DEF InHand, MayClick
  <2> QED
    BY <2>1, <2>2, <2>3, <2>4
<1>7. OneToken'
  BY <1>1, <1>5, <1>6 DEF FleetInv, OneToken
<1>8. TokenGoneAfterClick'
  BY <1>1, <1>5, <1>6 DEF FleetInv, TokenGoneAfterClick
<1>9. SlotsTidy'
  BY <1>1, <1>2 DEF FleetInv, SlotsTidy
<1>10. NothingBeforeCreation'
  BY <1>1, <1>2, <1>3, <1>4 DEF FleetInv, NothingBeforeCreation, Created
<1>11. AnswersFit'
  <2>1. \A d \in Slot : calls'[d].waiter # w
    BY <1>1, <1>2 DEF FleetInv, AnswersFit
  <2> QED
    BY <2>1, <1>1, <1>2, <1>3 DEF FleetInv, AnswersFit
<1>12. PointsTell'
  BY <1>3, <1>4 DEF FleetInv, PointsTell
<1>13. AttestedMeansDispatched'
  BY <1>1, <1>2, NoPatchKeeps DEF FleetInv, AttestedMeansDispatched
<1>14. RetriesUsedUp'
  BY <1>1, <1>2, NoPatchKeeps DEF FleetInv, RetriesUsedUp
<1> QED
  BY <1>7, <1>8, <1>9, <1>10, <1>11, <1>12, <1>13, <1>14 DEF FleetInv

\* claim-next takes the token out of the row, into the answer.
LEMMA ClaimStep ==
  ASSUME FleetInv, FleetTypeOK', TableInv', NEW c \in Slot, NEW r \in Run,
         NEW w \in Worker, StartClaim(w, c, r)
  PROVE  FleetInv'
<1>1. /\ workers[w].at = "idle"
      /\ calls[c].phase = "idle"
      /\ runs[r].status = "queued"
      /\ dispatched' = dispatched
  BY DEF StartClaim, Claim
<1>2. /\ \A q \in Run : q # r => runs'[q] = runs[q]
      /\ runs'[r].status = "running"
      /\ runs'[r].retries = runs[r].retries
      /\ runs'[r].clicked = runs[r].clicked
  <2>1. runs' = [runs EXCEPT ![r] = [runs[r] EXCEPT !.status = "running", !.stage = "other",
                                                    !.worker = w, !.age = 0]]
    BY DEF StartClaim, Claim, FleetInv, FleetTypeOK, TypeOK
  <2>2. \A row \in Rows :
          LET new == [row EXCEPT !.status = "running", !.stage = "other", !.worker = w, !.age = 0]
          IN new.status = "running" /\ new.retries = row.retries /\ new.clicked = row.clicked
    BY DEF Rows
  <2> QED
    BY <2>1, <2>2, Shapes DEF FleetInv, FleetTypeOK, TypeOK
<1>3. /\ \A d \in Slot : d # c => calls'[d] = calls[d]
      /\ calls'[c].phase = "insert"
      /\ calls'[c].run = r
      /\ calls'[c].patch = NoPatch
      /\ calls'[c].waiter = w
  BY DEF StartClaim, Claim, FleetInv, FleetTypeOK, TypeOK
<1>4. /\ \A v \in Worker : v # w => workers'[v] = workers[v]
      /\ workers'[w].at = "claiming"
      /\ workers'[w].run = workers[w].run
      /\ workers'[w].loose = workers[w].loose
      /\ workers'[w].stray = workers[w].stray
      /\ workers'[w].again = workers[w].again
  BY PointChanged, PointsMovedTo DEF StartClaim, Moves, FleetInv, FleetTypeOK
<1>5. Queued(r)
  BY <1>1 DEF Queued
<1>6. \A q \in Run :
        /\ Queued(q)' => q # r /\ Queued(q)
        /\ \A d \in Slot : Requeues(d, q)' => Requeues(d, q)
        /\ \A d \in Slot : HandsOver(d, q)' => HandsOver(d, q) \/ (d = c /\ q = r)
        /\ \A v \in Worker : InHand(v, q)' => InHand(v, q)
        /\ \A v \in Worker : MayClick(v, q)' => MayClick(v, q)
  <2>1. \A q \in Run : Queued(q)' => q # r /\ Queued(q)
    BY <1>2 DEF Queued
  <2>2. \A d \in Slot, q \in Run : Requeues(d, q)' => Requeues(d, q)
    BY <1>3, NoPatchKeeps DEF Requeues
  <2>3. \A d \in Slot, q \in Run : HandsOver(d, q)' => HandsOver(d, q) \/ (d = c /\ q = r)
    BY <1>3 DEF HandsOver
  <2>4. \A v \in Worker, q \in Run :
          /\ InHand(v, q)' => InHand(v, q)
          /\ MayClick(v, q)' => MayClick(v, q)
    BY <1>1, <1>4 DEF InHand, MayClick, DrivingPoints, BeforeClick
  <2> QED
    BY <2>1, <2>2, <2>3, <2>4
<1>7. OneToken'
  BY <1>5, <1>6 DEF FleetInv, OneToken
<1>8. TokenGoneAfterClick'
  BY <1>1, <1>5, <1>6 DEF FleetInv, TokenGoneAfterClick
<1>9. SlotsTidy'
  BY <1>3 DEF FleetInv, SlotsTidy
<1>10. NothingBeforeCreation'
  <2>1. \A q \in Run : Created(q)' => Created(q) \/ q = r
    BY <1>2 DEF Created
  <2>2. \A q \in Run : Created(q) => Created(q)'
    BY <1>2 DEF Created, NotCreated
  <2>3. Created(r)
    BY <1>1 DEF Created, NotCreated
  <2> QED
    BY <2>2, <2>3, <1>1, <1>3, <1>4 DEF FleetInv, NothingBeforeCreation
<1>11. AnswersFit'
  <2>1. \A d \in Slot : calls[d].waiter # w
    BY <1>1, NobodyWaits
  <2>2. calls[c].waiter \notin Worker
    BY <1>1, RunAssumption DEF FleetInv, SlotsTidy, IdleCall
  <2> QED
    BY <2>1, <2>2, <1>3, <1>4 DEF FleetInv, AnswersFit
<1>12. PointsTell'
  BY <1>1, <1>4 DEF FleetInv, PointsTell
<1>13. AttestedMeansDispatched'
  BY <1>1, <1>2, <1>3, NoPatchKeeps DEF FleetInv, AttestedMeansDispatched
<1>14. RetriesUsedUp'
  <2>1. \A d \in Slot : calls'[d].patch # NoPatch => calls'[d] = calls[d] /\ calls[d].run \in Run
    BY <1>3, Shapes DEF FleetInv, SlotsTidy
  <2>2. \A q \in Run :
          /\ runs'[q].retries = runs[q].retries
          /\ runs'[q].status = "failed" => runs'[q] = runs[q]
    BY <1>2
  <2> QED
    BY <2>1, <2>2, RetriesLeftAlone
<1> QED
  BY <1>7, <1>8, <1>9, <1>10, <1>11, <1>12, <1>13, <1>14 DEF FleetInv

\* A run's token comes into being with its row.
LEMMA CreateStep ==
  ASSUME FleetInv, FleetTypeOK', TableInv', NEW r \in Run, UserCreatesRun(r)
  PROVE  FleetInv'
<1>1. /\ calls' = calls
      /\ workers' = workers
      /\ dispatched' = dispatched
      /\ ~Created(r)
  BY DEF UserCreatesRun, WithoutWorkers, MiloUntouched, CreateRun
<1>2. /\ \A q \in Run : q # r => runs'[q] = runs[q]
      /\ runs'[r].status = "queued"
      /\ runs'[r].retries = runs[r].retries
      /\ runs'[r].clicked = runs[r].clicked
  <2>1. runs' = [runs EXCEPT ![r] = [runs[r] EXCEPT !.status = "queued"]]
    BY DEF UserCreatesRun, WithoutWorkers, CreateRun, FleetInv, FleetTypeOK, TypeOK
  <2>2. \A row \in Rows :
          LET new == [row EXCEPT !.status = "queued"]
          IN new.status = "queued" /\ new.retries = row.retries /\ new.clicked = row.clicked
    BY DEF Rows
  <2> QED
    BY <2>1, <2>2, Shapes DEF FleetInv, FleetTypeOK, TypeOK
<1>3. /\ dispatched[r] = 0
      /\ \A c \in Slot : calls[c].run # r
      /\ \A w \in Worker : workers[w].run # r
  BY <1>1 DEF FleetInv, NothingBeforeCreation
<1>4. \A q \in Run :
        /\ Queued(q)' => Queued(q) \/ q = r
        /\ \A c \in Slot : Requeues(c, q)' => q # r /\ Requeues(c, q)
        /\ \A c \in Slot : HandsOver(c, q)' => q # r /\ HandsOver(c, q)
        /\ \A w \in Worker : InHand(w, q)' => q # r /\ InHand(w, q)
        /\ \A w \in Worker : MayClick(w, q)' => q # r /\ MayClick(w, q)
  BY <1>1, <1>2, <1>3 DEF Queued, Requeues, HandsOver, InHand, MayClick
<1>5. OneToken'
  BY <1>1, <1>4 DEF FleetInv, OneToken
<1>6. TokenGoneAfterClick'
  BY <1>1, <1>3, <1>4 DEF FleetInv, TokenGoneAfterClick
<1>7. SlotsTidy' /\ AnswersFit' /\ PointsTell'
  BY <1>1 DEF FleetInv, SlotsTidy, AnswersFit, PointsTell
<1>8. NothingBeforeCreation'
  BY <1>1, <1>2 DEF FleetInv, NothingBeforeCreation, Created, NotCreated
<1>9. AttestedMeansDispatched'
  BY <1>1, <1>2 DEF FleetInv, AttestedMeansDispatched
<1>10. RetriesUsedUp'
  <2>1. \A q \in Run : runs'[q].status = "failed" => runs'[q] = runs[q]
    BY <1>2
  <2>2. \A c \in Slot : runs'[calls'[c].run].retries = runs[calls[c].run].retries
                        \/ calls'[c].patch = NoPatch
    BY <1>1, <1>2, <1>3, Shapes DEF FleetInv, SlotsTidy
  <2> QED
    BY <2>1, <2>2, <1>1, RetriesLeftAlone
<1> QED
  BY <1>5, <1>6, <1>7, <1>8, <1>9, <1>10 DEF FleetInv

\* The click uses the token up, wherever in Stage 5 it comes from.
LEMMA ClickStep ==
  ASSUME FleetInv, FleetTypeOK', TableInv', NEW w \in Worker, NEW r \in Run,
         runs' = runs, calls' = calls, Click(r), MayClick(w, r),
         \A v \in Worker : v # w => workers'[v] = workers[v],
         workers'[w].run = r,
         ~workers'[w].loose,
         ~workers'[w].stray,
         workers'[w].at \in {"clicked", "expired", "reporting"},
         workers'[w].again => workers'[w].at = "reporting",
         workers'[w].at = workers[w].at \/ \A c \in Slot : calls[c].waiter # w
  PROVE  FleetInv'
<1>1. /\ dispatched'[r] = dispatched[r] + 1
      /\ \A q \in Run : q # r => dispatched'[q] = dispatched[q]
  BY DEF Click, FleetInv, FleetTypeOK
<1>2. dispatched[r] = 0 /\ dispatched'[r] = 1
  BY <1>1 DEF FleetInv, TokenGoneAfterClick
<1>3. InHand(w, r)
  BY DEF MayClick, InHand, BeforeClick, DrivingPoints
<1>4. \A q \in Run :
        /\ Queued(q)' <=> Queued(q)
        /\ \A c \in Slot : Requeues(c, q)' <=> Requeues(c, q)
        /\ \A c \in Slot : HandsOver(c, q)' <=> HandsOver(c, q)
        /\ \A v \in Worker : InHand(v, q)' => InHand(v, q)
        /\ \A v \in Worker : MayClick(v, q)' => v # w /\ MayClick(v, q)
  <2>1. \A q \in Run : Queued(q)' <=> Queued(q)
    BY DEF Queued
  <2>2. \A c \in Slot, q \in Run : Requeues(c, q)' <=> Requeues(c, q)
    BY DEF Requeues
  <2>3. \A c \in Slot, q \in Run : HandsOver(c, q)' <=> HandsOver(c, q)
    BY DEF HandsOver
  <2>4. \A v \in Worker, q \in Run : v # w =>
          /\ InHand(v, q)' <=> InHand(v, q)
          /\ MayClick(v, q)' <=> MayClick(v, q)
    BY DEF InHand, MayClick
  <2>5. \A q \in Run : ~MayClick(w, q)' /\ (InHand(w, q)' => q = r)
    BY DEF InHand, MayClick, BeforeClick
  <2> QED
    BY <2>1, <2>2, <2>3, <2>4, <2>5, <1>3
<1>5. OneToken'
  BY <1>4 DEF FleetInv, OneToken
<1>6. TokenGoneAfterClick'
  <2>1. /\ ~Queued(r)
        /\ \A c \in Slot : ~Requeues(c, r) /\ ~HandsOver(c, r)
        /\ \A v \in Worker : v # w => ~InHand(v, r)
    BY <1>3 DEF FleetInv, OneToken
  <2>2. \A v \in Worker : MayClick(v, r) => InHand(v, r)
    BY DEF MayClick, InHand, BeforeClick, DrivingPoints
  <2> QED
    BY <2>1, <2>2, <1>1, <1>2, <1>4 DEF FleetInv, TokenGoneAfterClick
<1>7. SlotsTidy'
  BY DEF FleetInv, SlotsTidy
<1>8. NothingBeforeCreation'
  <2>1. workers[w].run = r
    BY DEF MayClick
  <2>2. \A q \in Run : ~Created(q) => q # r
    BY <2>1, OnlyCreatedRuns
  <2> QED
    BY <2>1, <2>2, <1>1 DEF FleetInv, NothingBeforeCreation, Created
<1>9. AnswersFit'
  BY DEF FleetInv, AnswersFit, MayClick
<1>10. PointsTell'
  <2>1. \A v \in Worker :
          dispatched[workers[v].run] > 0 /\ v # w /\ workers[v].at \notin {"idle", "claiming"}
            => dispatched'[workers'[v].run] > 0
    BY <1>1, <1>2, Shapes
  <2> QED
    BY <2>1, <1>2 DEF FleetInv, PointsTell
<1>11. AttestedMeansDispatched'
  <2>1. \A q \in Run : dispatched[q] > 0 => dispatched'[q] > 0
    BY <1>1, <1>2
  <2>2. \A c \in Slot : calls[c].patch.clicked = TRUE => calls[c].run \in Run
    BY Shapes, NoPatchKeeps DEF FleetInv, SlotsTidy
  <2> QED
    BY <2>1, <2>2 DEF FleetInv, AttestedMeansDispatched
<1>12. RetriesUsedUp'
  BY DEF FleetInv, RetriesUsedUp
<1> QED
  BY <1>5, <1>6, <1>7, <1>8, <1>9, <1>10, <1>11, <1>12 DEF FleetInv

-----------------------------------------------------------------------------
(* Actions: the types *)

WorkersTyped ==
  /\ workers \in [Worker -> WorkerStates]
  /\ \A w \in Worker : workers[w].run = NoRun <=> workers[w].at \in {"idle", "claiming"}

\* Who changes one worker's record, by a good one, keeps them all good.
LEMMA OneWorkerMoves ==
  ASSUME FleetInv, NEW w \in Worker, NEW s \in WorkerStates,
         s.run = NoRun <=> s.at \in {"idle", "claiming"},
         workers' = [workers EXCEPT ![w] = s]
  PROVE  /\ WorkersTyped'
         /\ workers'[w] = s
         /\ \A v \in Worker : v # w => workers'[v] = workers[v]
  BY DEF FleetInv, FleetTypeOK, WorkersTyped

\* An idle worker is a well-typed worker.
LEMMA IdleTyped ==
  /\ IdleWorker \in WorkerStates
  /\ IdleWorker.run = NoRun
  /\ IdleWorker.at = "idle"
  BY DEF IdleWorker, WorkerStates, Points

\* The types put together again.
LEMMA TypesTogether ==
  ASSUME TableInv', WorkersTyped', dispatched' \in [Run -> Nat],
         rejected' \in SUBSET Run, old' \in SUBSET Run
  PROVE  FleetTypeOK'
  BY DEF TableInv, FleetTypeOK, WorkersTyped

\* A step that leaves the clicks, rejections and the tripwire's window alone.
LEMMA MiloUntouchedTypes ==
  ASSUME FleetInv, MiloUntouched
  PROVE  /\ dispatched' = dispatched
         /\ dispatched' \in [Run -> Nat]
         /\ rejected' \in SUBSET Run
         /\ old' \in SUBSET Run
  BY DEF FleetInv, FleetTypeOK, MiloUntouched

\* A step of no request and no row.
LEMMA TableUnchanged ==
  ASSUME FleetInv, UNCHANGED runVars
  PROVE  TableInv'
  BY DEF FleetInv, runVars, TableInv, TypeOK, RetriesBounded, OneRunningPerStore,
         OneActivePerCart

\* Requests that lose the worker waiting for them stay requests.
LEMMA WaiterDropped ==
  ASSUME FleetInv, UNCHANGED <<runs, attempts>>,
         calls' \in [Slot -> Calls],
         \A c \in Slot :
           /\ calls'[c].phase = calls[c].phase
           /\ calls'[c].run = calls[c].run
           /\ calls'[c].patch = calls[c].patch
           /\ calls'[c].close = calls[c].close
  PROVE  TableInv'
  BY DEF FleetInv, TableInv, TypeOK, RetriesBounded, OneRunningPerStore, OneActivePerCart

-----------------------------------------------------------------------------
(* Actions: workers on their own *)

\* A worker that moves on, or stops, without calling the API.
LEMMA WorkerAlone ==
  ASSUME FleetInv, UNCHANGED runVars, MiloUntouched,
         NEW w \in Worker, NEW s \in WorkerStates,
         s.run = NoRun <=> s.at \in {"idle", "claiming"},
         workers' = [workers EXCEPT ![w] = s],
         WorkerStepsBack(w)
  PROVE  FleetInv'
<1>1. TableInv' /\ FleetTypeOK' /\ dispatched' = dispatched
  BY TableUnchanged, OneWorkerMoves, MiloUntouchedTypes, TypesTogether
<1>2. /\ \A r \in Run : RunEndsOrStays(r)
      /\ \A c \in Slot : RequestEndsOrStays(c)
  BY DEF runVars, RunEndsOrStays, RequestEndsOrStays
<1>3. \A v \in Worker : workers'[v] = workers[v] \/ WorkerStepsBack(v)
  BY OneWorkerMoves
<1> QED
  BY <1>1, <1>2, <1>3, NobodyGains

\* A worker whose beat or report the API refused before serving it leaves the run.
LEMMA BeatRefusedStep ==
  ASSUME FleetInv, NEW w \in Worker, BeatRefused(w) \/ FinalizeRefused(w)
  PROVE  FleetInv'
<1>1. workers[w].at \in Points \ {"claiming", "entering", "arming", "reporting"}
  BY Shapes DEF BeatRefused, FinalizeRefused, ReportsFrom, StagePoints, Points
<1>2. /\ UNCHANGED runVars
      /\ MiloUntouched
      /\ workers' = [workers EXCEPT ![w] = IdleWorker]
  BY DEF BeatRefused, FinalizeRefused, runVars, Leaves
<1>3. \A c \in Slot : calls'[c].waiter # w
  BY <1>1, <1>2, NobodyWaits DEF runVars
<1>4. workers'[w] = IdleWorker
  BY <1>2 DEF FleetInv, FleetTypeOK
<1>5. WorkerStepsBack(w)
  BY <1>3, <1>4, IdleStepsBack
<1> QED
  BY <1>2, <1>5, IdleTyped, WorkerAlone

\* Passing the duplicate-submit tripwire brings a worker no closer to a second click.
LEMMA PassTripwireStep ==
  ASSUME FleetInv, NEW w \in Worker, PassTripwire(w)
  PROVE  FleetInv'
<1> DEFINE s == [workers[w] EXCEPT !.at = "cleared"]
<1>1. /\ UNCHANGED runVars
      /\ MiloUntouched
      /\ workers[w].at \in {"working", "validating"}
      /\ workers' = [workers EXCEPT ![w] = s]
  BY DEF PassTripwire, runVars, Moves, FleetInv, FleetTypeOK
<1>2. /\ s \in WorkerStates
      /\ s.at = "cleared"
      /\ s.run = workers[w].run
      /\ s.loose = workers[w].loose
      /\ s.stray = workers[w].stray
      /\ s.again = workers[w].again
  BY PointChanged, PointsMovedTo
<1>3. workers'[w] = s
  BY <1>1 DEF FleetInv, FleetTypeOK
<1> HIDE DEF s
<1>4. \A c \in Slot : calls'[c].waiter # w
  BY <1>1, NobodyWaits DEF runVars
<1>5. WorkerStepsBack(w)
  BY <1>1, <1>2, <1>3, <1>4
  DEF WorkerStepsBack, FleetInv, PointsTell, DrivingPoints, BeforeClick
<1>6. s.run = NoRun <=> s.at \in {"idle", "claiming"}
  BY <1>1, <1>2, Shapes
<1> QED
  BY <1>1, <1>2, <1>5, <1>6, WorkerAlone

\* Nor does the beginning of Stage 3.
LEMMA StartAddingStep ==
  ASSUME FleetInv, NEW w \in Worker, StartAdding(w)
  PROVE  FleetInv'
<1> DEFINE s == [workers[w] EXCEPT !.at = "adding"]
<1>1. /\ UNCHANGED runVars
      /\ MiloUntouched
      /\ workers[w].at = "working"
      /\ workers' = [workers EXCEPT ![w] = s]
  BY DEF StartAdding, runVars, Moves, FleetInv, FleetTypeOK
<1>2. /\ s \in WorkerStates
      /\ s.at = "adding"
      /\ s.run = workers[w].run
      /\ s.loose = workers[w].loose
      /\ s.stray = workers[w].stray
      /\ s.again = workers[w].again
  BY PointChanged, PointsMovedTo
<1>3. workers'[w] = s
  BY <1>1 DEF FleetInv, FleetTypeOK
<1> HIDE DEF s
<1>4. \A c \in Slot : calls'[c].waiter # w
  BY <1>1, NobodyWaits DEF runVars
<1>5. WorkerStepsBack(w)
  BY <1>1, <1>2, <1>3, <1>4
  DEF WorkerStepsBack, FleetInv, PointsTell, DrivingPoints, BeforeClick
<1>6. s.run = NoRun <=> s.at \in {"idle", "claiming"}
  BY <1>1, <1>2, Shapes
<1> QED
  BY <1>1, <1>2, <1>5, <1>6, WorkerAlone

\* When withTimeout rejects, the coroutine left running keeps the right to one click.
LEMMA StageTimesOutStep ==
  ASSUME FleetInv, NEW w \in Worker, StageTimesOut(w)
  PROVE  FleetInv'
<1> DEFINE s == [workers[w] EXCEPT !.at = "expired", !.loose = TRUE]
<1>1. /\ UNCHANGED runVars
      /\ MiloUntouched
      /\ workers[w].at = "armed"
      /\ workers' = [workers EXCEPT ![w] = s]
  BY DEF StageTimesOut, runVars, FleetInv, FleetTypeOK
<1>2. /\ s \in WorkerStates
      /\ s.at = "expired"
      /\ s.run = workers[w].run
      /\ s.loose
      /\ s.stray = workers[w].stray
      /\ s.again = workers[w].again
  BY Shapes DEF WorkerStates, Points
<1>3. workers'[w] = s
  BY <1>1 DEF FleetInv, FleetTypeOK
<1> HIDE DEF s
<1>4. \A c \in Slot : calls'[c].waiter # w
  BY <1>1, NobodyWaits DEF runVars
<1>5. WorkerStepsBack(w)
  BY <1>1, <1>2, <1>3, <1>4
  DEF WorkerStepsBack, FleetInv, PointsTell, DrivingPoints, BeforeClick
<1>6. s.run = NoRun <=> s.at \in {"idle", "claiming"}
  BY <1>1, <1>2, Shapes
<1> QED
  BY <1>1, <1>2, <1>5, <1>6, WorkerAlone

-----------------------------------------------------------------------------
(* Actions: the API answers, fails, or is no longer waited for *)

\* An answer or an error is a well-typed worker's next state.
LEMMA AnswerTyped ==
  ASSUME NEW s \in WorkerStates, s.at \in {"claiming", "entering", "arming", "reporting"},
         s.run = NoRun <=> s.at \in {"idle", "claiming"},
         NEW r \in Run
  PROVE  /\ Answered(s, r) \in WorkerStates
         /\ Answered(s, r).run = NoRun <=> Answered(s, r).at \in {"idle", "claiming"}
         /\ Refused(s) \in WorkerStates
         /\ Refused(s).run = NoRun <=> Refused(s).at \in {"idle", "claiming"}
<1>1. CASE s.at = "claiming"
  <2> DEFINE t == [s EXCEPT !.at = "working", !.run = r]
  <2>1. Answered(s, r) = t /\ Refused(s) = IdleWorker
    BY <1>1 DEF Answered, Refused
  <2>2. t \in WorkerStates /\ t.at = "working" /\ t.run = r
    BY DEF WorkerStates, Points
  <2> HIDE DEF t
  <2> QED
    BY <2>1, <2>2, IdleTyped, RunAssumption
<1>2. CASE s.at \in {"entering", "arming"}
  <2>1. PICK a \in {"validating", "armed"} :
          Answered(s, r) = [s EXCEPT !.at = a] /\ Refused(s) = IdleWorker
    BY <1>2 DEF Answered, Refused
  <2> DEFINE t == [s EXCEPT !.at = a]
  <2>2. t \in WorkerStates /\ t.at = a /\ t.run = s.run
    BY WorkerRecords, PointsMovedTo
  <2>3. Answered(s, r) = t
    BY <2>1
  <2> HIDE DEF t
  <2> QED
    BY <1>2, <2>1, <2>2, <2>3, IdleTyped
<1>3. CASE s.at = "reporting"
  <2>1. Answered(s, r) = IdleWorker
    BY <1>3 DEF Answered
  <2>2. CASE s.again
    <3> DEFINE t == [s EXCEPT !.at = "settling", !.again = FALSE]
    <3>1. Refused(s) = t
      BY <1>3, <2>2 DEF Refused
    <3>2. t \in WorkerStates /\ t.at = "settling" /\ t.run = s.run
      BY DEF WorkerStates, Points
    <3> QED
      BY <1>3, <2>1, <3>1, <3>2, IdleTyped
  <2>3. CASE ~s.again
    BY <1>3, <2>1, <2>3, IdleTyped DEF Refused
  <2> QED
    BY <2>2, <2>3
<1> QED
  BY <1>1, <1>2, <1>3

\* The worker that waits is at a point where it waits.
LEMMA WaitingPoints ==
  ASSUME FleetInv, NEW c \in Slot, NEW w \in Worker, calls[c].waiter = w
  PROVE  /\ workers[w].at \in {"claiming", "entering", "arming", "reporting"}
         /\ calls[c].phase # "idle"
         /\ calls[c].run \in Run
  BY Shapes DEF FleetInv, AnswersFit

\* A handler that fails writes nothing; the worker that waited for it steps back.
LEMMA HandlerFailsStep ==
  ASSUME FleetInv, NEW c \in Slot, HandlerFails(c)
  PROVE  FleetInv'
<1>1. /\ runs' = runs
      /\ attempts' = attempts
      /\ calls' = [calls EXCEPT ![c] = IdleCall]
      /\ MiloUntouched
  BY DEF HandlerFails, FailCall
<1>2. TableInv'
  BY <1>1, SlotFreed DEF FleetInv, TableInv, TypeOK
<1>3. /\ calls'[c] = IdleCall
      /\ \A d \in Slot : d # c => calls'[d] = calls[d]
      /\ calls'[c].waiter = NoWorker
  BY <1>1 DEF FleetInv, FleetTypeOK, TypeOK, IdleCall
<1>4. /\ \A r \in Run : RunEndsOrStays(r)
      /\ \A d \in Slot : RequestEndsOrStays(d)
  BY <1>1, <1>3 DEF RunEndsOrStays, RequestEndsOrStays
<1>5. CASE calls[c].waiter \in Worker
  <2> DEFINE w == calls[c].waiter
  <2>1. workers' = [workers EXCEPT ![w] = Refused(workers[w])]
    BY <1>5 DEF HandlerFails, FleetInv, FleetTypeOK
  <2>2. Refused(workers[w]) \in WorkerStates
        /\ (Refused(workers[w]).run = NoRun <=> Refused(workers[w]).at \in {"idle", "claiming"})
    BY <1>5, WaitingPoints, Shapes, AnswerTyped
  <2>3. /\ WorkersTyped'
        /\ workers'[w] = Refused(workers[w])
        /\ \A v \in Worker : v # w => workers'[v] = workers[v]
    BY <1>5, <2>1, <2>2, OneWorkerMoves
  <2>4. WorkerStepsBack(w)
    BY <1>3, <1>5, <2>3, NobodyWaitsForFreed, RefusalStepsBack
  <2>5. FleetTypeOK' /\ dispatched' = dispatched
    BY <1>1, <1>2, <2>3, MiloUntouchedTypes, TypesTogether
  <2> QED
    BY <1>2, <1>4, <2>3, <2>4, <2>5, NobodyGains
<1>6. CASE calls[c].waiter \notin Worker
  <2>1. workers' = workers
    BY <1>6 DEF HandlerFails
  <2>2. WorkersTyped'
    BY <2>1 DEF FleetInv, FleetTypeOK, WorkersTyped
  <2>3. FleetTypeOK' /\ dispatched' = dispatched
    BY <1>1, <1>2, <2>2, MiloUntouchedTypes, TypesTogether
  <2> QED
    BY <1>2, <1>4, <2>1, <2>3, NobodyGains
<1> QED
  BY <1>5, <1>6

\* A request without its worker is otherwise the same request.
LEMMA DropTyped ==
  ASSUME NEW k \in Calls
  PROVE  LET t == [k EXCEPT !.waiter = NoWorker]
         IN /\ t \in Calls
            /\ t.phase = k.phase
            /\ t.run = k.run
            /\ t.patch = k.patch
            /\ t.close = k.close
            /\ t.waiter = NoWorker
  BY DEF Calls

\* A request whose worker gave up is served on, for nobody.
LEMMA WorkerGivesUpStep ==
  ASSUME FleetInv, NEW c \in Slot, WorkerGivesUp(c)
  PROVE  FleetInv'
<1> DEFINE w == calls[c].waiter
           t == [calls[c] EXCEPT !.waiter = NoWorker]
<1>1. /\ UNCHANGED <<runs, attempts>>
      /\ MiloUntouched
      /\ w \in Worker
      /\ calls' = [calls EXCEPT ![c] = t]
      /\ workers' = [workers EXCEPT ![w] = Refused(workers[w])]
  BY DEF WorkerGivesUp, FleetInv, FleetTypeOK, TypeOK
<1>2. /\ t \in Calls
      /\ t.phase = calls[c].phase /\ t.run = calls[c].run
      /\ t.patch = calls[c].patch /\ t.close = calls[c].close
      /\ t.waiter = NoWorker
  BY Shapes, DropTyped
<1>3. /\ \A d \in Slot : RequestEndsOrStays(d)
      /\ calls'[c] = t
      /\ \A d \in Slot : d # c => calls'[d] = calls[d]
  BY <1>1 DEF RequestEndsOrStays, FleetInv, FleetTypeOK, TypeOK
<1> HIDE DEF t
<1>4. calls' \in [Slot -> Calls]
  BY <1>1, <1>2 DEF FleetInv, FleetTypeOK, TypeOK
<1>5. TableInv'
  BY <1>1, <1>2, <1>3, <1>4, WaiterDropped
<1>6. /\ Refused(workers[w]) \in WorkerStates
      /\ Refused(workers[w]).run = NoRun <=> Refused(workers[w]).at \in {"idle", "claiming"}
  BY <1>1, WaitingPoints, Shapes, AnswerTyped
<1>7. /\ WorkersTyped'
      /\ workers'[w] = Refused(workers[w])
      /\ \A v \in Worker : v # w => workers'[v] = workers[v]
  BY <1>1, <1>6, OneWorkerMoves
<1>8. WorkerStepsBack(w)
  BY <1>1, <1>2, <1>3, <1>7, NobodyWaitsForFreed, RefusalStepsBack
<1>9. FleetTypeOK' /\ dispatched' = dispatched
  BY <1>1, <1>5, <1>7, MiloUntouchedTypes, TypesTogether
<1>10. \A r \in Run : RunEndsOrStays(r)
  BY <1>1 DEF RunEndsOrStays
<1> QED
  BY <1>3, <1>5, <1>7, <1>8, <1>9, <1>10, NobodyGains

\* A crash takes the worker's token with it: no answer can reach it any more.
LEMMA CrashStep ==
  ASSUME FleetInv, NEW w \in Worker, Crash(w)
  PROVE  FleetInv'
<1>1. /\ UNCHANGED <<runs, attempts>>
      /\ MiloUntouched
      /\ workers' = [workers EXCEPT ![w] = IdleWorker]
      /\ calls' = [c \in Slot |->
           IF calls[c].waiter = w THEN [calls[c] EXCEPT !.waiter = NoWorker] ELSE calls[c]]
  BY DEF Crash, Leaves
<1>2. \A c \in Slot :
        /\ RequestEndsOrStays(c)
        /\ calls'[c] \in Calls
        /\ calls'[c].phase = calls[c].phase
        /\ calls'[c].run = calls[c].run
        /\ calls'[c].patch = calls[c].patch
        /\ calls'[c].close = calls[c].close
        /\ calls'[c].waiter # w
  <2> SUFFICES ASSUME NEW c \in Slot
               PROVE  /\ RequestEndsOrStays(c)
                      /\ calls'[c] \in Calls
                      /\ calls'[c].phase = calls[c].phase
                      /\ calls'[c].run = calls[c].run
                      /\ calls'[c].patch = calls[c].patch
                      /\ calls'[c].close = calls[c].close
                      /\ calls'[c].waiter # w
    OBVIOUS
  <2> DEFINE t == [calls[c] EXCEPT !.waiter = NoWorker]
  <2>1. calls'[c] = IF calls[c].waiter = w THEN t ELSE calls[c]
    BY <1>1
  <2>2. RequestEndsOrStays(c)
    BY <2>1 DEF RequestEndsOrStays
  <2>3. /\ t \in Calls
        /\ t.phase = calls[c].phase /\ t.run = calls[c].run
        /\ t.patch = calls[c].patch /\ t.close = calls[c].close
        /\ t.waiter = NoWorker
    BY Shapes, DropTyped
  <2> HIDE DEF t
  <2> QED
    BY <2>1, <2>2, <2>3, Shapes, RunAssumption
<1>3. calls' \in [Slot -> Calls]
  <2>1. calls' = [c \in Slot |-> calls'[c]]
    BY <1>1
  <2> QED
    BY <2>1, <1>2
<1>4. TableInv'
  BY <1>1, <1>2, <1>3, WaiterDropped
<1>5. /\ WorkersTyped'
      /\ workers'[w] = IdleWorker
      /\ \A v \in Worker : v # w => workers'[v] = workers[v]
  BY <1>1, IdleTyped, OneWorkerMoves
<1>6. WorkerStepsBack(w)
  BY <1>2, <1>5, IdleStepsBack
<1>7. FleetTypeOK' /\ dispatched' = dispatched
  BY <1>1, <1>4, <1>5, MiloUntouchedTypes, TypesTogether
<1>8. \A r \in Run : RunEndsOrStays(r)
  BY <1>1 DEF RunEndsOrStays
<1> QED
  BY <1>2, <1>4, <1>5, <1>6, <1>7, <1>8, NobodyGains

\* A handler's step: the patch is written, the attempt closed or opened, and the
\* answer, if this was the last step, hands its token to the worker that waits.
LEMMA HandlerAnswers ==
  ASSUME FleetInv, NEW c \in Slot, HandlerStep(c)
  PROVE  FleetInv'
<1> DEFINE w == calls[c].waiter
           r == calls[c].run
           done == w \in Worker /\ calls'[c].phase = "idle"
<1>1. /\ MiloUntouched
      /\ workers' = IF done THEN [workers EXCEPT ![w] = Answered(workers[w], r)] ELSE workers
  BY DEF HandlerStep, FleetInv, FleetTypeOK
<1>2. TableInv'
  BY WriteKeepsInv, CloseAttemptKeepsInv, InsertAttemptKeepsInv DEF HandlerStep, FleetInv
<1>3. \A d \in Slot : d # c => calls'[d] = calls[d]
  BY DEF HandlerStep, Write, CloseAttempt, InsertAttempt, FleetInv, FleetTypeOK, TypeOK
<1>4. calls'[c].phase = "idle" => calls'[c] = IdleCall
  <2> DEFINE t == [calls[c] EXCEPT !.phase = "close", !.patch = NoPatch]
  <2>1. t.phase = "close"
    BY Shapes DEF Calls
  <2>2. calls'[c] \in {IdleCall, t}
    BY DEF HandlerStep, Write, CloseAttempt, InsertAttempt, FleetInv, FleetTypeOK, TypeOK
  <2> HIDE DEF t
  <2> QED
    BY <2>1, <2>2
<1>5. IdleCall.waiter = NoWorker /\ IdleCall.phase = "idle"
  BY DEF IdleCall
<1>6. done => \A d \in Slot : calls'[d].waiter # w
  BY <1>3, <1>4, <1>5, NobodyWaitsForFreed
<1>7. done =>
        /\ WorkersTyped'
        /\ workers'[w] = Answered(workers[w], r)
        /\ \A v \in Worker : v # w => workers'[v] = workers[v]
  <2> SUFFICES ASSUME done
               PROVE  /\ WorkersTyped'
                      /\ workers'[w] = Answered(workers[w], r)
                      /\ \A v \in Worker : v # w => workers'[v] = workers[v]
    OBVIOUS
  <2>1. /\ workers[w].at \in {"claiming", "entering", "arming", "reporting"}
        /\ workers[w] \in WorkerStates
        /\ workers[w].run = NoRun <=> workers[w].at \in {"idle", "claiming"}
        /\ r \in Run
    BY WaitingPoints, Shapes
  <2>2. /\ Answered(workers[w], r) \in WorkerStates
        /\ Answered(workers[w], r).run = NoRun
             <=> Answered(workers[w], r).at \in {"idle", "claiming"}
    BY <2>1, AnswerTyped
  <2> QED
    BY <2>2, <1>1, OneWorkerMoves
<1>8. ~done => WorkersTyped' /\ workers' = workers
  BY <1>1 DEF FleetInv, FleetTypeOK, WorkersTyped
<1>9. FleetTypeOK' /\ dispatched' = dispatched
  BY <1>1, <1>2, <1>7, <1>8, MiloUntouchedTypes, TypesTogether
<1>10. CASE Write(c)
  <2>1. \A v \in Worker :
          workers'[v] = workers[v] \/ (calls'[c].phase = "idle" /\ WorkerStepsBack(v))
    BY <1>10, <1>6, <1>7, <1>8, AnswerStepsBack DEF Write
  <2> QED
    BY <1>2, <1>9, <1>10, <2>1, WriteStep
<1>11. CASE CloseAttempt(c)
  <2>1. /\ runs' = runs
        /\ calls'[c] = IdleCall
    BY <1>11 DEF CloseAttempt, FleetInv, FleetTypeOK, TypeOK
  <2>2. /\ \A q \in Run : RunEndsOrStays(q)
        /\ \A d \in Slot : RequestEndsOrStays(d)
    BY <2>1, <1>3 DEF RunEndsOrStays, RequestEndsOrStays
  <2>3. \A v \in Worker : workers'[v] = workers[v] \/ WorkerStepsBack(v)
    BY <1>11, <1>6, <1>7, <1>8, AnswerStepsBack DEF CloseAttempt
  <2> QED
    BY <1>2, <1>9, <2>2, <2>3, NobodyGains
<1>12. CASE InsertAttempt(c)
  <2>1. /\ runs' = runs
        /\ calls'[c] = IdleCall
    BY <1>12 DEF InsertAttempt, FleetInv, FleetTypeOK, TypeOK
  <2>2. CASE w \in Worker
    BY <2>1, <2>2, <1>1, <1>2, <1>5, <1>9, <1>12, HandOverStep
  <2>3. CASE w \notin Worker
    <3>1. /\ \A q \in Run : RunEndsOrStays(q)
          /\ \A d \in Slot : RequestEndsOrStays(d)
          /\ workers' = workers
      BY <2>1, <2>3, <1>1, <1>3 DEF RunEndsOrStays, RequestEndsOrStays
    <3> QED
      BY <1>2, <1>9, <3>1, NobodyGains
  <2> QED
    BY <2>2, <2>3
<1> QED
  BY <1>10, <1>11, <1>12 DEF HandlerStep

-----------------------------------------------------------------------------
(* Actions: requests that begin *)

\* What a heartbeat, an operator action or a report asks for is sound.
LEMMA BeatSound ==
  ASSUME NEW r \in Run, NEW stage, NEW worker
  PROVE  LET p == [NoPatch EXCEPT !.stage = stage, !.beat = TRUE, !.worker = worker]
         IN SoundPatch(r, p) /\ p.status # "queued"
<1> DEFINE p == [NoPatch EXCEPT !.stage = stage, !.beat = TRUE, !.worker = worker]
<1>1. /\ p.status = Keep /\ p.retries = Keep
      /\ p.failure = Keep /\ p.clicked = Keep
  BY DEF NoPatch
<1> HIDE DEF p
<1>2. SoundPatch(r, p) /\ p.status # "queued"
  BY <1>1, NoPatchKeeps DEF SoundPatch
<1> QED
  BY <1>2 DEF p

\* A keepalive changes neither status nor retries.
LEMMA KeepaliveStep ==
  ASSUME FleetInv, NEW w \in Worker, NEW c \in Slot, Keepalive(w, c)
  PROVE  FleetInv'
<1>1. PICK stage \in BeatStages(workers[w]) :
        BeginHeartbeat(c, workers[w].run, w, stage, NoWorker)
  BY DEF Keepalive
<1>2. stage \in Stages /\ workers[w].run \in Run
  BY Shapes DEF BeatStages, Stages, Points
<1> PICK r \in Run : workers[w].run = r
  BY <1>2
<1> DEFINE p == [NoPatch EXCEPT !.stage = stage, !.beat = TRUE,
                   !.worker = IF runs[r].worker = NoWorker THEN w ELSE Keep]
<1>3. p \in Patches /\ p.retries = Keep
  BY <1>2, BeatPatchType
<1>4. Begin(c, r, p, "none", NoWorker)
  BY <1>1 DEF BeginHeartbeat
<1>5. SoundPatch(r, p) /\ p.status # "queued"
  BY <1>2, BeatSound
<1>6. /\ workers' = workers
      /\ MiloUntouched
      /\ Created(r)
  BY OnlyCreatedRuns DEF Keepalive
<1> HIDE DEF p
<1>7. TableInv'
  BY <1>2, <1>3, <1>4, BeginKeepsInv DEF FleetInv
<1>8. FleetTypeOK' /\ dispatched' = dispatched
  <2>1. WorkersTyped'
    BY <1>6 DEF FleetInv, FleetTypeOK, WorkersTyped
  <2> QED
    BY <2>1, <1>6, <1>7, MiloUntouchedTypes, TypesTogether
<1> QED
  BY <1>2, <1>4, <1>5, <1>6, <1>7, <1>8, RequestBegins, RunAssumption

\* The rpa_checkout beat is sent by a worker that has not clicked yet.
LEMMA ArmStep ==
  ASSUME FleetInv, NEW w \in Worker, NEW c \in Slot, Arm(w, c)
  PROVE  FleetInv'
<1>0. PICK r \in Run : workers[w].run = r
  BY Shapes DEF Arm
<1> DEFINE p == [NoPatch EXCEPT !.stage = "rpa_checkout", !.beat = TRUE,
                   !.worker = IF runs[r].worker = NoWorker THEN w ELSE Keep]
           s == [workers[w] EXCEPT !.at = "arming"]
<1>1. /\ workers[w].at = "cleared"
      /\ Created(r)
      /\ MiloUntouched
      /\ workers' = [workers EXCEPT ![w] = s]
  BY <1>0, Shapes, OnlyCreatedRuns DEF Arm, Moves, FleetInv, FleetTypeOK
<1>2. Begin(c, r, p, "none", w)
  BY <1>0 DEF Arm, BeginHeartbeat
<1>3. p \in Patches /\ p.retries = Keep
  BY BeatPatchType DEF Stages
<1>4. SoundPatch(r, p) /\ p.status # "queued"
  BY <1>1, BeatSound
<1>5. /\ s \in WorkerStates
      /\ s.at = "arming"
      /\ s.run = workers[w].run
      /\ s.loose = workers[w].loose
      /\ s.stray = workers[w].stray
      /\ s.again = workers[w].again
  BY PointChanged, PointsMovedTo
<1> HIDE DEF p, s
<1>6. TableInv'
  BY <1>1, <1>2, <1>3, BeginKeepsInv DEF FleetInv
<1>7. /\ WorkersTyped'
      /\ workers'[w] = s
      /\ \A v \in Worker : v # w => workers'[v] = workers[v]
  BY <1>1, <1>5, Shapes, OneWorkerMoves
<1>8. FleetTypeOK' /\ dispatched' = dispatched
  BY <1>1, <1>6, <1>7, MiloUntouchedTypes, TypesTogether
<1>9. WorkerWaits(w, r)
  <2>1. \A d \in Slot : calls[d].waiter # w
    BY <1>1, NobodyWaits
  <2> QED
    BY <2>1, <1>0, <1>1, <1>5, <1>7 DEF WorkerWaits, BeforeClick, FleetInv, PointsTell
<1> QED
  BY <1>1, <1>2, <1>4, <1>6, <1>7, <1>8, <1>9, RequestBegins

\* Nor has the worker that ends Stage 3 with the rpa_validate beat.
LEMMA StartValidateStep ==
  ASSUME FleetInv, NEW w \in Worker, NEW c \in Slot, StartValidate(w, c)
  PROVE  FleetInv'
<1>0. PICK r \in Run : workers[w].run = r
  BY Shapes DEF StartValidate
<1> DEFINE p == [NoPatch EXCEPT !.stage = "other", !.beat = TRUE,
                   !.worker = IF runs[r].worker = NoWorker THEN w ELSE Keep]
           s == [workers[w] EXCEPT !.at = "entering"]
<1>1. /\ workers[w].at = "adding"
      /\ Created(r)
      /\ MiloUntouched
      /\ workers' = [workers EXCEPT ![w] = s]
  BY <1>0, Shapes, OnlyCreatedRuns DEF StartValidate, Moves, FleetInv, FleetTypeOK
<1>2. Begin(c, r, p, "none", w)
  BY <1>0 DEF StartValidate, BeginHeartbeat
<1>3. p \in Patches /\ p.retries = Keep
  BY BeatPatchType DEF Stages
<1>4. SoundPatch(r, p) /\ p.status # "queued"
  BY <1>1, BeatSound
<1>5. /\ s \in WorkerStates
      /\ s.at = "entering"
      /\ s.run = workers[w].run
      /\ s.loose = workers[w].loose
      /\ s.stray = workers[w].stray
      /\ s.again = workers[w].again
  BY PointChanged, PointsMovedTo
<1> HIDE DEF p, s
<1>6. TableInv'
  BY <1>1, <1>2, <1>3, BeginKeepsInv DEF FleetInv
<1>7. /\ WorkersTyped'
      /\ workers'[w] = s
      /\ \A v \in Worker : v # w => workers'[v] = workers[v]
  BY <1>1, <1>5, Shapes, OneWorkerMoves
<1>8. FleetTypeOK' /\ dispatched' = dispatched
  BY <1>1, <1>6, <1>7, MiloUntouchedTypes, TypesTogether
<1>9. WorkerWaits(w, r)
  <2>1. \A d \in Slot : calls[d].waiter # w
    BY <1>1, NobodyWaits
  <2> QED
    BY <2>1, <1>0, <1>1, <1>5, <1>7 DEF WorkerWaits, BeforeClick, FleetInv, PointsTell
<1> QED
  BY <1>1, <1>2, <1>4, <1>6, <1>7, <1>8, <1>9, RequestBegins

\* No operator action begins a re-queue: retry_now is offered only for a failure with
\* retries left, and RetriesUsedUp leaves none of those.
LEMMA OperatorActsStep ==
  ASSUME FleetInv, NEW c \in Slot, NEW r \in Run, NEW action \in OPERATOR_ACTION,
         OperatorActs(c, r, action)
  PROVE  FleetInv'
<1> DEFINE p == OperatorPatch(runs[r], action)
<1>1. /\ Created(r)
      /\ OperatorMay(runs[r], action)
      /\ workers' = workers
      /\ MiloUntouched
  BY DEF OperatorActs, WithoutWorkers, BeginOperatorAction
<1>2. PICK close \in AttemptStatuses \cup {"none"} : Begin(c, r, p, close, NoWorker)
  BY DEF OperatorActs, WithoutWorkers, BeginOperatorAction, AttemptStatuses
<1>3. p \in Patches /\ p.retries = Keep
  BY Shapes, OperatorPatchType
<1>4. action # "retry_now"
  <2>1. runs[r].retries \in Nat /\ MaxRetries \in Nat
    BY Shapes, BoundAssumption DEF Rows
  <2>2. runs[r].status = "failed" /\ runs[r].failure = "retryable" => runs[r].retries >= MaxRetries
    BY DEF FleetInv, RetriesUsedUp
  <2> QED
    BY <1>1, <2>1, <2>2 DEF OperatorMay, RetryAllowed
<1>5. /\ p.status \in {Keep, "canceled"}
      /\ p.failure = Keep
      /\ p.clicked = Keep
  BY <1>4 DEF OperatorPatch, NoPatch
<1> HIDE DEF p
<1>6. SoundPatch(r, p) /\ p.status # "queued"
  BY <1>3, <1>5, NoPatchKeeps DEF SoundPatch
<1>7. TableInv'
  BY <1>2, <1>3, BeginKeepsInv DEF FleetInv
<1>8. FleetTypeOK' /\ dispatched' = dispatched
  <2>1. WorkersTyped'
    BY <1>1 DEF FleetInv, FleetTypeOK, WorkersTyped
  <2> QED
    BY <2>1, <1>1, <1>7, MiloUntouchedTypes, TypesTogether
<1> QED
  BY <1>1, <1>2, <1>6, <1>7, <1>8, RequestBegins, RunAssumption

\* What a worker may report, and what that says of the click.
LEMMA ReportFacts ==
  ASSUME NEW s \in WorkerStates, NEW rep \in ReportsFrom(s)
  PROVE  /\ s.at \in StagePoints \cup {"cleared", "armed", "expired", "clicked", "settling"}
         /\ rep \in StatusReports
         /\ rep.status \in {"failed", "succeeded", "submitted_unconfirmed"}
         /\ rep.failure = "retryable" => s.at \in StagePoints /\ rep.status = "failed"
         /\ rep.clicked = TRUE \/ rep.status = "submitted_unconfirmed"
              => s.at \in {"clicked", "settling"} \/ (s.at = "expired" /\ ~s.loose)
<1>1. PICK status \in {"failed", "succeeded", "submitted_unconfirmed"},
           failure \in {"retryable", "final"}, clicked \in BOOLEAN :
        /\ rep = Report(status, failure, clicked)
        /\ s.at \in StagePoints \cup {"cleared", "armed", "expired", "clicked", "settling"}
        /\ failure = "retryable" => s.at \in StagePoints /\ status = "failed"
        /\ clicked \/ status = "submitted_unconfirmed"
             => s.at \in {"clicked", "settling"} \/ (s.at = "expired" /\ ~s.loose)
  <2>1. s.loose \in BOOLEAN
    BY DEF WorkerStates
  <2>2. CASE s.at \in StagePoints
    BY <2>2 DEF StagePoints, ReportsFrom, ReportsFromStages
  <2>3. CASE s.at = "cleared"
    BY <2>3 DEF StagePoints, ReportsFrom, ReportsAtBoundary
  <2>4. CASE s.at = "armed"
    BY <2>4 DEF StagePoints, ReportsFrom, ReportsBeforeClick
  <2>5. CASE s.at = "expired"
    BY <2>1, <2>5 DEF StagePoints, ReportsFrom, ReportsOnTimeout
  <2>6. CASE s.at = "clicked"
    BY <2>6 DEF StagePoints, ReportsFrom, ReportsAfterClick, Unconfirmed
  <2>7. CASE s.at = "settling"
    BY <2>7 DEF StagePoints, ReportsFrom, Unconfirmed
  <2>8. s.at \in StagePoints \cup {"cleared", "armed", "expired", "clicked", "settling"}
    BY DEF ReportsFrom, StagePoints, WorkerStates, Points
  <2> QED
    BY <2>2, <2>3, <2>4, <2>5, <2>6, <2>7, <2>8
<1>2. rep.status = status /\ rep.failure = failure /\ rep.clicked = clicked
  BY <1>1 DEF Report
<1>3. rep \in StatusReports
  BY <1>1 DEF Report, StatusReports, ALLOWED_STATUSES, ACTIVE_STATUSES, TERMINAL_STATUSES
<1> QED
  BY <1>1, <1>2, <1>3

\* The patch of a report by the worker that holds the run.
LEMMA ReportSound ==
  ASSUME FleetInv, NEW w \in Worker, NEW rep \in ReportsFrom(workers[w])
  PROVE  LET r == workers[w].run
             p == StatusPatch(runs[r], rep)
         IN /\ r \in Run
            /\ SoundPatch(r, p)
            /\ p.status = "queued" => workers[w].at \in StagePoints
<1> DEFINE r == workers[w].run
           row == runs[r]
           p == StatusPatch(row, rep)
<1>1. /\ workers[w].at \in StagePoints \cup {"cleared", "armed", "expired", "clicked", "settling"}
      /\ rep.status \in {"failed", "succeeded", "submitted_unconfirmed"}
      /\ rep.failure = "retryable" => workers[w].at \in StagePoints /\ rep.status = "failed"
      /\ rep.clicked = TRUE \/ rep.status = "submitted_unconfirmed" => dispatched[r] > 0
      /\ rep.clicked \in BOOLEAN
      /\ rep.failure \in {"retryable", "final"}
  <2>1. workers[w] \in WorkerStates
    BY Shapes
  <2>2. /\ workers[w].at \in StagePoints \cup {"cleared", "armed", "expired", "clicked", "settling"}
        /\ rep \in StatusReports
        /\ rep.status \in {"failed", "succeeded", "submitted_unconfirmed"}
        /\ rep.failure = "retryable" => workers[w].at \in StagePoints /\ rep.status = "failed"
        /\ rep.clicked = TRUE \/ rep.status = "submitted_unconfirmed"
             => \/ workers[w].at \in {"clicked", "settling"}
                \/ workers[w].at = "expired" /\ ~workers[w].loose
    BY <2>1, ReportFacts
  <2>3. rep.clicked \in BOOLEAN /\ rep.failure \in {"retryable", "final"}
    BY <2>2 DEF StatusReports
  <2> QED
    BY <2>2, <2>3 DEF FleetInv, PointsTell, StagePoints
<1>2. r \in Run /\ row \in Rows /\ row.retries \in Nat
  BY <1>1, Shapes DEF Rows, StagePoints
<1>3. CASE rep.status = "failed" /\ ShouldRetry(row, rep)
  <2>1. p = RetryPatch(row, rep)
    BY <1>3 DEF StatusPatch
  <2>2. /\ p.status = "queued" /\ p.retries = row.retries + 1
        /\ p.failure = "retryable" /\ p.clicked = rep.clicked
        /\ rep.failure = "retryable" /\ ~rep.clicked /\ row.retries < MaxRetries
    BY <2>1, <1>3 DEF RetryPatch, ShouldRetry
  <2> HIDE DEF p
  <2>3. SoundPatch(r, p)
    BY <2>2, <1>1, <1>2, BoundAssumption DEF SoundPatch
  <2> QED
    BY <2>2, <2>3, <1>1, <1>2 DEF p
<1>4. CASE rep.status = "failed" /\ ~ShouldRetry(row, rep)
  <2>1. /\ p.status = "failed" /\ p.retries = Keep
        /\ p.failure = rep.failure /\ p.clicked = rep.clicked
    BY <1>4 DEF StatusPatch, NoPatch
  <2>2. rep.failure = "retryable" => row.retries >= MaxRetries
    <3> SUFFICES ASSUME rep.failure = "retryable", row.retries < MaxRetries
                 PROVE  FALSE
      BY <1>2, BoundAssumption
    <3>1. MayClick(w, r)
      BY <1>1 DEF MayClick, BeforeClick, StagePoints
    <3>2. dispatched[r] = 0
      BY <3>1, <1>2, Shapes DEF FleetInv, TokenGoneAfterClick
    <3>3. ~row.clicked /\ ~rep.clicked
      BY <3>2, <1>1, <1>2 DEF FleetInv, AttestedMeansDispatched
    <3> QED
      BY <3>3, <1>4 DEF ShouldRetry
  <2> HIDE DEF p
  <2>3. SoundPatch(r, p)
    BY <2>1, <2>2, <1>1, <1>2, KeepAssumption DEF SoundPatch, FailureTypes
  <2> QED
    BY <2>1, <2>3, <1>2 DEF p
<1>5. CASE rep.status = "succeeded"
  <2>1. /\ p.status = "succeeded" /\ p.retries = Keep
        /\ p.failure = "none" /\ p.clicked = FALSE
    BY <1>5 DEF StatusPatch, NoPatch
  <2> HIDE DEF p
  <2>2. SoundPatch(r, p)
    BY <2>1 DEF SoundPatch
  <2> QED
    BY <2>1, <2>2, <1>2 DEF p
<1>6. CASE rep.status = "submitted_unconfirmed"
  <2>1. /\ p.status = "submitted_unconfirmed" /\ p.retries = Keep
        /\ p.failure = "none"
    BY <1>6 DEF StatusPatch, NoPatch
  <2> HIDE DEF p
  <2>2. SoundPatch(r, p)
    BY <2>1, <1>1, <1>6 DEF SoundPatch
  <2> QED
    BY <2>1, <2>2, <1>2 DEF p
<1> QED
  BY <1>1, <1>3, <1>4, <1>5, <1>6

\* A report begins. One that re-queues comes from a worker that has not clicked and that
\* stops driving with it.
LEMMA FinalizeRunStep ==
  ASSUME FleetInv, NEW w \in Worker, NEW c \in Slot, NEW rep \in ReportsFrom(workers[w]),
         FinalizeRun(w, c, rep)
  PROVE  FleetInv'
<1>0. PICK r \in Run : workers[w].run = r
  BY ReportSound
<1> DEFINE p == StatusPatch(runs[r], rep)
           close == ClosedBy(rep.status)
<1>1. PICK again \in {FALSE, workers[w].at = "clicked" /\ rep.status # "failed"},
           stray \in {FALSE, MayStray(workers[w], rep)} :
        workers' = [workers EXCEPT ![w].at = "reporting", ![w].stray = stray, ![w].again = again]
  BY DEF FinalizeRun
<1> DEFINE s == [workers[w] EXCEPT !.at = "reporting", !.stray = stray, !.again = again]
<1>2. /\ Begin(c, r, p, close, w)
      /\ dispatched' = dispatched
      /\ old' = old
      /\ workers' = [workers EXCEPT ![w] = s]
  BY <1>0, <1>1 DEF FinalizeRun, BeginStatusUpdate, FleetInv, FleetTypeOK
<1>3. /\ workers[w] \in WorkerStates
      /\ workers[w].at \in StagePoints \cup {"cleared", "armed", "expired", "clicked", "settling"}
      /\ rep \in StatusReports
  BY Shapes, ReportFacts
<1>4. SoundPatch(r, p) /\ (p.status = "queued" => workers[w].at \in StagePoints)
  BY <1>0, ReportSound
<1>5. Created(r) /\ runs[r] \in Rows
  BY <1>0, Shapes, OnlyCreatedRuns
<1>6. p \in Patches /\ (p.retries # Keep => p.retries <= MaxRetries)
  BY <1>3, <1>5, StatusPatchType
<1>7. close \in AttemptStatuses \cup {"none"}
  BY DEF ClosedBy, AttemptStatuses
<1>8. /\ again \in BOOLEAN /\ (again => workers[w].at = "clicked")
      /\ stray \in BOOLEAN /\ (stray => workers[w].at \in {"adding", "validating"})
  <2>1. MayStray(workers[w], rep) \in BOOLEAN
    BY Zenon DEF MayStray
  <2> QED
    BY <1>1, <2>1 DEF MayStray
<1>9. /\ s \in WorkerStates
      /\ s.at = "reporting"
      /\ s.run = r
      /\ s.stray = stray
      /\ s.again = again
  BY <1>0, <1>3, <1>8 DEF WorkerStates, Points
<1>10. s.loose = workers[w].loose
  BY <1>3 DEF WorkerStates
<1> HIDE DEF p, s, close
<1>11. TableInv'
  BY <1>2, <1>6, <1>7, BeginKeepsInv DEF FleetInv
<1>12. /\ WorkersTyped'
       /\ workers'[w] = s
       /\ \A v \in Worker : v # w => workers'[v] = workers[v]
  BY <1>2, <1>9, RunAssumption, OneWorkerMoves
<1>13. FleetTypeOK'
  <2>1. dispatched' \in [Run -> Nat] /\ old' \in SUBSET Run
    BY <1>2 DEF FleetInv, FleetTypeOK
  <2>2. rejected' \in SUBSET Run
    BY <1>0 DEF FinalizeRun, FleetInv, FleetTypeOK
  <2> QED
    BY <2>1, <2>2, <1>11, <1>12, TypesTogether
<1>14. \A d \in Slot : calls[d].waiter # w
  BY <1>3, NobodyWaits DEF StagePoints
<1>15. WorkerWaits(w, r)
  <2>1. workers[w].loose => workers[w].at = "expired"
    BY <1>3 DEF FleetInv, PointsTell, StagePoints
  <2>2. workers[w].at = "clicked" => dispatched[r] > 0
    BY <1>0 DEF FleetInv, PointsTell
  <2> QED
    BY <2>1, <2>2, <1>0, <1>8, <1>9, <1>10, <1>12, <1>14 DEF WorkerWaits
<1>16. p.status = "queued" => TokenLaidDown(r)
  <2> SUFFICES ASSUME workers[w].at \in StagePoints PROVE TokenLaidDown(r)
    BY <1>4
  <2>1. MayClick(w, r) /\ InHand(w, r)
    BY <1>0 DEF MayClick, InHand, BeforeClick, DrivingPoints, StagePoints
  <2>2. dispatched[r] = 0
    BY <2>1 DEF FleetInv, TokenGoneAfterClick
  <2>3. ~InHand(w, r)'
    BY <1>9, <1>10, <1>12 DEF InHand, DrivingPoints, StagePoints, FleetInv, PointsTell
  <2>4. ASSUME NEW v \in Worker, v # w PROVE ~InHand(v, r)'
    <3>1. ~InHand(v, r)
      BY <2>1, <2>4 DEF FleetInv, OneToken
    <3> QED
      BY <3>1, <2>4, <1>12 DEF InHand
  <2> QED
    BY <2>1, <2>2, <2>3, <2>4 DEF TokenLaidDown
<1> QED
  BY <1>2, <1>4, <1>5, <1>11, <1>12, <1>13, <1>15, <1>16, RequestBegins

-----------------------------------------------------------------------------
(* Actions: clicks *)

\* A click, in time or late, uses the only token of its run up.
LEMMA DispatchStep ==
  ASSUME FleetInv, NEW w \in Worker, Dispatch(w) \/ LateClick(w)
  PROVE  FleetInv'
<1>1. PICK r \in Run : workers[w].run = r
  BY FleetAssumption DEF Dispatch, LateClick
<1>2. /\ Click(r)
      /\ runs' = runs /\ attempts' = attempts /\ calls' = calls
      /\ rejected' = rejected /\ old' = old
  BY <1>1 DEF Dispatch, LateClick
<1>3. TableInv'
  BY <1>2, TableUnchanged DEF runVars
<1>4. dispatched' \in [Run -> Nat]
  BY <1>2 DEF Click, FleetInv, FleetTypeOK
<1>5. MayClick(w, r)
  BY <1>1 DEF Dispatch, LateClick, MayClick, BeforeClick
<1>6. PICK s \in WorkerStates :
        /\ workers' = [workers EXCEPT ![w] = s]
        /\ s.run = r
        /\ ~s.loose
        /\ ~s.stray
        /\ s.at \in {"clicked", "expired", "reporting"}
        /\ s.again => s.at = "reporting"
        /\ s.at = workers[w].at \/ \A c \in Slot : calls[c].waiter # w
  <2>1. CASE Dispatch(w)
    <3> DEFINE s == [workers[w] EXCEPT !.at = "clicked"]
    <3>1. workers' = [workers EXCEPT ![w] = s] /\ workers[w].at = "armed"
      BY <2>1 DEF Dispatch, Moves, FleetInv, FleetTypeOK
    <3>2. /\ s \in WorkerStates
          /\ s.at = "clicked"
          /\ s.run = workers[w].run
          /\ s.loose = workers[w].loose
          /\ s.stray = workers[w].stray
          /\ s.again = workers[w].again
      BY PointChanged, PointsMovedTo
    <3> HIDE DEF s
    <3>3. ~s.loose /\ ~s.stray /\ ~s.again
      <4>1. ~workers[w].loose /\ ~workers[w].stray /\ ~workers[w].again
        BY <3>1 DEF FleetInv, PointsTell
      <4> QED
        BY <3>2, <4>1
    <3>4. \A c \in Slot : calls[c].waiter # w
      BY <3>1, NobodyWaits
    <3> QED
      BY <1>1, <3>1, <3>2, <3>3, <3>4
  <2>2. CASE LateClick(w)
    <3> DEFINE s == [workers[w] EXCEPT !.loose = FALSE]
    <3>1. workers' = [workers EXCEPT ![w] = s] /\ workers[w].loose
      BY <2>2 DEF LateClick, FleetInv, FleetTypeOK
    <3>2. /\ s \in WorkerStates
          /\ s.at = workers[w].at
          /\ s.run = workers[w].run
          /\ ~s.loose
      BY Shapes DEF WorkerStates
    <3>3. s.again = workers[w].again /\ s.stray = workers[w].stray
      BY Shapes DEF WorkerStates
    <3> HIDE DEF s
    <3>4. s.at \in {"expired", "reporting"} /\ ~s.again /\ ~s.stray
      BY <3>1, <3>2, <3>3 DEF FleetInv, PointsTell
    <3> QED
      BY <1>1, <3>1, <3>2, <3>4
  <2> QED
    BY <2>1, <2>2
<1>7. /\ WorkersTyped'
      /\ workers'[w] = s
      /\ \A v \in Worker : v # w => workers'[v] = workers[v]
  BY <1>6, RunAssumption, OneWorkerMoves
<1>8. FleetTypeOK'
  BY <1>2, <1>3, <1>4, <1>7, TypesTogether DEF FleetInv, FleetTypeOK
<1> QED
  BY <1>2, <1>3, <1>5, <1>6, <1>7, <1>8, ClickStep

-----------------------------------------------------------------------------
(* Actions: the clock, the reaper and the user *)

\* The reaper, Start over and the clock give a run to nobody.
LEMMA RowStep ==
  ASSUME FleetInv, NEW r \in Run,
         Reap(r) \/ Recover(r) \/ HeartbeatAges(r),
         UNCHANGED workers, MiloUntouched
  PROVE  FleetInv'
<1>1. /\ calls' = calls
      /\ runs[r].status = "running"
      /\ \A q \in Run : q # r => runs'[q] = runs[q]
  BY DEF Reap, Recover, HeartbeatAges, FleetInv, FleetTypeOK, TypeOK
<1>2. /\ runs'[r].status \in {"failed", "canceled", "running"}
      /\ runs'[r].retries = runs[r].retries
      /\ runs'[r].clicked => runs[r].clicked
      /\ runs'[r].status = "failed" => runs'[r].failure = "LK_RUN_REAPED"
  <2> DEFINE reaped == [runs[r] EXCEPT !.status = "failed", !.failure = "LK_RUN_REAPED",
                                       !.clicked = FALSE, !.age = 0]
             recovered == [runs[r] EXCEPT !.status = "canceled", !.failure = "final",
                                          !.clicked = FALSE, !.age = 0]
             aged == [runs[r] EXCEPT !.age = runs[r].age + 1]
  <2>1. runs[r] \in Rows
    BY Shapes
  <2>2. CASE Reap(r)
    <3>1. runs'[r] = reaped
      BY <2>2 DEF Reap, FleetInv, FleetTypeOK, TypeOK
    <3>2. /\ reaped.status = "failed" /\ reaped.retries = runs[r].retries
          /\ reaped.clicked = FALSE /\ reaped.failure = "LK_RUN_REAPED"
      BY <2>1 DEF Rows
    <3> HIDE DEF reaped
    <3> QED
      BY <3>1, <3>2
  <2>3. CASE Recover(r)
    <3>1. runs'[r] = recovered
      BY <2>3 DEF Recover, FleetInv, FleetTypeOK, TypeOK
    <3>2. /\ recovered.status = "canceled" /\ recovered.retries = runs[r].retries
          /\ recovered.clicked = FALSE
      BY <2>1 DEF Rows
    <3> HIDE DEF recovered
    <3> QED
      BY <3>1, <3>2
  <2>4. CASE HeartbeatAges(r)
    <3>1. runs'[r] = aged
      BY <2>4 DEF HeartbeatAges, FleetInv, FleetTypeOK, TypeOK
    <3>2. /\ aged.status = runs[r].status /\ aged.retries = runs[r].retries
          /\ aged.clicked = runs[r].clicked
      BY <2>1 DEF Rows
    <3> HIDE DEF aged
    <3> QED
      BY <3>1, <3>2, <1>1
  <2> QED
    BY <2>2, <2>3, <2>4
<1>3. \A q \in Run : RunEndsOrStays(q)
  <2>1. RunEndsOrStays(r)
    BY <1>1, <1>2 DEF RunEndsOrStays, Created, NotCreated
  <2>2. \A q \in Run : q # r => RunEndsOrStays(q)
    BY <1>1 DEF RunEndsOrStays
  <2> QED
    BY <2>1, <2>2
<1>4. \A c \in Slot : RequestEndsOrStays(c)
  BY <1>1 DEF RequestEndsOrStays
<1>5. TableInv'
  BY RowStepKeepsInv DEF FleetInv
<1>6. WorkersTyped'
  BY DEF FleetInv, FleetTypeOK, WorkersTyped
<1>7. FleetTypeOK' /\ dispatched' = dispatched
  BY <1>5, <1>6, MiloUntouchedTypes, TypesTogether
<1> QED
  BY <1>3, <1>4, <1>5, <1>7, NobodyGains

\* The tripwire's window, and the whole step that changes nothing.
LEMMA NothingSteps ==
  ASSUME FleetInv, UNCHANGED <<runs, attempts, calls, workers, dispatched>>,
         rejected' \in SUBSET Run, old' \in SUBSET Run
  PROVE  FleetInv'
<1>1. /\ \A q \in Run : RunEndsOrStays(q)
      /\ \A c \in Slot : RequestEndsOrStays(c)
  BY DEF RunEndsOrStays, RequestEndsOrStays
<1>2. TableInv'
  BY TableUnchanged DEF runVars
<1>3. FleetTypeOK'
  BY <1>2 DEF TableInv, FleetInv, FleetTypeOK
<1> QED
  BY <1>1, <1>2, <1>3, NobodyGains

\* claim-next takes the token from the queued row into its answer.
LEMMA ClaimStepTyped ==
  ASSUME FleetInv, NEW w \in Worker, NEW c \in Slot, NEW r \in Run, StartClaim(w, c, r)
  PROVE  FleetInv'
<1> DEFINE s == [workers[w] EXCEPT !.at = "claiming"]
<1>1. TableInv'
  BY ClaimKeepsInv DEF StartClaim, FleetInv
<1>2. workers' = [workers EXCEPT ![w] = s] /\ workers[w].at = "idle"
  BY DEF StartClaim, Moves, FleetInv, FleetTypeOK
<1>3. /\ s \in WorkerStates
      /\ s.at = "claiming"
      /\ s.run = workers[w].run
  BY Shapes DEF WorkerStates, Points
<1> HIDE DEF s
<1>4. s.run = NoRun <=> s.at \in {"idle", "claiming"}
  BY <1>2, <1>3, Shapes
<1>5. WorkersTyped'
  BY <1>2, <1>3, <1>4, OneWorkerMoves
<1>6. FleetTypeOK'
  BY <1>1, <1>5, TypesTogether DEF StartClaim, FleetInv, FleetTypeOK
<1> QED
  BY <1>1, <1>6, ClaimStep

\* A new run brings its first token with it.
LEMMA CreateStepTyped ==
  ASSUME FleetInv, NEW r \in Run, UserCreatesRun(r)
  PROVE  FleetInv'
<1>1. TableInv'
  BY RowStepKeepsInv DEF UserCreatesRun, WithoutWorkers, FleetInv
<1>2. FleetTypeOK'
  BY <1>1 DEF TableInv, UserCreatesRun, WithoutWorkers, MiloUntouched, FleetInv, FleetTypeOK
<1> QED
  BY <1>1, <1>2, CreateStep

-----------------------------------------------------------------------------
(* The invariant *)

\* In the beginning nobody has a token.
LEMMA FleetInitInv == FleetInit => FleetInv
<1> SUFFICES ASSUME FleetInit PROVE FleetInv
  OBVIOUS
<1>1. TableInv
  BY InitInv DEF FleetInit
<1>2. /\ \A w \in Worker : workers[w] = IdleWorker
      /\ \A r \in Run : dispatched[r] = 0
      /\ \A r \in Run : runs[r] = InitialRow
      /\ \A c \in Slot : calls[c] = IdleCall
  BY DEF FleetInit, Init
<1>3. FleetTypeOK
  BY <1>1, IdleTyped DEF FleetInit, FleetTypeOK, TableInv
<1>4. /\ InitialRow.status = NotCreated /\ ~InitialRow.clicked
      /\ IdleCall.phase = "idle" /\ IdleCall.run = NoRun
      /\ IdleCall.patch = NoPatch /\ IdleCall.waiter = NoWorker
      /\ IdleWorker.at = "idle" /\ IdleWorker.run = NoRun
      /\ ~IdleWorker.loose /\ ~IdleWorker.stray /\ ~IdleWorker.again
      /\ NotCreated \notin {"queued", "failed"}
  BY DEF InitialRow, IdleCall, IdleWorker, NotCreated
<1>5. \A r \in Run :
        /\ ~Queued(r)
        /\ ~Created(r)
        /\ \A c \in Slot : ~Requeues(c, r) /\ ~HandsOver(c, r)
        /\ \A w \in Worker : ~InHand(w, r) /\ ~MayClick(w, r)
  BY <1>2, <1>4, NoPatchKeeps, RunAssumption
  DEF Queued, Created, Requeues, HandsOver, InHand, MayClick
<1>6. OneToken /\ TokenGoneAfterClick
  BY <1>2, <1>5 DEF OneToken, TokenGoneAfterClick
<1>7. SlotsTidy /\ NothingBeforeCreation /\ AnswersFit
  BY <1>2, <1>4, RunAssumption DEF SlotsTidy, NothingBeforeCreation, AnswersFit
<1>8. PointsTell /\ AttestedMeansDispatched
  BY <1>2, <1>4, NoPatchKeeps DEF PointsTell, AttestedMeansDispatched
<1>9. RetriesUsedUp
  <2>1. \A c \in Slot : calls[c].patch = NoPatch
    BY <1>2, <1>4
  <2>2. \A r \in Run : runs[r].status # "failed"
    BY <1>2, <1>4
  <2> QED
    BY <2>1, <2>2, NoPatchKeeps DEF RetriesUsedUp
<1> QED
  BY <1>1, <1>3, <1>6, <1>7, <1>8, <1>9 DEF FleetInv

\* Every step of workers, requests, users, operators and the clock keeps it.
LEMMA FleetNextKeepsInv == FleetInv /\ [FleetNext]_fleetVars => FleetInv'
<1> SUFFICES ASSUME FleetInv, [FleetNext]_fleetVars PROVE FleetInv'
  OBVIOUS
<1>1. CASE UNCHANGED fleetVars
  BY <1>1, NothingSteps DEF fleetVars, FleetInv, FleetTypeOK
<1>2. ASSUME NEW w \in Worker, WorkerStep(w) PROVE FleetInv'
  BY <1>2, ClaimStepTyped, KeepaliveStep, BeatRefusedStep, StartAddingStep,
     StartValidateStep, PassTripwireStep, ArmStep,
     DispatchStep, StageTimesOutStep, FinalizeRunStep, CrashStep
  DEF WorkerStep
<1>3. ASSUME NEW c \in Slot, HandlerStep(c) \/ HandlerFails(c) \/ WorkerGivesUp(c)
      PROVE  FleetInv'
  BY <1>3, HandlerAnswers, HandlerFailsStep, WorkerGivesUpStep
<1>4. ASSUME NEW r \in Run, UserCreatesRun(r)
      PROVE  FleetInv'
  BY <1>4, CreateStepTyped
<1>5. ASSUME NEW r \in Run, UserStartsOver(r) \/ TimePasses(r)
      PROVE  FleetInv'
  BY <1>5, RowStep DEF UserStartsOver, TimePasses, WithoutWorkers
<1>6. ASSUME NEW r \in Run, TripwireWindowPasses(r)
      PROVE  FleetInv'
  BY <1>6, NothingSteps DEF TripwireWindowPasses, FleetInv, FleetTypeOK
<1>7. ASSUME NEW c \in Slot, NEW r \in Run, NEW action \in OPERATOR_ACTION,
             OperatorActs(c, r, action)
      PROVE  FleetInv'
  BY <1>7, OperatorActsStep
<1>8. ASSUME NEW w \in Worker, NEW r \in Run, PollReaps(w, r)
      PROVE  FleetInv'
  BY <1>8, RowStep DEF PollReaps, WithoutWorkers
<1> QED
  BY <1>1, <1>2, <1>3, <1>4, <1>5, <1>6, <1>7, <1>8 DEF FleetNext

\* The inductive invariant holds in every reachable state.
LEMMA FleetInvariant == FleetSpec => []FleetInv
  BY FleetInitInv, FleetNextKeepsInv, PTL DEF FleetSpec

-----------------------------------------------------------------------------
(* Theorems *)

\* Workers, requests, rows and clicks keep their types.
THEOREM FleetTypeCorrect == FleetSpec => []FleetTypeOK
<1>1. FleetInv => FleetTypeOK
  BY DEF FleetInv
<1> QED
  BY <1>1, FleetInvariant, PTL

\* One run clicks Checkout at most once, whatever crashes, stalls, times out,
\* answers late, is re-queued, reaped or acted on by an operator.
THEOREM OneClickPerRun == FleetSpec => []DispatchedOncePerRun
<1>1. FleetInv => DispatchedOncePerRun
  BY DEF FleetInv, TokenGoneAfterClick, DispatchedOncePerRun
<1> QED
  BY <1>1, FleetInvariant, PTL

\* Once the click is dispatched the run is not in the queue, and no write that
\* was decided at any time will put it back.
THEOREM NoRequeueAfterClick == FleetSpec => []DispatchedNeverRequeued
<1>1. FleetInv => DispatchedNeverRequeued
  BY DEF FleetInv, TokenGoneAfterClick, DispatchedNeverRequeued, Queued, Requeues
<1> QED
  BY <1>1, FleetInvariant, PTL

\* Of two workers that act in MILO for one run, one is a coroutine left over from a
\* timed-out Stage 3 or 4, which no longer comes to click: the token of a re-queued
\* run went from it into the row, and only one worker can have taken it from there.
THEOREM OnlyStraysMeet == FleetSpec => []OnlyStraysOverlap
<1>1. FleetInv => OnlyStraysOverlap
  BY DEF FleetInv, OneToken, OnlyStraysOverlap, Acts
<1> QED
  BY <1>1, FleetInvariant, PTL

\* The operator's retry_now is offered for no run: a retryable failure is final
\* only when its retries are used up.
THEOREM RetryNowUnreachable == FleetSpec => []RetryNowNeverOffered
<1>1. FleetInv => RetryNowNeverOffered
  <2> SUFFICES ASSUME FleetInv, NEW r \in Run, RetryAllowed(runs[r]) PROVE FALSE
    BY DEF RetryNowNeverOffered
  <2>1. runs[r].retries \in Nat /\ MaxRetries \in Nat
    BY Shapes, BoundAssumption DEF Rows
  <2> QED
    BY <2>1 DEF RetryAllowed, FleetInv, RetriesUsedUp
<1> QED
  BY <1>1, FleetInvariant, PTL
=============================================================================
