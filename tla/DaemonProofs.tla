----------------------------- MODULE DaemonProofs -----------------------------
(***************************************************************************)
(* Theorems about Daemon, for any numbers of downloads, workers, slots and  *)
(* attempts: the daemon is a caller the manager is written for, its slots   *)
(* are its workers, no publication is lost while it runs, and its loop      *)
(* never waits while a queued download could run.                           *)
(*                                                                         *)
(* The invariant says what the loop's own tables mean: a slot names the     *)
(* execution that has the download, a kept output is that of a record that  *)
(* nobody works on, and a command at the manager has the loop serving it.   *)
(***************************************************************************)
EXTENDS Daemon, DownloadManagerProofs, FiniteSetTheorems

Workers == {e \in Executions : exec[e].pc # "idle"}

\* A download has a slot exactly as long as it has a worker.
Slots == \A e \in Executions, id \in Downloads : exec[e].id = id <=> active[id] = e

\* There are as many slots taken as workers, never too many.
Counted ==
  /\ IsFiniteSet(Workers) /\ IsFiniteSet(ActiveIds)
  /\ Cardinality(Workers) = Cardinality(ActiveIds)
  /\ Cardinality(ActiveIds) <= MaxConcurrent

\* Before the process serves, the loop has nothing; a command at the manager, or
\* a pause on its way, has the loop to itself.
Looping ==
  /\ phase # "up" =>
       /\ loop = "waiting" /\ ~served /\ asking = {}
       /\ \A id \in Downloads : active[id] = Nobody /\ pendingOutputs[id] = NoOutput
  /\ phase = "up" /\ client.pc # "idle" => loop = "serving" /\ asking = {}
  /\ asking # {} => loop = "serving"
  /\ \A e, f \in asking : e = f

\* The loop commits nothing but a completion, and replaces no publication's
\* record by anything else.
Serving ==
  phase = "up" /\ client.pc # "idle" =>
    \/ client.cand.state = "Completed"
    \/ client.pc = "saved" /\ jobs[client.id].state # "Finalizing"

\* A kept output is the one on disk, of a record nobody works on.
Pending ==
  \A id \in Downloads : pendingOutputs[id] # NoOutput =>
    /\ jobs[id].state = "Finalizing" /\ ~Owned(id)
    /\ pendingOutputs[id] = output[id]

\* A worker starts on a queued record only, and an error it ends with leaves no
\* publication behind.
WorkerStands(x, record, out) ==
  /\ x.pc \in {"start", "requeued"} => record.state = "Queued"
  /\ x.pc = "done" /\ x.result = "error" => record.state # "Finalizing" \/ out = NoOutput

WorkersStand == \A e \in Executions :
  exec[e].id \in Downloads => WorkerStands(exec[e], jobs[exec[e].id], output[exec[e].id])

\* A worker that goes round again has an attempt left.
Retrying(x) == x.pc = "requeued" \/ (x.pc = "saved" /\ x.then = "requeued")
Retries == \A e \in Executions : Retrying(exec[e]) => attempts[e] < MaxAttempts

DInv ==
  /\ PInv
  /\ DaemonTypeOK
  /\ Slots
  /\ Counted
  /\ Looping
  /\ Serving
  /\ Pending
  /\ WorkersStand
  /\ Retries
  /\ PublicationIsKept
  /\ WorkConserving

---------------------------------------------------------------------------
(* The steps of a worker, seen by the loop. *)

WorkerAct(e) == Step(e) \/ ExecutorStep(e) \/ SaveFails(e) \/ Requeue(e) \/ RequeueFails(e)

\* Where a worker that is not just reporting gets: further on in the code, to
\* the next attempt, or to an end that leaves no publication behind.
Turns(e) ==
  \/ /\ exec'[e].pc = exec[e].pc /\ exec'[e].then = exec[e].then
     /\ exec'[e].result = exec[e].result
     /\ UNCHANGED <<jobs, output>>
  \/ exec'[e].pc \notin {"idle", "start", "requeued", "done"} /\ ~Retrying(exec'[e])
  \/ exec[e].pc = "done" /\ exec'[e].pc = "saved" /\ Requeue(e)
  \/ Retrying(exec[e]) /\ exec'[e].pc = "requeued" /\ jobs'[exec[e].id].state = "Queued"
  \/ /\ exec'[e].pc = "done"
     /\ exec'[e].result = "error" =>
          \/ exec[e].pc = "start" /\ jobs[exec[e].id].state # "Queued"
          \/ jobs'[exec[e].id].state # "Finalizing"
          \/ output'[exec[e].id] = NoOutput

\* It keeps its download and touches no other.
Moves(e) ==
  /\ UNCHANGED <<phase, client, asking>>
  /\ \A f \in Executions : f # e => exec'[f] = exec[f]
  /\ exec'[e].id = exec[e].id
  /\ exec'[e].pc = "idle" <=> exec[e].pc = "idle"
  /\ \A id \in Downloads : id # exec[e].id => jobs'[id] = jobs[id] /\ output'[id] = output[id]
  /\ Turns(e)

\* A step to a place further on.
LEMMA GoesOn ==
  ASSUME PInv, NEW e \in Executions, NEW x, exec' = [exec EXCEPT ![e] = x],
         x.id = exec[e].id, exec[e].pc # "idle",
         x.pc \notin {"idle", "start", "requeued", "done"}, ~Retrying(x),
         UNCHANGED <<phase, client, asking>>,
         \A id \in Downloads : id # exec[e].id =>
           jobs'[id] = jobs[id] /\ output'[id] = output[id]
  PROVE  Moves(e)
<1>1. \A f \in Executions : exec'[f] = IF f = e THEN x ELSE exec[f]
  BY DEF PInv, IInv, TypeOK
<1> QED
  BY <1>1 DEF Moves, Turns

\* A commit, which is never that of a retry.
LEMMA CommitMoves ==
  ASSUME PInv, NEW e \in Executions, exec[e].pc # "idle", NEW cand, NEW then,
         Commit(e, cand, then), UNCHANGED <<phase, client, asking, jobs, output>>
  PROVE  Moves(e)
<1> DEFINE x == [exec[e] EXCEPT !.pc = "commit", !.cand = cand, !.then = then]
<1>1. exec[e] \in ExecType
  BY Filled DEF PInv
<1>2. exec' = [exec EXCEPT ![e] = x]
  BY DEF Commit, PInv, IInv, TypeOK
<1>3. x.id = exec[e].id /\ x.pc = "commit"
  BY <1>1 DEF ExecType
<1> HIDE DEF x
<1> QED
  BY <1>2, <1>3, GoesOn DEF Retrying

\* A step to another label of the code.
LEMMA GotoMoves ==
  ASSUME PInv, NEW e \in Executions, exec[e].pc # "idle",
         NEW label \in {"transfer", "fail", "finalize", "confirm"}, Goto(e, label),
         UNCHANGED <<phase, client, asking, jobs>>,
         \A id \in Downloads : id # exec[e].id => output'[id] = output[id]
  PROVE  Moves(e)
<1> DEFINE x == [exec[e] EXCEPT !.pc = label]
<1>1. exec[e] \in ExecType
  BY Filled DEF PInv
<1>2. exec' = [exec EXCEPT ![e] = x]
  BY DEF Goto, PInv, IInv, TypeOK
<1>3. x.id = exec[e].id /\ x.pc = label
  BY <1>1 DEF ExecType
<1> HIDE DEF x
<1> QED
  BY <1>2, <1>3, GoesOn DEF Retrying

\* The end of an execution.
LEMMA ReturnMoves ==
  ASSUME PInv, NEW e \in Executions, exec[e].pc # "idle", NEW result, Return(e, result),
         UNCHANGED <<phase, client, asking>>,
         \A id \in Downloads : id # exec[e].id =>
           jobs'[id] = jobs[id] /\ output'[id] = output[id],
         result = "error" =>
           \/ exec[e].pc = "start" /\ jobs[exec[e].id].state # "Queued"
           \/ jobs'[exec[e].id].state # "Finalizing"
           \/ output'[exec[e].id] = NoOutput
  PROVE  Moves(e)
<1> DEFINE x == [Idle EXCEPT !.pc = "done", !.id = exec[e].id, !.result = result]
<1>1. \A f \in Executions : exec'[f] = IF f = e THEN x ELSE exec[f]
  BY DEF Return, PInv, IInv, TypeOK
<1>2. x.pc = "done" /\ x.id = exec[e].id /\ x.result = result
  BY DEF Idle
<1> HIDE DEF x
<1> QED
  BY <1>1, <1>2 DEF Moves, Turns

\* The steps that save, show or fail to save a record.
LEMMA SaveMoves ==
  ASSUME PInv, NEW e \in Executions, SaveJob(e) \/ SaveFails(e)
  PROVE  Moves(e)
<1>1. /\ exec[e].pc = "commit" /\ exec[e] \in ExecType /\ exec[e].then # "requeued"
      /\ Allows(exec[e], jobs[exec[e].id], output[exec[e].id])
      /\ UNCHANGED <<phase, client, asking, jobs>>
  BY Working DEF SaveJob, SaveFails, Attempt, control
<1>2. CASE SaveJob(e)
  <2> DEFINE x == [exec[e] EXCEPT !.pc = "saved"]
  <2>1. exec' = [exec EXCEPT ![e] = x]
    BY <1>2 DEF SaveJob, Goto, PInv, IInv, TypeOK
  <2>2. x.id = exec[e].id /\ x.pc = "saved" /\ x.then # "requeued"
    BY <1>1 DEF ExecType
  <2>3. \A id \in Downloads : id # exec[e].id => output'[id] = output[id]
    BY <1>2 DEF SaveJob, PInv, IInv, TypeOK
  <2> HIDE DEF x
  <2> QED
    BY <1>1, <2>1, <2>2, <2>3, GoesOn DEF Retrying
<1>3. CASE SaveFails(e)
  <2>1. PICK result : /\ Return(e, result)
                      /\ result = "error" => exec[e].cand.state # "Completed"
    BY <1>3 DEF SaveFails
  <2>2. exec[e].cand.state # "Completed" =>
          jobs[exec[e].id].state # "Finalizing" \/ output[exec[e].id] = NoOutput
    BY <1>1 DEF Allows, RequiresRecovery
  <2>3. UNCHANGED output
    BY <1>3 DEF SaveFails
  <2> QED
    BY <1>1, <2>1, <2>2, <2>3, ReturnMoves
<1> QED
  BY <1>2, <1>3

\* The second half of a commit moves only the record its execution works on.
LEMMA RegisterMoves ==
  ASSUME PInv, NEW e \in Executions, RegisterJob(e)
  PROVE  Moves(e)
<1> DEFINE id == exec[e].id
           cand == exec[e].cand
<1>1. /\ exec[e].pc = "saved" /\ exec[e] \in ExecType /\ id \in Downloads
      /\ Intends(exec[e])
      /\ exec[e].then \in {"inspect", "transfer", "fail", "finalize", "done", "requeued"}
      /\ UNCHANGED <<phase, client, asking, output>>
      /\ jobs' = [jobs EXCEPT ![id] = cand]
  BY Working DEF RegisterJob, Register, Attempt, LocalsFilled, control
<1>2. /\ jobs'[id] = cand
      /\ \A d \in Downloads : d # id => jobs'[d] = jobs[d]
  BY <1>1 DEF PInv, IInv, TypeOK
<1>3. CASE exec[e].then = "done"
  <2>1. PICK result \in {"ok", "retryable"} : Return(e, result)
    BY <1>3 DEF RegisterJob, Return
  <2> QED
    BY <1>1, <1>2, <2>1, ReturnMoves
<1>4. CASE exec[e].then = "requeued"
  <2> DEFINE x == [Idle EXCEPT !.pc = "requeued", !.id = id]
  <2>1. exec' = [exec EXCEPT ![e] = x]
    BY <1>4 DEF RegisterJob
  <2>2. x.pc = "requeued" /\ x.id = id
    BY DEF Idle
  <2>3. cand.state = "Queued"
    BY <1>1, <1>4 DEF Intends, Goals
  <2> HIDE DEF x
  <2>4. \A f \in Executions : exec'[f] = IF f = e THEN x ELSE exec[f]
    BY <2>1 DEF PInv, IInv, TypeOK
  <2> QED
    BY <1>1, <1>2, <1>4, <2>2, <2>3, <2>4 DEF Moves, Turns, Retrying
<1>5. CASE exec[e].then \in {"inspect", "transfer", "fail", "finalize"}
  <2> DEFINE x == [exec[e] EXCEPT !.pc = exec[e].then, !.job = cand, !.cand = NoJob,
                                  !.then = "idle"]
  <2>1. exec' = [exec EXCEPT ![e] = x]
    BY <1>5 DEF RegisterJob, PInv, IInv, TypeOK
  <2>2. x.pc = exec[e].then /\ x.id = id
    BY <1>1 DEF ExecType
  <2> HIDE DEF x
  <2> QED
    BY <1>1, <1>2, <1>5, <2>1, <2>2, GoesOn DEF Retrying
<1> QED
  BY <1>1, <1>3, <1>4, <1>5

\* An automatic retry moves only the record of the worker that asks for it.
LEMMA RequeueMoves ==
  ASSUME PInv, NEW e \in Executions, Requeue(e) \/ RequeueFails(e)
  PROVE  Moves(e)
<1> DEFINE id == exec[e].id
<1>1. /\ exec[e].pc = "done" /\ exec[e].result = "retryable" /\ exec[e] \in ExecType
      /\ id \in Downloads /\ ~RequiresRecovery(jobs[id].state)
      /\ UNCHANGED <<phase, client, asking, jobs, output>>
  BY Working DEF Requeue, RequeueFails, Attempt, control
<1>2. CASE Return(e, "error")
  BY <1>1, <1>2, ReturnMoves DEF RequiresRecovery
<1>3. CASE Requeue(e) /\ Allowed("Retry", jobs[id])
  <2> DEFINE x == [exec[e] EXCEPT !.pc = "saved", !.then = "requeued",
                     !.cand = Changed("Retry", jobs[id]), !.result = "none"]
  <2>1. exec' = [exec EXCEPT ![e] = x]
    BY <1>3 DEF Requeue, PInv, IInv, TypeOK
  <2>2. x.pc = "saved" /\ x.id = id
    BY <1>1 DEF ExecType
  <2> HIDE DEF x
  <2>3. \A f \in Executions : exec'[f] = IF f = e THEN x ELSE exec[f]
    BY <2>1 DEF PInv, IInv, TypeOK
  <2> QED
    BY <1>1, <1>3, <2>2, <2>3 DEF Moves, Turns
<1> QED
  BY <1>2, <1>3 DEF Requeue, RequeueFails

\* What the executor reports meanwhile.
LEMMA ReportMoves ==
  ASSUME PInv, NEW e \in Executions,
         \/ \E written \in Bytes : Report(e, written)
         \/ \E outcome \in Endings : TransferEnds(e, outcome)
  PROVE  Moves(e)
<1>1. /\ UNCHANGED <<phase, client, asking, jobs, output>>
      /\ \A f \in Executions : f # e => exec'[f] = exec[f]
      /\ exec'[e].id = exec[e].id /\ exec'[e].pc = exec[e].pc
      /\ exec'[e].then = exec[e].then /\ exec'[e].result = exec[e].result
  BY DEF Report, TransferEnds, control, ExecType, PInv, IInv, TypeOK
<1> QED
  BY <1>1 DEF Moves, Turns

\* The start of an attempt.
LEMMA BeginMoves ==
  ASSUME PInv, NEW e \in Executions, Begin(e)
  PROVE  Moves(e)
<1> DEFINE job == jobs[exec[e].id]
           To(state, then) == [exec[e] EXCEPT !.pc = "commit", !.job = job,
                                 !.cand = TransitionTo(job, state), !.then = then]
<1>1. /\ exec[e].pc = "start" /\ exec[e] \in ExecType
      /\ UNCHANGED <<phase, client, asking, jobs, output>>
  BY Working DEF Begin, control
<1>2. CASE job.state # "Queued" /\ Return(e, "error")
  BY <1>1, <1>2, ReturnMoves
<1>3. ASSUME NEW state, NEW then, exec' = [exec EXCEPT ![e] = To(state, then)]
      PROVE  Moves(e)
  <2> DEFINE x == To(state, then)
  <2>1. x.pc = "commit" /\ x.id = exec[e].id
    BY <1>1 DEF ExecType
  <2>2. exec' = [exec EXCEPT ![e] = x]
    BY <1>3
  <2> HIDE DEF x
  <2> QED
    BY <1>1, <2>1, <2>2, GoesOn DEF Retrying
<1>4. CASE request[e] # "none" /\ job.state = "Queued"
  <2>1. exec' = [exec EXCEPT ![e] = To(StopState(e), "done")]
    BY <1>4 DEF Begin, PInv, IInv, TypeOK
  <2> QED
    BY <1>3, <2>1
<1>5. CASE request[e] = "none" /\ job.state = "Queued"
  <2>1. exec' = [exec EXCEPT ![e] = To("Inspecting", "inspect")]
    BY <1>5 DEF Begin, PInv, IInv, TypeOK
  <2> QED
    BY <1>3, <2>1
<1> QED
  BY <1>2, <1>4, <1>5 DEF Begin

\* The steps up to the transfer.
LEMMA PrepareMoves ==
  ASSUME PInv, NEW e \in Executions,
         \/ StopInspection(e) \/ StartTransfer(e)
         \/ \E failure \in Failures : PrepareFails(e, failure)
         \/ \E plan \in Plans : Prepare(e, plan)
  PROVE  Moves(e)
<1>1. /\ exec[e].pc \in {"inspect", "prepared"} /\ exec[e] \in ExecType
      /\ jobs[exec[e].id].state = "Inspecting"
      /\ UNCHANGED <<phase, client, asking, jobs, output>>
  BY Working DEF StopInspection, StartTransfer, PrepareFails, Prepare, Attempt, control
<1>2. CASE StopInspection(e)
  BY <1>1, <1>2, CommitMoves DEF StopInspection
<1>3. CASE StartTransfer(e)
  <2>1. CASE request[e] # "none"
    BY <1>1, <1>3, <2>1, CommitMoves DEF StartTransfer
  <2>2. CASE request[e] = "none"
    <3> DEFINE x == [exec[e] EXCEPT !.pc = "commit", !.then = "transfer",
                       !.cand = TransitionTo(exec[e].cand, "Downloading"),
                       !.reported = exec[e].plan.start]
    <3>1. exec' = [exec EXCEPT ![e] = x]
      BY <1>3, <2>2 DEF StartTransfer, PInv, IInv, TypeOK
    <3>2. x.pc = "commit" /\ x.id = exec[e].id
      BY <1>1 DEF ExecType
    <3> HIDE DEF x
    <3> QED
      BY <1>1, <3>1, <3>2, GoesOn DEF Retrying
  <2> QED
    BY <2>1, <2>2
<1>4. CASE \E failure \in Failures : PrepareFails(e, failure)
  <2>1. PICK failure \in Failures : PrepareFails(e, failure)
    BY <1>4
  <2> DEFINE x == [exec[e] EXCEPT !.pc = "fail",
                !.outcome = [kind |-> "failed", written |-> 0, failure |-> failure]]
  <2>2. exec' = [exec EXCEPT ![e] = x]
    BY <2>1 DEF PrepareFails, PInv, IInv, TypeOK
  <2>3. x.pc = "fail" /\ x.id = exec[e].id
    BY <1>1 DEF ExecType
  <2> HIDE DEF x
  <2> QED
    BY <1>1, <2>2, <2>3, GoesOn DEF Retrying
<1>5. CASE \E plan \in Plans : Prepare(e, plan)
  <2>1. PICK plan \in Plans : Prepare(e, plan)
    BY <1>5
  <2>2. CASE Return(e, "error")
    BY <1>1, <2>2, ReturnMoves
  <2>3. CASE ValidProgress(plan.start, plan.total)
    <3> DEFINE x == [exec[e] EXCEPT !.pc = "prepared", !.plan = plan,
                       !.cand = UpdateProgress(exec[e].job, plan.start, plan.total)]
    <3>1. exec' = [exec EXCEPT ![e] = x]
      BY <2>1, <2>3 DEF Prepare, PInv, IInv, TypeOK
    <3>2. x.pc = "prepared" /\ x.id = exec[e].id
      BY <1>1 DEF ExecType
    <3> HIDE DEF x
    <3> QED
      BY <1>1, <3>1, <3>2, GoesOn DEF Retrying
  <2> QED
    BY <2>1, <2>2, <2>3 DEF Prepare
<1> QED
  BY <1>2, <1>3, <1>4, <1>5

\* The transfer and its end.
LEMMA TransferMoves ==
  ASSUME PInv, NEW e \in Executions,
         Tick(e) \/ TransferFailed(e) \/ TransferStopped(e) \/ TransferFinished(e)
  PROVE  Moves(e)
<1>1. /\ exec[e].pc = "transfer" /\ jobs[exec[e].id].state = "Downloading"
      /\ UNCHANGED <<phase, client, asking, jobs, output>>
  BY Working
  DEF Tick, TransferFailed, TransferStopped, TransferFinished, Attempt, control
<1>2. CASE Return(e, "error")
  BY <1>1, <1>2, ReturnMoves
<1>3. CASE \E label \in {"transfer", "fail"} : Goto(e, label)
  BY <1>1, <1>3, GotoMoves
<1>4. CASE \E cand, then : Commit(e, cand, then)
  BY <1>1, <1>4, CommitMoves
<1> QED
  BY <1>2, <1>3, <1>4
  DEF Tick, TransferFailed, TransferStopped, TransferFinished, CheckpointProgress, RecordStop

\* Failure, publication and completion.
LEMMA EndMoves ==
  ASSUME PInv, NEW e \in Executions,
         \/ RecordFailure(e) \/ Confirm(e)
         \/ \E failure \in Failures : FinalizeFails(e, failure)
         \/ \E written \in Bytes : Finalize(e, written)
  PROVE  Moves(e)
<1>1. /\ exec[e].pc \in {"fail", "confirm", "finalize"} /\ exec[e] \in ExecType
      /\ exec[e].pc = "fail" => output[exec[e].id] = NoOutput
      /\ UNCHANGED <<phase, client, asking, jobs>>
      /\ \A id \in Downloads : id # exec[e].id => output'[id] = output[id]
  BY Working
  DEF RecordFailure, Confirm, FinalizeFails, Finalize, Attempt, control, PInv, IInv, TypeOK
<1>2. CASE RecordFailure(e)
  BY <1>1, <1>2, CommitMoves, ReturnMoves DEF RecordFailure
<1>3. CASE Confirm(e)
  BY <1>1, <1>3, CommitMoves, ReturnMoves DEF Confirm
<1>4. CASE \E failure \in Failures : FinalizeFails(e, failure)
  <2>1. PICK failure \in Failures : FinalizeFails(e, failure)
    BY <1>4
  <2> DEFINE x == [exec[e] EXCEPT !.pc = "fail",
                     !.outcome = [exec[e].outcome EXCEPT !.failure = failure]]
  <2>2. exec' = [exec EXCEPT ![e] = x]
    BY <2>1 DEF FinalizeFails, PInv, IInv, TypeOK
  <2>3. x.pc = "fail" /\ x.id = exec[e].id
    BY <1>1 DEF ExecType
  <2> HIDE DEF x
  <2> QED
    BY <1>1, <2>2, <2>3, GoesOn DEF Retrying
<1>5. CASE \E written \in Bytes : Finalize(e, written)
  BY <1>1, <1>5, GotoMoves, ReturnMoves DEF Finalize
<1> QED
  BY <1>2, <1>3, <1>4, <1>5

\* All steps of a worker.
LEMMA WorkerMoves ==
  ASSUME PInv, NEW e \in Executions, WorkerAct(e)
  PROVE  Moves(e)
BY SaveMoves, RegisterMoves, RequeueMoves, ReportMoves, BeginMoves, PrepareMoves,
   TransferMoves, EndMoves
DEF WorkerAct, Step, ExecutorStep

---------------------------------------------------------------------------
(* The daemon serializes the updates of a download. *)

\* A download without a slot has no worker; the caller is nowhere else.
LEMMA NoSlot ==
  ASSUME DInv, NEW id \in Downloads, active[id] = Nobody
  PROVE  ~Owned(id)
BY HoldersAssumption DEF DInv, Slots, Owned, Owners

\* A download that has no record is not executed.
LEMMA NoRecord ==
  ASSUME DInv, NEW id \in Downloads, writer = Nobody, phase = "up", store[id] = NoJob
  PROVE  ~Owned(id)
<1>1. jobs[id] = NoJob
  BY LockFree DEF DInv, PInv
<1> QED
  BY <1>1 DEF DInv, PInv, Attempts, Attempt, Owned, Owners

\* A scheduled download has neither a worker nor a command.
LEMMA ScheduledMay ==
  ASSUME DInv, NEW e \in Executions, ScheduleOne(e)
  PROVE  \E id \in Waiting :
           /\ Execute(e, id) /\ ExecuteMay(e, id)
           /\ active' = [active EXCEPT ![id] = e]
<1>1. PICK id \in Waiting : Execute(e, id) /\ active' = [active EXCEPT ![id] = e]
  BY DEF ScheduleOne
<1>2. id \in Downloads /\ active[id] = Nobody
  BY <1>1 DEF Waiting, ActiveIds
<1>3. client.pc = "idle"
  BY <1>1 DEF ScheduleOne, DInv, Looping, Execute
<1>4. client.id # id
  BY <1>2, <1>3, DownloadsAssumption DEF DInv, PInv, Exclusive, NoDownload
<1> QED
  BY <1>1, <1>2, <1>4, NoSlot DEF ExecuteMay

\* Each step of the daemon is a step of the manager, or leaves it alone.
LEMMA DaemonServes == DInv /\ [DaemonNext]_daemonVars => [Next]_vars
<1> SUFFICES ASSUME DInv, [DaemonNext]_daemonVars PROVE [Next]_vars
  OBVIOUS
<1>1. ASSUME NEW id \in Downloads, CreateCommand(id) PROVE Next
  <2>1. Create(id) /\ phase = "up" /\ writer = Nobody /\ store[id] = NoJob
    BY <1>1 DEF CreateCommand, TakeCommand, Create, ClientSaves, Save
  <2> QED
    BY <2>1, NoRecord DEF Next, ClientStep, ClientMay
<1>2. ASSUME NEW id \in Downloads, NEW command \in Commands, IdleCommand(id, command) PROVE Next
  BY <1>2, NoSlot DEF IdleCommand, Next, ClientStep, ClientMay
<1>3. ASSUME NEW id \in Downloads, PauseActive(id) \/ CancelActive(id) PROVE Next
  <2>1. active[id] \in Executions
    BY <1>3 DEF PauseActive, CancelActive, DInv, DaemonTypeOK
  <2> QED
    BY <1>3, <2>1 DEF PauseActive, CancelActive, Next, CallerStep
<1>4. ASSUME NEW id \in Downloads, SaveStatus(id) PROVE Next
  <2>1. ~Owned(id) /\ ConfirmOutput(id)
    BY <1>4 DEF SaveStatus, DInv, Pending
  <2> QED
    BY <2>1 DEF Next, ClientStep, ClientMay
<1>5. CASE ServeCommit \/ ServeRegister \/ ServeFails
  BY <1>5 DEF ServeCommit, ServeRegister, ServeFails, Next, ClientStep
<1>6. CASE ServePause
  BY <1>6 DEF ServePause, Next, CallerStep
<1>7. CASE ScheduleNoMore
  BY <1>7 DEF ScheduleNoMore
<1>8. ASSUME NEW e \in Executions, ScheduleOne(e) PROVE Next
  <2>1. \E id \in Downloads : ExecuteMay(e, id) /\ Execute(e, id)
    BY <1>8, ScheduledMay DEF Waiting
  <2> QED
    BY <2>1 DEF Next, CallerStep
<1>9. ASSUME NEW e \in Executions, WorkerStep(e) \/ WorkerSaveFails(e) PROVE Next
  BY <1>9 DEF WorkerStep, WorkerSaveFails, Next, CallerStep
<1>10. ASSUME NEW e \in Executions, NextAttempt(e) PROVE Next
  <2>1. exec[e].pc = "requeued" /\ exec[e].id \in Downloads /\ Execute(e, exec[e].id)
    BY <1>10, Working DEF NextAttempt, DInv
  <2>2. ExecuteMay(e, exec[e].id)
    BY <2>1 DEF ExecuteMay
  <2> QED
    BY <2>1, <2>2 DEF Next, CallerStep
<1>11. ASSUME NEW e \in Executions, Finished(e) PROVE Next
  BY <1>11 DEF Finished, Next, CallerStep
<1>12. CASE StartDaemon \/ StopDaemon
  BY <1>12 DEF StartDaemon, StopDaemon, Next, ProcessStep, ClientStep
<1>13. CASE UNCHANGED daemonVars
  BY <1>13 DEF daemonVars
<1> QED
  BY <1>1, <1>2, <1>3, <1>4, <1>5, <1>6, <1>7, <1>8, <1>9, <1>10, <1>11, <1>12, <1>13
  DEF DaemonNext, TakesCommand, Serves

\* So the invariant of the manager stays.
LEMMA DaemonKeepsManager ==
  ASSUME DInv, [DaemonNext]_daemonVars
  PROVE  PInv'
BY DaemonServes, NextPromises DEF DInv

---------------------------------------------------------------------------
(* The steps of the loop that serve a command. *)

\* The loop starts with empty tables, over a manager that is down.
LEMMA DaemonStarts == DaemonInit => DInv
<1> SUFFICES ASSUME DaemonInit PROVE DInv
  OBVIOUS
<1>1. PInv
  BY InitPromises DEF DaemonInit
<1>2. \A e \in Executions : exec[e].pc = "idle" /\ exec[e].id = NoDownload
  BY DEF DaemonInit, Init, Idle
<1>3. NoDownload \notin Downloads /\ Nobody \notin Executions
  BY DownloadsAssumption, HoldersAssumption DEF NoDownload
<1>4. \A id \in Downloads : active[id] = Nobody /\ pendingOutputs[id] = NoOutput
  BY DEF DaemonInit
<1>5. DaemonTypeOK
  <2>1. attempts \in [Executions -> 0..MaxAttempts]
    BY DaemonAssumption DEF DaemonInit
  <2> QED
    BY <1>1, <2>1 DEF DaemonInit, DaemonTypeOK, PInv, IInv
<1>6. Slots
  BY <1>2, <1>3, <1>4 DEF Slots
<1>7. Counted
  <2>1. Workers = {} /\ ActiveIds = {}
    BY <1>2, <1>4 DEF Workers, ActiveIds
  <2> QED
    BY <2>1, FS_EmptySet, DaemonAssumption DEF Counted
<1>8. Looping /\ Serving /\ PublicationIsKept /\ WorkConserving
  BY <1>4 DEF DaemonInit, Init, Looping, Serving, PublicationIsKept, WorkConserving
<1>9. Pending
  BY <1>4 DEF Pending
<1>10. WorkersStand /\ Retries
  BY <1>2, <1>3 DEF WorkersStand, WorkerStands, Retries, Retrying
<1> QED
  BY <1>1, <1>5, <1>6, <1>7, <1>8, <1>9, <1>10 DEF DInv

\* What a step leaves true that touches no record, no worker and no table.
LEMMA TablesStay ==
  ASSUME DInv, PInv', UNCHANGED <<jobs, exec, output, active, pendingOutputs, attempts>>,
         phase' = "up" => phase = "up",
         loop' \in {"waiting", "serving", "scheduling"}, served' \in BOOLEAN
  PROVE  /\ DaemonTypeOK' /\ Slots' /\ Counted' /\ Pending' /\ WorkersStand' /\ Retries'
         /\ PublicationIsKept'
         /\ Waiting' = Waiting /\ ActiveIds' = ActiveIds /\ (SlotsFree' <=> SlotsFree)
<1>1. DaemonTypeOK'
  BY DEF DInv, DaemonTypeOK, PInv, IInv
<1>2. \A id : Owned(id)' <=> Owned(id)
  BY DEF Owned, Owners
<1>3. Slots' /\ Retries'
  BY DEF DInv, Slots, Retries
<1>4. Pending' /\ PublicationIsKept'
  BY <1>2 DEF DInv, Pending, PublicationIsKept
<1>5. WorkersStand'
  BY DEF DInv, WorkersStand
<1>6. Workers' = Workers /\ ActiveIds' = ActiveIds /\ Waiting' = Waiting
  BY DEF Workers, ActiveIds, Waiting
<1>7. Counted' /\ (SlotsFree' <=> SlotsFree)
  BY <1>6 DEF DInv, Counted, SlotsFree
<1> QED
  BY <1>1, <1>3, <1>4, <1>5, <1>6, <1>7

\* A command that reaches the manager.
LEMMA CommandKeeps ==
  ASSUME DInv, PInv', phase = "up", asking = {},
         UNCHANGED <<phase, jobs, exec, output, asking>>,
         UNCHANGED <<active, pendingOutputs, attempts, served>>,
         loop' = "serving", Serving'
  PROVE  DInv'
<1>1. served' \in BOOLEAN
  BY DEF DInv, DaemonTypeOK
<1>2. Looping' /\ WorkConserving'
  BY DEF Looping, WorkConserving
<1> QED
  BY <1>1, <1>2, TablesStay DEF DInv

\* A command that is served leaves the loop's next turn to the scheduler.
LEMMA TakesCommandKeeps ==
  ASSUME DInv, [DaemonNext]_daemonVars, NEW id \in Downloads,
         \/ CreateCommand(id) \/ SaveStatus(id)
         \/ \E command \in Commands : IdleCommand(id, command)
  PROVE  DInv'
<1>1. PInv'
  BY DaemonKeepsManager
<1>2. /\ phase = "up" /\ loop = "waiting" /\ loop' = "serving"
      /\ UNCHANGED <<phase, jobs, exec, output, asking>>
      /\ UNCHANGED <<active, pendingOutputs, attempts, served>>
  BY DEF CreateCommand, SaveStatus, IdleCommand, TakeCommand, Create, ConfirmOutput,
     ChangeIdleState, control
<1>3. asking = {}
  BY <1>2 DEF DInv, Looping
<1>4. jobs[id] \in JobOrNone
  BY DEF DInv, PInv, IInv, TypeOK
<1>5. Serving'
  <2>1. CASE CreateCommand(id)
    <3>1. client'.pc = "saved" /\ client'.id = id /\ store[id] = NoJob /\ writer = Nobody
      BY <2>1 DEF CreateCommand, Create, ClientSaves, Save
    <3>2. jobs[id] = NoJob
      BY <1>2, <3>1, LockFree DEF DInv, PInv
    <3>3. jobs[id].state # "Finalizing"
      BY <3>2, NoJobAbsent
    <3> QED
      BY <1>2, <3>1, <3>3 DEF Serving
  <2>2. CASE SaveStatus(id)
    <3>1. client'.cand = TransitionTo(jobs[id], "Completed") /\ jobs[id].state = "Finalizing"
      BY <2>2 DEF SaveStatus, ConfirmOutput, Confirmable
    <3>2. client'.cand.state = "Completed"
      BY <1>4, <3>1, JobInState DEF TransitionTo, Job
    <3> QED
      BY <3>2 DEF Serving
  <2>3. CASE \E command \in Commands : IdleCommand(id, command)
    <3>1. PICK command \in Commands : IdleCommand(id, command)
      BY <2>3
    <3>2. client'.pc = "saved" /\ client'.id = id /\ Allowed(command, jobs[id])
      BY <3>1 DEF IdleCommand, ChangeIdleState, ClientSaves
    <3>3. jobs[id].state # "Finalizing"
      BY <3>2 DEF Allowed, Commands, CanRestart, RequiresRecovery
    <3> QED
      BY <1>2, <3>2, <3>3 DEF Serving
  <2> QED
    BY <2>1, <2>2, <2>3
<1> QED
  BY <1>1, <1>2, <1>3, <1>5, CommandKeeps

\* The commit of a completion.
LEMMA ServeCommitKeeps ==
  ASSUME DInv, [DaemonNext]_daemonVars, ServeCommit
  PROVE  DInv'
<1>1. PInv'
  BY DaemonKeepsManager
<1>2. /\ phase = "up" /\ client.pc = "commit"
      /\ UNCHANGED <<phase, jobs, exec, output, asking, loop>>
      /\ UNCHANGED <<active, pendingOutputs, attempts, served>>
      /\ client' = [pc |-> "saved", id |-> client.id, cand |-> client.cand]
  BY DEF ServeCommit, ClientCommit, ClientSaves, control, loopVars
<1>3. loop = "serving" /\ asking = {} /\ client.cand.state = "Completed"
  BY <1>2 DEF DInv, Looping, Serving
<1>4. Serving'
  BY <1>2, <1>3 DEF Serving
<1> QED
  BY <1>1, <1>2, <1>3, <1>4, CommandKeeps

\* A commit that fails leaves the tables alone.
LEMMA ServeFailsKeeps ==
  ASSUME DInv, [DaemonNext]_daemonVars, ServeFails
  PROVE  DInv'
<1>1. PInv'
  BY DaemonKeepsManager
<1>2. /\ phase = "up" /\ client.pc = "commit" /\ client'.pc = "idle"
      /\ UNCHANGED <<phase, jobs, exec, output, asking>>
      /\ UNCHANGED <<active, pendingOutputs, attempts, served>>
      /\ loop' = "scheduling"
  BY DEF ServeFails, ClientCommitFails, ClientIdle, control
<1>3. asking = {} /\ served \in BOOLEAN
  BY <1>2 DEF DInv, Looping, DaemonTypeOK
<1>4. Looping' /\ Serving' /\ WorkConserving'
  BY <1>2, <1>3 DEF Looping, Serving, WorkConserving
<1> QED
  BY <1>1, <1>2, <1>3, <1>4, TablesStay DEF DInv

\* Stop requests go to the handle of a worker; the loop sends a pause to the end.
LEMMA StopsKeep ==
  ASSUME DInv, [DaemonNext]_daemonVars,
         \/ \E id \in Downloads : PauseActive(id) \/ CancelActive(id)
         \/ ServePause
  PROVE  DInv'
<1>1. PInv'
  BY DaemonKeepsManager
<1>2. /\ UNCHANGED <<phase, jobs, exec, output, client>>
      /\ UNCHANGED <<active, pendingOutputs, attempts, served>>
  BY DEF PauseActive, CancelActive, ServePause, TakeCommand, AskPause, SendPause, RequestCancel
<1>3. served' \in BOOLEAN
  BY <1>2 DEF DInv, DaemonTypeOK
<1>4. CASE \E id \in Downloads : PauseActive(id)
  <2>1. PICK id \in Downloads : PauseActive(id)
    BY <1>4
  <2>2. phase = "up" /\ loop = "waiting" /\ loop' = "serving" /\ asking' = asking \cup {active[id]}
    BY <2>1 DEF PauseActive, TakeCommand, AskPause
  <2>3. asking = {} /\ client.pc = "idle"
    BY <2>2 DEF DInv, Looping
  <2>4. Looping' /\ Serving' /\ WorkConserving'
    BY <1>2, <2>2, <2>3 DEF Looping, Serving, WorkConserving
  <2> QED
    BY <1>1, <1>2, <1>3, <2>2, <2>4, TablesStay DEF DInv
<1>5. CASE \E id \in Downloads : CancelActive(id)
  <2>1. phase = "up" /\ loop = "waiting" /\ loop' = "scheduling" /\ UNCHANGED asking
    BY <1>5 DEF CancelActive, TakeCommand, RequestCancel
  <2>2. asking = {} /\ client.pc = "idle"
    BY <2>1 DEF DInv, Looping
  <2>3. Looping' /\ Serving' /\ WorkConserving'
    BY <1>2, <2>1, <2>2 DEF Looping, Serving, WorkConserving
  <2> QED
    BY <1>1, <1>2, <1>3, <2>1, <2>3, TablesStay DEF DInv
<1>6. CASE ServePause
  <2>1. PICK e \in Executions : SendPause(e)
    BY <1>6 DEF ServePause
  <2>2. e \in asking /\ asking' = asking \ {e} /\ loop' = "scheduling"
    BY <1>6, <2>1 DEF SendPause, ServePause
  <2>3. phase = "up" /\ client.pc = "idle" /\ asking' = {}
    BY <2>2 DEF DInv, Looping
  <2>4. Looping' /\ Serving' /\ WorkConserving'
    BY <1>2, <2>2, <2>3 DEF Looping, Serving, WorkConserving
  <2> QED
    BY <1>1, <1>2, <1>3, <2>2, <2>4, TablesStay DEF DInv
<1> QED
  BY <1>4, <1>5, <1>6

\* The turn of the loop ends when nothing more can be scheduled.
LEMMA ScheduleNoMoreKeeps ==
  ASSUME DInv, [DaemonNext]_daemonVars, ScheduleNoMore
  PROVE  DInv'
<1>1. PInv'
  BY DaemonKeepsManager
<1>2. /\ loop = "scheduling" /\ loop' = "waiting" /\ served' = TRUE
      /\ ~SlotsFree \/ Waiting = {}
      /\ UNCHANGED <<phase, jobs, exec, output, client, asking, active, pendingOutputs, attempts>>
  BY DEF ScheduleNoMore, vars, control
<1>3. phase = "up" /\ client.pc = "idle" /\ asking = {}
  BY <1>2 DEF DInv, Looping, DaemonTypeOK, TypeOK
<1>4. Waiting' = Waiting /\ (SlotsFree' <=> SlotsFree)
  BY <1>1, <1>2, TablesStay
<1>5. Looping' /\ Serving' /\ WorkConserving'
  BY <1>2, <1>3, <1>4 DEF Looping, Serving, WorkConserving
<1> QED
  BY <1>1, <1>2, <1>5, TablesStay DEF DInv

\* What is shown of a command replaces no publication but by its completion.
LEMMA ServeRegisterKeeps ==
  ASSUME DInv, [DaemonNext]_daemonVars, ServeRegister
  PROVE  DInv'
<1> DEFINE id == client.id
           cand == client.cand
<1>1. PInv'
  BY DaemonKeepsManager
<1>2. /\ phase = "up" /\ client.pc = "saved" /\ client'.pc = "idle"
      /\ UNCHANGED <<phase, exec, output, asking, active, attempts, served>>
      /\ jobs' = [jobs EXCEPT ![id] = cand] /\ loop' = "scheduling"
      /\ pendingOutputs' = IF cand.state = "Completed"
                             THEN [pendingOutputs EXCEPT ![id] = NoOutput]
                             ELSE pendingOutputs
  BY DEF ServeRegister, ClientRegister, Register, ClientIdle, control
<1>3. /\ id \in Downloads /\ ~Owned(id) /\ ~RequiresRecovery(cand.state)
      /\ asking = {}
      /\ cand.state = "Completed" \/ jobs[id].state # "Finalizing"
  BY <1>2 DEF DInv, PInv, IInv, ClientFilled, Exclusive, ClientIntends, Looping, Serving
<1>4. \A d \in Downloads : jobs'[d] = IF d = id THEN cand ELSE jobs[d]
  BY <1>2 DEF DInv, PInv, IInv, TypeOK
<1>5. \A d \in Downloads :
        pendingOutputs'[d] = IF d = id /\ cand.state = "Completed" THEN NoOutput
                             ELSE pendingOutputs[d]
  BY <1>2 DEF DInv, DaemonTypeOK
<1>6. \A d : Owned(d)' <=> Owned(d)
  BY <1>2 DEF Owned, Owners
<1>7. DaemonTypeOK'
  BY <1>1, <1>2 DEF DInv, DaemonTypeOK, PInv, IInv
<1>8. Slots' /\ Retries'
  BY <1>2 DEF DInv, Slots, Retries
<1>9. Counted'
  <2>1. Workers' = Workers /\ ActiveIds' = ActiveIds
    BY <1>2 DEF Workers, ActiveIds
  <2> QED
    BY <2>1 DEF DInv, Counted
<1>10. Looping' /\ Serving' /\ WorkConserving'
  BY <1>2, <1>3 DEF Looping, Serving, WorkConserving
<1>11. Pending'
  BY <1>2, <1>3, <1>4, <1>5, <1>6 DEF DInv, Pending
<1>12. PublicationIsKept'
  BY <1>2, <1>3, <1>4, <1>5, <1>6 DEF DInv, PublicationIsKept, RequiresRecovery
<1>13. WorkersStand'
  <2> SUFFICES ASSUME NEW e \in Executions, exec'[e].id \in Downloads
               PROVE  WorkerStands(exec'[e], jobs'[exec'[e].id], output'[exec'[e].id])
    BY DEF WorkersStand
  <2>1. exec[e].id # id /\ exec'[e] = exec[e]
    BY <1>2, <1>3 DEF Owned, Owners
  <2> QED
    BY <1>2, <1>4, <2>1 DEF DInv, WorkersStand
<1> QED
  BY <1>1, <1>7, <1>8, <1>9, <1>10, <1>11, <1>12, <1>13 DEF DInv

---------------------------------------------------------------------------
(* The steps that start and end a worker. *)

\* A scheduled download gets a slot and a worker of its own.
LEMMA ScheduleOneKeeps ==
  ASSUME DInv, [DaemonNext]_daemonVars, NEW e \in Executions, ScheduleOne(e)
  PROVE  DInv'
<1>1. PInv'
  BY DaemonKeepsManager
<1>2. PICK id \in Waiting : /\ Execute(e, id) /\ ExecuteMay(e, id)
                            /\ active' = [active EXCEPT ![id] = e]
  BY ScheduledMay
<1>3. /\ id \in Downloads /\ active[id] = Nobody /\ id \notin ActiveIds
      /\ jobs[id].state = "Queued"
  BY <1>2 DEF Waiting, ActiveIds
<1>4. /\ exec[e].pc = "idle" /\ exec[e].id = NoDownload /\ phase = "up"
      /\ loop = "scheduling" /\ SlotsFree /\ attempts' = [attempts EXCEPT ![e] = 1]
      /\ UNCHANGED <<phase, jobs, client, output, asking, loop, pendingOutputs, served>>
      /\ exec' = [exec EXCEPT ![e] = [exec[e] EXCEPT !.pc = "start", !.id = id]]
  BY <1>2 DEF ScheduleOne, Execute, DInv, PInv, IInv, TypeOK, Exclusive, control
<1>5. ~Owned(id)
  BY <1>3, NoSlot
<1> DEFINE x == [exec[e] EXCEPT !.pc = "start", !.id = id]
<1>6. x.pc = "start" /\ x.id = id
  BY DEF DInv, PInv, IInv, TypeOK, ExecType
<1>7. \A f \in Executions : exec'[f] = IF f = e THEN x ELSE exec[f]
  BY <1>4 DEF DInv, PInv, IInv, TypeOK
<1> HIDE DEF x
<1>8. \A d \in Downloads : active'[d] = IF d = id THEN e ELSE active[d]
  BY <1>2 DEF DInv, DaemonTypeOK
<1>9. NoDownload \notin Downloads /\ Nobody \notin Executions
  BY DownloadsAssumption, HoldersAssumption DEF NoDownload
<1>10. \A d \in Downloads : Owned(d) => Owned(d)'
  BY <1>4, <1>7, <1>9 DEF Owned, Owners
<1>11. \A d \in Downloads : Owned(d)' => Owned(d) \/ d = id
  BY <1>6, <1>7 DEF Owned, Owners
<1>12. DaemonTypeOK'
  <2>1. attempts' \in [Executions -> 0..MaxAttempts]
    BY <1>4, DaemonAssumption DEF DInv, DaemonTypeOK
  <2>2. active' \in [Downloads -> Executions \cup {Nobody}]
    BY <1>2, <1>3 DEF DInv, DaemonTypeOK
  <2> QED
    BY <1>1, <1>4, <2>1, <2>2 DEF DInv, DaemonTypeOK, PInv, IInv
<1>13. Slots'
  <2> SUFFICES ASSUME NEW f \in Executions, NEW d \in Downloads
               PROVE  exec'[f].id = d <=> active'[d] = f
    BY DEF Slots
  <2>1. exec[f].id = d <=> active[d] = f
    BY DEF DInv, Slots
  <2> QED
    BY <1>3, <1>4, <1>5, <1>6, <1>7, <1>8, <1>9, <2>1 DEF Owned, Owners
<1>14. Counted'
  <2>1. Workers' = Workers \cup {e} /\ e \notin Workers
    BY <1>4, <1>6, <1>7 DEF Workers
  <2>2. ActiveIds' = ActiveIds \cup {id}
    BY <1>3, <1>8, <1>9 DEF ActiveIds
  <2>3. /\ IsFiniteSet(Workers) /\ IsFiniteSet(ActiveIds)
        /\ Cardinality(Workers) = Cardinality(ActiveIds)
        /\ Cardinality(ActiveIds) < MaxConcurrent
    BY <1>4 DEF DInv, Counted, SlotsFree
  <2>4. /\ IsFiniteSet(Workers') /\ IsFiniteSet(ActiveIds')
        /\ Cardinality(Workers') = Cardinality(Workers) + 1
        /\ Cardinality(ActiveIds') = Cardinality(ActiveIds) + 1
        /\ Cardinality(ActiveIds) \in Nat
    BY <1>3, <2>1, <2>2, <2>3, FS_AddElement, FS_CardinalityType
  <2> QED
    BY <2>3, <2>4, DaemonAssumption DEF Counted
<1>15. Looping'
  <2>1. client.pc = "idle" /\ asking = {}
    BY <1>4 DEF DInv, Looping
  <2> QED
    BY <1>4, <2>1 DEF Looping
<1>16. Serving' /\ WorkConserving'
  BY <1>4 DEF DInv, Serving, WorkConserving
<1>17. Pending'
  BY <1>3, <1>4, <1>11 DEF DInv, Pending
<1>18. PublicationIsKept'
  BY <1>4, <1>10 DEF DInv, PublicationIsKept
<1>19. WorkersStand'
  <2> SUFFICES ASSUME NEW f \in Executions, exec'[f].id \in Downloads
               PROVE  WorkerStands(exec'[f], jobs'[exec'[f].id], output'[exec'[f].id])
    BY DEF WorkersStand
  <2>1. CASE f = e
    BY <1>3, <1>4, <1>6, <1>7, <2>1 DEF WorkerStands
  <2>2. CASE f # e
    BY <1>4, <1>7, <2>2 DEF DInv, WorkersStand
  <2> QED
    BY <2>1, <2>2
<1>20. Retries'
  BY <1>4, <1>6, <1>7 DEF DInv, Retries, Retrying, DaemonTypeOK
<1> QED
  BY <1>1, <1>12, <1>13, <1>14, <1>15, <1>16, <1>17, <1>18, <1>19, <1>20 DEF DInv

\* A worker that keeps its download changes nothing the loop relies on.
LEMMA WorkerKeeps ==
  ASSUME DInv, PInv', NEW e \in Executions,
         UNCHANGED <<phase, client, asking, loop, active, pendingOutputs, served>>,
         \A f \in Executions : f # e => exec'[f] = exec[f],
         exec'[e].id = exec[e].id, exec'[e].pc = "idle" <=> exec[e].pc = "idle",
         \A id \in Downloads : id # exec[e].id =>
           jobs'[id] = jobs[id] /\ output'[id] = output[id],
         exec[e].id \in Downloads =>
           WorkerStands(exec'[e], jobs'[exec[e].id], output'[exec[e].id]),
         attempts' \in [Executions -> 0..MaxAttempts], Retries'
  PROVE  DInv'
<1>1. \A f \in Executions : exec'[f].id = exec[f].id /\ (exec'[f].pc = "idle" <=> exec[f].pc = "idle")
  OBVIOUS
<1>2. \A id : Owned(id)' <=> Owned(id)
  BY <1>1 DEF Owned, Owners
<1>3. \A id \in Downloads : ~Owned(id) => jobs'[id] = jobs[id] /\ output'[id] = output[id]
  BY DEF Owned, Owners
<1>4. \A id \in Downloads : active[id] = Nobody => ~Owned(id)
  BY NoSlot
<1>5. DaemonTypeOK'
  BY DEF DInv, DaemonTypeOK, PInv, IInv
<1>6. Slots'
  BY <1>1 DEF DInv, Slots
<1>7. Workers' = Workers /\ ActiveIds' = ActiveIds
  BY <1>1 DEF Workers, ActiveIds
<1>8. Counted' /\ (SlotsFree' <=> SlotsFree)
  BY <1>7 DEF DInv, Counted, SlotsFree
<1>9. Looping'
  BY DEF DInv, Looping
<1>10. Serving'
  <2>1. client.pc # "idle" => client.id \in Downloads /\ ~Owned(client.id)
    BY DEF DInv, PInv, IInv, ClientFilled, Exclusive
  <2> QED
    BY <1>3, <2>1 DEF DInv, Serving
<1>11. Pending' /\ PublicationIsKept'
  BY <1>2, <1>3 DEF DInv, Pending, PublicationIsKept
<1>12. WorkersStand'
  <2> SUFFICES ASSUME NEW f \in Executions, exec'[f].id \in Downloads
               PROVE  WorkerStands(exec'[f], jobs'[exec'[f].id], output'[exec'[f].id])
    BY DEF WorkersStand
  <2>1. CASE f = e
    BY <1>1, <2>1
  <2>2. CASE f # e
    <3>1. exec'[f] = exec[f] /\ exec[f].id # exec[e].id
      BY <2>2 DEF DInv, Slots
    <3> QED
      BY <3>1 DEF DInv, WorkersStand
  <2> QED
    BY <2>1, <2>2
<1>13. WorkConserving'
  <2>1. Waiting' = Waiting
    BY <1>3, <1>4, <1>7 DEF Waiting, ActiveIds
  <2> QED
    BY <1>8, <2>1 DEF DInv, WorkConserving
<1> QED
  BY <1>5, <1>6, <1>8, <1>9, <1>10, <1>11, <1>12, <1>13 DEF DInv

\* In particular its own steps, and those of its executor.
LEMMA WorkerStepKeeps ==
  ASSUME DInv, [DaemonNext]_daemonVars, NEW e \in Executions,
         WorkerStep(e) \/ WorkerSaveFails(e)
  PROVE  DInv'
<1>1. PInv'
  BY DaemonKeepsManager
<1>2. WorkerAct(e) /\ UNCHANGED <<loop, active, pendingOutputs, attempts, served>>
  BY DEF WorkerStep, WorkerSaveFails, WorkerAct, loopVars
<1>3. Moves(e)
  BY <1>2, WorkerMoves DEF DInv
<1>4. exec[e].pc = "done" => RetriesLeft(e) \/ exec'[e].pc # "saved"
  <2> SUFFICES ASSUME exec[e].pc = "done", ~RetriesLeft(e)
               PROVE  exec'[e].pc = exec[e].pc
    OBVIOUS
  <2>1. Step(e) \/ ExecutorStep(e) \/ SaveFails(e)
    BY DEF WorkerStep, WorkerSaveFails
  <2>2. \/ \E written \in Bytes : Report(e, written)
        \/ \E outcome \in Endings : TransferEnds(e, outcome)
    BY <2>1
    DEF Step, SaveFails, ExecutorStep, SaveJob, RegisterJob, Begin, StopInspection,
        StartTransfer, Tick, TransferFailed, TransferStopped, TransferFinished,
        RecordFailure, Confirm, PrepareFails, FinalizeFails, Prepare, Finalize
  <2> QED
    BY <2>2 DEF Report, TransferEnds, DInv, PInv, IInv, TypeOK, ExecType
<1>5. exec[e].id \in Downloads =>
        WorkerStands(exec'[e], jobs'[exec[e].id], output'[exec[e].id])
  <2> SUFFICES ASSUME exec[e].id \in Downloads
               PROVE  WorkerStands(exec'[e], jobs'[exec[e].id], output'[exec[e].id])
    OBVIOUS
  <2>1. WorkerStands(exec[e], jobs[exec[e].id], output[exec[e].id])
    BY DEF DInv, WorkersStand
  <2> QED
    BY <1>3, <2>1 DEF Moves, Turns, WorkerStands
<1>6. Retries'
  <2>1. \A f \in Executions : Retrying(exec'[f]) => Retrying(exec[f]) \/ attempts[f] < MaxAttempts
    BY <1>3, <1>4 DEF Moves, Turns, Retrying, RetriesLeft
  <2> QED
    BY <1>2, <2>1 DEF DInv, Retries
<1> QED
  BY <1>1, <1>2, <1>3, <1>5, <1>6, WorkerKeeps DEF Moves, DInv, DaemonTypeOK

\* The next attempt starts on the record the last one has queued again.
LEMMA NextAttemptKeeps ==
  ASSUME DInv, [DaemonNext]_daemonVars, NEW e \in Executions, NextAttempt(e)
  PROVE  DInv'
<1>1. PInv'
  BY DaemonKeepsManager
<1> DEFINE x == [exec[e] EXCEPT !.pc = "start", !.id = exec[e].id]
<1>2. /\ exec[e].pc = "requeued" /\ exec' = [exec EXCEPT ![e] = x]
      /\ attempts' = [attempts EXCEPT ![e] = attempts[e] + 1]
      /\ UNCHANGED <<phase, client, asking, jobs, output>>
      /\ UNCHANGED <<loop, active, pendingOutputs, served>>
  BY DEF NextAttempt, Execute, control, DInv, PInv, IInv, TypeOK
<1>3. x.pc = "start" /\ x.id = exec[e].id
  BY DEF DInv, PInv, IInv, TypeOK, ExecType
<1>4. \A f \in Executions : exec'[f] = IF f = e THEN x ELSE exec[f]
  BY <1>2 DEF DInv, PInv, IInv, TypeOK
<1> HIDE DEF x
<1>5. exec[e].id \in Downloads =>
        WorkerStands(exec'[e], jobs'[exec[e].id], output'[exec[e].id])
  BY <1>2, <1>3, <1>4 DEF DInv, WorkersStand, WorkerStands
<1>6. attempts' \in [Executions -> 0..MaxAttempts]
  <2>1. attempts \in [Executions -> 0..MaxAttempts] /\ attempts[e] < MaxAttempts
    BY <1>2 DEF DInv, DaemonTypeOK, Retries, Retrying
  <2> QED
    BY <1>2, <2>1, DaemonAssumption
<1>7. Retries'
  BY <1>2, <1>3, <1>4 DEF DInv, Retries, Retrying, DaemonTypeOK
<1> QED
  BY <1>1, <1>2, <1>3, <1>4, <1>5, <1>6, <1>7, WorkerKeeps

\* A worker that is done gives its slot back; the loop keeps the publication it
\* could not record.
LEMMA FinishedKeeps ==
  ASSUME DInv, [DaemonNext]_daemonVars, NEW e \in Executions, Finished(e)
  PROVE  DInv'
<1> DEFINE id == exec[e].id
<1>1. PInv'
  BY DaemonKeepsManager
<1>2. /\ exec[e].pc = "done" /\ exec' = [exec EXCEPT ![e] = Idle]
      /\ phase = "up" /\ loop = "waiting" /\ loop' = "scheduling"
      /\ active' = [active EXCEPT ![id] = Nobody]
      /\ pendingOutputs' = IF exec[e].result = "unpersisted"
                             THEN [pendingOutputs EXCEPT ![id] = output[id]]
                             ELSE pendingOutputs
      /\ attempts' = [attempts EXCEPT ![e] = 0]
      /\ asking' = asking \ {e}
      /\ UNCHANGED <<phase, jobs, client, output, served>>
  BY DEF Finished, Release
<1>3. /\ exec[e] \in ExecType /\ id \in Downloads
      /\ Attempt(exec[e], jobs[id], output[id])
      /\ \A f \in Executions : exec[f].id = id => f = e
  BY <1>2, Working DEF DInv
<1>4. active[id] = e /\ WorkerStands(exec[e], jobs[id], output[id])
  BY <1>3 DEF DInv, Slots, WorkersStand
<1>5. Idle.pc = "idle" /\ Idle.id = NoDownload
  BY DEF Idle
<1>6. \A f \in Executions : exec'[f] = IF f = e THEN Idle ELSE exec[f]
  BY <1>2 DEF DInv, PInv, IInv, TypeOK
<1>7. \A d \in Downloads : active'[d] = IF d = id THEN Nobody ELSE active[d]
  BY <1>2 DEF DInv, DaemonTypeOK
<1>8. \A d \in Downloads :
        pendingOutputs'[d] = IF d = id /\ exec[e].result = "unpersisted" THEN output[id]
                             ELSE pendingOutputs[d]
  BY <1>2 DEF DInv, DaemonTypeOK
<1>9. NoDownload \notin Downloads /\ Nobody \notin Executions
  BY DownloadsAssumption, HoldersAssumption DEF NoDownload
<1>10. \A d \in Downloads : Owned(d)' <=> Owned(d) /\ d # id
  BY <1>3, <1>5, <1>6, <1>9 DEF Owned, Owners
<1>11. DaemonTypeOK'
  <2>1. attempts' \in [Executions -> 0..MaxAttempts]
    BY <1>2, DaemonAssumption DEF DInv, DaemonTypeOK
  <2>2. active' \in [Downloads -> Executions \cup {Nobody}]
    BY <1>2 DEF DInv, DaemonTypeOK
  <2>3. pendingOutputs' \in [Downloads -> Bytes \cup {NoOutput}]
    BY <1>2, <1>3 DEF DInv, DaemonTypeOK, PInv, IInv, TypeOK
  <2> QED
    BY <1>1, <1>2, <2>1, <2>2, <2>3 DEF DInv, DaemonTypeOK, PInv, IInv
<1>12. Slots'
  <2> SUFFICES ASSUME NEW f \in Executions, NEW d \in Downloads
               PROVE  exec'[f].id = d <=> active'[d] = f
    BY DEF Slots
  <2>1. exec[f].id = d <=> active[d] = f
    BY DEF DInv, Slots
  <2> QED
    BY <1>3, <1>4, <1>5, <1>6, <1>7, <1>9, <2>1
<1>13. Counted'
  <2>1. Workers' = Workers \ {e} /\ e \in Workers
    BY <1>2, <1>5, <1>6 DEF Workers
  <2>2. ActiveIds' = ActiveIds \ {id} /\ id \in ActiveIds
    BY <1>3, <1>4, <1>7, <1>9 DEF ActiveIds
  <2>3. /\ IsFiniteSet(Workers) /\ IsFiniteSet(ActiveIds)
        /\ Cardinality(Workers) = Cardinality(ActiveIds)
        /\ Cardinality(ActiveIds) <= MaxConcurrent
    BY DEF DInv, Counted
  <2>4. /\ IsFiniteSet(Workers') /\ IsFiniteSet(ActiveIds')
        /\ Cardinality(Workers') = Cardinality(Workers) - 1
        /\ Cardinality(ActiveIds') = Cardinality(ActiveIds) - 1
        /\ Cardinality(ActiveIds) \in Nat
    BY <2>1, <2>2, <2>3, FS_RemoveElement, FS_CardinalityType
  <2> QED
    BY <2>3, <2>4, DaemonAssumption DEF Counted
<1>14. Looping' /\ Serving' /\ WorkConserving'
  <2>1. client.pc = "idle" /\ asking = {}
    BY <1>2 DEF DInv, Looping
  <2> QED
    BY <1>2, <2>1 DEF Looping, Serving, WorkConserving
<1>15. exec[e].result \in {"ok", "retryable", "error", "unpersisted"}
  BY <1>2, <1>3 DEF Attempt, ExecType, Results
<1>16. \/ exec[e].result = "unpersisted" /\ jobs[id].state = "Finalizing"
       \/ exec[e].result # "unpersisted"
            /\ (jobs[id].state # "Finalizing" \/ output[id] = NoOutput)
  BY <1>2, <1>3, <1>4, <1>15 DEF Attempt, WorkerStands, RequiresRecovery
<1>17. Pending'
  <2> SUFFICES ASSUME NEW d \in Downloads, pendingOutputs'[d] # NoOutput
               PROVE  /\ jobs[d].state = "Finalizing" /\ ~Owned(d)'
                      /\ pendingOutputs'[d] = output[d]
    BY <1>2 DEF Pending
  <2> QED
    BY <1>8, <1>10, <1>16 DEF DInv, Pending
<1>18. PublicationIsKept'
  <2> SUFFICES ASSUME NEW d \in Downloads, jobs[d].state = "Finalizing", output[d] # NoOutput
               PROVE  Owned(d)' \/ pendingOutputs'[d] = output[d]
    BY <1>2 DEF PublicationIsKept
  <2> QED
    BY <1>2, <1>8, <1>10, <1>16 DEF DInv, PublicationIsKept
<1>19. WorkersStand'
  <2> SUFFICES ASSUME NEW f \in Executions, exec'[f].id \in Downloads
               PROVE  WorkerStands(exec'[f], jobs'[exec'[f].id], output'[exec'[f].id])
    BY DEF WorkersStand
  <2> QED
    BY <1>2, <1>5, <1>6, <1>9 DEF DInv, WorkersStand
<1>20. Retries'
  BY <1>2, <1>5, <1>6 DEF DInv, Retries, Retrying, DaemonTypeOK
<1> QED
  BY <1>1, <1>11, <1>12, <1>13, <1>14, <1>17, <1>18, <1>19, <1>20 DEF DInv

---------------------------------------------------------------------------
(* The process, and the invariant. *)

\* Until the process serves, it has neither workers nor tables.
LEMMA StartDaemonKeeps ==
  ASSUME DInv, [DaemonNext]_daemonVars, StartDaemon
  PROVE  DInv'
<1>1. PInv'
  BY DaemonKeepsManager
<1>2. /\ phase # "up"
      /\ UNCHANGED <<exec, output, asking, loop, active, pendingOutputs, attempts, served>>
      /\ \/ phase' # "up"
         \/ /\ client'.pc = "idle" /\ UNCHANGED jobs
            /\ \A id \in Downloads : ~RequiresRecovery(jobs[id].state)
  BY DEF StartDaemon, Start, Recover, ClientCommit, ClientRegister, Started, control, loopVars
<1>3. /\ loop = "waiting" /\ ~served /\ asking = {}
      /\ \A id \in Downloads : active[id] = Nobody /\ pendingOutputs[id] = NoOutput
      /\ \A e \in Executions : exec[e].pc = "idle" /\ exec[e].id = NoDownload
  BY <1>2 DEF DInv, Looping, PInv, Exclusive
<1>4. NoDownload \notin Downloads
  BY DownloadsAssumption DEF NoDownload
<1>5. DaemonTypeOK'
  BY <1>1, <1>2 DEF DInv, DaemonTypeOK, PInv, IInv
<1>6. Slots' /\ Retries'
  BY <1>2 DEF DInv, Slots, Retries
<1>7. Counted'
  <2>1. Workers' = Workers /\ ActiveIds' = ActiveIds
    BY <1>2 DEF Workers, ActiveIds
  <2> QED
    BY <2>1 DEF DInv, Counted
<1>8. Looping' /\ Serving' /\ WorkConserving'
  BY <1>2, <1>3 DEF Looping, Serving, WorkConserving
<1>9. Pending' /\ WorkersStand'
  BY <1>2, <1>3, <1>4 DEF Pending, WorkersStand
<1>10. PublicationIsKept'
  BY <1>2 DEF PublicationIsKept, RequiresRecovery
<1> QED
  BY <1>1, <1>5, <1>6, <1>7, <1>8, <1>9, <1>10 DEF DInv

\* A process that ends leaves the state of one that has not started.
LEMMA StopDaemonKeeps ==
  ASSUME DInv, [DaemonNext]_daemonVars, StopDaemon
  PROVE  DInv'
<1>1. PInv'
  BY DaemonKeepsManager
<1>2. /\ phase' = "down" /\ loop' = "waiting" /\ served' = FALSE /\ asking' = {}
      /\ active' = [id \in Downloads |-> Nobody]
      /\ pendingOutputs' = [id \in Downloads |-> NoOutput]
      /\ attempts' = [e \in Executions |-> 0]
      /\ exec' = [e \in Executions |-> Idle]
  BY DEF StopDaemon, Crash
<1>3. Idle.pc = "idle" /\ Idle.id = NoDownload
  BY DEF Idle
<1>4. NoDownload \notin Downloads /\ Nobody \notin Executions
  BY DownloadsAssumption, HoldersAssumption DEF NoDownload
<1>5. DaemonTypeOK'
  <2>1. attempts' \in [Executions -> 0..MaxAttempts]
    BY <1>2, DaemonAssumption
  <2>2. /\ active' \in [Downloads -> Executions \cup {Nobody}]
        /\ pendingOutputs' \in [Downloads -> Bytes \cup {NoOutput}]
    BY <1>2
  <2> QED
    BY <1>1, <1>2, <2>1, <2>2 DEF DaemonTypeOK, PInv, IInv
<1>6. Slots'
  BY <1>2, <1>3, <1>4 DEF Slots
<1>7. Counted'
  <2>1. Workers' = {} /\ ActiveIds' = {}
    BY <1>2, <1>3 DEF Workers, ActiveIds
  <2>2. IsFiniteSet(Workers') /\ IsFiniteSet(ActiveIds')
        /\ Cardinality(Workers') = 0 /\ Cardinality(ActiveIds') = 0
    BY <2>1, FS_EmptySet
  <2> QED
    BY <2>2, DaemonAssumption DEF Counted
<1>8. Looping' /\ Serving' /\ PublicationIsKept' /\ WorkConserving'
  BY <1>2 DEF Looping, Serving, PublicationIsKept, WorkConserving
<1>9. Pending' /\ WorkersStand' /\ Retries'
  BY <1>2, <1>3, <1>4 DEF Pending, WorkersStand, Retries, Retrying
<1> QED
  BY <1>1, <1>5, <1>6, <1>7, <1>8, <1>9 DEF DInv

\* Every step of the daemon keeps its invariant.
LEMMA DaemonKeeps == DInv /\ [DaemonNext]_daemonVars => DInv'
<1> SUFFICES ASSUME DInv, [DaemonNext]_daemonVars PROVE DInv'
  OBVIOUS
<1>1. CASE TakesCommand
  BY <1>1, TakesCommandKeeps, StopsKeep DEF TakesCommand
<1>2. CASE Serves
  BY <1>2, ServeCommitKeeps, ServeRegisterKeeps, StopsKeep, ScheduleNoMoreKeeps,
     ScheduleOneKeeps DEF Serves
<1>3. CASE ServeFails
  BY <1>3, ServeFailsKeeps
<1>4. ASSUME NEW e \in Executions,
             WorkerStep(e) \/ WorkerSaveFails(e) \/ NextAttempt(e) \/ Finished(e)
      PROVE  DInv'
  BY <1>4, WorkerStepKeeps, NextAttemptKeeps, FinishedKeeps
<1>5. CASE StartDaemon \/ StopDaemon
  BY <1>5, StartDaemonKeeps, StopDaemonKeeps
<1>6. CASE UNCHANGED daemonVars
  <2>1. PInv'
    BY DaemonKeepsManager
  <2>2. /\ UNCHANGED <<phase, jobs, exec, output, client, asking>>
        /\ UNCHANGED <<loop, active, pendingOutputs, attempts, served>>
    BY <1>6 DEF daemonVars, vars, control, loopVars
  <2>3. Looping' /\ Serving'
    BY <2>2 DEF DInv, Looping, Serving
  <2>4. loop' \in {"waiting", "serving", "scheduling"} /\ served' \in BOOLEAN
    BY <2>2 DEF DInv, DaemonTypeOK
  <2>5. /\ DaemonTypeOK' /\ Slots' /\ Counted' /\ Pending' /\ WorkersStand' /\ Retries'
        /\ PublicationIsKept'
        /\ Waiting' = Waiting /\ (SlotsFree' <=> SlotsFree)
    BY <2>1, <2>2, <2>4, TablesStay
  <2>6. WorkConserving'
    BY <2>2, <2>5 DEF DInv, WorkConserving
  <2> QED
    BY <2>1, <2>3, <2>5, <2>6 DEF DInv
<1> QED
  BY <1>1, <1>2, <1>3, <1>4, <1>5, <1>6 DEF DaemonNext

---------------------------------------------------------------------------
(* The theorems. *)

\* The invariant of the daemon, which the other theorems use.
THEOREM DaemonInvariance == DaemonSpec => []DInv
<1> QED
  BY DaemonStarts, DaemonKeeps, PTL DEF DaemonSpec

\* The state of the daemon keeps its type; in particular no worker makes more
\* than MAX_AUTOMATIC_ATTEMPTS attempts at its download (lib.rs, execute_job).
THEOREM DaemonTypeCorrect == DaemonSpec => []DaemonTypeOK
<1>1. DInv => DaemonTypeOK
  BY DEF DInv
<1> QED
  BY <1>1, DaemonInvariance, PTL

\* "Callers must serialize updates for each download": the daemon, with whatever
\* commands, crashes and failures, is a caller the manager is written for.
THEOREM DaemonServesManager == DaemonSpec => ServesManager
<1>1. DaemonInit => Init
  BY DEF DaemonInit
<1>2. DaemonSpec => Spec
  BY <1>1, DaemonServes, DaemonInvariance, PTL DEF DaemonSpec, Spec
<1> QED
  BY <1>2 DEF ServesManager

\* active_jobs names the worker of each download and no other; at most
\* MAX_CONCURRENT_DOWNLOADS workers run.
THEOREM SlotsAreWorkers == DaemonSpec => []SlotsMatchWorkers
<1>1. DInv => SlotsMatchWorkers
  <2> SUFFICES ASSUME DInv PROVE SlotsMatchWorkers
    OBVIOUS
  <2>1. Workers = {e \in Executions : exec[e].pc # "idle"}
    BY DEF Workers
  <2>2. Cardinality(Workers) <= MaxConcurrent
    BY DEF DInv, Counted
  <2> QED
    BY <2>1, <2>2 DEF DInv, Slots, SlotsMatchWorkers
<1> QED
  BY <1>1, DaemonInvariance, PTL

\* schedule_jobs runs after every change that could make a download runnable: the
\* loop never waits with a queued download and a free slot, except before its
\* first turn.
THEOREM LoopConservesWork == DaemonSpec => []WorkConserving
<1>1. DInv => WorkConserving
  BY DEF DInv
<1> QED
  BY <1>1, DaemonInvariance, PTL

\* While the process runs, a published output whose record is not Completed yet
\* is in the hands of its worker or kept in pending_outputs for SaveStatus.
THEOREM PublicationsAreKept == DaemonSpec => []PublicationIsKept
<1>1. DInv => PublicationIsKept
  BY DEF DInv
<1> QED
  BY <1>1, DaemonInvariance, PTL

\* What the manager promises its callers, it promises the daemon: no update of a
\* record is lost.
THEOREM DaemonLosesNoUpdate == DaemonSpec => []ExecutionHoldsLatest
<1>1. DaemonSpec => Spec
  BY DaemonServesManager DEF ServesManager
<1> QED
  BY <1>1, NoLostUpdate, PTL
=============================================================================
