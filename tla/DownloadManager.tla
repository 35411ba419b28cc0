--------------------------- MODULE DownloadManager ---------------------------
(***************************************************************************)
(* The download manager (crates/gunda-core/src/application/manager.rs): a  *)
(* registry of jobs in memory over a durable repository, the idle commands *)
(* on it, and the execution of a queued job by an executor under pause and *)
(* cancel requests, with progress checkpoints.                             *)
(*                                                                         *)
(* A commit takes two steps, because it is two in the code: the repository *)
(* saves the record, then the registry shows it; the write lock is held    *)
(* across both.  Executors are the environment: any implementation of the  *)
(* executor traits, whatever byte counts it returns.                       *)
(***************************************************************************)
EXTENDS DownloadJob, FiniteSets

CONSTANTS
  Downloads,    \* identifiers of downloads
  Executions,   \* concurrent calls of execute
  Client,       \* the caller of the idle commands
  Nobody,       \* holder of a free write lock
  Plans         \* what a prepared transfer may announce

PlanType == [total: Totals, start: Bytes, estimated: BOOLEAN,
             rewind: BOOLEAN, pausable: BOOLEAN]

ASSUME DownloadsAssumption == Downloads \subseteq Nat \ {0}
ASSUME HoldersAssumption ==
  /\ Client \notin Executions
  /\ Nobody \notin Executions
  /\ Client # Nobody
ASSUME PlansAssumption == Plans \subseteq PlanType

NoDownload == 0
NoOutput == -1
NoPlan == [total |-> Unknown, start |-> 0, estimated |-> FALSE,
           rewind |-> FALSE, pausable |-> FALSE]

VARIABLES
  phase,          \* of the process: "down", "recovering" or "up"
  jobs,           \* the registry in memory
  store,          \* the repository
  writer,         \* holder of write_lock
  client,         \* the idle command in progress
  exec,           \* each call of execute: its place and its local variables
  request,        \* DownloadCancellation: the stop requested of an execution
  pauseSupported, \* DownloadCancellation: whether it may be paused
  asking,         \* request_pause, once it has read that it may
  output          \* on disk: bytes published by the last attempt, or NoOutput

control == <<request, pauseSupported, asking>>
vars == <<phase, jobs, store, writer, client, exec, control, output>>

---------------------------------------------------------------------------
Requests == {"none", "pause", "cancel"}

\* "done" is the return of execute; the task that called it still owns the
\* job then, and may requeue it ("requeued") to execute it again.
Labels == {"idle", "start", "inspect", "prepared", "transfer", "fail",
           "finalize", "confirm", "commit", "saved", "done", "requeued"}

Results == {"none", "ok", "retryable", "error", "unpersisted"}

\* How the executor's transfer ended, once it did.
Outcome == [kind: {"running", "finished", "stopped", "failed"},
            written: Bytes, failure: Failures]
Running == [kind |-> "running", written |-> 0, failure |-> "none"]
Endings == {o \in Outcome : /\ o.kind # "running"
                            /\ o.kind = "failed" <=> o.failure # "none"
                            /\ o.kind = "failed" => o.written = 0}

\* job: the local copy, as last read from or committed to the registry;
\* cand: the modified copy being committed; then: where its commit leads.
Idle == [pc |-> "idle", id |-> NoDownload, job |-> NoJob, cand |-> NoJob,
         then |-> "idle", plan |-> NoPlan, reported |-> 0,
         outcome |-> Running, result |-> "none"]

ClientIdle == [pc |-> "idle", id |-> NoDownload, cand |-> NoJob]

\* The executions that own a job, each from its start to its release.
Owners(id) == {e \in Executions : exec[e].id = id}
Owned(id) == Owners(id) # {}

---------------------------------------------------------------------------
(* Committing a record: lock and save, then register and unlock. *)

Save(holder, id, job) ==
  /\ writer = Nobody
  /\ writer' = holder
  /\ store' = [store EXCEPT ![id] = job]

Register(id, job) ==
  /\ writer' = Nobody
  /\ jobs' = [jobs EXCEPT ![id] = job]

\* An execution sets out to commit cand, to go on at label then.
Commit(e, cand, then) ==
  exec' = [exec EXCEPT ![e].pc = "commit", ![e].cand = cand, ![e].then = then]

Goto(e, label) == exec' = [exec EXCEPT ![e].pc = label]

Return(e, result) ==
  exec' = [exec EXCEPT ![e] = [Idle EXCEPT !.pc = "done", !.id = exec[e].id,
                                           !.result = result]]

SaveJob(e) ==
  /\ exec[e].pc = "commit"
  /\ Save(e, exec[e].id, exec[e].cand)
  /\ Goto(e, "saved")
  /\ output' = IF exec[e].cand.state = "Inspecting"
                 THEN [output EXCEPT ![exec[e].id] = NoOutput] ELSE output
  /\ UNCHANGED <<phase, jobs, client, control>>

\* Mutant: the change is shown though it was not saved.
SaveFails_Shown(e) ==
  /\ exec[e].pc = "commit"
  /\ writer = Nobody
  /\ jobs' = [jobs EXCEPT ![exec[e].id] = exec[e].cand]
  /\ Return(e, IF exec[e].cand.state = "Completed" THEN "unpersisted" ELSE "error")
  /\ UNCHANGED <<phase, store, writer, client, control, output>>

\* A failed save ends the execution; once the output is in place, the error
\* carries it to the caller (CompletionNotPersisted).
SaveFails(e) ==
  /\ exec[e].pc = "commit"
  /\ writer = Nobody
  /\ Return(e, IF exec[e].cand.state = "Completed" THEN "unpersisted" ELSE "error")
  /\ UNCHANGED <<phase, jobs, store, writer, client, control, output>>

RegisterJob(e) ==
  LET x == exec[e] IN
  /\ x.pc = "saved"
  /\ Register(x.id, x.cand)
  /\ CASE x.then = "done" ->
            Return(e, IF x.cand.state # "Failed" THEN "ok"
                      ELSE IF x.cand.failure = "retryable" THEN "retryable" ELSE "ok")
       [] x.then = "requeued" ->
            exec' = [exec EXCEPT ![e] = [Idle EXCEPT !.pc = "requeued", !.id = x.id]]
       [] OTHER ->
            exec' = [exec EXCEPT ![e].pc = x.then, ![e].job = x.cand,
                                 ![e].cand = NoJob, ![e].then = "idle"]
  /\ UNCHANGED <<phase, store, client, control, output>>

---------------------------------------------------------------------------
(* Progress the manager accepts from an executor. *)

\* Mutant: reports are taken for increments.
ExecutionTotal_Adds(job, written, estimated) ==
  IF estimated THEN job.total + written ELSE job.total

\* An estimated total grows with the bytes reported; an exact one does not.
ExecutionTotal(job, written, estimated) ==
  IF estimated /\ written > job.total THEN written ELSE job.total

ProgressAccepted(job, written, estimated) ==
  /\ written >= job.done
  /\ ValidProgress(written, ExecutionTotal(job, written, estimated))

\* Where a transfer may rewind, its stop position may be behind the progress.
StoppedTotal(job, written, estimated, rewind) ==
  IF rewind /\ job.total = Unknown THEN Unknown
  ELSE ExecutionTotal(job, written, estimated)

StopAccepted(job, written, estimated, rewind) ==
  /\ ~rewind => written >= job.done
  /\ ValidProgress(written, StoppedTotal(job, written, estimated, rewind))

StopState(e) == IF request[e] = "pause" THEN "Paused" ELSE "Cancelled"

\* Ends the execution as requested, at the bytes the executor stopped at.
RecordStop(e, written, rewind) ==
  LET job == exec[e].job
      est == exec[e].plan.estimated
  IN IF StopAccepted(job, written, est, rewind)
       THEN Commit(e, TransitionTo(
                        UpdateProgress(job, written,
                                       StoppedTotal(job, written, est, rewind)),
                        StopState(e)), "done")
       ELSE Return(e, "error")

---------------------------------------------------------------------------
(* Execution, up to the transfer. *)

\* The caller runs execute with a new handle, or again with the one it has.
Execute(e, id) ==
  /\ phase = "up"
  /\ jobs[id] # NoJob
  /\ \/ /\ exec[e].pc = "idle"
        /\ request' = [request EXCEPT ![e] = "none"]
        /\ pauseSupported' = [pauseSupported EXCEPT ![e] = FALSE]
        /\ UNCHANGED asking
     \/ /\ exec[e].pc = "requeued"
        /\ exec[e].id = id
        /\ UNCHANGED control
  /\ exec' = [exec EXCEPT ![e].pc = "start", ![e].id = id]
  /\ UNCHANGED <<phase, jobs, store, writer, client, output>>

Begin(e) ==
  LET job == jobs[exec[e].id]
      To(state, then) == exec' = [exec EXCEPT ![e].pc = "commit", ![e].job = job,
                                     ![e].cand = TransitionTo(job, state),
                                     ![e].then = then]
  IN
  /\ exec[e].pc = "start"
  /\ \/ job.state # "Queued" /\ Return(e, "error")
     \/ job.state = "Queued" /\ request[e] # "none" /\ To(StopState(e), "done")
     \/ job.state = "Queued" /\ request[e] = "none" /\ To("Inspecting", "inspect")
  /\ UNCHANGED <<phase, jobs, store, writer, client, control, output>>

\* Mutant: only a pause interrupts the inspection.
StopInspection_PauseOnly(e) ==
  /\ exec[e].pc = "inspect"
  /\ request[e] = "pause"
  /\ Commit(e, TransitionTo(exec[e].job, StopState(e)), "done")
  /\ UNCHANGED <<phase, jobs, store, writer, client, control, output>>

\* The stop is noticed first, but may come just after the executor is polled.
StopInspection(e) ==
  /\ exec[e].pc = "inspect"
  /\ request[e] # "none"
  /\ Commit(e, TransitionTo(exec[e].job, StopState(e)), "done")
  /\ UNCHANGED <<phase, jobs, store, writer, client, control, output>>

PrepareFails(e, failure) ==
  /\ exec[e].pc = "inspect"
  /\ exec' = [exec EXCEPT ![e].pc = "fail",
                 ![e].outcome = [kind |-> "failed", written |-> 0, failure |-> failure]]
  /\ UNCHANGED <<phase, jobs, store, writer, client, control, output>>

Prepare(e, plan) ==
  /\ exec[e].pc = "inspect"
  /\ pauseSupported' = [pauseSupported EXCEPT ![e] = plan.pausable]
  /\ IF ValidProgress(plan.start, plan.total)
       THEN exec' = [exec EXCEPT ![e].pc = "prepared", ![e].plan = plan,
                       ![e].cand = UpdateProgress(exec[e].job, plan.start, plan.total)]
       ELSE Return(e, "error")
  /\ UNCHANGED <<phase, jobs, store, writer, client, request, asking, output>>

\* Mutant: the request is not looked at again after the preparation.
StartTransfer_Unasked(e) ==
  /\ exec[e].pc = "prepared"
  /\ exec' = [exec EXCEPT ![e].pc = "commit", ![e].then = "transfer",
                 ![e].cand = TransitionTo(exec[e].cand, "Downloading"),
                 ![e].reported = exec[e].plan.start]
  /\ UNCHANGED <<phase, jobs, store, writer, client, control, output>>

\* A request that arrived since the preparation is honoured with its metadata.
StartTransfer(e) ==
  /\ exec[e].pc = "prepared"
  /\ IF request[e] # "none"
       THEN Commit(e, TransitionTo(exec[e].cand, StopState(e)), "done")
       ELSE exec' = [exec EXCEPT ![e].pc = "commit", ![e].then = "transfer",
                       ![e].cand = TransitionTo(exec[e].cand, "Downloading"),
                       ![e].reported = exec[e].plan.start]
  /\ UNCHANGED <<phase, jobs, store, writer, client, control, output>>

---------------------------------------------------------------------------
(* The transfer, which goes on while a checkpoint is being committed. *)

Transferring(e) ==
  /\ exec[e].outcome = Running
  /\ \/ exec[e].pc = "transfer"
     \/ exec[e].then = "transfer" /\ exec[e].job.state = "Downloading"

Report(e, written) ==
  /\ Transferring(e)
  /\ exec' = [exec EXCEPT ![e].reported = written]
  /\ UNCHANGED <<phase, jobs, store, writer, client, control, output>>

TransferEnds(e, outcome) ==
  /\ Transferring(e)
  /\ exec' = [exec EXCEPT ![e].outcome = outcome]
  /\ UNCHANGED <<phase, jobs, store, writer, client, control, output>>

\* Commits the reported bytes, or goes straight on when they are recorded.
CheckpointProgress(e, then) ==
  LET x == exec[e]
      total == ExecutionTotal(x.job, x.reported, x.plan.estimated)
      accepted == ProgressAccepted(x.job, x.reported, x.plan.estimated)
      recorded == x.reported = x.job.done /\ total = x.job.total
  IN \/ ~accepted /\ Return(e, "error")
     \/ accepted /\ recorded /\ Goto(e, then)
     \/ accepted /\ ~recorded /\ Commit(e, UpdateProgress(x.job, x.reported, total), then)

\* The one-second tick; a transfer that ended is noticed first.
Tick(e) ==
  /\ exec[e].pc = "transfer"
  /\ exec[e].outcome = Running
  /\ CheckpointProgress(e, "transfer")
  /\ UNCHANGED <<phase, jobs, store, writer, client, control, output>>

TransferFailed(e) ==
  /\ exec[e].pc = "transfer"
  /\ exec[e].outcome.kind = "failed"
  /\ CheckpointProgress(e, "fail")
  /\ UNCHANGED <<phase, jobs, store, writer, client, control, output>>

TransferStopped(e) ==
  LET x == exec[e] IN
  /\ x.pc = "transfer"
  /\ x.outcome.kind = "stopped"
  /\ IF \/ ~ProgressAccepted(x.job, x.reported, x.plan.estimated)
        \/ request[e] = "none"
        \/ x.outcome.written < x.reported /\ ~x.plan.rewind
       THEN Return(e, "error")
       ELSE RecordStop(e, x.outcome.written, x.plan.rewind)
  /\ UNCHANGED <<phase, jobs, store, writer, client, control, output>>

\* An estimate is replaced by the bytes received; an exact total must be met.
FinalTotal(e) ==
  IF exec[e].plan.estimated THEN exec[e].outcome.written ELSE exec[e].job.total

Complete(e) ==
  LET x == exec[e] IN
  /\ ProgressAccepted(x.job, x.reported, x.plan.estimated)
  /\ x.outcome.written >= x.reported
  /\ ~x.plan.estimated =>
       /\ x.outcome.written >= x.job.done
       /\ x.plan.total # Unknown => x.outcome.written = x.plan.total

TransferFinished(e) ==
  LET x == exec[e] IN
  /\ x.pc = "transfer"
  /\ x.outcome.kind = "finished"
  /\ \/ ~Complete(e) /\ Return(e, "error")
     \/ Complete(e) /\ request[e] # "none" /\ RecordStop(e, x.outcome.written, FALSE)
     \/ /\ Complete(e) /\ request[e] = "none"
        /\ Commit(e, TransitionTo(
                       UpdateProgress(x.job, x.outcome.written, FinalTotal(e)),
                       "Finalizing"), "finalize")
  /\ UNCHANGED <<phase, jobs, store, writer, client, control, output>>

---------------------------------------------------------------------------
(* Failure, publication and completion. *)

\* The failure is recorded on the registry's copy of the job.
RecordFailure(e) ==
  LET job == jobs[exec[e].id] IN
  /\ exec[e].pc = "fail"
  /\ IF CanTransitionTo(job.state, "Failed")
       THEN Commit(e, FailJob(job, exec[e].outcome.failure), "done")
       ELSE Return(e, "error")
  /\ UNCHANGED <<phase, jobs, store, writer, client, control, output>>

FinalizeFails(e, failure) ==
  /\ exec[e].pc = "finalize"
  /\ exec' = [exec EXCEPT ![e].pc = "fail", ![e].outcome.failure = failure]
  /\ UNCHANGED <<phase, jobs, store, writer, client, control, output>>

\* The executor puts the output in place and says how many bytes it holds.
Finalize(e, written) ==
  /\ exec[e].pc = "finalize"
  /\ output' = [output EXCEPT ![exec[e].id] = written]
  /\ IF written = exec[e].outcome.written THEN Goto(e, "confirm")
                                          ELSE Return(e, "unpersisted")
  /\ UNCHANGED <<phase, jobs, store, writer, client, control>>

\* Mutant: whatever the bytes.
Confirmable_AnyBytes(id, written) == jobs[id].state = "Finalizing"

\* confirm_published_output: what a publication result may complete.
Confirmable(id, written) ==
  jobs[id].state = "Finalizing" /\ jobs[id].done = written

Confirm(e) ==
  LET id == exec[e].id IN
  /\ exec[e].pc = "confirm"
  /\ IF Confirmable(id, output[id])
       THEN Commit(e, TransitionTo(jobs[id], "Completed"), "done")
       ELSE Return(e, "unpersisted")
  /\ UNCHANGED <<phase, jobs, store, writer, client, control, output>>

---------------------------------------------------------------------------
(* Idle commands.  Each reads the registry under the write lock. *)

Commands == {"Pause", "Resume", "Retry", "Restart", "Cancel"}

\* Mutant: a restart of a download whatever it is doing.
Allowed_Restart(command, job) ==
  CASE command = "Pause"   -> job.state = "Queued"
    [] command = "Resume"  -> job.state \in {"Paused", "Interrupted"}
    [] command = "Retry"   -> job.state = "Failed" /\ job.failure = "retryable"
    [] command = "Restart" -> job.state \in States
    [] command = "Cancel"  -> job.state \in {"Queued", "Paused"}

Allowed(command, job) ==
  CASE command = "Pause"   -> job.state = "Queued"
    [] command = "Resume"  -> job.state \in {"Paused", "Interrupted"}
    [] command = "Retry"   -> job.state = "Failed" /\ job.failure = "retryable"
    [] command = "Restart" -> CanRestart(job.state)
    [] command = "Cancel"  -> job.state \in {"Queued", "Paused"}

Changed(command, job) ==
  CASE command = "Pause"   -> TransitionTo(job, "Paused")
    [] command = "Restart" -> RestartJob(job)
    [] command = "Cancel"  -> TransitionTo(job, "Cancelled")
    [] OTHER               -> TransitionTo(job, "Queued")

ClientReady == phase = "up" /\ client.pc = "idle"

ClientSaves(id, job) ==
  /\ Save(Client, id, job)
  /\ client' = [pc |-> "saved", id |-> id, cand |-> job]

Create(id) ==
  /\ ClientReady
  /\ store[id] = NoJob
  /\ \A d \in Downloads : d < id => store[d] # NoJob
  /\ ClientSaves(id, NewJob)
  /\ UNCHANGED <<phase, jobs, exec, control, output>>

ChangeIdleState(id, command) ==
  /\ ClientReady
  /\ Allowed(command, jobs[id])
  /\ ClientSaves(id, Changed(command, jobs[id]))
  /\ UNCHANGED <<phase, jobs, exec, control, output>>

\* The caller confirms a publication result that execute could not record.
ConfirmOutput(id) ==
  /\ ClientReady
  /\ output[id] # NoOutput
  /\ Confirmable(id, output[id])
  /\ client' = [pc |-> "commit", id |-> id, cand |-> TransitionTo(jobs[id], "Completed")]
  /\ UNCHANGED <<phase, jobs, store, writer, exec, control, output>>

ClientCommit ==
  /\ client.pc = "commit"
  /\ ClientSaves(client.id, client.cand)
  /\ UNCHANGED <<phase, jobs, exec, control, output>>

ClientRegister ==
  /\ client.pc = "saved"
  /\ Register(client.id, client.cand)
  /\ client' = ClientIdle
  /\ UNCHANGED <<phase, store, exec, control, output>>

\* During recovery a failed save ends the process instead: StartFails.
ClientCommitFails ==
  /\ phase = "up"
  /\ client.pc = "commit"
  /\ writer = Nobody
  /\ client' = ClientIdle
  /\ UNCHANGED <<phase, jobs, store, writer, exec, control, output>>

\* The task that executed a job may queue it again after a retryable failure.
Requeue(e) ==
  LET id == exec[e].id IN
  /\ exec[e].pc = "done"
  /\ exec[e].result = "retryable"
  /\ writer = Nobody
  /\ IF Allowed("Retry", jobs[id])
       THEN /\ Save(e, id, Changed("Retry", jobs[id]))
            /\ exec' = [exec EXCEPT ![e].pc = "saved", ![e].then = "requeued",
                           ![e].cand = Changed("Retry", jobs[id]), ![e].result = "none"]
       ELSE /\ Return(e, "error")
            /\ UNCHANGED <<store, writer>>
  /\ UNCHANGED <<phase, jobs, client, control, output>>

RequeueFails(e) ==
  /\ exec[e].pc = "done"
  /\ exec[e].result = "retryable"
  /\ writer = Nobody
  /\ Return(e, "error")
  /\ UNCHANGED <<phase, jobs, store, writer, client, control, output>>

Release(e) ==
  /\ exec[e].pc = "done"
  /\ exec' = [exec EXCEPT ![e] = Idle]
  /\ request' = [request EXCEPT ![e] = "none"]
  /\ pauseSupported' = [pauseSupported EXCEPT ![e] = FALSE]
  /\ asking' = asking \ {e}
  /\ UNCHANGED <<phase, jobs, store, writer, client, output>>

---------------------------------------------------------------------------
(* Stop requests, from any thread at any time. *)

\* request_pause reads the support, then sends unless a stop was requested.
AskPause(e) ==
  /\ exec[e].pc # "idle"
  /\ pauseSupported[e]
  /\ asking' = asking \cup {e}
  /\ UNCHANGED <<phase, jobs, store, writer, client, exec, request, pauseSupported, output>>

SendPause(e) ==
  /\ e \in asking
  /\ asking' = asking \ {e}
  /\ request' = IF request[e] = "none" THEN [request EXCEPT ![e] = "pause"] ELSE request
  /\ UNCHANGED <<phase, jobs, store, writer, client, exec, pauseSupported, output>>

RequestCancel(e) ==
  /\ exec[e].pc # "idle"
  /\ request[e] # "cancel"
  /\ request' = [request EXCEPT ![e] = "cancel"]
  /\ UNCHANGED <<phase, jobs, store, writer, client, exec, pauseSupported, asking, output>>

---------------------------------------------------------------------------
(* The process: startup recovers what an earlier process left active. *)

Start ==
  /\ phase = "down"
  /\ phase' = "recovering"
  /\ jobs' = store
  /\ UNCHANGED <<store, writer, client, exec, control, output>>

Recover(id) ==
  /\ phase = "recovering"
  /\ client.pc = "idle"
  /\ RequiresRecovery(jobs[id].state)
  /\ client' = [pc |-> "commit", id |-> id, cand |-> TransitionTo(jobs[id], "Interrupted")]
  /\ UNCHANGED <<phase, jobs, store, writer, exec, control, output>>

\* Mutant: the process serves before it has recovered every record.
Started_Early ==
  /\ phase = "recovering"
  /\ client.pc = "idle"
  /\ phase' = "up"
  /\ UNCHANGED <<jobs, store, writer, client, exec, control, output>>

Started ==
  /\ phase = "recovering"
  /\ client.pc = "idle"
  /\ \A id \in Downloads : ~RequiresRecovery(jobs[id].state)
  /\ phase' = "up"
  /\ UNCHANGED <<jobs, store, writer, client, exec, control, output>>

\* The process ends: killed, interrupted, or on a failed recovery save.
Crash ==
  /\ phase # "down"
  /\ phase' = "down"
  /\ jobs' = [id \in Downloads |-> NoJob]
  /\ writer' = Nobody
  /\ client' = ClientIdle
  /\ exec' = [e \in Executions |-> Idle]
  /\ request' = [e \in Executions |-> "none"]
  /\ pauseSupported' = [e \in Executions |-> FALSE]
  /\ asking' = {}
  /\ UNCHANGED <<store, output>>

---------------------------------------------------------------------------
Init ==
  /\ phase = "down"
  /\ jobs = [id \in Downloads |-> NoJob]
  /\ store = [id \in Downloads |-> NoJob]
  /\ writer = Nobody
  /\ client = ClientIdle
  /\ exec = [e \in Executions |-> Idle]
  /\ request = [e \in Executions |-> "none"]
  /\ pauseSupported = [e \in Executions |-> FALSE]
  /\ asking = {}
  /\ output = [id \in Downloads |-> NoOutput]

\* The manager's own steps of an execution.
Step(e) ==
  \/ SaveJob(e) \/ RegisterJob(e)
  \/ Begin(e) \/ StopInspection(e) \/ StartTransfer(e)
  \/ Tick(e) \/ TransferFailed(e) \/ TransferStopped(e) \/ TransferFinished(e)
  \/ RecordFailure(e) \/ Confirm(e)

\* The steps of its executor.
ExecutorStep(e) ==
  \/ \E failure \in Failures \ {"none"} : PrepareFails(e, failure) \/ FinalizeFails(e, failure)
  \/ \E plan \in Plans : Prepare(e, plan)
  \/ \E written \in Bytes : Report(e, written) \/ Finalize(e, written)
  \/ \E outcome \in Endings : TransferEnds(e, outcome)

(* "Callers must serialize updates for each download": they may command one *)
(* that nobody executes, and execute one that no command is at.             *)

ClientMay(id) == ~Owned(id)

ExecuteMay(e, id) == exec[e].pc = "idle" => ~Owned(id) /\ client.id # id

\* The steps of the task that runs it, and of those that ask it to stop.
CallerStep(e) ==
  \/ \E id \in Downloads : ExecuteMay(e, id) /\ Execute(e, id)
  \/ Requeue(e) \/ RequeueFails(e) \/ Release(e)
  \/ AskPause(e) \/ SendPause(e) \/ RequestCancel(e)

ClientStep ==
  \/ \E id \in Downloads :
       /\ ClientMay(id)
       /\ \/ Create(id) \/ ConfirmOutput(id)
          \/ \E command \in Commands : ChangeIdleState(id, command)
  \/ ClientCommit \/ ClientRegister \/ ClientCommitFails

ProcessStep == Start \/ (\E id \in Downloads : Recover(id)) \/ Started \/ Crash

Next ==
  \/ \E e \in Executions : Step(e) \/ SaveFails(e) \/ ExecutorStep(e) \/ CallerStep(e)
  \/ ClientStep
  \/ ProcessStep

Spec == Init /\ [][Next]_vars

---------------------------------------------------------------------------
(* Properties. *)

JobOrNone == Job \cup {NoJob}

ExecType == [pc: Labels, id: Downloads \cup {NoDownload}, job: JobOrNone,
             cand: JobOrNone, then: Labels, plan: PlanType, reported: Bytes,
             outcome: Outcome, result: Results]

ClientType == [pc: {"idle", "commit", "saved"}, id: Downloads \cup {NoDownload},
               cand: JobOrNone]

\* Every variable keeps its type: in particular no byte count leaves its range
\* and no record takes a state outside the lifecycle table.
TypeOK ==
  /\ phase \in {"down", "recovering", "up"}
  /\ jobs \in [Downloads -> JobOrNone]
  /\ store \in [Downloads -> JobOrNone]
  /\ writer \in Executions \cup {Client, Nobody}
  /\ client \in ClientType
  /\ exec \in [Executions -> ExecType]
  /\ request \in [Executions -> Requests]
  /\ pauseSupported \in [Executions -> BOOLEAN]
  /\ asking \subseteq Executions
  /\ output \in [Downloads -> Bytes \cup {NoOutput}]

\* A save of id that the registry does not show yet.
SaveInFlight(id) ==
  \/ /\ client.pc = "saved" /\ client.id = id /\ writer = Client
     /\ store[id] = client.cand
  \/ \E e \in Executions :
       /\ exec[e].pc = "saved" /\ exec[e].id = id /\ writer = e
       /\ store[id] = exec[e].cand

\* Clients never see a transition that is not durable, nor miss one that is:
\* the registry differs from the repository only for the record whose holder of
\* the write lock is between its save and its registration.
RegistryMatchesStore ==
  phase # "down" => \A id \in Downloads : jobs[id] = store[id] \/ SaveInFlight(id)

\* No lost update: the copy an execution works on is the record the registry
\* holds, so whatever it commits replaces what it read and nothing newer.
ExecutionHoldsLatest ==
  \A e \in Executions :
    exec[e].pc \in {"inspect", "prepared", "transfer", "finalize", "commit"}
      => exec[e].job = jobs[exec[e].id] \/ exec[e].then = "done"

\* A download is Completed only when its own attempt published an output, of
\* the bytes the record shows and, if the size is known, of all of them.
CompletedIsPublished ==
  \A id \in Downloads :
    store[id].state = "Completed" =>
      /\ output[id] = store[id].done
      /\ store[id].total \in {Unknown, store[id].done}

\* A pending stop wins every race: no execution that has been asked to stop
\* sets out to inspect, to download or to publish.
StopRequestWins ==
  [][\A e \in Executions :
       request[e] # "none" /\ exec'[e].cand # exec[e].cand =>
         \/ exec'[e].cand.state \notin {"Inspecting", "Downloading", "Finalizing"}
         \/ exec'[e].cand.state = exec[e].job.state]_vars

\* While a download transfers its durable progress does not go back, except to
\* the stop position of an executor that announced it may rewind.
ProgressGoesForward ==
  [][\A id \in Downloads :
       store[id].state = "Downloading" /\ store'[id].done < store[id].done =>
         /\ store'[id].state \in {"Paused", "Cancelled"}
         /\ \E e \in Owners(id) : exec[e].plan.rewind]_vars

\* Publication cannot be undone by a later failure: once the output is in
\* place, the record can only become Completed, or Interrupted by a crash.
PublicationIsFinal ==
  [][\A id \in Downloads :
       output[id] # NoOutput /\ store[id].state = "Finalizing" =>
         store'[id].state \in {"Finalizing", "Completed", "Interrupted"}]_vars

\* The three promises about single steps (manager.rs:342, 502, 886), together.
StepsKeepPromises == StopRequestWins /\ ProgressGoesForward /\ PublicationIsFinal

\* "Work owned by the current process": a running process executes every
\* download whose record says Inspecting, Downloading or Finalizing, except one
\* whose output is published and awaits its confirmation.
ActiveMeansOwned ==
  phase = "up" => \A id \in Downloads :
    RequiresRecovery(jobs[id].state) => Owned(id) \/ output[id] # NoOutput

\* A record loses its worker while active in one way only: the execution
\* returned an error.  No order of stops, crashes, recoveries or retries does it.
StrandedOnlyByError ==
  [][ActiveMeansOwned /\ ~ActiveMeansOwned' =>
       \E e \in Executions : exec[e].result = "error" /\ Release(e)]_vars

\* A transfer is recorded as paused only if its own executor can resume it,
\* whatever an earlier attempt under the same handle could do.
PausedTransferIsPausable ==
  [][\A e \in Executions :
       /\ SaveJob(e)
       /\ exec[e].cand.state = "Paused"
       /\ exec[e].job.state = "Downloading"
       => exec[e].plan.pausable]_vars

\* The records are what DownloadLifecycle promises.
Lifecycle == INSTANCE DownloadLifecycle
  WITH state <- [id \in Downloads |-> store[id].state],
       published <- [id \in Downloads |-> output[id] # NoOutput]
ImplementsLifecycle == Lifecycle!Spec
=============================================================================
