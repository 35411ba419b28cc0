-------------------------------- MODULE Daemon --------------------------------
(***************************************************************************)
(* gundad (apps/gundad/src/lib.rs): one loop that takes commands and       *)
(* worker events in turn, keeps at most MaxConcurrent downloads running,   *)
(* and owns the stop handle of each.  A worker executes its download       *)
(* through the manager and executes it again, after a pause, when it failed *)
(* for a reason that may pass.                                             *)
(*                                                                         *)
(* The module adds the loop's state to DownloadManager and drives its      *)
(* operations; that the loop never breaks the manager's rule that callers  *)
(* serialize the updates of a download is the property ServesManager.      *)
(***************************************************************************)
EXTENDS DownloadManager

CONSTANTS
  MaxConcurrent,   \* MAX_CONCURRENT_DOWNLOADS
  MaxAttempts      \* MAX_AUTOMATIC_ATTEMPTS

ASSUME DaemonAssumption ==
  /\ MaxConcurrent \in Nat \ {0}
  /\ MaxAttempts \in Nat \ {0}

VARIABLES
  loop,            \* "waiting" for an event, or "serving" or "scheduling" after one
  active,          \* active_jobs: the downloads that occupy a slot, with their worker
  pendingOutputs,  \* pending_outputs: published bytes whose record is not saved
  attempts,        \* of each worker at its download
  served           \* whether the loop has scheduled since the process started

loopVars == <<loop, active, pendingOutputs, attempts, served>>
daemonVars == <<vars, loopVars>>

ActiveIds == {id \in Downloads : active[id] # Nobody}

DaemonTypeOK ==
  /\ TypeOK
  /\ loop \in {"waiting", "serving", "scheduling"}
  /\ active \in [Downloads -> Executions \cup {Nobody}]
  /\ pendingOutputs \in [Downloads -> Bytes \cup {NoOutput}]
  /\ attempts \in [Executions -> 0..MaxAttempts]
  /\ served \in BOOLEAN

DaemonInit ==
  /\ Init
  /\ loop = "waiting"
  /\ active = [id \in Downloads |-> Nobody]
  /\ pendingOutputs = [id \in Downloads |-> NoOutput]
  /\ attempts = [e \in Executions |-> 0]
  /\ served = FALSE

---------------------------------------------------------------------------
(* Commands.  The loop serves one at a time, to the end, then schedules. *)

TakeCommand ==
  /\ phase = "up"
  /\ loop = "waiting"
  /\ UNCHANGED <<active, pendingOutputs, attempts, served>>

CreateCommand(id) ==
  /\ TakeCommand
  /\ Create(id)
  /\ loop' = "serving"

\* Mutant: whether or not it has a worker.
IdleCommand_Active(id, command) ==
  /\ TakeCommand
  /\ ChangeIdleState(id, command)
  /\ loop' = "serving"

\* An idle command reaches the manager only for a download without a worker.
\* Pause and Cancel of one that has a worker go to its handle instead.
IdleCommand(id, command) ==
  /\ TakeCommand
  /\ active[id] = Nobody
  /\ ChangeIdleState(id, command)
  /\ loop' = "serving"

PauseActive(id) ==
  /\ TakeCommand
  /\ active[id] # Nobody
  /\ AskPause(active[id])
  /\ loop' = "serving"

ServePause ==
  /\ \E e \in Executions : SendPause(e)
  /\ loop' = "scheduling"
  /\ UNCHANGED <<active, pendingOutputs, attempts, served>>

CancelActive(id) ==
  /\ TakeCommand
  /\ active[id] # Nobody
  /\ RequestCancel(active[id])
  /\ loop' = "scheduling"

SaveStatus(id) ==
  /\ TakeCommand
  /\ pendingOutputs[id] # NoOutput
  /\ ConfirmOutput(id)
  /\ loop' = "serving"

ServeCommit ==
  /\ phase = "up"
  /\ ClientCommit
  /\ UNCHANGED loopVars

\* Only SaveStatus commits Completed: its output is no longer pending then.
ServeRegister ==
  /\ phase = "up"
  /\ ClientRegister
  /\ pendingOutputs' = IF client.cand.state = "Completed"
                         THEN [pendingOutputs EXCEPT ![client.id] = NoOutput]
                         ELSE pendingOutputs
  /\ loop' = "scheduling"
  /\ UNCHANGED <<active, attempts, served>>

\* Mutant: the output is forgotten though its record was not saved.
ServeFails_Drops ==
  /\ ClientCommitFails
  /\ loop' = "scheduling"
  /\ pendingOutputs' = [pendingOutputs EXCEPT ![client.id] = NoOutput]
  /\ UNCHANGED <<active, attempts, served>>

ServeFails ==
  /\ ClientCommitFails
  /\ loop' = "scheduling"
  /\ UNCHANGED <<active, pendingOutputs, attempts, served>>

---------------------------------------------------------------------------
(* Scheduling. *)

\* Mutant: a download that already has a worker is scheduled again.
Waiting_Active == {id \in Downloads : jobs[id].state = "Queued"}

Waiting == {id \in Downloads : jobs[id].state = "Queued" /\ id \notin ActiveIds}

SlotsFree == Cardinality(ActiveIds) < MaxConcurrent

\* One turn of the loop in schedule_jobs: the queued download of least id.
ScheduleOne(e) ==
  /\ loop = "scheduling"
  /\ SlotsFree
  /\ exec[e].pc = "idle"
  /\ \E id \in Waiting :
       /\ \A other \in Waiting : id <= other
       /\ Execute(e, id)
       /\ active' = [active EXCEPT ![id] = e]
  /\ attempts' = [attempts EXCEPT ![e] = 1]
  /\ UNCHANGED <<loop, pendingOutputs, served>>

\* Mutant: the turn ends with queued downloads and free slots.
ScheduleNoMore_Early ==
  /\ loop = "scheduling"
  /\ loop' = "waiting"
  /\ served' = TRUE
  /\ UNCHANGED <<vars, active, pendingOutputs, attempts>>

ScheduleNoMore ==
  /\ loop = "scheduling"
  /\ ~SlotsFree \/ Waiting = {}
  /\ loop' = "waiting"
  /\ served' = TRUE
  /\ UNCHANGED <<vars, active, pendingOutputs, attempts>>

---------------------------------------------------------------------------
(* Workers: execute_job, and the end of its task. *)

RetriesLeft(e) == exec[e].result = "retryable" /\ attempts[e] < MaxAttempts

WorkerStep(e) ==
  /\ \/ Step(e)
     \/ ExecutorStep(e)
     \/ (RetriesLeft(e) /\ Requeue(e))
  /\ UNCHANGED loopVars

WorkerSaveFails(e) ==
  /\ \/ SaveFails(e)
     \/ (RetriesLeft(e) /\ RequeueFails(e))
  /\ UNCHANGED loopVars

\* After the delay, or at once when a stop is requested during it.
NextAttempt(e) ==
  /\ exec[e].pc = "requeued"
  /\ Execute(e, exec[e].id)
  /\ attempts' = [attempts EXCEPT ![e] = @ + 1]
  /\ UNCHANGED <<loop, active, pendingOutputs, served>>

\* The loop takes WorkerEvent::Finished: the slot is free, and a publication
\* that was not recorded is kept for SaveStatus.
Finished(e) ==
  LET id == exec[e].id IN
  /\ phase = "up"
  /\ loop = "waiting"
  /\ ~RetriesLeft(e)
  /\ Release(e)
  /\ active' = [active EXCEPT ![id] = Nobody]
  /\ pendingOutputs' = IF exec[e].result = "unpersisted"
                         THEN [pendingOutputs EXCEPT ![id] = output[id]]
                         ELSE pendingOutputs
  /\ attempts' = [attempts EXCEPT ![e] = 0]
  /\ loop' = "scheduling"
  /\ UNCHANGED served

---------------------------------------------------------------------------
(* The process.  Nothing is scheduled at startup. *)

StartDaemon ==
  /\ \/ Start
     \/ \E id \in Downloads : Recover(id)
     \/ phase = "recovering" /\ (ClientCommit \/ ClientRegister)
     \/ Started
  /\ UNCHANGED loopVars

StopDaemon ==
  /\ Crash
  /\ loop' = "waiting"
  /\ active' = [id \in Downloads |-> Nobody]
  /\ pendingOutputs' = [id \in Downloads |-> NoOutput]
  /\ attempts' = [e \in Executions |-> 0]
  /\ served' = FALSE

---------------------------------------------------------------------------
TakesCommand ==
  \E id \in Downloads :
    \/ CreateCommand(id)
    \/ \E command \in Commands : IdleCommand(id, command)
    \/ PauseActive(id) \/ CancelActive(id) \/ SaveStatus(id)

Serves == ServeCommit \/ ServeRegister \/ ServePause \/ ScheduleNoMore
            \/ \E e \in Executions : ScheduleOne(e)

DaemonNext ==
  \/ TakesCommand
  \/ Serves
  \/ ServeFails
  \/ \E e \in Executions :
       WorkerStep(e) \/ WorkerSaveFails(e) \/ NextAttempt(e) \/ Finished(e)
  \/ StartDaemon
  \/ StopDaemon

DaemonSpec == DaemonInit /\ [][DaemonNext]_daemonVars

\* Every task and the loop keep running, on a fair write lock; an executor that
\* was asked to stop ends its transfer, and publication ends.  Nothing obliges
\* a server to answer: a transfer nobody stops may go on for ever.  Nor does
\* anything oblige the store: a save is tried, and may fail every time.
Fairness ==
  /\ WF_daemonVars(Serves)
  /\ \A e \in Executions :
       /\ SF_daemonVars((SaveJob(e) \/ SaveFails(e)) /\ UNCHANGED loopVars)
       /\ WF_daemonVars(Step(e) /\ UNCHANGED loopVars)
       /\ SF_daemonVars(/\ RetriesLeft(e)
                        /\ Requeue(e) \/ RequeueFails(e)
                        /\ UNCHANGED loopVars)
       /\ WF_daemonVars(NextAttempt(e))
       /\ SF_daemonVars(Finished(e))
       /\ WF_daemonVars(/\ request[e] # "none"
                        /\ \E outcome \in Endings : TransferEnds(e, outcome)
                        /\ UNCHANGED loopVars)
       /\ WF_daemonVars(/\ \E written \in Bytes : Finalize(e, written)
                        /\ UNCHANGED loopVars)

FairDaemonSpec == DaemonSpec /\ Fairness

---------------------------------------------------------------------------
(* Properties. *)

\* A download never has two workers, never loses its slot while its worker
\* runs, and never keeps it afterwards; at most MaxConcurrent workers run.
SlotsMatchWorkers ==
  /\ \A e \in Executions, id \in Downloads : exec[e].id = id <=> active[id] = e
  /\ Cardinality({e \in Executions : exec[e].pc # "idle"}) <= MaxConcurrent

\* The loop never waits for an event while a queued download could run: it is
\* woken by every change that could make one runnable, except the startup.
WorkConserving ==
  phase = "up" /\ loop = "waiting" /\ served => Waiting = {} \/ ~SlotsFree

\* While the process runs, an output in place whose record still says
\* Finalizing is in the hands of its worker or kept for SaveStatus.
PublicationIsKept ==
  \A id \in Downloads :
    phase = "up" /\ jobs[id].state = "Finalizing" /\ output[id] # NoOutput =>
      Owned(id) \/ pendingOutputs[id] = output[id]

\* The daemon is a caller the manager is written for: each of its steps is a
\* step of the manager or leaves it alone, so at no time does it command,
\* confirm or execute a download that another caller is at.
ServesManager == Spec

\* An accepted stop is never left hanging: the worker it was sent to gives its
\* slot back, whatever attempt, backoff, checkpoint or failure it was at.
StopFreesSlot ==
  \A e \in Executions : request[e] # "none" ~> exec[e].pc = "idle"
=============================================================================
