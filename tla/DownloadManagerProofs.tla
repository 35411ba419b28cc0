------------------------ MODULE DownloadManagerProofs ------------------------
(***************************************************************************)
(* Theorems about DownloadManager, for any numbers of downloads and of      *)
(* concurrent executions, any byte bound and any transfer plans.            *)
(*                                                                         *)
(* The inductive invariant adds to the type of the state what the places in *)
(* the code imply: which local variables hold a record, who holds the write *)
(* lock, and that the record of a holder is the one it saved.               *)
(*                                                                         *)
(* The second part is what the manager promises about a record beyond its   *)
(* type and its durability: no update is lost, Completed means published,   *)
(* a stop wins, a record loses its worker only by an error, and the durable *)
(* records implement DownloadLifecycle.  Its invariant ties each place of   *)
(* an attempt to the record it works on and to the output of the download,  *)
(* and says that nobody else has it.                                        *)
(***************************************************************************)
EXTENDS DownloadManager, TLAPS

\* The locals of an execution that its place in the code needs.
LocalsFilled(x) ==
  /\ x.pc # "idle" => x.id \in Downloads
  /\ x.pc \notin {"idle", "start", "saved", "done", "requeued"} => x.job \in Job
  /\ x.pc \in {"prepared", "commit", "saved"} => x.cand \in Job
  /\ x.pc \in {"commit", "saved"} =>
       x.then \in {"inspect", "transfer", "fail", "finalize", "done", "requeued"}

ClientFilled == client.pc # "idle" => client.id \in Downloads /\ client.cand \in Job

\* The write lock is held exactly between a save and its registration.
LockHeld ==
  /\ \A e \in Executions : writer = e <=> exec[e].pc = "saved"
  /\ writer = Client <=> client.pc = "saved"

\* The holder of the lock has saved the record it is about to register.
SavedIsStored ==
  /\ \A e \in Executions : exec[e].pc = "saved" => store[exec[e].id] = exec[e].cand
  /\ client.pc = "saved" => store[client.id] = client.cand

\* What the steps of an execution may change besides its own locals.
ControlTyped ==
  /\ request \in [Executions -> Requests]
  /\ pauseSupported \in [Executions -> BOOLEAN]
  /\ asking \subseteq Executions
  /\ output \in [Downloads -> Bytes \cup {NoOutput}]

IInv ==
  /\ TypeOK
  /\ \A e \in Executions : LocalsFilled(exec[e])
  /\ ClientFilled
  /\ LockHeld
  /\ SavedIsStored
  /\ RegistryMatchesStore

---------------------------------------------------------------------------
(* The operations on a record, and the progress the manager accepts.       *)

\* A record stays a record, whatever state, progress or failure it is given.
LEMMA JobOperations ==
  ASSUME NEW job \in Job, NEW next \in States, NEW done \in Bytes,
         NEW total \in Totals, NEW failure \in Failures
  PROVE  /\ TransitionTo(job, next) \in Job
         /\ UpdateProgress(job, done, total) \in Job
         /\ RestartJob(job) \in Job
         /\ FailJob(job, failure) \in Job
<1>1. TransitionTo(job, next) \in Job
  BY DEF Job, TransitionTo
<1>2. UpdateProgress(job, done, total) \in Job
  BY DEF Job, UpdateProgress
<1>3. RestartJob(job) \in Job
  <2>1. 0 \in Bytes /\ Unknown \in Totals /\ "none" \in Failures /\ "Queued" \in States
    BY MaxBytesAssumption DEF Bytes, Totals, Failures, States
  <2> QED
    BY <2>1 DEF Job, RestartJob
<1>4. FailJob(job, failure) \in Job
  BY DEF Job, FailJob, States
<1> QED
  BY <1>1, <1>2, <1>3, <1>4

\* The absent record is in no state of the table, so it is not a record.
LEMMA JobInState ==
  ASSUME NEW job \in JobOrNone, job.state # "Absent"
  PROVE  job \in Job
  BY DEF JobOrNone, NoJob

\* The place of a missing record differs from every record, and Queued is a state.
LEMMA NoJobAbsent == NoJob.state = "Absent" /\ NewJob \in Job /\ NoJob \in JobOrNone
  BY MaxBytesAssumption
  DEF NoJob, NewJob, Job, States, Bytes, Totals, Unknown, Failures, JobOrNone

\* Totals the manager computes from an accepted report are totals.
LEMMA TotalsComputed ==
  ASSUME NEW job \in Job, NEW written \in Bytes, NEW estimated \in BOOLEAN,
         NEW rewind \in BOOLEAN
  PROVE  /\ ExecutionTotal(job, written, estimated) \in Totals
         /\ StoppedTotal(job, written, estimated, rewind) \in Totals
  BY DEF ExecutionTotal, StoppedTotal, Job, Totals

\* An idle or returned execution is well typed.
LEMMA IdleTypes ==
  ASSUME NEW id \in Downloads \cup {NoDownload}, NEW result \in Results,
         NEW pc \in Labels
  PROVE  /\ Idle \in ExecType
         /\ [Idle EXCEPT !.pc = pc, !.id = id, !.result = result] \in ExecType
         /\ [Idle EXCEPT !.pc = pc, !.id = id] \in ExecType
<1>1. NoPlan \in PlanType /\ Running \in Outcome /\ 0 \in Bytes
  BY MaxBytesAssumption
  DEF NoPlan, PlanType, Running, Outcome, Bytes, Totals, Unknown, Failures
<1>2. NoJob \in JobOrNone
  BY NoJobAbsent
<1>3. Idle \in ExecType
  BY <1>1, <1>2 DEF Idle, ExecType, Labels, Results
<1>4. [Idle EXCEPT !.pc = pc, !.id = id] \in ExecType
  BY <1>3 DEF ExecType
<1>5. [Idle EXCEPT !.pc = pc, !.id = id, !.result = result] \in ExecType
  BY <1>3 DEF ExecType
<1> QED
  BY <1>3, <1>4, <1>5

---------------------------------------------------------------------------
(* Steps of one execution that leave the lock, the records and the client alone. *)

\* Such a step keeps the invariant when the new locals are typed and filled.
LEMMA LocalStep ==
  ASSUME IInv, NEW e \in Executions, NEW x \in ExecType,
         exec' = [exec EXCEPT ![e] = x],
         exec[e].pc # "saved", x.pc # "saved", LocalsFilled(x),
         UNCHANGED <<phase, jobs, store, writer, client>>, ControlTyped'
  PROVE  IInv'
<1>1. /\ exec \in [Executions -> ExecType]
      /\ \A f \in Executions : exec'[f] = IF f = e THEN x ELSE exec[f]
  BY DEF IInv, TypeOK
<1>2. TypeOK'
  BY DEF IInv, TypeOK, ControlTyped
<1>3. \A f \in Executions : LocalsFilled(exec'[f])
  BY <1>1 DEF IInv
<1>4. ClientFilled' /\ LockHeld'
  BY <1>1 DEF IInv, ClientFilled, LockHeld
<1>5. SavedIsStored'
  BY <1>1 DEF IInv, SavedIsStored
<1>6. \A id \in Downloads : SaveInFlight(id) => SaveInFlight(id)'
  BY <1>1 DEF SaveInFlight
<1>7. RegistryMatchesStore'
  BY <1>6 DEF IInv, RegistryMatchesStore
<1> QED
  BY <1>2, <1>3, <1>4, <1>5, <1>7 DEF IInv

\* An execution in the middle of its code has its locals.
LEMMA Filled ==
  ASSUME IInv, NEW e \in Executions
  PROVE  exec[e] \in ExecType /\ LocalsFilled(exec[e])
  BY DEF IInv, TypeOK

InCode(x) == x.pc \notin {"idle", "start", "saved", "done", "requeued"}

\* Setting out to commit a record.
LEMMA CommitStep ==
  ASSUME IInv, NEW e \in Executions, InCode(exec[e]), NEW cand \in Job,
         NEW then \in {"inspect", "transfer", "fail", "finalize", "done", "requeued"},
         Commit(e, cand, then),
         UNCHANGED <<phase, jobs, store, writer, client, control, output>>
  PROVE  IInv'
<1> DEFINE x == [exec[e] EXCEPT !.pc = "commit", !.cand = cand, !.then = then]
<1>1. exec[e] \in ExecType /\ LocalsFilled(exec[e])
  BY Filled
<1>2. exec' = [exec EXCEPT ![e] = x]
  BY DEF Commit, IInv, TypeOK
<1>3. x \in ExecType
  BY <1>1 DEF ExecType, Labels, JobOrNone
<1>4. LocalsFilled(x) /\ x.pc # "saved" /\ exec[e].pc # "saved"
  BY <1>1 DEF LocalsFilled, InCode, ExecType
<1>5. ControlTyped'
  BY DEF ControlTyped, IInv, TypeOK, control
<1> QED
  BY <1>2, <1>3, <1>4, <1>5, LocalStep

\* Going on at a label whose locals are there already.
LEMMA GotoStep ==
  ASSUME IInv, NEW e \in Executions, InCode(exec[e]),
         NEW label \in {"transfer", "fail", "finalize", "confirm"},
         Goto(e, label),
         UNCHANGED <<phase, jobs, store, writer, client, control>>, ControlTyped'
  PROVE  IInv'
<1> DEFINE x == [exec[e] EXCEPT !.pc = label]
<1>1. exec[e] \in ExecType /\ LocalsFilled(exec[e])
  BY Filled
<1>2. exec' = [exec EXCEPT ![e] = x]
  BY DEF Goto, IInv, TypeOK
<1>3. x \in ExecType
  BY <1>1 DEF ExecType, Labels
<1>4. LocalsFilled(x) /\ x.pc # "saved" /\ exec[e].pc # "saved"
  BY <1>1 DEF LocalsFilled, InCode, ExecType
<1> QED
  BY <1>2, <1>3, <1>4, LocalStep

\* Returning from execute.
LEMMA ReturnStep ==
  ASSUME IInv, NEW e \in Executions, exec[e].pc \notin {"idle", "saved"},
         NEW result \in Results, Return(e, result),
         UNCHANGED <<phase, jobs, store, writer, client>>, ControlTyped'
  PROVE  IInv'
<1> DEFINE x == [Idle EXCEPT !.pc = "done", !.id = exec[e].id, !.result = result]
<1>1. exec[e] \in ExecType /\ LocalsFilled(exec[e])
  BY Filled
<1>2. exec[e].id \in Downloads
  BY <1>1 DEF LocalsFilled
<1>3. x \in ExecType
  BY <1>2, IdleTypes DEF Labels
<1>4. LocalsFilled(x) /\ x.pc # "saved"
  BY <1>2 DEF LocalsFilled, Idle
<1> QED
  BY <1>3, <1>4, LocalStep DEF Return

---------------------------------------------------------------------------
(* The actions of an execution, up to the transfer. *)

\* A step that leaves the stop handle alone keeps it typed.
LEMMA ControlKept ==
  ASSUME IInv, UNCHANGED control
  PROVE  /\ output' \in [Downloads -> Bytes \cup {NoOutput}] => ControlTyped'
         /\ UNCHANGED output => ControlTyped'
  BY DEF IInv, TypeOK, ControlTyped, control

\* Starting execute, with a new handle or with the one of the last attempt.
LEMMA ExecuteKeeps ==
  ASSUME IInv, NEW e \in Executions, NEW id \in Downloads, Execute(e, id)
  PROVE  IInv'
<1> DEFINE x == [exec[e] EXCEPT !.pc = "start", !.id = id]
<1>1. exec[e] \in ExecType /\ exec[e].pc \in {"idle", "requeued"}
  BY Filled DEF Execute
<1>2. exec' = [exec EXCEPT ![e] = x]
  BY DEF Execute, IInv, TypeOK
<1>3. x \in ExecType /\ LocalsFilled(x) /\ x.pc # "saved"
  BY <1>1 DEF ExecType, Labels, LocalsFilled
<1>4. ControlTyped'
  BY DEF Execute, ControlTyped, IInv, TypeOK, control, Requests
<1> QED
  BY <1>1, <1>2, <1>3, <1>4, LocalStep DEF Execute

\* The three ways execute begins: refused, stopped, or set out to inspect.
LEMMA BeginKeeps ==
  ASSUME IInv, NEW e \in Executions, Begin(e)
  PROVE  IInv'
<1> DEFINE job == jobs[exec[e].id]
           To(state, then) == [exec[e] EXCEPT !.pc = "commit", !.job = job,
                                 !.cand = TransitionTo(job, state), !.then = then]
<1>1. exec[e] \in ExecType /\ exec[e].pc = "start" /\ exec[e].id \in Downloads
  BY Filled DEF Begin, LocalsFilled
<1>2. ControlTyped'
  BY ControlKept DEF Begin
<1>3. CASE job.state # "Queued"
  <2>1. Return(e, "error")
    BY <1>3 DEF Begin
  <2> QED
    BY <1>1, <1>2, <2>1, ReturnStep DEF Begin, Results
<1>4. ASSUME job.state = "Queued",
             NEW state \in States, NEW then \in {"inspect", "done"},
             exec' = [exec EXCEPT ![e] = To(state, then)]
      PROVE  IInv'
  <2>1. job \in Job
    BY <1>1, <1>4, JobInState DEF IInv, TypeOK
  <2>2. TransitionTo(job, state) \in Job
    BY <2>1 DEF Job, TransitionTo
  <2>3. To(state, then) \in ExecType
    BY <1>1, <2>1, <2>2 DEF ExecType, Labels, JobOrNone
  <2>4. LocalsFilled(To(state, then)) /\ To(state, then).pc # "saved"
    BY <1>1, <2>1, <2>2 DEF LocalsFilled, ExecType
  <2> QED
    BY <1>1, <1>2, <1>4, <2>3, <2>4, LocalStep DEF Begin
<1>5. CASE job.state = "Queued" /\ request[e] # "none"
  <2>1. StopState(e) \in States
    BY DEF StopState, States
  <2>2. exec' = [exec EXCEPT ![e] = To(StopState(e), "done")]
    BY <1>5 DEF Begin, IInv, TypeOK
  <2> QED
    BY <1>4, <1>5, <2>1, <2>2
<1>6. CASE job.state = "Queued" /\ request[e] = "none"
  <2>1. "Inspecting" \in States
    BY DEF States
  <2>2. exec' = [exec EXCEPT ![e] = To("Inspecting", "inspect")]
    BY <1>6 DEF Begin, IInv, TypeOK
  <2> QED
    BY <1>4, <1>6, <2>1, <2>2
<1> QED
  BY <1>3, <1>5, <1>6

\* A stop noticed while the executor prepares.
LEMMA StopInspectionKeeps ==
  ASSUME IInv, NEW e \in Executions, StopInspection(e)
  PROVE  IInv'
<1>1. InCode(exec[e]) /\ exec[e].job \in Job
  BY Filled DEF StopInspection, InCode, LocalsFilled
<1>2. TransitionTo(exec[e].job, StopState(e)) \in Job
  BY <1>1 DEF Job, TransitionTo, StopState, States
<1> QED
  BY <1>1, <1>2, CommitStep DEF StopInspection

\* A preparation that failed goes on to record its failure.
LEMMA PrepareFailsKeeps ==
  ASSUME IInv, NEW e \in Executions, NEW failure \in Failures, PrepareFails(e, failure)
  PROVE  IInv'
<1> DEFINE x == [exec[e] EXCEPT !.pc = "fail",
                   !.outcome = [kind |-> "failed", written |-> 0, failure |-> failure]]
<1>1. exec[e] \in ExecType /\ LocalsFilled(exec[e]) /\ exec[e].pc = "inspect"
  BY Filled DEF PrepareFails
<1>2. exec' = [exec EXCEPT ![e] = x]
  BY DEF PrepareFails, IInv, TypeOK
<1>3. x \in ExecType
  <2>1. [kind |-> "failed", written |-> 0, failure |-> failure] \in Outcome
    BY MaxBytesAssumption DEF Outcome, Bytes
  <2> QED
    BY <1>1, <2>1 DEF ExecType, Labels
<1>4. LocalsFilled(x) /\ x.pc # "saved"
  BY <1>1 DEF LocalsFilled, ExecType
<1> QED
  BY <1>1, <1>2, <1>3, <1>4, LocalStep, ControlKept DEF PrepareFails

\* A preparation whose plan is taken over, or is refused as inconsistent.
LEMMA PrepareKeeps ==
  ASSUME IInv, NEW e \in Executions, NEW plan \in Plans, Prepare(e, plan)
  PROVE  IInv'
<1> DEFINE cand == UpdateProgress(exec[e].job, plan.start, plan.total)
           x == [exec[e] EXCEPT !.pc = "prepared", !.plan = plan, !.cand = cand]
<1>1. exec[e] \in ExecType /\ LocalsFilled(exec[e]) /\ exec[e].pc = "inspect"
  BY Filled DEF Prepare
<1>2. plan \in PlanType
  BY PlansAssumption
<1>3. ControlTyped'
  BY <1>2 DEF Prepare, PlanType, ControlTyped, IInv, TypeOK
<1>4. CASE ValidProgress(plan.start, plan.total)
  <2>1. exec' = [exec EXCEPT ![e] = x]
    BY <1>4 DEF Prepare, IInv, TypeOK
  <2>2. cand \in Job
    BY <1>1, <1>2 DEF LocalsFilled, Job, UpdateProgress, PlanType
  <2>3. x \in ExecType
    BY <1>1, <1>2, <2>2 DEF ExecType, Labels, JobOrNone
  <2>4. LocalsFilled(x) /\ x.pc # "saved"
    BY <1>1, <2>2 DEF LocalsFilled, ExecType
  <2> QED
    BY <1>1, <1>3, <2>1, <2>3, <2>4, LocalStep DEF Prepare
<1>5. CASE ~ValidProgress(plan.start, plan.total)
  BY <1>1, <1>3, <1>5, ReturnStep DEF Prepare, Results
<1> QED
  BY <1>4, <1>5

\* The last look at a stop before the transfer is committed.
LEMMA StartTransferKeeps ==
  ASSUME IInv, NEW e \in Executions, StartTransfer(e)
  PROVE  IInv'
<1> DEFINE cand == TransitionTo(exec[e].cand, "Downloading")
           x == [exec[e] EXCEPT !.pc = "commit", !.then = "transfer", !.cand = cand,
                                !.reported = exec[e].plan.start]
<1>1. exec[e] \in ExecType /\ LocalsFilled(exec[e]) /\ exec[e].pc = "prepared"
  BY Filled DEF StartTransfer
<1>2. exec[e].cand \in Job
  BY <1>1 DEF LocalsFilled
<1>3. CASE request[e] # "none"
  <2>1. TransitionTo(exec[e].cand, StopState(e)) \in Job
    BY <1>2 DEF Job, TransitionTo, StopState, States
  <2>2. Commit(e, TransitionTo(exec[e].cand, StopState(e)), "done")
    BY <1>3 DEF StartTransfer
  <2> QED
    BY <1>1, <2>1, <2>2, CommitStep DEF StartTransfer, InCode
<1>4. CASE request[e] = "none"
  <2>1. cand \in Job
    BY <1>2 DEF Job, TransitionTo, States
  <2>2. exec' = [exec EXCEPT ![e] = x]
    BY <1>4 DEF StartTransfer, IInv, TypeOK
  <2>3. x \in ExecType
    BY <1>1, <2>1 DEF ExecType, Labels, JobOrNone, PlanType
  <2>4. LocalsFilled(x) /\ x.pc # "saved"
    BY <1>1, <2>1 DEF LocalsFilled, ExecType
  <2> QED
    BY <1>1, <2>2, <2>3, <2>4, LocalStep, ControlKept DEF StartTransfer
<1> QED
  BY <1>3, <1>4

---------------------------------------------------------------------------
(* The transfer and its end. *)

\* While a checkpoint is being committed, only what the transfer reports changes.
LEMMA TransferStep ==
  ASSUME IInv, NEW e \in Executions, NEW x \in ExecType,
         exec' = [exec EXCEPT ![e] = x],
         x.pc = exec[e].pc, x.id = exec[e].id, x.job = exec[e].job,
         x.cand = exec[e].cand, x.then = exec[e].then,
         UNCHANGED <<phase, jobs, store, writer, client, control, output>>
  PROVE  IInv'
<1>1. \A f \in Executions :
        /\ exec'[f].pc = exec[f].pc /\ exec'[f].id = exec[f].id
        /\ exec'[f].job = exec[f].job /\ exec'[f].cand = exec[f].cand
        /\ exec'[f].then = exec[f].then
  BY DEF IInv, TypeOK
<1>2. TypeOK'
  BY DEF IInv, TypeOK, control
<1>3. \A f \in Executions : LocalsFilled(exec'[f])
  BY <1>1 DEF IInv, LocalsFilled
<1>4. ClientFilled' /\ LockHeld' /\ SavedIsStored'
  BY <1>1 DEF IInv, ClientFilled, LockHeld, SavedIsStored
<1>5. RegistryMatchesStore'
  BY <1>1 DEF IInv, RegistryMatchesStore, SaveInFlight
<1> QED
  BY <1>2, <1>3, <1>4, <1>5 DEF IInv

\* The executor reports bytes, also while a checkpoint is being committed.
LEMMA ReportKeeps ==
  ASSUME IInv, NEW e \in Executions, NEW written \in Bytes, Report(e, written)
  PROVE  IInv'
<1> DEFINE x == [exec[e] EXCEPT !.reported = written]
<1>1. exec[e] \in ExecType
  BY Filled
<1>2. exec' = [exec EXCEPT ![e] = x]
  BY DEF Report, IInv, TypeOK
<1>3. /\ x \in ExecType
      /\ x.pc = exec[e].pc /\ x.id = exec[e].id /\ x.job = exec[e].job
      /\ x.cand = exec[e].cand /\ x.then = exec[e].then
  BY <1>1 DEF ExecType
<1> QED
  BY <1>2, <1>3, TransferStep DEF Report

\* The executor's transfer ends, also while a checkpoint is being committed.
LEMMA TransferEndsKeeps ==
  ASSUME IInv, NEW e \in Executions, NEW outcome \in Endings, TransferEnds(e, outcome)
  PROVE  IInv'
<1> DEFINE x == [exec[e] EXCEPT !.outcome = outcome]
<1>1. exec[e] \in ExecType /\ outcome \in Outcome
  BY Filled DEF Endings
<1>2. exec' = [exec EXCEPT ![e] = x]
  BY DEF TransferEnds, IInv, TypeOK
<1>3. /\ x \in ExecType
      /\ x.pc = exec[e].pc /\ x.id = exec[e].id /\ x.job = exec[e].job
      /\ x.cand = exec[e].cand /\ x.then = exec[e].then
  BY <1>1 DEF ExecType
<1> QED
  BY <1>2, <1>3, TransferStep DEF TransferEnds

\* checkpoint_progress, wherever it leads.
LEMMA CheckpointKeeps ==
  ASSUME IInv, NEW e \in Executions, exec[e].pc = "transfer",
         NEW then \in {"transfer", "fail"}, CheckpointProgress(e, then),
         UNCHANGED <<phase, jobs, store, writer, client, control, output>>
  PROVE  IInv'
<1> DEFINE job == exec[e].job
           reported == exec[e].reported
           estimated == exec[e].plan.estimated
           total == ExecutionTotal(job, reported, estimated)
<1>1. InCode(exec[e]) /\ job \in Job
  BY Filled DEF InCode, LocalsFilled
<1>2. reported \in Bytes /\ estimated \in BOOLEAN
  BY Filled DEF ExecType, PlanType
<1>3. total \in Totals
  BY <1>1, <1>2, TotalsComputed
<1>4. UpdateProgress(job, reported, total) \in Job
  BY <1>1, <1>2, <1>3 DEF Job, UpdateProgress
<1>5. CASE ~ProgressAccepted(job, reported, estimated)
  <2>1. Return(e, "error")
    BY <1>5 DEF CheckpointProgress
  <2> QED
    BY <1>1, <2>1, ReturnStep, ControlKept DEF InCode, Results
<1>6. CASE ProgressAccepted(job, reported, estimated)
           /\ reported = job.done /\ total = job.total
  <2>1. Goto(e, then)
    BY <1>6 DEF CheckpointProgress
  <2> QED
    BY <1>1, <2>1, GotoStep, ControlKept
<1>7. CASE ProgressAccepted(job, reported, estimated)
           /\ ~(reported = job.done /\ total = job.total)
  <2>1. Commit(e, UpdateProgress(job, reported, total), then)
    BY <1>7 DEF CheckpointProgress
  <2> QED
    BY <1>1, <1>4, <2>1, CommitStep
<1> QED
  BY <1>5, <1>6, <1>7

\* record_execution_stop, at whatever bytes the executor stopped.
LEMMA RecordStopKeeps ==
  ASSUME IInv, NEW e \in Executions, exec[e].pc = "transfer", NEW rewind \in BOOLEAN,
         RecordStop(e, exec[e].outcome.written, rewind),
         UNCHANGED <<phase, jobs, store, writer, client, control, output>>
  PROVE  IInv'
<1> DEFINE job == exec[e].job
           written == exec[e].outcome.written
           estimated == exec[e].plan.estimated
           total == StoppedTotal(job, written, estimated, rewind)
           cand == TransitionTo(UpdateProgress(job, written, total), StopState(e))
<1>1. InCode(exec[e]) /\ job \in Job
  BY Filled DEF InCode, LocalsFilled
<1>2. written \in Bytes /\ estimated \in BOOLEAN
  BY Filled DEF ExecType, PlanType, Outcome
<1>3. total \in Totals
  BY <1>1, <1>2, TotalsComputed
<1>4. cand \in Job
  BY <1>1, <1>2, <1>3 DEF Job, UpdateProgress, TransitionTo, StopState, States
<1>5. CASE StopAccepted(job, written, estimated, rewind)
  <2>1. Commit(e, cand, "done")
    BY <1>5 DEF RecordStop
  <2> QED
    BY <1>1, <1>4, <2>1, CommitStep
<1>6. CASE ~StopAccepted(job, written, estimated, rewind)
  <2>1. Return(e, "error")
    BY <1>6 DEF RecordStop
  <2> QED
    BY <1>1, <2>1, ReturnStep, ControlKept DEF InCode, Results
<1> QED
  BY <1>5, <1>6

\* The periodic checkpoint.
LEMMA TickKeeps ==
  ASSUME IInv, NEW e \in Executions, Tick(e)
  PROVE  IInv'
  BY CheckpointKeeps DEF Tick

\* The checkpoint that precedes a failure.
LEMMA TransferFailedKeeps ==
  ASSUME IInv, NEW e \in Executions, TransferFailed(e)
  PROVE  IInv'
  BY CheckpointKeeps DEF TransferFailed

\* The settlement of a transfer that stopped.
LEMMA TransferStoppedKeeps ==
  ASSUME IInv, NEW e \in Executions, TransferStopped(e)
  PROVE  IInv'
<1>1. InCode(exec[e]) /\ exec[e].plan.rewind \in BOOLEAN
  BY Filled DEF TransferStopped, InCode, ExecType, PlanType
<1>2. CASE Return(e, "error")
  BY <1>1, <1>2, ReturnStep, ControlKept DEF TransferStopped, InCode, Results
<1>3. CASE RecordStop(e, exec[e].outcome.written, exec[e].plan.rewind)
  BY <1>1, <1>3, RecordStopKeeps DEF TransferStopped
<1> QED
  BY <1>2, <1>3 DEF TransferStopped

\* The settlement of a transfer that finished.
LEMMA TransferFinishedKeeps ==
  ASSUME IInv, NEW e \in Executions, TransferFinished(e)
  PROVE  IInv'
<1> DEFINE cand == TransitionTo(
                     UpdateProgress(exec[e].job, exec[e].outcome.written, FinalTotal(e)),
                     "Finalizing")
<1>1. InCode(exec[e]) /\ exec[e].job \in Job
  BY Filled DEF TransferFinished, InCode, LocalsFilled
<1>2. exec[e].outcome.written \in Bytes /\ FinalTotal(e) \in Totals
  BY <1>1, Filled DEF ExecType, Outcome, FinalTotal, Job, Totals
<1>3. cand \in Job
  BY <1>1, <1>2 DEF Job, UpdateProgress, TransitionTo, States
<1>4. CASE ~Complete(e)
  <2>1. Return(e, "error")
    BY <1>4 DEF TransferFinished
  <2> QED
    BY <1>1, <2>1, ReturnStep, ControlKept DEF TransferFinished, InCode, Results
<1>5. CASE Complete(e) /\ request[e] # "none"
  <2>1. RecordStop(e, exec[e].outcome.written, FALSE)
    BY <1>5 DEF TransferFinished
  <2> QED
    BY <2>1, RecordStopKeeps DEF TransferFinished
<1>6. CASE Complete(e) /\ request[e] = "none"
  <2>1. Commit(e, cand, "finalize")
    BY <1>6 DEF TransferFinished
  <2> QED
    BY <1>1, <1>3, <2>1, CommitStep DEF TransferFinished
<1> QED
  BY <1>4, <1>5, <1>6

---------------------------------------------------------------------------
(* Failure, publication and return. *)

\* record_execution_failure, on the registry's copy.
LEMMA RecordFailureKeeps ==
  ASSUME IInv, NEW e \in Executions, RecordFailure(e)
  PROVE  IInv'
<1> DEFINE job == jobs[exec[e].id]
           cand == FailJob(job, exec[e].outcome.failure)
<1>1. InCode(exec[e]) /\ exec[e].id \in Downloads
  BY Filled DEF RecordFailure, InCode, LocalsFilled
<1>2. exec[e].outcome.failure \in Failures
  BY Filled DEF ExecType, Outcome
<1>3. CASE CanTransitionTo(job.state, "Failed")
  <2>1. job \in Job
    BY <1>1, <1>3, JobInState DEF IInv, TypeOK, CanTransitionTo, States
  <2>2. cand \in Job
    BY <1>2, <2>1 DEF Job, FailJob, States
  <2>3. Commit(e, cand, "done")
    BY <1>3 DEF RecordFailure
  <2> QED
    BY <1>1, <2>2, <2>3, CommitStep DEF RecordFailure
<1>4. CASE ~CanTransitionTo(job.state, "Failed")
  <2>1. Return(e, "error")
    BY <1>4 DEF RecordFailure
  <2> QED
    BY <1>1, <2>1, ReturnStep, ControlKept DEF RecordFailure, InCode, Results
<1> QED
  BY <1>3, <1>4

\* A publication that failed goes on to record its failure.
LEMMA FinalizeFailsKeeps ==
  ASSUME IInv, NEW e \in Executions, NEW failure \in Failures, FinalizeFails(e, failure)
  PROVE  IInv'
<1> DEFINE outcome == [exec[e].outcome EXCEPT !.failure = failure]
           x == [exec[e] EXCEPT !.pc = "fail", !.outcome = outcome]
<1>1. exec[e] \in ExecType /\ LocalsFilled(exec[e]) /\ exec[e].pc = "finalize"
  BY Filled DEF FinalizeFails
<1>2. exec' = [exec EXCEPT ![e] = x]
  BY <1>1 DEF FinalizeFails, IInv, TypeOK, ExecType
<1>3. outcome \in Outcome
  BY <1>1 DEF ExecType, Outcome
<1>4. x \in ExecType
  BY <1>1, <1>3 DEF ExecType, Labels
<1>5. LocalsFilled(x) /\ x.pc # "saved"
  BY <1>1 DEF LocalsFilled, ExecType
<1> QED
  BY <1>1, <1>2, <1>4, <1>5, LocalStep, ControlKept DEF FinalizeFails

\* A publication that succeeded, with the expected bytes or with others.
LEMMA FinalizeKeeps ==
  ASSUME IInv, NEW e \in Executions, NEW written \in Bytes, Finalize(e, written)
  PROVE  IInv'
<1>1. InCode(exec[e])
  BY DEF Finalize, InCode
<1>2. ControlTyped'
  <2>1. output' \in [Downloads -> Bytes \cup {NoOutput}]
    BY DEF Finalize, IInv, TypeOK
  <2> QED
    BY <2>1, ControlKept DEF Finalize
<1>3. CASE Goto(e, "confirm")
  BY <1>1, <1>2, <1>3, GotoStep DEF Finalize
<1>4. CASE Return(e, "unpersisted")
  BY <1>1, <1>2, <1>4, ReturnStep DEF Finalize, InCode, Results
<1> QED
  BY <1>3, <1>4 DEF Finalize

\* confirm_published_output, from within execute.
LEMMA ConfirmKeeps ==
  ASSUME IInv, NEW e \in Executions, Confirm(e)
  PROVE  IInv'
<1> DEFINE id == exec[e].id
           cand == TransitionTo(jobs[id], "Completed")
<1>1. InCode(exec[e]) /\ id \in Downloads
  BY Filled DEF Confirm, InCode, LocalsFilled
<1>2. CASE Confirmable(id, output[id])
  <2>1. jobs[id] \in Job
    BY <1>1, <1>2, JobInState DEF IInv, TypeOK, Confirmable
  <2>2. cand \in Job
    BY <2>1 DEF Job, TransitionTo, States
  <2>3. Commit(e, cand, "done")
    BY <1>2 DEF Confirm
  <2> QED
    BY <1>1, <2>2, <2>3, CommitStep DEF Confirm
<1>3. CASE ~Confirmable(id, output[id])
  <2>1. Return(e, "unpersisted")
    BY <1>3 DEF Confirm
  <2> QED
    BY <1>1, <2>1, ReturnStep, ControlKept DEF Confirm, InCode, Results
<1> QED
  BY <1>2, <1>3

\* A failed save leaves the registry and the repository as they were.
LEMMA SaveFailsKeeps ==
  ASSUME IInv, NEW e \in Executions, SaveFails(e)
  PROVE  IInv'
  BY ReturnStep, ControlKept DEF SaveFails, Results

\* A failed retry ends the task.
LEMMA RequeueFailsKeeps ==
  ASSUME IInv, NEW e \in Executions, RequeueFails(e)
  PROVE  IInv'
  BY ReturnStep, ControlKept DEF RequeueFails, Results

\* The task ends and drops its handle.
LEMMA ReleaseKeeps ==
  ASSUME IInv, NEW e \in Executions, Release(e)
  PROVE  IInv'
<1>1. Idle \in ExecType
  BY IdleTypes DEF Results, Labels
<1>2. LocalsFilled(Idle) /\ Idle.pc # "saved"
  BY DEF LocalsFilled, Idle
<1>3. ControlTyped'
  BY DEF Release, ControlTyped, IInv, TypeOK, Requests
<1> QED
  BY <1>1, <1>2, <1>3, LocalStep DEF Release

\* Stop requests touch the handle only.
LEMMA RequestsKeep ==
  ASSUME IInv, NEW e \in Executions, AskPause(e) \/ SendPause(e) \/ RequestCancel(e)
  PROVE  IInv'
<1>1. UNCHANGED <<phase, jobs, store, writer, client, exec, output>> /\ ControlTyped'
  BY DEF AskPause, SendPause, RequestCancel, ControlTyped, IInv, TypeOK, Requests
<1>2. TypeOK'
  BY <1>1 DEF IInv, TypeOK, ControlTyped
<1> QED
  BY <1>1, <1>2
  DEF IInv, ClientFilled, LockHeld, SavedIsStored, RegistryMatchesStore, SaveInFlight

---------------------------------------------------------------------------
(* Saving and registering a record. *)

\* With the lock free nothing is saved and unregistered.
LEMMA LockFree ==
  ASSUME IInv, writer = Nobody
  PROVE  /\ \A e \in Executions : exec[e].pc # "saved"
         /\ client.pc # "saved"
         /\ phase # "down" => \A id \in Downloads : jobs[id] = store[id]
<1>1. (\A e \in Executions : exec[e].pc # "saved") /\ client.pc # "saved"
  BY HoldersAssumption DEF IInv, LockHeld
<1> QED
  BY <1>1 DEF IInv, RegistryMatchesStore, SaveInFlight

\* Its holder alone has saved a record that is not registered.
LEMMA LockTaken ==
  ASSUME IInv
  PROVE  /\ \A e \in Executions : exec[e].pc = "saved" =>
              /\ writer = e /\ client.pc # "saved"
              /\ \A f \in Executions : exec[f].pc = "saved" => f = e
         /\ client.pc = "saved" => \A e \in Executions : exec[e].pc # "saved"
  BY HoldersAssumption DEF IInv, LockHeld

\* A save takes the free lock and makes the record the one thing in flight.
LEMMA SaveStep ==
  ASSUME IInv, NEW e \in Executions, NEW x \in ExecType,
         exec' = [exec EXCEPT ![e] = x], x.pc = "saved", LocalsFilled(x),
         Save(e, x.id, x.cand),
         UNCHANGED <<phase, jobs, client>>, ControlTyped'
  PROVE  IInv'
<1>1. /\ exec \in [Executions -> ExecType]
      /\ \A f \in Executions : exec'[f] = IF f = e THEN x ELSE exec[f]
  BY DEF IInv, TypeOK
<1>2. /\ x.id \in Downloads /\ x.cand \in Job
      /\ writer = Nobody /\ writer' = e
      /\ store' = [store EXCEPT ![x.id] = x.cand]
      /\ store \in [Downloads -> JobOrNone]
  BY DEF LocalsFilled, Save, IInv, TypeOK
<1>3. TypeOK'
  BY <1>2 DEF IInv, TypeOK, ControlTyped, JobOrNone
<1>4. (\A f \in Executions : LocalsFilled(exec'[f])) /\ ClientFilled'
  BY <1>1 DEF IInv, ClientFilled
<1>5. LockHeld'
  BY <1>1, <1>2, LockFree, HoldersAssumption DEF LockHeld
<1>6. SavedIsStored'
  BY <1>1, <1>2, LockFree DEF SavedIsStored
<1>7. RegistryMatchesStore'
  <2>1. SaveInFlight(x.id)'
    BY <1>1, <1>2 DEF SaveInFlight
  <2>2. phase # "down" => \A id \in Downloads : id # x.id => jobs'[id] = store'[id]
    BY <1>2, LockFree
  <2> QED
    BY <2>1, <2>2 DEF RegistryMatchesStore
<1> QED
  BY <1>3, <1>4, <1>5, <1>6, <1>7 DEF IInv

\* The first half of an execution's commit.
LEMMA SaveJobKeeps ==
  ASSUME IInv, NEW e \in Executions, SaveJob(e)
  PROVE  IInv'
<1> DEFINE x == [exec[e] EXCEPT !.pc = "saved"]
<1>1. exec[e] \in ExecType /\ LocalsFilled(exec[e]) /\ exec[e].pc = "commit"
  BY Filled DEF SaveJob
<1>2. exec' = [exec EXCEPT ![e] = x]
  BY DEF SaveJob, Goto, IInv, TypeOK
<1>3. x \in ExecType /\ x.pc = "saved" /\ x.id = exec[e].id /\ x.cand = exec[e].cand
  BY <1>1 DEF ExecType, Labels
<1>4. LocalsFilled(x)
  BY <1>1, <1>3 DEF LocalsFilled, ExecType
<1>5. ControlTyped'
  <2>1. output' \in [Downloads -> Bytes \cup {NoOutput}]
    BY DEF SaveJob, IInv, TypeOK
  <2> QED
    BY <2>1, ControlKept DEF SaveJob
<1> QED
  BY <1>2, <1>3, <1>4, <1>5, SaveStep DEF SaveJob

\* The first half of the retry's commit, by the task itself.
LEMMA RequeueKeeps ==
  ASSUME IInv, NEW e \in Executions, Requeue(e)
  PROVE  IInv'
<1> DEFINE id == exec[e].id
           cand == Changed("Retry", jobs[id])
           x == [exec[e] EXCEPT !.pc = "saved", !.then = "requeued", !.cand = cand,
                                !.result = "none"]
<1>1. exec[e] \in ExecType /\ exec[e].pc = "done" /\ id \in Downloads
  BY Filled DEF Requeue, LocalsFilled
<1>2. ControlTyped'
  BY ControlKept DEF Requeue
<1>3. CASE Allowed("Retry", jobs[id])
  <2>1. jobs[id] \in Job
    BY <1>1, <1>3, JobInState DEF IInv, TypeOK, Allowed
  <2>2. cand \in Job
    BY <2>1 DEF Changed, Job, TransitionTo, States
  <2>3. exec' = [exec EXCEPT ![e] = x] /\ Save(e, id, cand)
    BY <1>3 DEF Requeue, IInv, TypeOK
  <2>4. x \in ExecType /\ x.pc = "saved" /\ x.id = id /\ x.cand = cand
    BY <1>1, <2>2 DEF ExecType, Labels, Results, JobOrNone
  <2>5. LocalsFilled(x)
    BY <1>1, <2>2, <2>4 DEF LocalsFilled, ExecType
  <2> QED
    BY <1>2, <2>3, <2>4, <2>5, SaveStep DEF Requeue
<1>4. CASE ~Allowed("Retry", jobs[id])
  BY <1>1, <1>2, <1>4, ReturnStep DEF Requeue, Results
<1> QED
  BY <1>3, <1>4

\* The second half of an execution's commit, wherever it leads.
LEMMA RegisterJobKeeps ==
  ASSUME IInv, NEW e \in Executions, RegisterJob(e)
  PROVE  IInv'
<1> DEFINE x == exec'[e]
<1>1. /\ exec[e] \in ExecType /\ LocalsFilled(exec[e]) /\ exec[e].pc = "saved"
      /\ exec[e].id \in Downloads /\ exec[e].cand \in Job
  BY Filled DEF RegisterJob, LocalsFilled
<1>2. /\ exec' = [exec EXCEPT ![e] = x]
      /\ x \in ExecType /\ x.pc # "saved" /\ LocalsFilled(x)
  <2>1. CASE exec[e].then = "done"
    <3>1. PICK result \in {"ok", "retryable"} : Return(e, result)
      BY <2>1 DEF RegisterJob, Return
    <3>2. x = [Idle EXCEPT !.pc = "done", !.id = exec[e].id, !.result = result]
      BY <3>1 DEF Return, IInv, TypeOK
    <3>3. x \in ExecType
      <4> DEFINE z == [Idle EXCEPT !.pc = "done", !.id = exec[e].id, !.result = result]
      <4>1. result \in Results /\ "done" \in Labels
        BY DEF Results, Labels
      <4>2. exec[e].id \in Downloads \cup {NoDownload}
        BY <1>1
      <4>3. z \in ExecType
        BY <4>1, <4>2, IdleTypes
      <4>4. x = z
        BY <3>2
      <4> HIDE DEF x, z
      <4> QED
        BY <4>3, <4>4
    <3>4. exec' = [exec EXCEPT ![e] = x]
      BY <3>1, <3>2 DEF Return
    <3>5. x.pc = "done" /\ x.id = exec[e].id
      BY <3>2 DEF Idle
    <3> QED
      BY <1>1, <3>3, <3>4, <3>5 DEF LocalsFilled
  <2>2. CASE exec[e].then = "requeued"
    <3>1. exec' = [exec EXCEPT ![e] = [Idle EXCEPT !.pc = "requeued", !.id = exec[e].id]]
      BY <2>2 DEF RegisterJob
    <3>2. x = [Idle EXCEPT !.pc = "requeued", !.id = exec[e].id]
      BY <3>1 DEF IInv, TypeOK
    <3>3. x \in ExecType
      BY <1>1, <3>2, IdleTypes DEF Labels, Results
    <3>4. exec' = [exec EXCEPT ![e] = x]
      BY <3>1, <3>2
    <3>5. x.pc = "requeued" /\ x.id = exec[e].id
      BY <3>2 DEF Idle
    <3> QED
      BY <1>1, <3>3, <3>4, <3>5 DEF LocalsFilled
  <2>3. CASE exec[e].then \in {"inspect", "transfer", "fail", "finalize"}
    <3> DEFINE y == [exec[e] EXCEPT !.pc = exec[e].then, !.job = exec[e].cand,
                                    !.cand = NoJob, !.then = "idle"]
    <3>1. exec' = [exec EXCEPT ![e].pc = exec[e].then, ![e].job = exec[e].cand,
                               ![e].cand = NoJob, ![e].then = "idle"]
      BY <2>3 DEF RegisterJob
    <3>2. x = y /\ exec' = [exec EXCEPT ![e] = y]
      BY <3>1 DEF IInv, TypeOK
    <3>3. y \in ExecType
      BY <1>1, NoJobAbsent DEF ExecType, Labels, JobOrNone
    <3>4. LocalsFilled(y) /\ y.pc # "saved"
      BY <1>1, <2>3 DEF LocalsFilled, ExecType
    <3> QED
      BY <3>2, <3>3, <3>4
  <2> QED
    BY <1>1, <2>1, <2>2, <2>3 DEF LocalsFilled
<1>3. \A f \in Executions : exec'[f] = IF f = e THEN x ELSE exec[f]
  BY <1>2 DEF IInv, TypeOK
<1>4. /\ writer' = Nobody /\ jobs' = [jobs EXCEPT ![exec[e].id] = exec[e].cand]
      /\ UNCHANGED <<phase, store, client, control, output>>
  BY DEF RegisterJob, Register
<1>5. TypeOK'
  BY <1>1, <1>2, <1>4 DEF IInv, TypeOK, control, JobOrNone
<1>6. (\A f \in Executions : LocalsFilled(exec'[f])) /\ ClientFilled'
  BY <1>2, <1>3, <1>4 DEF IInv, ClientFilled
<1>7. LockHeld'
  BY <1>1, <1>2, <1>3, <1>4, LockTaken, HoldersAssumption DEF LockHeld
<1>8. SavedIsStored'
  BY <1>2, <1>3, <1>4 DEF IInv, SavedIsStored
<1>9. RegistryMatchesStore'
  <2>1. jobs'[exec[e].id] = store'[exec[e].id]
    BY <1>1, <1>4 DEF IInv, TypeOK, SavedIsStored
  <2>2. \A id \in Downloads : SaveInFlight(id) => id = exec[e].id
    BY <1>1, LockTaken DEF SaveInFlight
  <2> QED
    BY <1>4, <2>1, <2>2 DEF IInv, TypeOK, RegistryMatchesStore
<1> QED
  BY <1>5, <1>6, <1>7, <1>8, <1>9 DEF IInv

---------------------------------------------------------------------------
(* The caller of the idle commands. *)

\* The caller saves a record for a download.
LEMMA ClientSavesKeeps ==
  ASSUME IInv, NEW id \in Downloads, NEW job \in Job, ClientSaves(id, job),
         UNCHANGED <<phase, jobs, exec, control, output>>
  PROVE  IInv'
<1>1. /\ writer = Nobody /\ writer' = Client
      /\ store' = [store EXCEPT ![id] = job]
      /\ client' = [pc |-> "saved", id |-> id, cand |-> job]
  BY DEF ClientSaves, Save
<1>2. TypeOK'
  BY <1>1 DEF IInv, TypeOK, control, JobOrNone, ClientType
<1>3. (\A f \in Executions : LocalsFilled(exec'[f])) /\ ClientFilled'
  BY <1>1 DEF IInv, ClientFilled
<1>4. LockHeld' /\ SavedIsStored'
  BY <1>1, LockFree, HoldersAssumption DEF LockHeld, SavedIsStored, IInv, TypeOK
<1>5. RegistryMatchesStore'
  <2>1. SaveInFlight(id)'
    BY <1>1 DEF SaveInFlight, IInv, TypeOK
  <2>2. phase # "down" => \A other \in Downloads : other # id => jobs'[other] = store'[other]
    BY <1>1, LockFree DEF IInv, TypeOK
  <2> QED
    BY <2>1, <2>2 DEF RegistryMatchesStore
<1> QED
  BY <1>2, <1>3, <1>4, <1>5 DEF IInv

\* Steps of the caller that neither take nor release the lock.
LEMMA ClientStepKeeps ==
  ASSUME IInv, NEW c \in ClientType, client' = c, client.pc # "saved", c.pc # "saved",
         c.pc # "idle" => c.id \in Downloads /\ c.cand \in Job,
         UNCHANGED <<phase, jobs, store, writer, exec, control, output>>
  PROVE  IInv'
<1>1. TypeOK'
  BY DEF IInv, TypeOK, control
<1>2. (\A f \in Executions : LocalsFilled(exec'[f])) /\ ClientFilled'
  BY DEF IInv, ClientFilled
<1>3. LockHeld' /\ SavedIsStored'
  BY DEF IInv, LockHeld, SavedIsStored
<1>4. RegistryMatchesStore'
  BY DEF IInv, RegistryMatchesStore, SaveInFlight
<1> QED
  BY <1>1, <1>2, <1>3, <1>4 DEF IInv

\* What a command makes of the record it is allowed for is a record.
LEMMA ChangedIsJob ==
  ASSUME IInv, NEW id \in Downloads, NEW command \in Commands, Allowed(command, jobs[id])
  PROVE  Changed(command, jobs[id]) \in Job
<1>1. jobs[id] \in JobOrNone
  BY DEF IInv, TypeOK
<1>2. jobs[id].state # "Absent"
  BY DEF Commands, Allowed, CanRestart, States
<1>3. jobs[id] \in Job
  BY <1>1, <1>2, JobInState
<1>4. RestartJob(jobs[id]) \in Job
  BY <1>3, JobOperations, MaxBytesAssumption
  DEF States, Bytes, Totals, Failures
<1>5. \A next \in {"Paused", "Queued", "Cancelled"} : TransitionTo(jobs[id], next) \in Job
  BY <1>3 DEF Job, TransitionTo, States
<1> QED
  BY <1>4, <1>5 DEF Commands, Changed

\* A caller without a command is well typed.
LEMMA ClientIdleTyped == ClientIdle \in ClientType /\ ClientIdle.pc = "idle"
  BY NoJobAbsent DEF ClientIdle, ClientType

\* A record whose publication can be confirmed can be completed.
LEMMA CompletesIsJob ==
  ASSUME IInv, NEW id \in Downloads, NEW written, Confirmable(id, written)
  PROVE  TransitionTo(jobs[id], "Completed") \in Job
<1>1. jobs[id] \in Job
  BY JobInState DEF IInv, TypeOK, Confirmable
<1> QED
  BY <1>1 DEF Job, TransitionTo, States

\* The steps of an idle command, and of a confirmation of an output.
LEMMA ClientKeeps ==
  ASSUME IInv, ClientStep
  PROVE  IInv'
<1>1. ASSUME NEW id \in Downloads, Create(id) PROVE IInv'
  BY <1>1, NoJobAbsent, ClientSavesKeeps DEF Create
<1>2. ASSUME NEW id \in Downloads, ConfirmOutput(id) PROVE IInv'
  <2> DEFINE c == [pc |-> "commit", id |-> id, cand |-> TransitionTo(jobs[id], "Completed")]
  <2>1. TransitionTo(jobs[id], "Completed") \in Job
    BY <1>2, CompletesIsJob DEF ConfirmOutput
  <2>2. c \in ClientType
    BY <2>1 DEF ClientType, JobOrNone
  <2> QED
    BY <1>2, <2>1, <2>2, ClientStepKeeps DEF ConfirmOutput, ClientReady
<1>3. ASSUME NEW id \in Downloads, NEW command \in Commands, ChangeIdleState(id, command)
      PROVE  IInv'
  BY <1>3, ChangedIsJob, ClientSavesKeeps DEF ChangeIdleState
<1>4. ASSUME ClientCommit PROVE IInv'
  <2>1. client.id \in Downloads /\ client.cand \in Job
    BY <1>4 DEF ClientCommit, IInv, ClientFilled
  <2> QED
    BY <1>4, <2>1, ClientSavesKeeps DEF ClientCommit
<1>5. ASSUME ClientRegister PROVE IInv'
  <2>1. /\ writer' = Nobody /\ jobs' = [jobs EXCEPT ![client.id] = client.cand]
        /\ client' = ClientIdle /\ client.pc = "saved"
        /\ client.id \in Downloads /\ client.cand \in Job
        /\ UNCHANGED <<phase, store, exec, control, output>>
    BY <1>5 DEF ClientRegister, Register, IInv, ClientFilled
  <2>2. TypeOK'
    BY <2>1, ClientIdleTyped DEF IInv, TypeOK, control, JobOrNone
  <2>3. (\A f \in Executions : LocalsFilled(exec'[f])) /\ ClientFilled'
    BY <2>1, ClientIdleTyped DEF IInv, ClientFilled
  <2>4. LockHeld' /\ SavedIsStored'
    BY <2>1, ClientIdleTyped, LockTaken, HoldersAssumption DEF IInv, LockHeld, SavedIsStored
  <2>5. RegistryMatchesStore'
    <3>1. jobs'[client.id] = store'[client.id]
      BY <2>1 DEF IInv, TypeOK, SavedIsStored
    <3>2. \A id \in Downloads : SaveInFlight(id) => id = client.id
      BY <2>1, LockTaken DEF SaveInFlight
    <3> QED
      BY <2>1, <3>1, <3>2 DEF IInv, TypeOK, RegistryMatchesStore
  <2> QED
    BY <2>2, <2>3, <2>4, <2>5 DEF IInv
<1>6. ASSUME ClientCommitFails PROVE IInv'
  BY <1>6, ClientIdleTyped, ClientStepKeeps DEF ClientCommitFails
<1> QED
  BY <1>1, <1>2, <1>3, <1>4, <1>5, <1>6 DEF ClientStep

---------------------------------------------------------------------------
(* The process. *)

\* Startup, the recovery of each record, and the end of the process.
LEMMA ProcessKeeps ==
  ASSUME IInv, ProcessStep
  PROVE  IInv'
<1>1. ASSUME Start PROVE IInv'
  <2>1. TypeOK'
    BY <1>1 DEF Start, IInv, TypeOK, control
  <2>2. RegistryMatchesStore'
    BY <1>1 DEF Start, RegistryMatchesStore
  <2> QED
    BY <1>1, <2>1, <2>2 DEF Start, IInv, ClientFilled, LockHeld, SavedIsStored
<1>2. ASSUME NEW id \in Downloads, Recover(id) PROVE IInv'
  <2> DEFINE c == [pc |-> "commit", id |-> id, cand |-> TransitionTo(jobs[id], "Interrupted")]
  <2>1. jobs[id] \in Job
    BY <1>2, JobInState DEF Recover, RequiresRecovery, IInv, TypeOK
  <2>2. TransitionTo(jobs[id], "Interrupted") \in Job
    BY <2>1 DEF Job, TransitionTo, States
  <2>3. c \in ClientType
    BY <2>2 DEF ClientType, JobOrNone
  <2> QED
    BY <1>2, <2>2, <2>3, ClientStepKeeps DEF Recover
<1>3. ASSUME Started PROVE IInv'
  <2>1. TypeOK'
    BY <1>3 DEF Started, IInv, TypeOK, control
  <2>2. RegistryMatchesStore'
    BY <1>3 DEF Started, IInv, RegistryMatchesStore, SaveInFlight
  <2> QED
    BY <1>3, <2>1, <2>2 DEF Started, IInv, ClientFilled, LockHeld, SavedIsStored
<1>4. ASSUME Crash PROVE IInv'
  <2>1. Idle \in ExecType /\ Idle.pc = "idle"
    BY IdleTypes DEF Idle, Results, Labels
  <2>2. \A e \in Executions : exec'[e] = Idle
    BY <1>4 DEF Crash
  <2>3. TypeOK'
    BY <1>4, <2>1, ClientIdleTyped, NoJobAbsent
    DEF Crash, IInv, TypeOK, JobOrNone, Requests
  <2>4. (\A e \in Executions : LocalsFilled(exec'[e])) /\ ClientFilled'
    BY <1>4, <2>1, <2>2, ClientIdleTyped DEF Crash, LocalsFilled, ClientFilled
  <2>5. LockHeld' /\ SavedIsStored'
    BY <1>4, <2>1, <2>2, ClientIdleTyped, HoldersAssumption DEF Crash, LockHeld, SavedIsStored
  <2>6. RegistryMatchesStore'
    BY <1>4 DEF Crash, RegistryMatchesStore
  <2> QED
    BY <2>3, <2>4, <2>5, <2>6 DEF IInv
<1> QED
  BY <1>1, <1>2, <1>3, <1>4 DEF ProcessStep

---------------------------------------------------------------------------
(* The theorems. *)

\* Before the first process starts there is nothing, so the invariant holds.
LEMMA InitEstablishes == Init => IInv
<1> SUFFICES ASSUME Init PROVE IInv
  OBVIOUS
<1>1. Idle \in ExecType /\ Idle.pc = "idle"
  BY IdleTypes DEF Idle, Results, Labels
<1>2. TypeOK
  BY <1>1, ClientIdleTyped, NoJobAbsent DEF Init, TypeOK, JobOrNone, Requests
<1>3. (\A e \in Executions : LocalsFilled(exec[e])) /\ ClientFilled
  BY <1>1, ClientIdleTyped DEF Init, LocalsFilled, ClientFilled
<1>4. LockHeld /\ SavedIsStored
  BY <1>1, ClientIdleTyped, HoldersAssumption DEF Init, LockHeld, SavedIsStored
<1>5. RegistryMatchesStore
  BY DEF Init, RegistryMatchesStore
<1> QED
  BY <1>2, <1>3, <1>4, <1>5 DEF IInv

\* Every step of the specification preserves the invariant, action by action.
LEMMA NextPreserves == IInv /\ [Next]_vars => IInv'
<1> SUFFICES ASSUME IInv, [Next]_vars PROVE IInv'
  OBVIOUS
<1>1. ASSUME NEW e \in Executions, Step(e) PROVE IInv'
  BY <1>1, SaveJobKeeps, RegisterJobKeeps, BeginKeeps, StopInspectionKeeps,
     StartTransferKeeps, TickKeeps, TransferFailedKeeps, TransferStoppedKeeps,
     TransferFinishedKeeps, RecordFailureKeeps, ConfirmKeeps DEF Step
<1>2. ASSUME NEW e \in Executions, SaveFails(e) PROVE IInv'
  BY <1>2, SaveFailsKeeps
<1>3. ASSUME NEW e \in Executions, ExecutorStep(e) PROVE IInv'
  BY <1>3, PrepareFailsKeeps, FinalizeFailsKeeps, PrepareKeeps, ReportKeeps,
     FinalizeKeeps, TransferEndsKeeps DEF ExecutorStep
<1>4. ASSUME NEW e \in Executions, CallerStep(e) PROVE IInv'
  BY <1>4, ExecuteKeeps, RequeueKeeps, RequeueFailsKeeps, ReleaseKeeps, RequestsKeep
  DEF CallerStep
<1>5. ASSUME ClientStep PROVE IInv'
  BY <1>5, ClientKeeps
<1>6. ASSUME ProcessStep PROVE IInv'
  BY <1>6, ProcessKeeps
<1>7. ASSUME UNCHANGED vars PROVE IInv'
  BY <1>7 DEF vars, control, IInv, TypeOK, ClientFilled, LockHeld, SavedIsStored,
     RegistryMatchesStore, SaveInFlight
<1> QED
  BY <1>1, <1>2, <1>3, <1>4, <1>5, <1>6, <1>7 DEF Next

\* The strengthened invariant holds in every reachable state.
THEOREM Invariance == Spec => []IInv
  BY InitEstablishes, NextPreserves, PTL DEF Spec

\* Every variable of the manager keeps its type: no byte count, total or record
\* the manager computes from what executors report leaves its domain.
THEOREM TypeCorrect == Spec => []TypeOK
<1>1. IInv => TypeOK
  BY DEF IInv
<1> QED
  BY <1>1, Invariance, PTL

\* save_job_locked: the registry shows every durable transition and no other,
\* except between the save and the registration of the lock's holder.
THEOREM RegistryIsDurable == Spec => []RegistryMatchesStore
<1>1. IInv => RegistryMatchesStore
  BY DEF IInv
<1> QED
  BY <1>1, Invariance, PTL

---------------------------------------------------------------------------
(* The promises about a record. *)

\* The states an attempt commits, by where the commit leads.
Goals == [inspect |-> {"Inspecting"}, transfer |-> {"Downloading"}, fail |-> {"Downloading"},
          finalize |-> {"Finalizing"}, done |-> {"Paused", "Cancelled", "Failed", "Completed"},
          requeued |-> {"Queued"}]

\* A total that was announced as exact stays what was announced.
KeepsTotal(x, job) == ~x.plan.estimated => job.total = x.plan.total

\* A record of a publication shows all of the bytes it was announced with.
Whole(job) == job.total \in {Unknown, job.done}

\* What an attempt has in hand once it set out to commit cand.
Intends(x) ==
  /\ x.cand.state \in Goals[x.then]
  /\ x.then = "transfer" => KeepsTotal(x, x.cand)
  /\ x.cand.state \in {"Finalizing", "Completed"} => Whole(x.cand)

\* The commit of cand follows the lifecycle table, loses no progress but by a
\* stop of a transfer that may rewind, and completes what is published only.
Allows(x, record, out) ==
  /\ \/ x.cand.state = "Downloading" /\ record.state = "Downloading"
     \/ CanTransitionTo(record.state, x.cand.state)
  /\ x.cand.state = "Completed" => out = x.cand.done
  /\ record.state = "Downloading" /\ x.cand.done < record.done =>
       x.cand.state \in {"Paused", "Cancelled"} /\ x.plan.rewind
  /\ RequiresRecovery(record.state) /\ x.cand.state # "Completed" => out = NoOutput

\* An execution at each place, the record it works on and the output of its
\* download.
Attempt(x, record, out) ==
  /\ record # NoJob
  /\ InCode(x) => x.job = record
  /\ x.pc \in {"inspect", "prepared"} => record.state = "Inspecting" /\ out = NoOutput
  /\ x.pc = "prepared" => x.cand.state = "Inspecting" /\ x.cand.total = x.plan.total
  /\ x.pc = "transfer" =>
       record.state = "Downloading" /\ out = NoOutput /\ KeepsTotal(x, record)
  /\ x.pc = "finalize" => record.state = "Finalizing" /\ out = NoOutput
  /\ x.pc = "confirm" => record.state = "Finalizing" /\ out # NoOutput
  /\ x.pc = "fail" => RequiresRecovery(record.state) /\ out = NoOutput
  /\ x.pc = "commit" => Intends(x) /\ x.then # "requeued" /\ Allows(x, record, out)
  /\ x.pc = "saved" =>
       Intends(x) /\ (x.then \notin {"done", "requeued"} => out = NoOutput)
  /\ x.pc = "done" =>
       /\ x.result # "none"
       /\ x.result \in {"ok", "retryable"} => ~RequiresRecovery(record.state)
       /\ x.result = "unpersisted" => record.state = "Finalizing" /\ out # NoOutput

Attempts == \A e \in Executions :
  exec[e].id \in Downloads => Attempt(exec[e], jobs[exec[e].id], output[exec[e].id])

\* Nobody else has the download of an execution, and only a running process
\* executes one.
Exclusive ==
  /\ \A e \in Executions : exec[e].pc = "idle" <=> exec[e].id = NoDownload
  /\ client.pc = "idle" <=> client.id = NoDownload
  /\ \A e, f \in Executions : exec[e].id = exec[f].id /\ exec[e].pc # "idle" => e = f
  /\ client.pc # "idle" => ~Owned(client.id)
  /\ phase # "up" => \A e \in Executions : exec[e].pc = "idle"
  /\ phase = "down" => client.pc = "idle"

\* What the caller sets out to commit: a publication to confirm, or a record to
\* recover at the start.
ClientIntends ==
  LET record == jobs[client.id] IN
  /\ client.pc = "commit" =>
       \/ /\ record.state = "Finalizing" /\ record.done = output[client.id]
          /\ client.cand = TransitionTo(record, "Completed")
       \/ /\ RequiresRecovery(record.state)
          /\ client.cand = TransitionTo(record, "Interrupted")
  /\ client.pc = "saved" => ~RequiresRecovery(client.cand.state)

\* A durable record of a publication is whole; of a completed one, the output
\* holds just its bytes.
Sound(record, out) ==
  /\ record.state \in {"Finalizing", "Completed"} => Whole(record)
  /\ record.state = "Completed" => out = record.done

StoreIsSound == \A id \in Downloads : Sound(store[id], output[id])

PInv ==
  /\ IInv
  /\ Exclusive
  /\ Attempts
  /\ ClientIntends
  /\ StoreIsSound

---------------------------------------------------------------------------
(* Who works on a download, and what the others see of it. *)

\* A record is not the place of a missing one.
LEMMA Recorded ==
  ASSUME NEW job \in Job
  PROVE  job # NoJob
  BY NoJobAbsent DEF Job, States

\* An execution that is not idle runs in a process that is up, on a download of
\* its own.
LEMMA Working ==
  ASSUME PInv, NEW e \in Executions, exec[e].pc # "idle"
  PROVE  /\ phase = "up" /\ exec[e].id \in Downloads
         /\ exec[e] \in ExecType /\ LocalsFilled(exec[e])
         /\ Attempt(exec[e], jobs[exec[e].id], output[exec[e].id])
         /\ \A f \in Executions : exec[f].id = exec[e].id => f = e
         /\ client.pc # "idle" => client.id # exec[e].id
<1>1. exec[e] \in ExecType /\ LocalsFilled(exec[e])
  BY Filled DEF PInv
<1>2. exec[e].id \in Downloads
  BY <1>1 DEF LocalsFilled
<1>3. phase = "up" /\ (\A f \in Executions : exec[f].id = exec[e].id => f = e)
  BY DEF PInv, Exclusive
<1>4. client.pc # "idle" => client.id # exec[e].id
  BY DEF PInv, Exclusive, Owned, Owners
<1>5. Attempt(exec[e], jobs[exec[e].id], output[exec[e].id])
  BY <1>2 DEF PInv, Attempts
<1> QED
  BY <1>1, <1>2, <1>3, <1>4, <1>5

\* The registry shows what is stored of the download of an execution, except
\* when the execution itself is between the two.
LEMMA Settled ==
  ASSUME PInv, NEW e \in Executions, exec[e].pc \notin {"idle", "saved"}
  PROVE  jobs[exec[e].id] = store[exec[e].id]
<1>1. /\ phase = "up" /\ exec[e].id \in Downloads
      /\ \A f \in Executions : exec[f].id = exec[e].id => f = e
      /\ client.pc # "idle" => client.id # exec[e].id
  BY Working
<1>2. ~SaveInFlight(exec[e].id)
  BY <1>1 DEF SaveInFlight
<1> QED
  BY <1>1, <1>2 DEF PInv, IInv, RegistryMatchesStore

\* A step of an execution on its own download keeps the invariant when it leaves
\* the execution, the record and the output in agreement.
LEMMA OwnStep ==
  ASSUME PInv, IInv', NEW e \in Executions, NEW x \in ExecType,
         exec' = [exec EXCEPT ![e] = x], exec[e].pc # "idle",
         x.pc # "idle", x.id = exec[e].id, UNCHANGED <<phase, client>>,
         \A d \in Downloads : d # x.id =>
           /\ jobs'[d] = jobs[d] /\ store'[d] = store[d] /\ output'[d] = output[d],
         Attempt(x, jobs'[x.id], output'[x.id]),
         Sound(store'[x.id], output'[x.id])
  PROVE  PInv'
<1>1. /\ phase = "up" /\ x.id \in Downloads
      /\ \A f \in Executions : exec[f].id = x.id => f = e
      /\ client.pc # "idle" => client.id # x.id
  BY Working
<1>2. \A f \in Executions : exec'[f] = IF f = e THEN x ELSE exec[f]
  BY DEF PInv, IInv, TypeOK
<1>3. \A f \in Executions : exec'[f].id = exec[f].id /\ (exec'[f].pc = "idle" <=> exec[f].pc = "idle")
  BY <1>2
<1>4. \A id \in Downloads : Owned(id)' <=> Owned(id)
  BY <1>3 DEF Owned, Owners
<1>5. Exclusive'
  <2>1. client.pc # "idle" => client.id \in Downloads
    BY DEF PInv, IInv, ClientFilled
  <2> QED
    BY <1>1, <1>3, <1>4, <2>1 DEF PInv, Exclusive
<1>6. Attempts'
  <2> SUFFICES ASSUME NEW f \in Executions, exec'[f].id \in Downloads
               PROVE  Attempt(exec'[f], jobs'[exec'[f].id], output'[exec'[f].id])
    BY DEF Attempts
  <2>1. CASE f = e
    BY <1>2, <2>1
  <2>2. CASE f # e
    <3>1. exec'[f] = exec[f] /\ exec[f].id # x.id
      BY <1>1, <1>2, <2>2
    <3>2. Attempt(exec[f], jobs[exec[f].id], output[exec[f].id])
      BY <3>1 DEF PInv, Attempts
    <3> QED
      BY <3>1, <3>2
  <2> QED
    BY <2>1, <2>2
<1>7. ClientIntends'
  <2>1. client.pc # "idle" => client.id \in Downloads
    BY DEF PInv, IInv, ClientFilled
  <2>2. client.pc # "idle" =>
          jobs'[client.id] = jobs[client.id] /\ output'[client.id] = output[client.id]
    BY <1>1, <2>1
  <2> QED
    BY <2>2 DEF PInv, ClientIntends
<1>8. StoreIsSound'
  BY <1>1 DEF PInv, StoreIsSound
<1> QED
  BY <1>5, <1>6, <1>7, <1>8 DEF PInv

\* In particular a step that changes its own locals only.
LEMMA OwnLocals ==
  ASSUME PInv, IInv', NEW e \in Executions, NEW x \in ExecType,
         exec' = [exec EXCEPT ![e] = x], exec[e].pc # "idle",
         x.pc # "idle", x.id = exec[e].id,
         UNCHANGED <<phase, jobs, store, client, output>>,
         Attempt(x, jobs[x.id], output[x.id])
  PROVE  PInv'
<1>1. Sound(store[x.id], output[x.id])
  BY Working DEF PInv, StoreIsSound
<1> QED
  BY <1>1, OwnStep

\* Setting out to commit what the place in the code allows.
LEMMA CommitPromises ==
  ASSUME PInv, IInv', NEW e \in Executions, InCode(exec[e]), NEW cand \in Job,
         NEW then \in {"inspect", "transfer", "fail", "finalize", "done"},
         NEW x, x = [exec[e] EXCEPT !.pc = "commit", !.cand = cand, !.then = then],
         exec' = [exec EXCEPT ![e] = x],
         Intends(x), Allows(x, jobs[x.id], output[x.id]),
         UNCHANGED <<phase, jobs, store, client, output>>
  PROVE  PInv'
<1>1. exec[e].pc # "idle"
  BY DEF InCode
<1>2. exec[e] \in ExecType /\ Attempt(exec[e], jobs[exec[e].id], output[exec[e].id])
  BY <1>1, Working
<1>3. /\ x \in ExecType /\ x.pc = "commit" /\ x.id = exec[e].id /\ x.then = then
      /\ x.job = exec[e].job
  BY <1>2 DEF ExecType, Labels, JobOrNone
<1>4. Attempt(x, jobs[x.id], output[x.id])
  BY <1>2, <1>3 DEF Attempt, InCode
<1> QED
  BY <1>1, <1>3, <1>4, OwnLocals

\* Returning what the record and the output bear out.
LEMMA ReturnPromises ==
  ASSUME PInv, IInv', NEW e \in Executions, exec[e].pc # "idle",
         NEW result \in Results \ {"none"}, Return(e, result),
         result \in {"ok", "retryable"} => ~RequiresRecovery(jobs[exec[e].id].state),
         result = "unpersisted" =>
           jobs[exec[e].id].state = "Finalizing" /\ output[exec[e].id] # NoOutput,
         UNCHANGED <<phase, jobs, store, client, output>>
  PROVE  PInv'
<1> DEFINE x == [Idle EXCEPT !.pc = "done", !.id = exec[e].id, !.result = result]
<1>1. exec[e].id \in Downloads
  BY Working
<1>2. x \in ExecType
  BY <1>1, IdleTypes DEF Labels
<1>3. x.pc = "done" /\ x.id = exec[e].id /\ x.result = result
  BY DEF Idle
<1>4. Attempt(x, jobs[x.id], output[x.id])
  BY <1>3, Working DEF Attempt, InCode
<1>5. exec' = [exec EXCEPT ![e] = x]
  BY DEF Return
<1> HIDE DEF x
<1> QED
  BY <1>2, <1>3, <1>4, <1>5, OwnLocals

\* The error an execution returns needs nothing.
LEMMA ErrorPromises ==
  ASSUME PInv, IInv', NEW e \in Executions, exec[e].pc # "idle", Return(e, "error"),
         UNCHANGED <<phase, jobs, store, client, output>>
  PROVE  PInv'
<1>1. "error" \in Results \ {"none"}
  BY DEF Results
<1> QED
  BY <1>1, ReturnPromises

---------------------------------------------------------------------------
(* The actions of an execution, up to the transfer. *)

\* Execute takes a download that nobody has.
LEMMA ExecutePromises ==
  ASSUME PInv, IInv', NEW e \in Executions, NEW id \in Downloads,
         ExecuteMay(e, id), Execute(e, id)
  PROVE  PInv'
<1> DEFINE x == [exec[e] EXCEPT !.pc = "start", !.id = id]
<1>1. exec[e] \in ExecType /\ exec[e].pc \in {"idle", "requeued"}
  BY Filled DEF Execute, PInv
<1>2. exec' = [exec EXCEPT ![e] = x] /\ UNCHANGED <<phase, jobs, store, client, output>>
  BY DEF Execute, PInv, IInv, TypeOK
<1>3. x \in ExecType /\ x.pc = "start" /\ x.id = id
  BY <1>1 DEF ExecType, Labels
<1>4. Attempt(x, jobs[id], output[id])
  BY <1>3 DEF Attempt, InCode, Execute
<1> HIDE DEF x
<1>5. CASE exec[e].pc = "requeued"
  <2>1. exec[e].id = id
    BY <1>5 DEF Execute
  <2> QED
    BY <1>2, <1>3, <1>4, <1>5, <2>1, OwnLocals
<1>6. CASE exec[e].pc = "idle"
  <2>1. (\A f \in Executions : exec[f].id # id) /\ client.id # id
    BY <1>6 DEF ExecuteMay, Owned, Owners
  <2>2. \A f \in Executions : exec'[f] = IF f = e THEN x ELSE exec[f]
    BY <1>2 DEF PInv, IInv, TypeOK
  <2>3. phase = "up" /\ exec[e].id = NoDownload /\ id # NoDownload
    BY <1>6, DownloadsAssumption DEF Execute, PInv, Exclusive, NoDownload
  <2>4. Exclusive'
    <3>1. \A f, g \in Executions : exec'[f].id = exec'[g].id /\ exec'[f].pc # "idle" => f = g
      <4> SUFFICES ASSUME NEW f \in Executions, NEW g \in Executions,
                          exec'[f].id = exec'[g].id, exec'[f].pc # "idle"
                   PROVE  f = g
        OBVIOUS
      <4>1. CASE f # e /\ g # e
        BY <2>2, <4>1 DEF PInv, Exclusive
      <4>2. CASE f = e \/ g = e
        BY <1>3, <2>1, <2>2, <4>2
      <4> QED
        BY <4>1, <4>2
    <3>2. \A f \in Executions : exec'[f].pc = "idle" <=> exec'[f].id = NoDownload
      BY <1>3, <2>2, <2>3 DEF PInv, Exclusive
    <3>3. (client.pc # "idle" => ~Owned(client.id))'
      BY <1>2, <1>3, <2>1, <2>2 DEF PInv, Exclusive, Owned, Owners
    <3> QED
      BY <1>2, <2>3, <3>1, <3>2, <3>3 DEF PInv, Exclusive
  <2>5. Attempts'
    <3> SUFFICES ASSUME NEW f \in Executions, exec'[f].id \in Downloads
                 PROVE  Attempt(exec'[f], jobs[exec'[f].id], output[exec'[f].id])
      BY <1>2 DEF Attempts
    <3> QED
      BY <1>3, <1>4, <2>2 DEF PInv, Attempts
  <2>6. ClientIntends' /\ StoreIsSound'
    BY <1>2 DEF PInv, ClientIntends, StoreIsSound
  <2> QED
    BY <2>4, <2>5, <2>6 DEF PInv
<1> QED
  BY <1>1, <1>5, <1>6

\* The three ways execute begins: refused, stopped, or set out to inspect.
LEMMA BeginPromises ==
  ASSUME PInv, IInv', NEW e \in Executions, Begin(e)
  PROVE  PInv'
<1> DEFINE job == jobs[exec[e].id]
           To(state, then) == [exec[e] EXCEPT !.pc = "commit", !.job = job,
                                 !.cand = TransitionTo(job, state), !.then = then]
<1>1. /\ exec[e].pc = "start" /\ exec[e] \in ExecType /\ exec[e].id \in Downloads
      /\ UNCHANGED <<phase, jobs, store, client, output>>
  BY Working DEF Begin
<1>2. CASE job.state # "Queued"
  BY <1>1, <1>2, ErrorPromises DEF Begin
<1>3. ASSUME job.state = "Queued",
             NEW state, NEW then,
             \/ state = "Inspecting" /\ then = "inspect"
             \/ state \in {"Paused", "Cancelled"} /\ then = "done",
             exec' = [exec EXCEPT ![e] = To(state, then)]
      PROVE  PInv'
  <2>1. job \in Job
    BY <1>1, <1>3, JobInState DEF PInv, IInv, TypeOK
  <2>2. state \in States
    BY <1>3 DEF States
  <2>3. TransitionTo(job, state) \in Job /\ TransitionTo(job, state).state = state
    BY <2>1, <2>2 DEF Job, TransitionTo
  <2> DEFINE x == To(state, then)
  <2>4. /\ x \in ExecType /\ x.pc = "commit" /\ x.id = exec[e].id /\ x.then = then
        /\ x.job = job /\ x.cand = TransitionTo(job, state)
    BY <1>1, <1>3, <2>1, <2>3 DEF ExecType, Labels, JobOrNone
  <2>5. exec' = [exec EXCEPT ![e] = x]
    BY <1>3
  <2> HIDE DEF x, job
  <2>6. Intends(x)
    BY <1>3, <2>3, <2>4 DEF Intends, Goals
  <2>7. Allows(x, job, output[x.id])
    BY <1>3, <2>1, <2>3, <2>4
    DEF Allows, CanTransitionTo, Successors, States, RequiresRecovery
  <2>8. Attempt(x, job, output[x.id])
    BY <1>3, <2>1, <2>4, <2>6, <2>7, Recorded DEF Attempt
  <2> QED
    BY <1>1, <2>4, <2>5, <2>8, OwnLocals DEF job
<1>4. CASE job.state = "Queued" /\ request[e] # "none"
  <2>1. exec' = [exec EXCEPT ![e] = To(StopState(e), "done")]
    BY <1>4 DEF Begin, PInv, IInv, TypeOK
  <2> QED
    BY <1>3, <1>4, <2>1 DEF StopState
<1>5. CASE job.state = "Queued" /\ request[e] = "none"
  <2>1. exec' = [exec EXCEPT ![e] = To("Inspecting", "inspect")]
    BY <1>5 DEF Begin, PInv, IInv, TypeOK
  <2> QED
    BY <1>3, <1>5, <2>1
<1> QED
  BY <1>2, <1>4, <1>5

\* A stop noticed while the executor prepares.
LEMMA StopInspectionPromises ==
  ASSUME PInv, IInv', NEW e \in Executions, StopInspection(e)
  PROVE  PInv'
<1> DEFINE record == jobs[exec[e].id]
           cand == TransitionTo(exec[e].job, StopState(e))
           x == [exec[e] EXCEPT !.pc = "commit", !.cand = cand, !.then = "done"]
<1>1. /\ exec[e].pc = "inspect" /\ exec[e] \in ExecType /\ InCode(exec[e])
      /\ exec[e].job = record /\ exec[e].job \in Job /\ record.state = "Inspecting"
      /\ output[exec[e].id] = NoOutput
  BY Working DEF StopInspection, InCode, Attempt, LocalsFilled
<1>2. StopState(e) \in {"Paused", "Cancelled"}
  BY DEF StopState
<1>3. cand \in Job /\ cand.state = StopState(e) /\ cand.done = record.done
  BY <1>1, <1>2 DEF Job, TransitionTo, States
<1>4. exec' = [exec EXCEPT ![e] = x] /\ UNCHANGED <<phase, jobs, store, client, output>>
  BY DEF StopInspection, Commit, PInv, IInv, TypeOK
<1>5. x.cand = cand /\ x.then = "done" /\ x.id = exec[e].id
  BY <1>1 DEF ExecType
<1> HIDE DEF cand, record
<1>6. Intends(x)
  BY <1>2, <1>3, <1>5 DEF Intends, Goals
<1>7. Allows(x, record, output[x.id])
  BY <1>1, <1>2, <1>3, <1>5 DEF Allows, CanTransitionTo, Successors, States
<1> QED
  BY <1>1, <1>3, <1>4, <1>5, <1>6, <1>7, CommitPromises DEF record

\* A preparation that failed goes on to record its failure.
LEMMA PrepareFailsPromises ==
  ASSUME PInv, IInv', NEW e \in Executions, NEW failure \in Failures, PrepareFails(e, failure)
  PROVE  PInv'
<1> DEFINE x == [exec[e] EXCEPT !.pc = "fail",
                   !.outcome = [kind |-> "failed", written |-> 0, failure |-> failure]]
<1>1. /\ exec[e].pc = "inspect" /\ exec[e] \in ExecType
      /\ Attempt(exec[e], jobs[exec[e].id], output[exec[e].id])
  BY Working DEF PrepareFails
<1>2. exec' = [exec EXCEPT ![e] = x] /\ UNCHANGED <<phase, jobs, store, client, output>>
  BY DEF PrepareFails, PInv, IInv, TypeOK
<1>3. x \in ExecType
  BY <1>2 DEF PInv, IInv, TypeOK
<1>4. x.pc = "fail" /\ x.id = exec[e].id /\ x.job = exec[e].job
  BY <1>1 DEF ExecType
<1>5. Attempt(x, jobs[x.id], output[x.id])
  BY <1>1, <1>4 DEF Attempt, InCode, RequiresRecovery
<1> QED
  BY <1>1, <1>2, <1>3, <1>4, <1>5, OwnLocals

\* A preparation whose plan is taken over, or is refused as inconsistent.
LEMMA PreparePromises ==
  ASSUME PInv, IInv', NEW e \in Executions, NEW plan \in Plans, Prepare(e, plan)
  PROVE  PInv'
<1> DEFINE cand == UpdateProgress(exec[e].job, plan.start, plan.total)
           x == [exec[e] EXCEPT !.pc = "prepared", !.plan = plan, !.cand = cand]
<1>1. /\ exec[e].pc = "inspect" /\ exec[e] \in ExecType /\ exec[e].job \in Job
      /\ Attempt(exec[e], jobs[exec[e].id], output[exec[e].id])
      /\ UNCHANGED <<phase, jobs, store, client, output>>
  BY Working DEF Prepare, LocalsFilled
<1>2. CASE ValidProgress(plan.start, plan.total)
  <2>1. exec' = [exec EXCEPT ![e] = x]
    BY <1>2 DEF Prepare, PInv, IInv, TypeOK
  <2>2. x \in ExecType
    <3>1. exec'[e] = x
      BY <2>1 DEF PInv, IInv, TypeOK
    <3> QED
      BY <3>1 DEF IInv, TypeOK
  <2>3. /\ x.pc = "prepared" /\ x.id = exec[e].id /\ x.job = exec[e].job
        /\ x.cand = cand /\ x.plan = plan
    BY <1>1 DEF ExecType
  <2>4. cand.state = exec[e].job.state /\ cand.total = plan.total
    BY <1>1 DEF Job, UpdateProgress
  <2>5. Attempt(x, jobs[x.id], output[x.id])
    BY <1>1, <2>3, <2>4 DEF Attempt, InCode
  <2> QED
    BY <1>1, <2>1, <2>2, <2>3, <2>5, OwnLocals
<1>3. CASE ~ValidProgress(plan.start, plan.total)
  BY <1>1, <1>3, ErrorPromises DEF Prepare
<1> QED
  BY <1>2, <1>3

\* The last look at a stop before the transfer is committed.
LEMMA StartTransferPromises ==
  ASSUME PInv, IInv', NEW e \in Executions, StartTransfer(e)
  PROVE  PInv'
<1> DEFINE record == jobs[exec[e].id]
           To(state) == TransitionTo(exec[e].cand, state)
<1>1. /\ exec[e].pc = "prepared" /\ exec[e] \in ExecType /\ InCode(exec[e])
      /\ exec[e].job = record /\ record # NoJob /\ record.state = "Inspecting"
      /\ output[exec[e].id] = NoOutput
      /\ exec[e].cand \in Job /\ exec[e].cand.total = exec[e].plan.total
      /\ UNCHANGED <<phase, jobs, store, client, output>>
  BY Working DEF StartTransfer, InCode, Attempt, LocalsFilled
<1>2. \A state \in {"Downloading", "Paused", "Cancelled"} :
        /\ To(state) \in Job /\ To(state).state = state
        /\ To(state).total = exec[e].plan.total
  BY <1>1 DEF Job, TransitionTo, States
<1>3. CASE request[e] # "none"
  <2> DEFINE x == [exec[e] EXCEPT !.pc = "commit", !.cand = To(StopState(e)), !.then = "done"]
  <2>1. exec' = [exec EXCEPT ![e] = x]
    BY <1>3 DEF StartTransfer, Commit, PInv, IInv, TypeOK
  <2>2. x.cand = To(StopState(e)) /\ x.then = "done" /\ x.id = exec[e].id
    BY <1>1 DEF ExecType
  <2>3. StopState(e) \in {"Paused", "Cancelled"}
    BY DEF StopState
  <2> HIDE DEF record, To
  <2>4. Intends(x)
    BY <1>2, <2>2, <2>3 DEF Intends, Goals
  <2>5. Allows(x, record, output[x.id])
    BY <1>1, <1>2, <2>2, <2>3 DEF Allows, CanTransitionTo, Successors, States
  <2> QED
    BY <1>1, <1>2, <2>1, <2>2, <2>3, <2>4, <2>5, CommitPromises DEF record
<1>4. CASE request[e] = "none"
  <2> DEFINE x == [exec[e] EXCEPT !.pc = "commit", !.then = "transfer",
                     !.cand = To("Downloading"), !.reported = exec[e].plan.start]
  <2>1. exec' = [exec EXCEPT ![e] = x]
    BY <1>4 DEF StartTransfer, PInv, IInv, TypeOK
  <2>2. x \in ExecType
    <3>1. exec'[e] = x
      BY <2>1 DEF PInv, IInv, TypeOK
    <3> QED
      BY <3>1 DEF IInv, TypeOK
  <2>3. /\ x.cand = To("Downloading") /\ x.then = "transfer" /\ x.id = exec[e].id
        /\ x.pc = "commit" /\ x.job = exec[e].job /\ x.plan = exec[e].plan
    BY <1>1 DEF ExecType
  <2> HIDE DEF record, To, x
  <2>4. Intends(x)
    BY <1>2, <2>3 DEF Intends, Goals, KeepsTotal
  <2>5. Allows(x, record, output[x.id])
    BY <1>1, <1>2, <2>3 DEF Allows, CanTransitionTo, Successors, States
  <2>6. Attempt(x, record, output[x.id])
    BY <1>1, <2>3, <2>4, <2>5 DEF Attempt
  <2> QED
    BY <1>1, <2>1, <2>2, <2>3, <2>6, OwnLocals DEF record
<1> QED
  BY <1>3, <1>4

---------------------------------------------------------------------------
(* The transfer and its end. *)

\* What the executor reports, at any time, changes nothing the invariant says.
LEMMA ReportingPromises ==
  ASSUME PInv, IInv', NEW e \in Executions,
         \/ \E written \in Bytes : Report(e, written)
         \/ \E outcome \in Endings : TransferEnds(e, outcome)
  PROVE  PInv'
<1>1. UNCHANGED <<phase, jobs, store, client, output>>
  BY DEF Report, TransferEnds
<1>2. \A f \in Executions :
        /\ exec'[f].pc = exec[f].pc /\ exec'[f].id = exec[f].id
        /\ exec'[f].job = exec[f].job /\ exec'[f].cand = exec[f].cand
        /\ exec'[f].then = exec[f].then /\ exec'[f].plan = exec[f].plan
        /\ exec'[f].result = exec[f].result
  <2>1. \A f \in Executions : exec[f] \in ExecType
    BY DEF PInv, IInv, TypeOK
  <2>2. CASE \E written \in Bytes : Report(e, written)
    BY <2>1, <2>2 DEF Report, ExecType, PInv, IInv, TypeOK
  <2>3. CASE \E outcome \in Endings : TransferEnds(e, outcome)
    BY <2>1, <2>3 DEF TransferEnds, ExecType, PInv, IInv, TypeOK
  <2> QED
    BY <2>2, <2>3
<1>3. Exclusive'
  BY <1>1, <1>2 DEF PInv, Exclusive, Owned, Owners
<1>4. Attempts'
  <2> SUFFICES ASSUME NEW f \in Executions, exec[f].id \in Downloads
               PROVE  Attempt(exec'[f], jobs[exec[f].id], output[exec[f].id])
    BY <1>1, <1>2 DEF Attempts
  <2>1. Attempt(exec[f], jobs[exec[f].id], output[exec[f].id])
    BY DEF PInv, Attempts
  <2> QED
    BY <1>2, <2>1 DEF Attempt, InCode, Intends, Allows, KeepsTotal
<1>5. ClientIntends' /\ StoreIsSound'
  BY <1>1 DEF PInv, ClientIntends, StoreIsSound
<1> QED
  BY <1>3, <1>4, <1>5 DEF PInv

\* checkpoint_progress commits no less than is recorded, under the exact total
\* if there is one, and goes straight on with a record that says it all.
LEMMA CheckpointPromises ==
  ASSUME PInv, IInv', NEW e \in Executions, exec[e].pc = "transfer",
         NEW then \in {"transfer", "fail"}, CheckpointProgress(e, then),
         UNCHANGED <<phase, jobs, store, client, output>>
  PROVE  PInv'
<1> DEFINE record == jobs[exec[e].id]
           job == exec[e].job
           reported == exec[e].reported
           estimated == exec[e].plan.estimated
           total == ExecutionTotal(job, reported, estimated)
           cand == UpdateProgress(job, reported, total)
<1>1. /\ exec[e] \in ExecType /\ InCode(exec[e]) /\ job = record /\ job \in Job
      /\ record.state = "Downloading" /\ output[exec[e].id] = NoOutput
      /\ KeepsTotal(exec[e], job)
      /\ Attempt(exec[e], record, output[exec[e].id])
  BY Working DEF InCode, Attempt, LocalsFilled
<1>2. CASE ~ProgressAccepted(job, reported, estimated)
  BY <1>2, ErrorPromises DEF CheckpointProgress
<1>3. CASE ProgressAccepted(job, reported, estimated)
           /\ reported = job.done /\ total = job.total
  <2> DEFINE x == [exec[e] EXCEPT !.pc = then]
  <2>1. exec' = [exec EXCEPT ![e] = x]
    BY <1>3 DEF CheckpointProgress, Goto, PInv, IInv, TypeOK
  <2>2. x \in ExecType /\ x.pc = then /\ x.id = exec[e].id /\ x.job = job /\ x.plan = exec[e].plan
    BY <1>1 DEF ExecType, Labels
  <2>3. Attempt(x, record, output[x.id])
    BY <1>1, <2>2 DEF Attempt, InCode, RequiresRecovery, KeepsTotal
  <2> QED
    BY <1>1, <2>1, <2>2, <2>3, OwnLocals
<1>4. CASE ProgressAccepted(job, reported, estimated)
           /\ ~(reported = job.done /\ total = job.total)
  <2> DEFINE x == [exec[e] EXCEPT !.pc = "commit", !.cand = cand, !.then = then]
  <2>1. exec' = [exec EXCEPT ![e] = x]
    BY <1>4 DEF CheckpointProgress, Commit, PInv, IInv, TypeOK
  <2>2. reported \in Bytes /\ estimated \in BOOLEAN /\ total \in Totals
    BY <1>1, TotalsComputed DEF ExecType, PlanType
  <2>3. /\ cand \in Job /\ cand.state = "Downloading" /\ cand.done = reported
        /\ cand.total = total
    BY <1>1, <2>2 DEF Job, UpdateProgress
  <2>4. x.cand = cand /\ x.then = then /\ x.id = exec[e].id /\ x.plan = exec[e].plan
    BY <1>1 DEF ExecType
  <2>5. ~estimated => total = exec[e].plan.total
    BY <1>1 DEF ExecutionTotal, KeepsTotal
  <2>6. reported \in Int /\ job.done \in Int /\ reported >= job.done
    BY <1>1, <1>4, <2>2, MaxBytesAssumption DEF ProgressAccepted, Bytes, Job
  <2> HIDE DEF cand, total
  <2>7. Intends(x)
    BY <2>3, <2>4, <2>5 DEF Intends, Goals, KeepsTotal
  <2>8. Allows(x, record, output[x.id])
    BY <1>1, <2>3, <2>4, <2>6 DEF Allows
  <2> QED
    BY <1>1, <2>1, <2>3, <2>4, <2>7, <2>8, CommitPromises
<1> QED
  BY <1>2, <1>3, <1>4

\* record_execution_stop goes behind the recorded progress only where the plan
\* announced that the transfer may rewind.
LEMMA RecordStopPromises ==
  ASSUME PInv, IInv', NEW e \in Executions, exec[e].pc = "transfer", NEW rewind \in BOOLEAN,
         rewind => exec[e].plan.rewind,
         RecordStop(e, exec[e].outcome.written, rewind),
         UNCHANGED <<phase, jobs, store, client, output>>
  PROVE  PInv'
<1> DEFINE record == jobs[exec[e].id]
           job == exec[e].job
           written == exec[e].outcome.written
           estimated == exec[e].plan.estimated
           total == StoppedTotal(job, written, estimated, rewind)
           cand == TransitionTo(UpdateProgress(job, written, total), StopState(e))
           x == [exec[e] EXCEPT !.pc = "commit", !.cand = cand, !.then = "done"]
<1>1. /\ exec[e] \in ExecType /\ InCode(exec[e]) /\ job = record /\ job \in Job
      /\ record.state = "Downloading" /\ output[exec[e].id] = NoOutput
  BY Working DEF InCode, Attempt, LocalsFilled
<1>2. written \in Bytes /\ estimated \in BOOLEAN /\ total \in Totals
  BY <1>1, TotalsComputed DEF ExecType, PlanType, Outcome
<1>3. CASE StopAccepted(job, written, estimated, rewind)
  <2>1. exec' = [exec EXCEPT ![e] = x]
    BY <1>3 DEF RecordStop, Commit, PInv, IInv, TypeOK
  <2>2. StopState(e) \in {"Paused", "Cancelled"}
    BY DEF StopState
  <2>3. cand \in Job /\ cand.state = StopState(e) /\ cand.done = written
    BY <1>1, <1>2, <2>2 DEF Job, UpdateProgress, TransitionTo, States
  <2>4. x.cand = cand /\ x.then = "done" /\ x.id = exec[e].id /\ x.plan = exec[e].plan
    BY <1>1 DEF ExecType
  <2>5. written \in Int /\ job.done \in Int /\ (written < job.done => exec[e].plan.rewind)
    BY <1>1, <1>2, <1>3, MaxBytesAssumption DEF StopAccepted, Bytes, Job
  <2> HIDE DEF cand, total
  <2>6. Intends(x)
    BY <2>2, <2>3, <2>4 DEF Intends, Goals
  <2>7. Allows(x, record, output[x.id])
    BY <1>1, <2>2, <2>3, <2>4, <2>5 DEF Allows, CanTransitionTo, Successors, States
  <2> QED
    BY <1>1, <2>1, <2>3, <2>4, <2>6, <2>7, CommitPromises
<1>4. CASE ~StopAccepted(job, written, estimated, rewind)
  BY <1>4, ErrorPromises DEF RecordStop
<1> QED
  BY <1>3, <1>4

\* The settlement of a transfer that stopped.
LEMMA TransferStoppedPromises ==
  ASSUME PInv, IInv', NEW e \in Executions, TransferStopped(e)
  PROVE  PInv'
<1>1. /\ exec[e].pc = "transfer" /\ exec[e].plan.rewind \in BOOLEAN
      /\ UNCHANGED <<phase, jobs, store, client, output>>
  BY Filled DEF TransferStopped, ExecType, PlanType, PInv
<1>2. CASE Return(e, "error")
  BY <1>1, <1>2, ErrorPromises
<1>3. CASE RecordStop(e, exec[e].outcome.written, exec[e].plan.rewind)
  BY <1>1, <1>3, RecordStopPromises
<1> QED
  BY <1>2, <1>3 DEF TransferStopped

\* The settlement of a transfer that finished: what goes on to publication is
\* whole.
LEMMA TransferFinishedPromises ==
  ASSUME PInv, IInv', NEW e \in Executions, TransferFinished(e)
  PROVE  PInv'
<1> DEFINE record == jobs[exec[e].id]
           job == exec[e].job
           written == exec[e].outcome.written
           cand == TransitionTo(UpdateProgress(job, written, FinalTotal(e)), "Finalizing")
           x == [exec[e] EXCEPT !.pc = "commit", !.cand = cand, !.then = "finalize"]
<1>1. /\ exec[e].pc = "transfer" /\ exec[e] \in ExecType /\ InCode(exec[e])
      /\ job = record /\ job \in Job
      /\ record.state = "Downloading" /\ output[exec[e].id] = NoOutput
      /\ KeepsTotal(exec[e], job)
      /\ UNCHANGED <<phase, jobs, store, client, output>>
  BY Working DEF TransferFinished, InCode, Attempt, LocalsFilled
<1>2. CASE ~Complete(e)
  BY <1>1, <1>2, ErrorPromises DEF TransferFinished
<1>3. CASE Complete(e) /\ request[e] # "none"
  <2>1. RecordStop(e, written, FALSE)
    BY <1>3 DEF TransferFinished
  <2> QED
    BY <1>1, <2>1, RecordStopPromises
<1>4. CASE Complete(e) /\ request[e] = "none"
  <2>1. exec' = [exec EXCEPT ![e] = x]
    BY <1>4 DEF TransferFinished, Commit, PInv, IInv, TypeOK
  <2>2. written \in Bytes /\ FinalTotal(e) \in Totals
    BY <1>1 DEF ExecType, Outcome, FinalTotal, Job, Totals
  <2>3. /\ cand \in Job /\ cand.state = "Finalizing" /\ cand.done = written
        /\ cand.total = FinalTotal(e)
    BY <1>1, <2>2 DEF Job, UpdateProgress, TransitionTo, States
  <2>4. x.cand = cand /\ x.then = "finalize" /\ x.id = exec[e].id
    BY <1>1 DEF ExecType
  <2>5. Whole(cand)
    BY <1>1, <1>4, <2>3 DEF Whole, FinalTotal, Complete, KeepsTotal
  <2>6. written \in Int /\ job.done \in Int /\ written >= job.done
    <3>1. /\ written \in Int /\ job.done \in Int /\ exec[e].reported \in Int
          /\ exec[e].plan.estimated \in BOOLEAN
      BY <1>1, <2>2, MaxBytesAssumption DEF Bytes, Job, ExecType, PlanType
    <3> QED
      BY <1>4, <3>1 DEF Complete, ProgressAccepted
  <2> HIDE DEF cand
  <2>7. Intends(x)
    BY <2>3, <2>4, <2>5 DEF Intends, Goals
  <2>8. Allows(x, record, output[x.id])
    BY <1>1, <2>3, <2>4, <2>6 DEF Allows, CanTransitionTo, Successors, States
  <2> QED
    BY <1>1, <2>1, <2>3, <2>4, <2>7, <2>8, CommitPromises
<1> QED
  BY <1>2, <1>3, <1>4

---------------------------------------------------------------------------
(* Failure, publication and return. *)

\* record_execution_failure keeps the progress, and finds nothing published.
LEMMA RecordFailurePromises ==
  ASSUME PInv, IInv', NEW e \in Executions, RecordFailure(e)
  PROVE  PInv'
<1> DEFINE record == jobs[exec[e].id]
           cand == FailJob(record, exec[e].outcome.failure)
           x == [exec[e] EXCEPT !.pc = "commit", !.cand = cand, !.then = "done"]
<1>1. /\ exec[e].pc = "fail" /\ exec[e] \in ExecType /\ InCode(exec[e])
      /\ exec[e].job = record /\ exec[e].job \in Job
      /\ RequiresRecovery(record.state) /\ output[exec[e].id] = NoOutput
      /\ UNCHANGED <<phase, jobs, store, client, output>>
  BY Working DEF RecordFailure, InCode, Attempt, LocalsFilled
<1>2. CASE CanTransitionTo(record.state, "Failed")
  <2>1. exec' = [exec EXCEPT ![e] = x]
    BY <1>2 DEF RecordFailure, Commit, PInv, IInv, TypeOK
  <2>2. exec[e].outcome.failure \in Failures
    BY <1>1 DEF ExecType, Outcome
  <2>3. cand \in Job /\ cand.state = "Failed" /\ cand.done = record.done
    BY <1>1, <2>2 DEF Job, FailJob, States
  <2>4. record.done \in Int
    BY <1>1, MaxBytesAssumption DEF Job, Bytes
  <2>5. x.cand = cand /\ x.then = "done" /\ x.id = exec[e].id
    BY <1>1 DEF ExecType
  <2> HIDE DEF cand
  <2>6. Intends(x)
    BY <2>3, <2>5 DEF Intends, Goals
  <2>7. Allows(x, record, output[x.id])
    BY <1>1, <1>2, <2>3, <2>4, <2>5 DEF Allows
  <2> QED
    BY <1>1, <2>1, <2>3, <2>5, <2>6, <2>7, CommitPromises
<1>3. CASE ~CanTransitionTo(record.state, "Failed")
  BY <1>1, <1>3, ErrorPromises DEF RecordFailure
<1> QED
  BY <1>2, <1>3

\* A publication that failed put nothing in place.
LEMMA FinalizeFailsPromises ==
  ASSUME PInv, IInv', NEW e \in Executions, NEW failure \in Failures, FinalizeFails(e, failure)
  PROVE  PInv'
<1> DEFINE x == [exec[e] EXCEPT !.pc = "fail",
                   !.outcome = [exec[e].outcome EXCEPT !.failure = failure]]
<1>1. /\ exec[e].pc = "finalize" /\ exec[e] \in ExecType
      /\ Attempt(exec[e], jobs[exec[e].id], output[exec[e].id])
  BY Working DEF FinalizeFails
<1>2. exec' = [exec EXCEPT ![e] = x] /\ UNCHANGED <<phase, jobs, store, client, output>>
  BY <1>1 DEF FinalizeFails, PInv, IInv, TypeOK, ExecType
<1>3. x \in ExecType
  <2>1. exec'[e] = x
    BY <1>2 DEF PInv, IInv, TypeOK
  <2> QED
    BY <2>1 DEF IInv, TypeOK
<1>4. x.pc = "fail" /\ x.id = exec[e].id /\ x.job = exec[e].job
  BY <1>1 DEF ExecType
<1>5. Attempt(x, jobs[x.id], output[x.id])
  BY <1>1, <1>4 DEF Attempt, InCode, RequiresRecovery
<1> QED
  BY <1>1, <1>2, <1>3, <1>4, <1>5, OwnLocals

\* The output is put in place while the record says Finalizing.
LEMMA FinalizePromises ==
  ASSUME PInv, IInv', NEW e \in Executions, NEW written \in Bytes, Finalize(e, written)
  PROVE  PInv'
<1> DEFINE id == exec[e].id
<1>1. /\ exec[e].pc = "finalize" /\ exec[e] \in ExecType /\ id \in Downloads
      /\ exec[e].job = jobs[id] /\ jobs[id] # NoJob /\ jobs[id].state = "Finalizing"
      /\ UNCHANGED <<phase, jobs, store, client>>
  BY Working DEF Finalize, InCode, Attempt
<1>2. /\ output' = [output EXCEPT ![id] = written]
      /\ output' \in [Downloads -> Bytes \cup {NoOutput}]
      /\ output \in [Downloads -> Bytes \cup {NoOutput}]
  BY DEF Finalize, PInv, IInv, TypeOK
<1>3. /\ output'[id] # NoOutput
      /\ \A d \in Downloads : d # id => output'[d] = output[d]
  BY <1>1, <1>2, MaxBytesAssumption DEF Bytes, NoOutput
<1>4. Sound(store'[id], output'[id])
  <2>1. jobs[id] = store[id] /\ Sound(store[id], output[id])
    BY <1>1, Settled DEF PInv, StoreIsSound
  <2> QED
    BY <1>1, <2>1 DEF Sound
<1>5. ASSUME NEW x \in ExecType, exec' = [exec EXCEPT ![e] = x], x.id = id,
             \/ x.pc = "confirm" /\ x.job = jobs[id]
             \/ x.pc = "done" /\ x.result = "unpersisted"
      PROVE  PInv'
  <2>1. Attempt(x, jobs'[id], output'[id])
    BY <1>1, <1>3, <1>5 DEF Attempt, InCode
  <2> QED
    BY <1>1, <1>3, <1>4, <1>5, <2>1, OwnStep
<1>6. CASE written = exec[e].outcome.written
  <2> DEFINE x == [exec[e] EXCEPT !.pc = "confirm"]
  <2>1. exec' = [exec EXCEPT ![e] = x]
    BY <1>6 DEF Finalize, Goto, PInv, IInv, TypeOK
  <2>2. x \in ExecType /\ x.pc = "confirm" /\ x.id = id /\ x.job = jobs[id]
    BY <1>1 DEF ExecType, Labels
  <2> QED
    BY <1>5, <2>1, <2>2
<1>7. CASE written # exec[e].outcome.written
  <2> DEFINE x == [Idle EXCEPT !.pc = "done", !.id = id, !.result = "unpersisted"]
  <2>1. exec' = [exec EXCEPT ![e] = x]
    BY <1>7 DEF Finalize, Return
  <2>2. x \in ExecType
    BY <1>1, IdleTypes DEF Labels, Results
  <2>3. x.pc = "done" /\ x.id = id /\ x.result = "unpersisted"
    BY DEF Idle
  <2> HIDE DEF x
  <2> QED
    BY <1>5, <2>1, <2>2, <2>3
<1> QED
  BY <1>6, <1>7

\* confirm_published_output completes a record that shows what was published.
LEMMA ConfirmPromises ==
  ASSUME PInv, IInv', NEW e \in Executions, Confirm(e)
  PROVE  PInv'
<1> DEFINE id == exec[e].id
           record == jobs[id]
           cand == TransitionTo(record, "Completed")
           x == [exec[e] EXCEPT !.pc = "commit", !.cand = cand, !.then = "done"]
<1>1. /\ exec[e].pc = "confirm" /\ exec[e] \in ExecType /\ InCode(exec[e])
      /\ exec[e].job = record /\ exec[e].job \in Job
      /\ record.state = "Finalizing" /\ output[id] # NoOutput
      /\ UNCHANGED <<phase, jobs, store, client, output>>
  BY Working DEF Confirm, InCode, Attempt, LocalsFilled
<1>2. CASE Confirmable(id, output[id])
  <2>1. exec' = [exec EXCEPT ![e] = x]
    BY <1>2 DEF Confirm, Commit, PInv, IInv, TypeOK
  <2>2. Whole(record)
    BY <1>1, Settled, Working DEF PInv, StoreIsSound, Sound
  <2>3. /\ cand \in Job /\ cand.state = "Completed" /\ cand.done = record.done
        /\ Whole(cand)
    BY <1>1, <2>2 DEF Job, TransitionTo, States, Whole
  <2>4. x.cand = cand /\ x.then = "done" /\ x.id = id
    BY <1>1 DEF ExecType
  <2>5. record.done = output[id]
    BY <1>2 DEF Confirmable
  <2> HIDE DEF cand
  <2>6. Intends(x)
    BY <2>3, <2>4 DEF Intends, Goals
  <2>7. Allows(x, record, output[x.id])
    BY <1>1, <2>3, <2>4, <2>5 DEF Allows, CanTransitionTo, Successors, States
  <2> QED
    BY <1>1, <2>1, <2>3, <2>4, <2>6, <2>7, CommitPromises
<1>3. CASE ~Confirmable(id, output[id])
  <2>1. Return(e, "unpersisted") /\ "unpersisted" \in Results \ {"none"}
    BY <1>3 DEF Confirm, Results
  <2> QED
    BY <1>1, <2>1, ReturnPromises
<1> QED
  BY <1>2, <1>3

\* A failed save of a completion leaves a published output behind.
LEMMA SaveFailsPromises ==
  ASSUME PInv, IInv', NEW e \in Executions, SaveFails(e)
  PROVE  PInv'
<1>1. /\ exec[e].pc = "commit" /\ exec[e].cand \in Job
      /\ Allows(exec[e], jobs[exec[e].id], output[exec[e].id])
      /\ UNCHANGED <<phase, jobs, store, client, output>>
  BY Working DEF SaveFails, Attempt, LocalsFilled
<1>2. CASE exec[e].cand.state = "Completed"
  <2>1. output[exec[e].id] # NoOutput /\ jobs[exec[e].id].state = "Finalizing"
    BY <1>1, <1>2, MaxBytesAssumption
    DEF Allows, Job, Bytes, NoOutput, CanTransitionTo, Successors, States
  <2>2. Return(e, "unpersisted") /\ "unpersisted" \in Results \ {"none"}
    BY <1>2 DEF SaveFails, Results
  <2> QED
    BY <1>1, <2>1, <2>2, ReturnPromises
<1>3. CASE exec[e].cand.state # "Completed"
  BY <1>1, <1>3, ErrorPromises DEF SaveFails
<1> QED
  BY <1>2, <1>3

\* A failed retry ends the task.
LEMMA RequeueFailsPromises ==
  ASSUME PInv, IInv', NEW e \in Executions, RequeueFails(e)
  PROVE  PInv'
  BY ErrorPromises DEF RequeueFails

\* The task ends, and nobody has its download.
LEMMA ReleasePromises ==
  ASSUME PInv, IInv', NEW e \in Executions, Release(e)
  PROVE  PInv'
<1>1. /\ exec' = [exec EXCEPT ![e] = Idle] /\ exec[e].pc = "done"
      /\ UNCHANGED <<phase, jobs, store, client, output>>
  BY DEF Release
<1>2. \A f \in Executions : exec'[f] = IF f = e THEN Idle ELSE exec[f]
  BY <1>1 DEF PInv, IInv, TypeOK
<1>3. Idle.pc = "idle" /\ Idle.id = NoDownload /\ NoDownload \notin Downloads
  BY DownloadsAssumption DEF Idle, NoDownload
<1>4. Exclusive'
  <2>1. client.pc # "idle" => client.id \in Downloads
    BY DEF PInv, IInv, ClientFilled
  <2>2. (client.pc # "idle" => ~Owned(client.id))'
    BY <1>1, <1>2, <1>3, <2>1 DEF PInv, Exclusive, Owned, Owners
  <2>3. \A f \in Executions :
          /\ exec'[f].pc = "idle" <=> exec'[f].id = NoDownload
          /\ exec'[f].pc # "idle" => exec'[f] = exec[f] /\ f # e
    BY <1>2, <1>3 DEF PInv, Exclusive
  <2>4. \A f, g \in Executions : exec'[f].id = exec'[g].id /\ exec'[f].pc # "idle" => f = g
    BY <1>2, <1>3, <2>3 DEF PInv, Exclusive
  <2> QED
    BY <1>1, <1>2, <1>3, <2>2, <2>3, <2>4 DEF PInv, Exclusive
<1>5. Attempts'
  BY <1>1, <1>2, <1>3 DEF PInv, Attempts
<1>6. ClientIntends' /\ StoreIsSound'
  BY <1>1 DEF PInv, ClientIntends, StoreIsSound
<1> QED
  BY <1>4, <1>5, <1>6 DEF PInv

\* Stop requests touch the handle only.
LEMMA RequestsPromise ==
  ASSUME PInv, IInv', UNCHANGED <<phase, jobs, store, client, exec, output>>
  PROVE  PInv'
  BY DEF PInv, Exclusive, Owned, Owners, Attempts, ClientIntends, StoreIsSound

---------------------------------------------------------------------------
(* Saving and registering a record. *)

\* The record an execution saves is sound, and the output is reset for a new
\* attempt only.
LEMMA SaveJobPromises ==
  ASSUME PInv, IInv', NEW e \in Executions, SaveJob(e)
  PROVE  PInv'
<1> DEFINE id == exec[e].id
           cand == exec[e].cand
           x == [exec[e] EXCEPT !.pc = "saved"]
<1>1. /\ exec[e].pc = "commit" /\ exec[e] \in ExecType /\ id \in Downloads
      /\ Intends(exec[e]) /\ Allows(exec[e], jobs[id], output[id])
      /\ exec[e].then # "requeued"
      /\ cand \in Job /\ jobs[id] # NoJob
  BY Working DEF SaveJob, Attempt, LocalsFilled
<1>2. /\ exec' = [exec EXCEPT ![e] = x]
      /\ store' = [store EXCEPT ![id] = cand]
      /\ output' = IF cand.state = "Inspecting"
                     THEN [output EXCEPT ![id] = NoOutput] ELSE output
      /\ UNCHANGED <<phase, jobs, client>>
  BY DEF SaveJob, Save, Goto, PInv, IInv, TypeOK
<1>3. /\ x \in ExecType /\ x.pc = "saved" /\ x.id = id /\ x.cand = cand
      /\ x.then = exec[e].then /\ x.plan = exec[e].plan
  BY <1>1 DEF ExecType, Labels
<1>4. /\ store'[id] = cand
      /\ output'[id] = IF cand.state = "Inspecting" THEN NoOutput ELSE output[id]
      /\ \A d \in Downloads : d # id => store'[d] = store[d] /\ output'[d] = output[d]
  BY <1>1, <1>2 DEF PInv, IInv, TypeOK
<1> HIDE DEF x, cand
<1>5. Intends(x)
  BY <1>1, <1>3 DEF Intends, KeepsTotal, cand
<1>6. x.then \notin {"done", "requeued"} => output'[id] = NoOutput
  <2>1. x.then \in {"inspect", "transfer", "fail", "finalize", "done", "requeued"}
    BY <1>1, <1>3, Working DEF LocalsFilled
  <2>2. x.then \notin {"done", "requeued"} =>
          cand.state \in {"Inspecting", "Downloading", "Finalizing"}
    BY <1>3, <1>5, <2>1 DEF Intends, Goals
  <2>3. cand.state \in {"Downloading", "Finalizing"} => RequiresRecovery(jobs[id].state)
    BY <1>1 DEF cand, Allows, CanTransitionTo, Successors, States, RequiresRecovery
  <2> QED
    BY <1>1, <1>4, <2>2, <2>3 DEF Allows, cand
<1>7. Attempt(x, jobs'[id], output'[id])
  BY <1>1, <1>2, <1>3, <1>5, <1>6 DEF Attempt, InCode
<1>8. Sound(store'[id], output'[id])
  BY <1>1, <1>4 DEF Sound, Intends, Allows, cand
<1>9. /\ PInv /\ IInv' /\ exec' = [exec EXCEPT ![e] = x] /\ exec[e].pc # "idle"
      /\ x \in ExecType /\ x.pc # "idle" /\ x.id = exec[e].id /\ UNCHANGED <<phase, client>>
  BY <1>1, <1>2, <1>3
<1>10. \A d \in Downloads : d # x.id =>
         /\ jobs'[d] = jobs[d] /\ store'[d] = store[d] /\ output'[d] = output[d]
  BY <1>2, <1>3, <1>4
<1>11. Attempt(x, jobs'[x.id], output'[x.id]) /\ Sound(store'[x.id], output'[x.id])
  BY <1>3, <1>7, <1>8
<1> QED
  BY ONLY <1>9, <1>10, <1>11, OwnStep

\* A retry puts the record back into the queue.
LEMMA RequeuePromises ==
  ASSUME PInv, IInv', NEW e \in Executions, Requeue(e)
  PROVE  PInv'
<1> DEFINE id == exec[e].id
           cand == Changed("Retry", jobs[id])
           x == [exec[e] EXCEPT !.pc = "saved", !.then = "requeued", !.cand = cand,
                                !.result = "none"]
<1>1. /\ exec[e].pc = "done" /\ exec[e] \in ExecType /\ id \in Downloads
      /\ UNCHANGED <<phase, jobs, client, output>>
  BY Working DEF Requeue
<1>2. CASE Allowed("Retry", jobs[id])
  <2>1. exec' = [exec EXCEPT ![e] = x] /\ store' = [store EXCEPT ![id] = cand]
    BY <1>2 DEF Requeue, Save, PInv, IInv, TypeOK
  <2>2. x \in ExecType
    <3>1. exec'[e] = x
      BY <2>1 DEF PInv, IInv, TypeOK
    <3> QED
      BY <3>1 DEF IInv, TypeOK
  <2>3. x.pc = "saved" /\ x.id = id /\ x.cand = cand /\ x.then = "requeued"
    BY <1>1 DEF ExecType
  <2>4. jobs[id] \in Job
    BY <1>1, <1>2, JobInState DEF PInv, IInv, TypeOK, Allowed
  <2>5. cand.state = "Queued"
    BY <2>4 DEF Changed, TransitionTo, Job
  <2>6. /\ store'[id] = cand
        /\ \A d \in Downloads : d # id => store'[d] = store[d]
    BY <1>1, <2>1 DEF PInv, IInv, TypeOK
  <2> HIDE DEF x, cand
  <2>7. Attempt(x, jobs'[id], output'[id])
    BY <1>1, <2>3, <2>4, <2>5, Recorded DEF Attempt, InCode, Intends, Goals
  <2>8. Sound(store'[id], output'[id])
    BY <2>5, <2>6 DEF Sound
  <2> QED
    BY <1>1, <2>1, <2>2, <2>3, <2>6, <2>7, <2>8, OwnStep
<1>3. CASE ~Allowed("Retry", jobs[id])
  BY <1>1, <1>3, ErrorPromises DEF Requeue
<1> QED
  BY <1>2, <1>3

\* Once the record is shown, the execution stands where its commit leads.
LEMMA RegisterJobPromises ==
  ASSUME PInv, IInv', NEW e \in Executions, RegisterJob(e)
  PROVE  PInv'
<1> DEFINE id == exec[e].id
           cand == exec[e].cand
           then == exec[e].then
<1>1. /\ exec[e].pc = "saved" /\ exec[e] \in ExecType /\ id \in Downloads
      /\ Intends(exec[e])
      /\ then \notin {"done", "requeued"} => output[id] = NoOutput
      /\ then \in {"inspect", "transfer", "fail", "finalize", "done", "requeued"}
      /\ cand \in Job
  BY Working DEF RegisterJob, Attempt, LocalsFilled
<1>2. /\ jobs' = [jobs EXCEPT ![id] = cand]
      /\ UNCHANGED <<phase, store, client, output>>
  BY DEF RegisterJob, Register
<1>3. jobs'[id] = cand /\ \A d \in Downloads : d # id => jobs'[d] = jobs[d]
  BY <1>1, <1>2 DEF PInv, IInv, TypeOK
<1>4. Sound(store[id], output[id])
  BY <1>1 DEF PInv, StoreIsSound
<1>5. ASSUME NEW x \in ExecType, exec' = [exec EXCEPT ![e] = x], x.id = id, x.pc # "idle",
             Attempt(x, cand, output[id])
      PROVE  PInv'
  BY <1>1, <1>2, <1>3, <1>4, <1>5, OwnStep
<1>6. CASE then = "done"
  <2>1. PICK result \in {"ok", "retryable"} : Return(e, result)
    BY <1>6 DEF RegisterJob, Return
  <2> DEFINE x == [Idle EXCEPT !.pc = "done", !.id = id, !.result = result]
  <2>2. x \in ExecType
    BY <1>1, IdleTypes DEF Labels, Results
  <2>3. x.pc = "done" /\ x.id = id /\ x.result = result
    BY DEF Idle
  <2>4. exec' = [exec EXCEPT ![e] = x]
    BY <2>1 DEF Return
  <2> HIDE DEF x
  <2>5. ~RequiresRecovery(cand.state)
    BY <1>1, <1>6 DEF Intends, Goals, RequiresRecovery
  <2>6. Attempt(x, cand, output[id])
    BY <1>1, <2>3, <2>5, Recorded DEF Attempt, InCode
  <2> QED
    BY <1>5, <2>2, <2>3, <2>4, <2>6
<1>7. CASE then = "requeued"
  <2> DEFINE x == [Idle EXCEPT !.pc = "requeued", !.id = id]
  <2>1. exec' = [exec EXCEPT ![e] = x]
    BY <1>7 DEF RegisterJob
  <2>2. x \in ExecType
    BY <1>1, IdleTypes DEF Labels, Results
  <2>3. x.pc = "requeued" /\ x.id = id
    BY DEF Idle
  <2> HIDE DEF x
  <2>4. Attempt(x, cand, output[id])
    BY <1>1, <2>3, Recorded DEF Attempt, InCode
  <2> QED
    BY <1>5, <2>1, <2>2, <2>3, <2>4
<1>8. CASE then \in {"inspect", "transfer", "fail", "finalize"}
  <2> DEFINE x == [exec[e] EXCEPT !.pc = then, !.job = cand, !.cand = NoJob, !.then = "idle"]
  <2>1. exec' = [exec EXCEPT ![e] = x]
    BY <1>8 DEF RegisterJob, PInv, IInv, TypeOK
  <2>2. x \in ExecType
    <3>1. exec'[e] = x
      BY <2>1 DEF PInv, IInv, TypeOK
    <3> QED
      BY <3>1 DEF IInv, TypeOK
  <2>3. x.pc = then /\ x.id = id /\ x.job = cand /\ x.plan = exec[e].plan
    BY <1>1 DEF ExecType
  <2>4. /\ then = "inspect" => cand.state = "Inspecting"
        /\ then = "transfer" => cand.state = "Downloading" /\ KeepsTotal(exec[e], cand)
        /\ then = "fail" => cand.state = "Downloading"
        /\ then = "finalize" => cand.state = "Finalizing"
    BY <1>1 DEF Intends, Goals
  <2> HIDE DEF x, cand, then
  <2>5. Attempt(x, cand, output[id])
    BY <1>1, <1>8, <2>3, <2>4, Recorded DEF Attempt, InCode, KeepsTotal, RequiresRecovery
  <2> QED
    BY <1>5, <1>8, <2>1, <2>2, <2>3, <2>5
<1> QED
  BY <1>1, <1>6, <1>7, <1>8

---------------------------------------------------------------------------
(* The caller of the idle commands, and the process. *)

\* The caller saves a sound record that needs no worker, of a download nobody
\* executes.
LEMMA ClientSavesPromises ==
  ASSUME PInv, IInv', NEW id \in Downloads, NEW job, ClientSaves(id, job), phase # "down",
         ~Owned(id), ~RequiresRecovery(job.state), Sound(job, output[id]),
         UNCHANGED <<phase, jobs, exec, output>>
  PROVE  PInv'
<1>1. /\ client' = [pc |-> "saved", id |-> id, cand |-> job]
      /\ store' = [store EXCEPT ![id] = job]
      /\ store \in [Downloads -> JobOrNone]
      /\ id # NoDownload
  BY DownloadsAssumption DEF ClientSaves, Save, PInv, IInv, TypeOK, NoDownload
<1>2. Exclusive'
  BY <1>1 DEF PInv, Exclusive, Owned, Owners
<1>3. Attempts'
  BY DEF PInv, Attempts
<1>4. ClientIntends'
  BY <1>1 DEF ClientIntends
<1>5. StoreIsSound'
  BY <1>1 DEF PInv, StoreIsSound
<1> QED
  BY <1>2, <1>3, <1>4, <1>5 DEF PInv

\* With the lock free the registry shows what is stored, and it is sound.
LEMMA ShownIsSound ==
  ASSUME PInv, phase # "down", client.pc # "saved", NEW id \in Downloads, ~Owned(id)
  PROVE  jobs[id] = store[id] /\ Sound(jobs[id], output[id])
<1>1. ~SaveInFlight(id)
  BY DEF SaveInFlight, Owned, Owners
<1> QED
  BY <1>1 DEF PInv, IInv, RegistryMatchesStore, StoreIsSound

\* The steps of an idle command, and of a confirmation of an output.
LEMMA ClientPromises ==
  ASSUME PInv, IInv', ClientStep
  PROVE  PInv'
<1>1. ASSUME NEW id \in Downloads, ClientMay(id), Create(id) PROVE PInv'
  <2>1. NewJob.state = "Queued"
    BY DEF NewJob
  <2> QED
    BY <1>1, <2>1, ClientSavesPromises
    DEF Create, ClientReady, ClientMay, Sound, RequiresRecovery
<1>2. ASSUME NEW id \in Downloads, NEW command \in Commands, ClientMay(id),
             ChangeIdleState(id, command)
      PROVE  PInv'
  <2> DEFINE job == Changed(command, jobs[id])
  <2>1. jobs[id] \in Job
    <3>1. Allowed(command, jobs[id])
      BY <1>2 DEF ChangeIdleState
    <3>2. jobs[id].state # "Absent"
      BY <3>1 DEF Commands, Allowed, CanRestart, States
    <3> QED
      BY <3>2, JobInState DEF PInv, IInv, TypeOK
  <2>2. job.state \in {"Queued", "Paused", "Cancelled"}
    BY <2>1 DEF Commands, Changed, TransitionTo, RestartJob, Job
  <2> HIDE DEF job
  <2>3. ClientSaves(id, job) /\ UNCHANGED <<phase, jobs, exec, output>> /\ phase = "up"
    BY <1>2 DEF ChangeIdleState, ClientReady, job
  <2> QED
    BY <1>2, <2>2, <2>3, ClientSavesPromises DEF ClientMay, Sound, RequiresRecovery
<1>3. ASSUME NEW id \in Downloads, ClientMay(id), ConfirmOutput(id) PROVE PInv'
  <2>1. /\ phase = "up" /\ Confirmable(id, output[id])
        /\ client' = [pc |-> "commit", id |-> id, cand |-> TransitionTo(jobs[id], "Completed")]
        /\ UNCHANGED <<phase, jobs, store, exec, output>>
        /\ id # NoDownload
    BY <1>3, DownloadsAssumption DEF ConfirmOutput, ClientReady, NoDownload
  <2>2. Exclusive'
    BY <1>3, <2>1 DEF PInv, Exclusive, Owned, Owners, ClientMay
  <2>3. ClientIntends'
    BY <2>1 DEF ClientIntends, Confirmable
  <2>4. Attempts' /\ StoreIsSound'
    BY <2>1 DEF PInv, Attempts, StoreIsSound
  <2> QED
    BY <2>2, <2>3, <2>4 DEF PInv
<1>4. ASSUME ClientCommit PROVE PInv'
  <2> DEFINE record == jobs[client.id]
  <2>1. /\ client.pc = "commit" /\ client.id \in Downloads /\ client.cand \in Job
        /\ ~Owned(client.id) /\ phase # "down"
    BY <1>4 DEF ClientCommit, PInv, IInv, ClientFilled, Exclusive
  <2>2. Sound(record, output[client.id])
    BY <2>1, ShownIsSound
  <2>3. /\ ~RequiresRecovery(client.cand.state)
        /\ Sound(client.cand, output[client.id])
    <3>1. record \in JobOrNone
      BY <2>1 DEF PInv, IInv, TypeOK
    <3>2. CASE /\ record.state = "Finalizing" /\ record.done = output[client.id]
               /\ client.cand = TransitionTo(record, "Completed")
      <4>1. record \in Job
        BY <3>1, <3>2, JobInState
      <4>2. /\ client.cand.state = "Completed" /\ client.cand.done = record.done
            /\ client.cand.total = record.total
        BY <3>2, <4>1 DEF TransitionTo, Job
      <4> QED
        BY <2>2, <3>2, <4>2 DEF Sound, Whole, RequiresRecovery
    <3>3. CASE /\ RequiresRecovery(record.state)
               /\ client.cand = TransitionTo(record, "Interrupted")
      <4>1. record \in Job
        BY <3>1, <3>3, JobInState DEF RequiresRecovery
      <4>2. client.cand.state = "Interrupted"
        BY <3>3, <4>1 DEF TransitionTo, Job
      <4> QED
        BY <4>2 DEF Sound, RequiresRecovery
    <3> QED
      BY <2>1, <3>2, <3>3 DEF PInv, ClientIntends
  <2> QED
    BY <1>4, <2>1, <2>3, ClientSavesPromises DEF ClientCommit
<1>5. ASSUME ClientRegister PROVE PInv'
  <2>1. /\ jobs' = [jobs EXCEPT ![client.id] = client.cand]
        /\ client' = ClientIdle /\ client.pc = "saved" /\ client.id \in Downloads
        /\ ~Owned(client.id)
        /\ UNCHANGED <<phase, store, exec, output>>
    BY <1>5 DEF ClientRegister, Register, PInv, IInv, ClientFilled, Exclusive
  <2>2. ClientIdle.pc = "idle" /\ ClientIdle.id = NoDownload
    BY DEF ClientIdle
  <2>3. Exclusive' /\ ClientIntends'
    BY <2>1, <2>2 DEF PInv, Exclusive, ClientIntends
  <2>4. \A e \in Executions : exec[e].id \in Downloads => jobs'[exec[e].id] = jobs[exec[e].id]
    BY <2>1 DEF Owned, Owners, PInv, IInv, TypeOK
  <2>5. Attempts' /\ StoreIsSound'
    BY <2>1, <2>4 DEF PInv, Attempts, StoreIsSound
  <2> QED
    BY <2>3, <2>5 DEF PInv
<1>6. ASSUME ClientCommitFails PROVE PInv'
  <2>1. client' = ClientIdle /\ UNCHANGED <<phase, jobs, store, exec, output>>
    BY <1>6 DEF ClientCommitFails
  <2>2. ClientIdle.pc = "idle" /\ ClientIdle.id = NoDownload
    BY DEF ClientIdle
  <2> QED
    BY <2>1, <2>2 DEF PInv, Exclusive, Attempts, ClientIntends, StoreIsSound
<1> QED
  BY <1>1, <1>2, <1>3, <1>4, <1>5, <1>6 DEF ClientStep

\* Startup, the recovery of each record, and the end of the process.
LEMMA ProcessPromises ==
  ASSUME PInv, IInv', ProcessStep
  PROVE  PInv'
<1>1. NoDownload \notin Downloads
  BY DownloadsAssumption DEF NoDownload
<1>2. phase # "up" => \A e \in Executions : exec[e].id = NoDownload
  BY DEF PInv, Exclusive
<1>3. ASSUME Start PROVE PInv'
  <2>1. /\ phase = "down" /\ client.pc = "idle"
        /\ UNCHANGED <<store, client, exec, output>>
    BY <1>3 DEF Start, PInv, Exclusive
  <2>2. phase' = "recovering"
    BY <1>3 DEF Start
  <2>3. Exclusive' /\ ClientIntends'
    BY <2>1, <2>2 DEF PInv, Exclusive, ClientIntends
  <2>4. Attempts' /\ StoreIsSound'
    BY <1>1, <1>2, <2>1 DEF PInv, Attempts, StoreIsSound
  <2> QED
    BY <2>3, <2>4 DEF PInv
<1>4. ASSUME NEW id \in Downloads, Recover(id) PROVE PInv'
  <2>1. /\ phase = "recovering" /\ RequiresRecovery(jobs[id].state)
        /\ client' = [pc |-> "commit", id |-> id, cand |-> TransitionTo(jobs[id], "Interrupted")]
        /\ UNCHANGED <<phase, jobs, store, exec, output>>
    BY <1>4 DEF Recover
  <2>2. Exclusive'
    BY <1>1, <1>2, <2>1 DEF PInv, Exclusive, Owned, Owners
  <2>3. ClientIntends'
    BY <2>1 DEF ClientIntends
  <2>4. Attempts' /\ StoreIsSound'
    BY <2>1 DEF PInv, Attempts, StoreIsSound
  <2> QED
    BY <2>2, <2>3, <2>4 DEF PInv
<1>5. ASSUME Started PROVE PInv'
  BY <1>5 DEF Started, PInv, Exclusive, Attempts, ClientIntends, StoreIsSound
<1>6. ASSUME Crash PROVE PInv'
  <2>1. /\ client' = ClientIdle /\ phase' = "down" /\ UNCHANGED <<store, output>>
        /\ \A e \in Executions : exec'[e] = Idle
    BY <1>6 DEF Crash
  <2>2. /\ ClientIdle.pc = "idle" /\ ClientIdle.id = NoDownload
        /\ Idle.pc = "idle" /\ Idle.id = NoDownload
    BY DEF ClientIdle, Idle
  <2>3. Exclusive' /\ ClientIntends'
    BY <2>1, <2>2 DEF Exclusive, ClientIntends
  <2>4. Attempts' /\ StoreIsSound'
    BY <1>1, <2>1, <2>2 DEF PInv, Attempts, StoreIsSound
  <2> QED
    BY <2>3, <2>4 DEF PInv
<1> QED
  BY <1>3, <1>4, <1>5, <1>6 DEF ProcessStep

---------------------------------------------------------------------------
(* The invariant. *)

\* Before the first process starts nobody works on anything.
LEMMA InitPromises == Init => PInv
<1> SUFFICES ASSUME Init PROVE PInv
  OBVIOUS
<1>1. /\ Idle.pc = "idle" /\ Idle.id = NoDownload /\ NoDownload \notin Downloads
      /\ ClientIdle.pc = "idle" /\ ClientIdle.id = NoDownload
  BY DownloadsAssumption DEF Idle, ClientIdle, NoDownload
<1>2. \A e \in Executions : exec[e] = Idle
  BY DEF Init
<1>3. Exclusive /\ Attempts /\ ClientIntends
  BY <1>1, <1>2 DEF Init, Exclusive, Attempts, ClientIntends
<1>4. StoreIsSound
  BY NoJobAbsent DEF Init, StoreIsSound, Sound
<1> QED
  BY <1>3, <1>4, InitEstablishes DEF PInv

\* Every step of the specification preserves it, action by action.
LEMMA NextPromises == PInv /\ [Next]_vars => PInv'
<1> SUFFICES ASSUME PInv, [Next]_vars PROVE PInv'
  OBVIOUS
<1>1. IInv'
  BY NextPreserves DEF PInv
<1>2. ASSUME NEW e \in Executions, Step(e) PROVE PInv'
  <2>1. CASE Tick(e) \/ TransferFailed(e)
    BY <1>1, <2>1, CheckpointPromises DEF Tick, TransferFailed
  <2> QED
    BY <1>1, <1>2, <2>1, SaveJobPromises, RegisterJobPromises, BeginPromises,
       StopInspectionPromises, StartTransferPromises, TransferStoppedPromises,
       TransferFinishedPromises, RecordFailurePromises, ConfirmPromises DEF Step
<1>3. ASSUME NEW e \in Executions, SaveFails(e) PROVE PInv'
  BY <1>1, <1>3, SaveFailsPromises
<1>4. ASSUME NEW e \in Executions, ExecutorStep(e) PROVE PInv'
  BY <1>1, <1>4, PrepareFailsPromises, FinalizeFailsPromises, PreparePromises,
     ReportingPromises, FinalizePromises DEF ExecutorStep
<1>5. ASSUME NEW e \in Executions, CallerStep(e) PROVE PInv'
  <2>1. CASE AskPause(e) \/ SendPause(e) \/ RequestCancel(e)
    BY <1>1, <2>1, RequestsPromise DEF AskPause, SendPause, RequestCancel
  <2> QED
    BY <1>1, <1>5, <2>1, ExecutePromises, RequeuePromises, RequeueFailsPromises,
       ReleasePromises DEF CallerStep
<1>6. ASSUME ClientStep PROVE PInv'
  BY <1>1, <1>6, ClientPromises
<1>7. ASSUME ProcessStep PROVE PInv'
  BY <1>1, <1>7, ProcessPromises
<1>8. ASSUME UNCHANGED vars PROVE PInv'
  BY <1>1, <1>8, RequestsPromise DEF vars
<1> QED
  BY <1>2, <1>3, <1>4, <1>5, <1>6, <1>7, <1>8 DEF Next

\* The record, its output and whoever works on it agree in every reachable state.
THEOREM PromisesInvariance == Spec => []PInv
  BY InitPromises, NextPromises, PTL DEF Spec

\* No lost update (manager.rs, save_job_locked): whatever an execution is about
\* to commit was made from the record the registry holds, for any number of
\* executions, commands, crashes and recoveries.
THEOREM NoLostUpdate == Spec => []ExecutionHoldsLatest
<1>1. PInv => ExecutionHoldsLatest
  <2> SUFFICES ASSUME PInv, NEW e \in Executions,
                      exec[e].pc \in {"inspect", "prepared", "transfer", "finalize", "commit"}
               PROVE  exec[e].job = jobs[exec[e].id]
    BY DEF ExecutionHoldsLatest
  <2> QED
    BY Working DEF Attempt, InCode
<1> QED
  BY <1>1, PromisesInvariance, PTL

\* confirm_published_output: a Completed record has an output of the bytes it
\* shows, and of all of them when the total is known, whichever attempt, command
\* or recovery recorded it.
THEOREM CompletedHasItsOutput == Spec => []CompletedIsPublished
<1>1. PInv => CompletedIsPublished
  BY DEF PInv, StoreIsSound, Sound, Whole, CompletedIsPublished
<1> QED
  BY <1>1, PromisesInvariance, PTL

---------------------------------------------------------------------------
(* What a step may do to the durable records. *)

\* Records and outputs change in five ways only: an execution saves its commit,
\* requeues its download or publishes, and the caller creates or saves a record.
LEMMA DurableStep ==
  ASSUME PInv, [Next]_vars
  PROVE  \/ UNCHANGED <<store, output>>
         \/ \E e \in Executions :
              SaveJob(e) \/ Requeue(e) \/ \E written \in Bytes : Finalize(e, written)
         \/ \E id \in Downloads : ClientMay(id) /\ Create(id)
         \/ \E id \in Downloads, command \in Commands :
              ClientMay(id) /\ ChangeIdleState(id, command)
         \/ ClientCommit
<1>1. ASSUME NEW e \in Executions, Step(e), ~SaveJob(e) PROVE UNCHANGED <<store, output>>
  BY <1>1 DEF Step, RegisterJob, Begin, StopInspection, StartTransfer, Tick, TransferFailed,
     TransferStopped, TransferFinished, RecordFailure, Confirm
<1>2. ASSUME NEW e \in Executions, SaveFails(e) PROVE UNCHANGED <<store, output>>
  BY <1>2 DEF SaveFails
<1>3. ASSUME NEW e \in Executions, ExecutorStep(e),
             \A written \in Bytes : ~Finalize(e, written)
      PROVE  UNCHANGED <<store, output>>
  BY <1>3 DEF ExecutorStep, PrepareFails, FinalizeFails, Prepare, Report, TransferEnds
<1>4. ASSUME NEW e \in Executions, CallerStep(e), ~Requeue(e)
      PROVE  UNCHANGED <<store, output>>
  BY <1>4 DEF CallerStep, Execute, RequeueFails, Release, AskPause, SendPause, RequestCancel
<1>5. ASSUME ClientStep,
             \A id \in Downloads : ~(ClientMay(id) /\ Create(id)),
             \A id \in Downloads, command \in Commands :
               ~(ClientMay(id) /\ ChangeIdleState(id, command)),
             ~ClientCommit
      PROVE  UNCHANGED <<store, output>>
  BY <1>5 DEF ClientStep, ConfirmOutput, ClientRegister, ClientCommitFails
<1>6. ASSUME ProcessStep PROVE UNCHANGED <<store, output>>
  BY <1>6 DEF ProcessStep, Start, Recover, Started, Crash
<1>7. ASSUME UNCHANGED vars PROVE UNCHANGED <<store, output>>
  BY <1>7 DEF vars
<1> QED
  BY <1>1, <1>2, <1>3, <1>4, <1>5, <1>6, <1>7 DEF Next

\* How an execution's save changes the record: as its commit allows.
LEMMA SaveJobChange ==
  ASSUME PInv, NEW e \in Executions, SaveJob(e)
  PROVE  LET id == exec[e].id IN
         /\ id \in Downloads /\ exec[e].cand \in Job /\ store[id] \in JobOrNone
         /\ Allows(exec[e], store[id], output[id])
         /\ store' = [store EXCEPT ![id] = exec[e].cand]
         /\ output' = IF exec[e].cand.state = "Inspecting"
                        THEN [output EXCEPT ![id] = NoOutput] ELSE output
<1>1. /\ exec[e].pc = "commit" /\ exec[e].id \in Downloads /\ exec[e].cand \in Job
      /\ Allows(exec[e], jobs[exec[e].id], output[exec[e].id])
  BY Working DEF SaveJob, Attempt, LocalsFilled
<1>2. jobs[exec[e].id] = store[exec[e].id]
  BY <1>1, Settled
<1> QED
  BY <1>1, <1>2 DEF SaveJob, Save, PInv, IInv, TypeOK

\* How a retry changes it, if it changes it.
LEMMA RequeueChange ==
  ASSUME PInv, NEW e \in Executions, Requeue(e)
  PROVE  LET id == exec[e].id IN
         /\ UNCHANGED output
         /\ \/ UNCHANGED store
            \/ /\ id \in Downloads /\ store[id] \in Job /\ store[id].state = "Failed"
               /\ store' = [store EXCEPT ![id] = TransitionTo(store[id], "Queued")]
<1>1. exec[e].pc = "done" /\ exec[e].id \in Downloads
  BY Working DEF Requeue
<1>2. jobs[exec[e].id] = store[exec[e].id] /\ store[exec[e].id] \in JobOrNone
  BY <1>1, Settled DEF PInv, IInv, TypeOK
<1>3. CASE Allowed("Retry", jobs[exec[e].id])
  <2>1. store[exec[e].id].state = "Failed"
    BY <1>2, <1>3 DEF Allowed
  <2>2. store[exec[e].id] \in Job
    BY <1>2, <2>1, JobInState
  <2> QED
    BY <1>1, <1>2, <1>3, <2>1, <2>2 DEF Requeue, Save, Changed
<1>4. CASE ~Allowed("Retry", jobs[exec[e].id])
  BY <1>4 DEF Requeue
<1> QED
  BY <1>3, <1>4

\* How an idle command changes it.
LEMMA CommandChange ==
  ASSUME PInv, NEW id \in Downloads, NEW command \in Commands, ClientMay(id),
         ChangeIdleState(id, command)
  PROVE  /\ UNCHANGED output /\ store[id] \in Job /\ Allowed(command, store[id])
         /\ store' = [store EXCEPT ![id] = Changed(command, store[id])]
<1>1. /\ phase = "up" /\ client.pc = "idle" /\ Allowed(command, jobs[id])
      /\ ClientSaves(id, Changed(command, jobs[id])) /\ UNCHANGED output
  BY DEF ChangeIdleState, ClientReady
<1>2. jobs[id] = store[id] /\ store[id] \in JobOrNone
  BY <1>1, ShownIsSound DEF ClientMay, PInv, IInv, TypeOK
<1>3. store[id].state # "Absent"
  BY <1>1, <1>2 DEF Commands, Allowed, CanRestart, States
<1> QED
  BY <1>1, <1>2, <1>3, JobInState DEF ClientSaves, Save

\* How a confirmation or a recovery changes it.
LEMMA ClientCommitChange ==
  ASSUME PInv, ClientCommit
  PROVE  LET id == client.id IN
         /\ UNCHANGED output /\ id \in Downloads /\ store[id] \in Job
         /\ \/ /\ store[id].state = "Finalizing" /\ store[id].done = output[id]
               /\ store' = [store EXCEPT ![id] = TransitionTo(store[id], "Completed")]
            \/ /\ RequiresRecovery(store[id].state)
               /\ store' = [store EXCEPT ![id] = TransitionTo(store[id], "Interrupted")]
<1>1. /\ client.pc = "commit" /\ client.id \in Downloads /\ ~Owned(client.id)
      /\ phase # "down" /\ ClientSaves(client.id, client.cand) /\ UNCHANGED output
  BY DEF ClientCommit, PInv, IInv, ClientFilled, Exclusive
<1>2. jobs[client.id] = store[client.id] /\ store[client.id] \in JobOrNone
  BY <1>1, ShownIsSound DEF PInv, IInv, TypeOK
<1>3. store[client.id].state # "Absent"
  BY <1>1, <1>2 DEF PInv, ClientIntends, RequiresRecovery
<1> QED
  BY <1>1, <1>2, <1>3, JobInState DEF PInv, ClientIntends, ClientSaves, Save

---------------------------------------------------------------------------
(* The promises about single steps. *)

\* The three parts of StepsKeepPromises, as actions.
StopWins ==
  \A e \in Executions :
    request[e] # "none" /\ exec'[e].cand # exec[e].cand =>
      \/ exec'[e].cand.state \notin {"Inspecting", "Downloading", "Finalizing"}
      \/ exec'[e].cand.state = exec[e].job.state

Forward ==
  \A id \in Downloads :
    store[id].state = "Downloading" /\ store'[id].done < store[id].done =>
      /\ store'[id].state \in {"Paused", "Cancelled"}
      /\ \E e \in Owners(id) : exec[e].plan.rewind

Final ==
  \A id \in Downloads :
    output[id] # NoOutput /\ store[id].state = "Finalizing" =>
      store'[id].state \in {"Finalizing", "Completed", "Interrupted"}

\* While a download transfers, only a save of its own execution takes progress
\* back, and only as far as its plan announced.
LEMMA ForwardStep == PInv /\ [Next]_vars => Forward
<1> SUFFICES ASSUME PInv, [Next]_vars, NEW id \in Downloads,
                    store[id].state = "Downloading", store'[id].done < store[id].done
             PROVE  /\ store'[id].state \in {"Paused", "Cancelled"}
                    /\ \E e \in Owners(id) : exec[e].plan.rewind
  BY DEF Forward
<1>1. store \in [Downloads -> JobOrNone] /\ store[id] \in Job
  BY JobInState DEF PInv, IInv, TypeOK
<1>2. store[id].done \in Int
  BY <1>1, MaxBytesAssumption DEF Job, Bytes
<1>3. store'[id] # store[id] /\ store'[id].done # store[id].done
  BY <1>2
<1>4. CASE \E e \in Executions : SaveJob(e)
  <2>1. PICK e \in Executions : SaveJob(e)
    BY <1>4
  <2>2. /\ Allows(exec[e], store[exec[e].id], output[exec[e].id])
        /\ store' = [store EXCEPT ![exec[e].id] = exec[e].cand]
    BY <2>1, SaveJobChange
  <2>3. exec[e].id = id /\ store'[id] = exec[e].cand
    BY <1>1, <1>3, <2>2
  <2> QED
    BY <2>2, <2>3 DEF Allows, Owners
<1>5. CASE \E e \in Executions : Requeue(e)
  BY <1>1, <1>3, <1>5, RequeueChange DEF TransitionTo, Job
<1>6. CASE \E e \in Executions, written \in Bytes : Finalize(e, written)
  BY <1>3, <1>6 DEF Finalize
<1>7. CASE \E other \in Downloads : Create(other)
  BY <1>1, <1>3, <1>7, NoJobAbsent DEF Create, ClientSaves, Save
<1>8. CASE \E other \in Downloads, command \in Commands :
             ClientMay(other) /\ ChangeIdleState(other, command)
  BY <1>1, <1>3, <1>8, CommandChange DEF Commands, Allowed, CanRestart, RequiresRecovery
<1>9. CASE ClientCommit
  BY <1>1, <1>3, <1>9, ClientCommitChange DEF TransitionTo, Job
<1> QED
  BY <1>3, <1>4, <1>5, <1>6, <1>7, <1>8, <1>9, DurableStep

\* Once an output is in place, a save of the execution completes the record, and
\* the caller completes it or recovers it.
LEMMA FinalStep == PInv /\ [Next]_vars => Final
<1> SUFFICES ASSUME PInv, [Next]_vars, NEW id \in Downloads,
                    output[id] # NoOutput, store[id].state = "Finalizing"
             PROVE  store'[id].state \in {"Finalizing", "Completed", "Interrupted"}
  BY DEF Final
<1>1. store \in [Downloads -> JobOrNone] /\ store[id] \in Job
  BY JobInState DEF PInv, IInv, TypeOK
<1>2. SUFFICES ASSUME store'[id] # store[id]
               PROVE  store'[id].state \in {"Completed", "Interrupted"}
  OBVIOUS
<1>3. CASE \E e \in Executions : SaveJob(e)
  <2>1. PICK e \in Executions : SaveJob(e)
    BY <1>3
  <2>2. /\ Allows(exec[e], store[exec[e].id], output[exec[e].id])
        /\ store' = [store EXCEPT ![exec[e].id] = exec[e].cand]
    BY <2>1, SaveJobChange
  <2>3. exec[e].id = id /\ store'[id] = exec[e].cand
    BY <1>1, <1>2, <2>2
  <2> QED
    BY <2>2, <2>3 DEF Allows, RequiresRecovery
<1>4. CASE \E e \in Executions : Requeue(e)
  BY <1>1, <1>2, <1>4, RequeueChange
<1>5. CASE \E e \in Executions, written \in Bytes : Finalize(e, written)
  BY <1>2, <1>5 DEF Finalize
<1>6. CASE \E other \in Downloads : Create(other)
  BY <1>1, <1>2, <1>6, NoJobAbsent DEF Create, ClientSaves, Save
<1>7. CASE \E other \in Downloads, command \in Commands :
             ClientMay(other) /\ ChangeIdleState(other, command)
  BY <1>1, <1>2, <1>7, CommandChange DEF Commands, Allowed, CanRestart, RequiresRecovery
<1>8. CASE ClientCommit
  BY <1>1, <1>2, <1>8, ClientCommitChange DEF TransitionTo, Job
<1> QED
  BY <1>2, <1>3, <1>4, <1>5, <1>6, <1>7, <1>8, DurableStep

\* A step of an execution leaves the others alone, and one that has been asked to
\* stop it sends nowhere but to the stop or to the record it has.
LEMMA StopWinsStep == PInv /\ [Next]_vars => StopWins
<1> SUFFICES ASSUME PInv, [Next]_vars, NEW e \in Executions, request[e] # "none",
                    exec'[e].cand # exec[e].cand
             PROVE  \/ exec'[e].cand.state \notin {"Inspecting", "Downloading", "Finalizing"}
                    \/ exec'[e].cand.state = exec[e].job.state
  BY DEF StopWins
<1> DEFINE Stops == \/ exec'[e].cand.state \notin {"Inspecting", "Downloading", "Finalizing"}
                    \/ exec'[e].cand.state = exec[e].job.state
<1>1. exec \in [Executions -> ExecType] /\ exec[e] \in ExecType
  BY DEF PInv, IInv, TypeOK
<1>2. NoJob.state = "Absent" /\ Idle.cand = NoJob
  BY NoJobAbsent DEF Idle
<1>3. ASSUME NEW f \in Executions, NEW x, exec' = [exec EXCEPT ![f] = x]
      PROVE  f = e /\ exec'[e] = x
  BY <1>1, <1>3
<1>4. ASSUME NEW f \in Executions, NEW result, Return(f, result) PROVE Stops
  <2>1. exec'[e].cand = Idle.cand
    BY <1>1, <1>4 DEF Return, Idle
  <2> QED
    BY <1>2, <2>1
<1>5. ASSUME NEW f \in Executions, NEW cand, NEW then, Commit(f, cand, then)
      PROVE  f = e /\ exec'[e].cand = cand
  BY <1>1, <1>5 DEF Commit, ExecType
<1>6. ASSUME NEW f \in Executions, NEW label, Goto(f, label) PROVE FALSE
  BY <1>1, <1>6 DEF Goto, ExecType
<1>7. exec[e].pc \in {"inspect", "prepared", "transfer", "fail", "confirm"} =>
        exec[e].job \in Job /\ exec[e].job = jobs[exec[e].id]
  BY Working DEF Attempt, InCode, LocalsFilled
<1>8. StopState(e) \in {"Paused", "Cancelled"}
  BY DEF StopState
<1> HIDE DEF Stops
<1>9. ASSUME NEW f \in Executions, Step(f) PROVE Stops
  <2>1. CASE SaveJob(f)
    BY <1>6, <2>1 DEF SaveJob
  <2>2. CASE RegisterJob(f)
    <3>1. CASE exec[f].then = "done"
      <4>1. PICK result : Return(f, result)
        BY <2>2, <3>1 DEF RegisterJob
      <4> QED
        BY <1>4, <4>1
    <3>2. CASE exec[f].then = "requeued"
      <4> DEFINE back == [Idle EXCEPT !.pc = "requeued", !.id = exec[f].id]
      <4>0. exec' = [exec EXCEPT ![f] = back]
        BY <2>2, <3>2 DEF RegisterJob
      <4>2. back.cand = NoJob
        BY DEF Idle
      <4> HIDE DEF back
      <4>1. f = e /\ exec'[e].cand = NoJob
        BY <1>3, <4>0, <4>2
      <4> QED
        BY <1>2, <4>1 DEF Stops
    <3>3. CASE exec[f].then \notin {"done", "requeued"}
      <4>1. exec' = [exec EXCEPT ![f] = [exec[f] EXCEPT !.pc = exec[f].then,
                       !.job = exec[f].cand, !.cand = NoJob, !.then = "idle"]]
        BY <1>1, <2>2, <3>3 DEF RegisterJob
      <4>2. exec'[e].cand = NoJob
        BY <1>1, <1>3, <4>1 DEF ExecType
      <4> QED
        BY <1>2, <4>2 DEF Stops
    <3> QED
      BY <3>1, <3>2, <3>3
  <2>3. CASE Begin(f)
    <3> DEFINE job == jobs[exec[f].id]
               To(state, then) == [exec[f] EXCEPT !.pc = "commit", !.job = job,
                                     !.cand = TransitionTo(job, state), !.then = then]
    <3>1. CASE Return(f, "error")
      BY <1>4, <3>1
    <3>2. CASE job.state = "Queued" /\ request[f] # "none"
      <4>1. exec' = [exec EXCEPT ![f] = To(StopState(f), "done")]
        BY <1>1, <2>3, <3>2 DEF Begin
      <4>2. f = e /\ exec'[e].cand = TransitionTo(job, StopState(e))
        BY <1>1, <1>3, <4>1 DEF ExecType
      <4>3. job \in Job
        BY <2>3, <3>2, Working, JobInState DEF Begin, PInv, IInv, TypeOK
      <4>4. exec'[e].cand.state = StopState(e)
        BY <4>2, <4>3 DEF TransitionTo, Job
      <4> QED
        BY <1>8, <4>4 DEF Stops
    <3>3. CASE request[f] = "none" /\ exec' = [exec EXCEPT ![f] = To("Inspecting", "inspect")]
      BY <1>3, <3>3
    <3> QED
      BY <1>1, <2>3, <3>1, <3>2, <3>3 DEF Begin
  <2>4. CASE StopInspection(f)
    <3>1. f = e /\ exec'[e].cand = TransitionTo(exec[e].job, StopState(e))
      BY <1>5, <2>4 DEF StopInspection
    <3>2. exec'[e].cand.state = StopState(e)
      BY <1>7, <2>4, <3>1 DEF StopInspection, TransitionTo, Job
    <3> QED
      BY <1>8, <3>2 DEF Stops
  <2>5. CASE StartTransfer(f)
    <3>1. f = e
      BY <1>1, <1>5, <2>5 DEF StartTransfer
    <3>2. exec'[e].cand = TransitionTo(exec[e].cand, StopState(e))
      BY <1>5, <2>5, <3>1 DEF StartTransfer
    <3>3. exec[e].cand \in Job
      BY <2>5, <3>1, Working DEF StartTransfer, LocalsFilled
    <3>4. exec'[e].cand.state = StopState(e)
      BY <3>2, <3>3 DEF TransitionTo, Job
    <3> QED
      BY <1>8, <3>4 DEF Stops
  <2>6. CASE Tick(f) \/ TransferFailed(f)
    <3>1. /\ exec[f].pc = "transfer"
          /\ CheckpointProgress(f, "transfer") \/ CheckpointProgress(f, "fail")
      BY <2>6 DEF Tick, TransferFailed
    <3>2. CASE Return(f, "error") \/ Goto(f, "transfer") \/ Goto(f, "fail")
      BY <1>4, <1>6, <3>2
    <3>3. ASSUME NEW done, NEW total, NEW then,
                 Commit(f, UpdateProgress(exec[f].job, done, total), then)
          PROVE  Stops
      <4>1. f = e /\ exec'[e].cand = UpdateProgress(exec[e].job, done, total)
        BY <1>5, <3>3
      <4>2. exec'[e].cand.state = exec[e].job.state
        BY <1>7, <3>1, <4>1 DEF UpdateProgress, Job
      <4> QED
        BY <4>2 DEF Stops
    <3> QED
      BY <3>1, <3>2, <3>3 DEF CheckpointProgress
  <2>7. CASE TransferStopped(f) \/ TransferFinished(f)
    <3>1. ASSUME NEW written, NEW rewind, RecordStop(f, written, rewind), exec[f].pc = "transfer"
          PROVE  Stops
      <4>1. CASE Return(f, "error")
        BY <1>4, <4>1
      <4>2. ASSUME NEW total, Commit(f, TransitionTo(UpdateProgress(exec[f].job, written, total),
                                                     StopState(f)), "done")
            PROVE  Stops
        <5>1. f = e /\ exec'[e].cand = TransitionTo(UpdateProgress(exec[e].job, written, total),
                                                    StopState(e))
          BY <1>5, <4>2
        <5>2. exec'[e].cand.state = StopState(e)
          BY <1>7, <3>1, <5>1 DEF UpdateProgress, TransitionTo, Job
        <5> QED
          BY <1>8, <5>2 DEF Stops
      <4> QED
        BY <3>1, <4>1, <4>2 DEF RecordStop
    <3>2. CASE Return(f, "error")
      BY <1>4, <3>2
    <3>3. CASE request[f] = "none" /\ \E cand : Commit(f, cand, "finalize")
      BY <1>5, <3>3
    <3> QED
      BY <2>7, <3>1, <3>2, <3>3 DEF TransferStopped, TransferFinished
  <2>8. CASE RecordFailure(f)
    <3>1. CASE Return(f, "error")
      BY <1>4, <3>1
    <3>2. CASE Commit(f, FailJob(jobs[exec[f].id], exec[f].outcome.failure), "done")
      <4>1. f = e /\ exec'[e].cand = FailJob(jobs[exec[e].id], exec[e].outcome.failure)
        BY <1>5, <3>2
      <4>2. exec'[e].cand.state = "Failed"
        BY <1>7, <2>8, <4>1 DEF RecordFailure, FailJob, Job
      <4> QED
        BY <4>2 DEF Stops
    <3> QED
      BY <2>8, <3>1, <3>2 DEF RecordFailure
  <2>9. CASE Confirm(f)
    <3>1. CASE Return(f, "unpersisted")
      BY <1>4, <3>1
    <3>2. CASE Commit(f, TransitionTo(jobs[exec[f].id], "Completed"), "done")
      <4>1. f = e /\ exec'[e].cand = TransitionTo(jobs[exec[e].id], "Completed")
        BY <1>5, <3>2
      <4>2. exec'[e].cand.state = "Completed"
        BY <1>7, <2>9, <4>1 DEF Confirm, TransitionTo, Job
      <4> QED
        BY <4>2 DEF Stops
    <3> QED
      BY <2>9, <3>1, <3>2 DEF Confirm
  <2> QED
    BY <1>9, <2>1, <2>2, <2>3, <2>4, <2>5, <2>6, <2>7, <2>8, <2>9 DEF Step
<1>10. ASSUME NEW f \in Executions, SaveFails(f) PROVE Stops
  BY <1>4, <1>10 DEF SaveFails
<1>11. ASSUME NEW f \in Executions, ExecutorStep(f) PROVE Stops
  <2>1. CASE \E failure \in Failures : PrepareFails(f, failure) \/ FinalizeFails(f, failure)
    BY <1>1, <2>1 DEF PrepareFails, FinalizeFails, ExecType
  <2>2. CASE \E plan \in Plans : Prepare(f, plan)
    <3>1. PICK plan \in Plans : Prepare(f, plan)
      BY <2>2
    <3>2. CASE Return(f, "error")
      BY <1>4, <3>2
    <3>3. CASE exec' = [exec EXCEPT ![f].pc = "prepared", ![f].plan = plan,
                          ![f].cand = UpdateProgress(exec[f].job, plan.start, plan.total)]
      <4>1. f = e /\ exec'[e].cand = UpdateProgress(exec[e].job, plan.start, plan.total)
        BY <1>1, <3>3 DEF ExecType
      <4>2. exec'[e].cand.state = exec[e].job.state
        BY <1>7, <3>1, <4>1 DEF Prepare, UpdateProgress, Job
      <4> QED
        BY <4>2 DEF Stops
    <3> QED
      BY <3>1, <3>2, <3>3 DEF Prepare
  <2>3. CASE \E written \in Bytes : Finalize(f, written)
    BY <1>4, <1>6, <2>3 DEF Finalize
  <2>4. CASE \/ \E written \in Bytes : Report(f, written)
             \/ \E outcome \in Endings : TransferEnds(f, outcome)
    BY <1>1, <2>4 DEF Report, TransferEnds, ExecType
  <2> QED
    BY <1>11, <2>1, <2>2, <2>3, <2>4 DEF ExecutorStep
<1>12. ASSUME NEW f \in Executions, CallerStep(f) PROVE Stops
  <2>1. CASE \E id \in Downloads : Execute(f, id)
    BY <1>1, <2>1 DEF Execute, ExecType
  <2>2. CASE Requeue(f)
    <3>1. CASE Return(f, "error")
      BY <1>4, <3>1
    <3>2. CASE Allowed("Retry", jobs[exec[f].id])
      <4> DEFINE cand == Changed("Retry", jobs[exec[f].id])
      <4>1. exec' = [exec EXCEPT ![f].pc = "saved", ![f].then = "requeued",
                       ![f].cand = cand, ![f].result = "none"]
        BY <2>2, <3>2 DEF Requeue
      <4>2. f = e /\ exec'[e].cand = cand
        BY <1>1, <4>1 DEF ExecType
      <4>3. jobs[exec[f].id] \in Job
        BY <2>2, <3>2, Working, JobInState DEF Requeue, Allowed, PInv, IInv, TypeOK
      <4>4. cand.state = "Queued"
        BY <4>3 DEF Changed, TransitionTo, Job
      <4> QED
        BY <4>2, <4>4 DEF Stops
    <3> QED
      BY <2>2, <3>1, <3>2 DEF Requeue
  <2>3. CASE RequeueFails(f)
    BY <1>4, <2>3 DEF RequeueFails
  <2>4. CASE Release(f)
    <3>1. exec'[e].cand = NoJob
      BY <1>1, <1>2, <1>3, <2>4 DEF Release
    <3> QED
      BY <1>2, <3>1 DEF Stops
  <2>5. CASE AskPause(f) \/ SendPause(f) \/ RequestCancel(f)
    BY <2>5 DEF AskPause, SendPause, RequestCancel
  <2> QED
    BY <1>12, <2>1, <2>2, <2>3, <2>4, <2>5 DEF CallerStep
<1>13. ASSUME ClientStep PROVE FALSE
  BY <1>13 DEF ClientStep, Create, ConfirmOutput, ChangeIdleState, ClientCommit,
     ClientRegister, ClientCommitFails
<1>14. ASSUME ProcessStep PROVE Stops
  <2>1. CASE Crash
    BY <1>2, <2>1 DEF Crash, Stops
  <2> QED
    BY <1>14, <2>1 DEF ProcessStep, Start, Recover, Started
<1>15. ASSUME UNCHANGED vars PROVE FALSE
  BY <1>15 DEF vars
<1> QED
  BY <1>9, <1>10, <1>11, <1>12, <1>13, <1>14, <1>15 DEF Next, Stops

\* manager.rs:342, 502 and 886 together: a pending stop wins every race, progress
\* goes forward while a download transfers, and a publication is final.
THEOREM EveryStepKeepsPromises == Spec => StepsKeepPromises
<1>1. PInv /\ [Next]_vars => [StopWins]_vars /\ [Forward]_vars /\ [Final]_vars
  BY StopWinsStep, ForwardStep, FinalStep
<1>2. Spec => [][StopWins]_vars /\ [][Forward]_vars /\ [][Final]_vars
  BY <1>1, PromisesInvariance, PTL DEF Spec
<1> QED
  BY <1>2 DEF StepsKeepPromises, StopRequestWins, ProgressGoesForward, PublicationIsFinal,
     StopWins, Forward, Final

---------------------------------------------------------------------------
(* Who leaves a record without a worker. *)

\* A step in which some record that had a worker, or needed none, loses it.
Strands ==
  ActiveMeansOwned /\ ~ActiveMeansOwned' =>
    \E e \in Executions : exec[e].result = "error" /\ Release(e)

\* A record needs no worker as long as it does not and its execution stays.
LEMMA WorkerStays ==
  ASSUME ActiveMeansOwned,
         phase' = "up" => phase = "up",
         \A id \in Downloads : phase' = "up" =>
           \/ ~RequiresRecovery(jobs'[id].state)
           \/ Owned(id)'
           \/ output'[id] # NoOutput
           \/ /\ jobs'[id] = jobs[id] /\ output'[id] = output[id]
              /\ ~Owned(id)
  PROVE  ActiveMeansOwned'
BY DEF ActiveMeansOwned

\* The execution of a download keeps it in every step but its release.
LEMMA OwnersStay ==
  ASSUME PInv, NEW e \in Executions,
         Step(e) \/ SaveFails(e) \/ ExecutorStep(e) \/ (CallerStep(e) /\ ~Release(e))
  PROVE  /\ UNCHANGED phase
         /\ \A id \in Downloads : Owned(id) => Owned(id)'
         /\ \A id \in Downloads : id # exec[e].id =>
              jobs'[id] = jobs[id] /\ output'[id] = output[id]
<1>1. exec \in [Executions -> ExecType] /\ exec[e] \in ExecType
  BY DEF PInv, IInv, TypeOK
<1>2. UNCHANGED phase
  BY DEF Step, SaveFails, ExecutorStep, CallerStep, SaveJob, RegisterJob, Begin,
     StopInspection, StartTransfer, Tick, TransferFailed, TransferStopped,
     TransferFinished, RecordFailure, Confirm, PrepareFails, FinalizeFails, Prepare,
     Report, Finalize, TransferEnds, Execute, Requeue, RequeueFails, AskPause,
     SendPause, RequestCancel
<1>3. \A id \in Downloads : id # exec[e].id =>
        jobs'[id] = jobs[id] /\ output'[id] = output[id]
  <2>1. CASE SaveJob(e)
    BY <2>1 DEF SaveJob, PInv, IInv, TypeOK
  <2>2. CASE RegisterJob(e)
    BY <2>2 DEF RegisterJob, Register, PInv, IInv, TypeOK
  <2>3. CASE \E written \in Bytes : Finalize(e, written)
    BY <2>3 DEF Finalize, PInv, IInv, TypeOK
  <2>4. CASE UNCHANGED <<jobs, output>>
    BY <2>4
  <2> QED
    BY <2>1, <2>2, <2>3, <2>4
    DEF Step, SaveFails, ExecutorStep, CallerStep, Begin,
     StopInspection, StartTransfer, Tick, TransferFailed, TransferStopped,
     TransferFinished, RecordFailure, Confirm, PrepareFails, FinalizeFails, Prepare,
     Report, TransferEnds, Execute, Requeue, RequeueFails, AskPause,
     SendPause, RequestCancel
<1>4. \A id \in Downloads : Owned(id) => Owned(id)'
  <2> SUFFICES ASSUME NEW f \in Executions, exec[f].id \in Downloads
               PROVE  exec'[f].id = exec[f].id
    BY DEF Owned, Owners
  <2>1. ASSUME NEW result, Return(e, result) PROVE exec'[f].id = exec[f].id
    BY <1>1, <2>1 DEF Return, Idle
  <2>2. ASSUME NEW cand, NEW then, Commit(e, cand, then) PROVE exec'[f].id = exec[f].id
    BY <1>1, <2>2 DEF Commit, ExecType
  <2>3. ASSUME NEW label, Goto(e, label) PROVE exec'[f].id = exec[f].id
    BY <1>1, <2>3 DEF Goto, ExecType
  <2>4. ASSUME Step(e) PROVE exec'[f].id = exec[f].id
    <3>1. CASE RegisterJob(e)
      <4>1. CASE exec[e].then = "done"
        BY <2>1, <3>1, <4>1 DEF RegisterJob
      <4>2. CASE exec[e].then = "requeued"
        <5>1. exec' = [exec EXCEPT ![e] = [Idle EXCEPT !.pc = "requeued", !.id = exec[e].id]]
          BY <3>1, <4>2 DEF RegisterJob
        <5> QED
          BY <1>1, <5>1 DEF Idle
      <4>3. CASE exec[e].then \notin {"done", "requeued"}
        <5>1. exec' = [exec EXCEPT ![e] = [exec[e] EXCEPT !.pc = exec[e].then,
                         !.job = exec[e].cand, !.cand = NoJob, !.then = "idle"]]
          BY <1>1, <3>1, <4>3 DEF RegisterJob
        <5> QED
          BY <1>1, <5>1 DEF ExecType
      <4> QED
        BY <4>1, <4>2, <4>3
    <3>2. CASE Begin(e)
      BY <1>1, <2>1, <3>2 DEF Begin, ExecType
    <3>3. CASE StartTransfer(e)
      BY <1>1, <2>2, <3>3 DEF StartTransfer, ExecType
    <3> QED
      BY <2>1, <2>2, <2>3, <2>4, <3>1, <3>2, <3>3
      DEF Step, SaveJob, StopInspection, Tick, TransferFailed, CheckpointProgress,
          TransferStopped, TransferFinished, RecordStop, RecordFailure, Confirm
  <2>5. ASSUME SaveFails(e) PROVE exec'[f].id = exec[f].id
    BY <2>1, <2>5 DEF SaveFails
  <2>6. ASSUME ExecutorStep(e) PROVE exec'[f].id = exec[f].id
    <3>1. CASE \E plan \in Plans : Prepare(e, plan)
      BY <1>1, <2>1, <3>1 DEF Prepare, ExecType
    <3>2. CASE \E written \in Bytes : Finalize(e, written)
      BY <2>1, <2>3, <3>2 DEF Finalize
    <3> QED
      BY <1>1, <2>6, <3>1, <3>2
      DEF ExecutorStep, PrepareFails, FinalizeFails, Report, TransferEnds, ExecType
  <2>7. ASSUME CallerStep(e), ~Release(e) PROVE exec'[f].id = exec[f].id
    <3>1. CASE \E id \in Downloads : Execute(e, id)
      <4>1. exec[e].pc = "idle" => exec[e].id = NoDownload
        BY DEF PInv, Exclusive
      <4>2. NoDownload \notin Downloads
        BY DownloadsAssumption DEF NoDownload
      <4>3. PICK id \in Downloads : Execute(e, id)
        BY <3>1
      <4>4. exec' = [exec EXCEPT ![e] = [exec[e] EXCEPT !.pc = "start", !.id = id]]
        BY <1>1, <4>3 DEF Execute
      <4>5. exec[e].pc = "idle" \/ exec[e].id = id
        BY <4>3 DEF Execute
      <4> QED
        BY <1>1, <4>1, <4>2, <4>4, <4>5 DEF ExecType
    <3>2. CASE Requeue(e)
      BY <1>1, <2>1, <3>2 DEF Requeue, ExecType
    <3>3. CASE RequeueFails(e)
      BY <2>1, <3>3 DEF RequeueFails
    <3> QED
      BY <2>7, <3>1, <3>2, <3>3 DEF CallerStep, AskPause, SendPause, RequestCancel
  <2> QED
    BY <2>4, <2>5, <2>6, <2>7
<1> QED
  BY <1>2, <1>3, <1>4

\* Every other step leaves a worker, or an output, to each record that needs one.
LEMMA StrandsStep == PInv /\ [Next]_vars => Strands
<1> SUFFICES ASSUME PInv, [Next]_vars, ActiveMeansOwned,
                    ~\E e \in Executions : exec[e].result = "error" /\ Release(e)
             PROVE  ActiveMeansOwned'
  BY DEF Strands
<1>1. ASSUME NEW e \in Executions,
             Step(e) \/ SaveFails(e) \/ ExecutorStep(e) \/ (CallerStep(e) /\ ~Release(e))
      PROVE  ActiveMeansOwned'
  <2>1. /\ UNCHANGED phase
        /\ \A id \in Downloads : Owned(id) => Owned(id)'
        /\ \A id \in Downloads : id # exec[e].id =>
             jobs'[id] = jobs[id] /\ output'[id] = output[id]
    BY <1>1, OwnersStay
  <2>2. Owned(exec[e].id)
    BY DEF Owned, Owners
  <2> QED
    BY <2>1, <2>2, WorkerStays
<1>2. ASSUME NEW e \in Executions, Release(e) PROVE ActiveMeansOwned'
  <2>1. /\ exec[e].pc = "done" /\ exec[e].result # "error"
        /\ exec' = [exec EXCEPT ![e] = Idle]
        /\ UNCHANGED <<phase, jobs, output>>
    BY <1>2 DEF Release
  <2>2. /\ exec[e] \in ExecType /\ exec[e].id \in Downloads
        /\ Attempt(exec[e], jobs[exec[e].id], output[exec[e].id])
    BY <2>1, Working
  <2>3. \/ ~RequiresRecovery(jobs[exec[e].id].state)
        \/ output[exec[e].id] # NoOutput
    BY <2>1, <2>2 DEF Attempt, ExecType, Results
  <2>4. \A id \in Downloads : Owned(id) /\ id # exec[e].id => Owned(id)'
    BY <2>1 DEF Owned, Owners, PInv, IInv, TypeOK
  <2> QED
    BY <2>1, <2>3, <2>4, WorkerStays
<1>3. ASSUME ClientStep PROVE ActiveMeansOwned'
  <2>1. UNCHANGED <<phase, exec, output>>
    BY <1>3 DEF ClientStep, Create, ConfirmOutput, ChangeIdleState, ClientSaves, Save,
       ClientCommit, ClientRegister, ClientCommitFails
  <2>2. \A id \in Downloads : Owned(id)' <=> Owned(id)
    BY <2>1 DEF Owned, Owners
  <2>3. CASE UNCHANGED jobs
    BY <2>1, <2>2, <2>3, WorkerStays
  <2>4. CASE ClientRegister
    <3>1. /\ jobs' = [jobs EXCEPT ![client.id] = client.cand]
          /\ ~RequiresRecovery(client.cand.state)
      BY <2>4 DEF ClientRegister, Register, PInv, ClientIntends
    <3>2. \A id \in Downloads : ~RequiresRecovery(jobs'[id].state) \/ jobs'[id] = jobs[id]
      BY <3>1 DEF PInv, IInv, TypeOK
    <3> QED
      BY <2>1, <2>2, <3>2, WorkerStays
  <2> QED
    BY <1>3, <2>3, <2>4 DEF ClientStep, Create, ConfirmOutput, ChangeIdleState, ClientSaves,
       Save, ClientCommit, ClientCommitFails
<1>4. ASSUME ProcessStep PROVE ActiveMeansOwned'
  <2>1. CASE Started
    BY <2>1 DEF Started, ActiveMeansOwned
  <2>2. CASE phase' # "up"
    BY <2>2 DEF ActiveMeansOwned
  <2> QED
    BY <1>4, <2>1, <2>2 DEF ProcessStep, Start, Recover, Crash
<1>5. ASSUME UNCHANGED vars PROVE ActiveMeansOwned'
  BY <1>5 DEF vars, ActiveMeansOwned, Owned, Owners
<1> QED
  BY <1>1, <1>2, <1>3, <1>4, <1>5 DEF Next

\* A record loses its worker while active only when an execution that returned
\* an error is released: no order of stops, crashes, retries and recoveries does it.
THEOREM OnlyErrorsStrand == Spec => StrandedOnlyByError
<1>1. PInv /\ [Next]_vars => [Strands]_vars
  BY StrandsStep
<1>2. Spec => [][Strands]_vars
  BY <1>1, PromisesInvariance, PTL DEF Spec
<1> QED
  BY <1>2 DEF StrandedOnlyByError, Strands

---------------------------------------------------------------------------
(* DownloadManager implements DownloadLifecycle. *)

\* The durable state of each download, and whether its output is in place.
State == [id \in Downloads |-> store[id].state]
Published == [id \in Downloads |-> output[id] # NoOutput]

\* The lifecycle table of the two specifications is the same.
LEMMA SameTable ==
  /\ \A from, to : CanTransitionTo(from, to) <=> Lifecycle!CanTransitionTo(from, to)
  /\ \A state : CanRestart(state) <=> Lifecycle!CanRestart(state)
  /\ States = Lifecycle!States
BY DEF CanTransitionTo, Lifecycle!CanTransitionTo, CanRestart, Lifecycle!CanRestart,
   RequiresRecovery, Lifecycle!RequiresRecovery, States, Lifecycle!States,
   Successors, Lifecycle!Successors

\* A record that replaces that of one download, while the outputs stay, is a move
\* along the table, a creation, a restart or no change at all.
LEMMA RecordMoves ==
  ASSUME PInv, NEW id \in Downloads, NEW job \in Job,
         store' = [store EXCEPT ![id] = job], UNCHANGED output,
         \/ store[id].state = "Absent" /\ job.state = "Queued"
         \/ CanRestart(store[id].state) /\ job.state = "Queued"
         \/ job.state = store[id].state
         \/ /\ CanTransitionTo(store[id].state, job.state)
            /\ job.state \notin {"Inspecting", "Completed"}
         \/ /\ CanTransitionTo(store[id].state, job.state) /\ job.state = "Completed"
            /\ output[id] # NoOutput
  PROVE  [Lifecycle!Next]_(Lifecycle!vars)
<1>1. /\ State' = [State EXCEPT ![id] = job.state]
      /\ State[id] = store[id].state
      /\ UNCHANGED Published
  BY DEF State, Published, PInv, IInv, TypeOK
<1>2. job.state \in States
  BY DEF Job
<1>3. CASE store[id].state = "Absent" /\ job.state = "Queued"
  <2>1. Lifecycle!Create(id)
    BY <1>1, <1>3 DEF Lifecycle!Create, State, Published
  <2> QED
    BY <2>1 DEF Lifecycle!Next
<1>4. CASE CanRestart(store[id].state) /\ job.state = "Queued"
  <2>1. Lifecycle!Restart(id)
    BY <1>1, <1>4, SameTable DEF Lifecycle!Restart, State, Published
  <2> QED
    BY <2>1 DEF Lifecycle!Next
<1>5. CASE job.state = store[id].state
  BY <1>1, <1>5 DEF Lifecycle!vars, State, Published
<1>6. CASE CanTransitionTo(store[id].state, job.state)
           /\ job.state \notin {"Inspecting", "Completed"}
  <2>1. Lifecycle!Advance(id, job.state)
    BY <1>1, <1>6, SameTable DEF Lifecycle!Advance, State, Published
  <2> QED
    BY <1>2, <2>1, SameTable DEF Lifecycle!Next
<1>7. CASE /\ CanTransitionTo(store[id].state, job.state) /\ job.state = "Completed"
           /\ output[id] # NoOutput
  <2>1. Lifecycle!Complete(id)
    BY <1>1, <1>7, SameTable DEF Lifecycle!Complete, State, Published
  <2> QED
    BY <2>1 DEF Lifecycle!Next
<1> QED
  BY <1>3, <1>4, <1>5, <1>6, <1>7

\* Before the first process starts there is no record and no output.
LEMMA LifecycleInit == Init => Lifecycle!Init
  BY NoJobAbsent DEF Init, Lifecycle!Init

\* Every step is a step of the lifecycle, or leaves it alone.
LEMMA LifecycleStep == PInv /\ [Next]_vars => [Lifecycle!Next]_(Lifecycle!vars)
<1> SUFFICES ASSUME PInv, [Next]_vars PROVE [Lifecycle!Next]_(Lifecycle!vars)
  OBVIOUS
<1>1. ASSUME NEW e \in Executions, SaveJob(e) PROVE [Lifecycle!Next]_(Lifecycle!vars)
  <2> DEFINE cand == exec[e].cand
  <2>1. PICK id \in Downloads : id = exec[e].id
    BY <1>1, SaveJobChange
  <2>2. /\ cand \in Job
        /\ Allows(exec[e], store[id], output[id])
        /\ store' = [store EXCEPT ![id] = cand]
        /\ output' = IF cand.state = "Inspecting"
                       THEN [output EXCEPT ![id] = NoOutput] ELSE output
    BY <1>1, <2>1, SaveJobChange
  <2>3. CASE cand.state # "Inspecting"
    <3>1. \/ cand.state = store[id].state
          \/ CanTransitionTo(store[id].state, cand.state)
      BY <2>2 DEF Allows
    <3>2. cand.state = "Completed" => output[id] # NoOutput
      BY <2>2, MaxBytesAssumption DEF Allows, Job, Bytes, NoOutput
    <3>3. UNCHANGED output
      BY <2>2, <2>3
    <3> HIDE DEF cand
    <3> QED
      BY <2>2, <2>3, <3>1, <3>2, <3>3, RecordMoves
  <2>4. CASE cand.state = "Inspecting"
    <3>1. /\ State' = [State EXCEPT ![id] = "Inspecting"]
          /\ Published' = [Published EXCEPT ![id] = FALSE]
          /\ State[id] = store[id].state
      BY <2>2, <2>4 DEF State, Published, PInv, IInv, TypeOK
    <3>2. CanTransitionTo(store[id].state, "Inspecting")
      BY <2>2, <2>4 DEF Allows
    <3>3. Lifecycle!Begin(id)
      BY <3>1, <3>2, SameTable DEF Lifecycle!Begin, State, Published
    <3> QED
      BY <3>3 DEF Lifecycle!Next
  <2> QED
    BY <2>3, <2>4
<1>2. ASSUME NEW e \in Executions, Requeue(e) PROVE [Lifecycle!Next]_(Lifecycle!vars)
  <2>1. CASE UNCHANGED <<store, output>>
    BY <2>1 DEF Lifecycle!vars
  <2>2. CASE /\ UNCHANGED output
             /\ exec[e].id \in Downloads /\ store[exec[e].id] \in Job
             /\ store[exec[e].id].state = "Failed"
             /\ store' = [store EXCEPT ![exec[e].id] =
                            TransitionTo(store[exec[e].id], "Queued")]
    <3>1. TransitionTo(store[exec[e].id], "Queued") \in Job
      BY <2>2 DEF TransitionTo, Job, States
    <3>2. TransitionTo(store[exec[e].id], "Queued").state = "Queued"
      BY <2>2 DEF TransitionTo, Job
    <3>3. CanTransitionTo("Failed", "Queued")
      BY DEF CanTransitionTo, Successors, States
    <3> QED
      BY <2>2, <3>1, <3>2, <3>3, RecordMoves
  <2> QED
    BY <1>2, <2>1, <2>2, RequeueChange
<1>3. ASSUME NEW e \in Executions, NEW written \in Bytes, Finalize(e, written)
      PROVE  [Lifecycle!Next]_(Lifecycle!vars)
  <2>1. PICK id \in Downloads : id = exec[e].id
    BY <1>3, Working DEF Finalize
  <2>2. /\ exec[e].pc = "finalize" /\ output' = [output EXCEPT ![id] = written]
        /\ UNCHANGED store
    BY <1>3, <2>1 DEF Finalize
  <2>3. store[id].state = "Finalizing" /\ output[id] = NoOutput
    BY <2>1, <2>2, Working, Settled DEF Attempt
  <2>4. written # NoOutput
    BY MaxBytesAssumption DEF Bytes, NoOutput
  <2>5. /\ Published' = [Published EXCEPT ![id] = TRUE] /\ ~Published[id]
        /\ UNCHANGED State /\ State[id] = "Finalizing"
    BY <2>2, <2>3, <2>4 DEF State, Published, PInv, IInv, TypeOK
  <2>6. Lifecycle!Publish(id)
    BY <2>5 DEF Lifecycle!Publish, State, Published
  <2> QED
    BY <2>6 DEF Lifecycle!Next
<1>4. ASSUME NEW id \in Downloads, Create(id) PROVE [Lifecycle!Next]_(Lifecycle!vars)
  <2>1. /\ store[id] = NoJob /\ store' = [store EXCEPT ![id] = NewJob]
        /\ UNCHANGED output /\ NewJob.state = "Queued" /\ store[id].state = "Absent"
    BY <1>4, NoJobAbsent DEF Create, ClientSaves, Save, NewJob
  <2> QED
    BY <2>1, NoJobAbsent, RecordMoves
<1>5. ASSUME NEW id \in Downloads, NEW command \in Commands, ClientMay(id),
             ChangeIdleState(id, command)
      PROVE  [Lifecycle!Next]_(Lifecycle!vars)
  <2> DEFINE job == Changed(command, store[id])
  <2>1. /\ UNCHANGED output /\ store[id] \in Job /\ Allowed(command, store[id])
        /\ store' = [store EXCEPT ![id] = job]
    BY <1>5, CommandChange
  <2>2. job \in Job
    BY <2>1, JobOperations, MaxBytesAssumption
    DEF Commands, Changed, States, Bytes, Totals, Failures
  <2>3. \/ CanRestart(store[id].state) /\ job.state = "Queued"
        \/ /\ CanTransitionTo(store[id].state, job.state)
           /\ job.state \notin {"Inspecting", "Completed"}
    <3>1. CASE command = "Pause"
      BY <2>1, <3>1 DEF Changed, Allowed, TransitionTo, Job, CanTransitionTo, Successors, States
    <3>2. CASE command \in {"Resume", "Retry"}
      <4>1. store[id].state \in {"Paused", "Interrupted", "Failed"}
        BY <2>1, <3>2 DEF Allowed
      <4>2. job = TransitionTo(store[id], "Queued")
        BY <3>2 DEF Changed
      <4>3. job.state = "Queued"
        BY <2>1, <4>2 DEF TransitionTo, Job
      <4> QED
        BY <4>1, <4>3 DEF CanTransitionTo, Successors, States
    <3>3. CASE command = "Cancel"
      BY <2>1, <3>3 DEF Changed, Allowed, TransitionTo, Job, CanTransitionTo, Successors, States
    <3>4. CASE command = "Restart"
      BY <2>1, <3>4 DEF Changed, Allowed, RestartJob, Job
    <3> QED
      BY <3>1, <3>2, <3>3, <3>4 DEF Commands
  <2> QED
    BY <2>1, <2>2, <2>3, RecordMoves
<1>6. ASSUME ClientCommit PROVE [Lifecycle!Next]_(Lifecycle!vars)
  <2> DEFINE id == client.id
  <2>1. /\ UNCHANGED output /\ id \in Downloads /\ store[id] \in Job
        /\ \/ /\ store[id].state = "Finalizing" /\ store[id].done = output[id]
              /\ store' = [store EXCEPT ![id] = TransitionTo(store[id], "Completed")]
           \/ /\ RequiresRecovery(store[id].state)
              /\ store' = [store EXCEPT ![id] = TransitionTo(store[id], "Interrupted")]
    BY <1>6, ClientCommitChange
  <2>2. \A next \in {"Completed", "Interrupted"} :
          /\ TransitionTo(store[id], next) \in Job
          /\ TransitionTo(store[id], next).state = next
    BY <2>1 DEF TransitionTo, Job, States
  <2>3. CASE /\ store[id].state = "Finalizing" /\ store[id].done = output[id]
             /\ store' = [store EXCEPT ![id] = TransitionTo(store[id], "Completed")]
    <3>1. output[id] # NoOutput
      BY <2>1, <2>3, MaxBytesAssumption DEF Job, Bytes, NoOutput
    <3>2. CanTransitionTo("Finalizing", "Completed")
      BY DEF CanTransitionTo, Successors, States
    <3> QED
      BY <2>1, <2>2, <2>3, <3>1, <3>2, RecordMoves
  <2>4. CASE /\ RequiresRecovery(store[id].state)
             /\ store' = [store EXCEPT ![id] = TransitionTo(store[id], "Interrupted")]
    <3>1. CanTransitionTo(store[id].state, "Interrupted")
      BY <2>4 DEF CanTransitionTo, Successors, States, RequiresRecovery
    <3> QED
      BY <2>1, <2>2, <2>4, <3>1, RecordMoves
  <2> QED
    BY <2>1, <2>3, <2>4
<1>7. CASE UNCHANGED <<store, output>>
  BY <1>7 DEF Lifecycle!vars
<1> QED
  BY <1>1, <1>2, <1>3, <1>4, <1>5, <1>6, <1>7, DurableStep

\* The detailed manager, with its threads, failures and crashes, implements the
\* abstract lifecycle of a download.
THEOREM Refinement == Spec => ImplementsLifecycle
<1>1. Spec => Lifecycle!Init /\ [][Lifecycle!Next]_(Lifecycle!vars)
  BY LifecycleInit, LifecycleStep, PromisesInvariance, PTL DEF Spec
<1> QED
  BY <1>1 DEF ImplementsLifecycle, Lifecycle!Spec
=============================================================================
