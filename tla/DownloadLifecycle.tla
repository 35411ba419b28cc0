-------------------------- MODULE DownloadLifecycle --------------------------
(***************************************************************************)
(* What the application promises about the durable record of a download,   *)
(* whatever threads, failures and crashes produced it: the record moves    *)
(* along the lifecycle table or is explicitly restarted, and it becomes    *)
(* Completed only after the attempt it belongs to published its output,    *)
(* once.  DownloadManager implements this specification.                    *)
(***************************************************************************)
EXTENDS DownloadJob

CONSTANT Downloads

VARIABLES
  state,        \* the persisted state of each download, or "Absent"
  published     \* whether its current attempt put the output file in place

vars == <<state, published>>

Init ==
  /\ state = [d \in Downloads |-> "Absent"]
  /\ published = [d \in Downloads |-> FALSE]

Create(d) ==
  /\ state[d] = "Absent"
  /\ state' = [state EXCEPT ![d] = "Queued"]
  /\ UNCHANGED published

\* A new attempt begins: whatever an earlier attempt published is not its own.
Begin(d) ==
  /\ CanTransitionTo(state[d], "Inspecting")
  /\ state' = [state EXCEPT ![d] = "Inspecting"]
  /\ published' = [published EXCEPT ![d] = FALSE]

Advance(d, next) ==
  /\ next \notin {"Inspecting", "Completed"}
  /\ CanTransitionTo(state[d], next)
  /\ state' = [state EXCEPT ![d] = next]
  /\ UNCHANGED published

Publish(d) ==
  /\ state[d] = "Finalizing"
  /\ ~published[d]
  /\ published' = [published EXCEPT ![d] = TRUE]
  /\ UNCHANGED state

Complete(d) ==
  /\ CanTransitionTo(state[d], "Completed")
  /\ published[d]
  /\ state' = [state EXCEPT ![d] = "Completed"]
  /\ UNCHANGED published

Restart(d) ==
  /\ CanRestart(state[d])
  /\ state' = [state EXCEPT ![d] = "Queued"]
  /\ UNCHANGED published

Next ==
  \E d \in Downloads :
    \/ Create(d)
    \/ Begin(d)
    \/ \E next \in States : Advance(d, next)
    \/ Publish(d)
    \/ Complete(d)
    \/ Restart(d)

Spec == Init /\ [][Next]_vars
=============================================================================
