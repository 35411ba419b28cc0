----------------------------- MODULE DownloadJob -----------------------------
(***************************************************************************)
(* The download record that is persisted and shown to clients, and the     *)
(* pure operations on it: the lifecycle table, progress validation and the *)
(* mutations of a job (crates/gunda-core/src/download).                     *)
(*                                                                         *)
(* A record keeps what the properties tell apart: the state, the durable   *)
(* progress and the last failure.  Timestamps, the request, the resource   *)
(* description and the destination are left out.                           *)
(***************************************************************************)
EXTENDS Integers

CONSTANT MaxBytes           \* bound on every byte count

ASSUME MaxBytesAssumption == MaxBytes \in Nat

Bytes == 0..MaxBytes

\* Option<u64>: the total of a resource that does not announce its size.
Unknown == -1
Totals == Bytes \cup {Unknown}

---------------------------------------------------------------------------
(* The lifecycle table. *)

States == {"Queued", "Inspecting", "Downloading", "Paused", "Finalizing",
           "Completed", "Failed", "Cancelled", "Interrupted"}

Successors ==
  [ Queued      |-> {"Inspecting", "Paused", "Cancelled"},
    Inspecting  |-> {"Downloading", "Paused", "Failed", "Interrupted", "Cancelled"},
    Downloading |-> {"Paused", "Finalizing", "Failed", "Interrupted", "Cancelled"},
    Paused      |-> {"Queued", "Cancelled"},
    Finalizing  |-> {"Completed", "Failed", "Interrupted"},
    Failed      |-> {"Queued", "Cancelled"},
    Interrupted |-> {"Queued", "Cancelled"},
    Completed   |-> {},
    Cancelled   |-> {} ]

CanTransitionTo(from, to) == from \in States /\ to \in Successors[from]

\* A state of work owned by the running process.
RequiresRecovery(state) == state \in {"Inspecting", "Downloading", "Finalizing"}

CanRestart(state) == state \in States /\ ~RequiresRecovery(state)

---------------------------------------------------------------------------
(* Progress and the record. *)

Failures == {"none", "retryable", "permanent"}

ValidProgress(done, total) == total = Unknown \/ done <= total

Job == [state: States, done: Bytes, total: Totals, failure: Failures]

\* The place of a download that has no record yet.
NoJob == [state |-> "Absent", done |-> 0, total |-> Unknown, failure |-> "none"]

NewJob == [state |-> "Queued", done |-> 0, total |-> Unknown, failure |-> "none"]

TransitionTo(job, next) == [job EXCEPT !.state = next]

UpdateProgress(job, done, total) == [job EXCEPT !.done = done, !.total = total]

\* restart() keeps the creation data only, which a record here does not hold.
RestartJob(job) == [job EXCEPT !.state = "Queued", !.done = 0,
                               !.total = Unknown, !.failure = "none"]

FailJob(job, failure) == [job EXCEPT !.state = "Failed", !.failure = failure]
=============================================================================
