----------------------------- MODULE HttpTransfer -----------------------------
(***************************************************************************)
(* One direct HTTP download (crates/gunda-http): a response body streamed  *)
(* into a partial file, checkpoints of what is durable kept in the         *)
(* database (crates/gunda-storage/src/http_resume.rs), resumption of an    *)
(* interrupted attempt from them, publication of the complete file, and    *)
(* the reset that precedes a restart from zero.                            *)
(*                                                                         *)
(* The remote resource may change at any time, the process may exit and    *)
(* the machine may lose power at any step.  A byte is modelled by the      *)
(* version of the resource it came from, so a file is a sequence of        *)
(* versions.  The download manager appears as the order in which it drives *)
(* the executor; its own records are the subject of DownloadManager.       *)
(*                                                                         *)
(* External, as the code relies on them: a strong entity tag names one     *)
(* version and a server honours If-Range; directory entries and committed  *)
(* transactions survive a power loss; nothing else writes the partial file. *)
(***************************************************************************)
EXTENDS Integers, Sequences

CONSTANTS
  Versions,    \* of the remote resource
  Size,        \* Size[v]: the bytes of version v
  Sized,       \* versions served with a Content-Length
  Tagged,      \* those served with a strong entity tag as well
  Garbage,     \* a byte that was lost with the power
  MaxNames     \* bound on the names tried for the output, 1000 in the code

ASSUME VersionsAssumption ==
  /\ Size \in [Versions -> Nat \ {0}]
  /\ Sized \subseteq Versions
  /\ Tagged \subseteq Sized
  /\ Garbage \notin Versions
  /\ MaxNames \in Nat \ {0}

NoFile == [kind |-> "none"]
File(data, synced) == [kind |-> "file", data |-> data, synced |-> synced]
NoState == [kind |-> "none"]
State(tag, durable) == [kind |-> "state", tag |-> tag, durable |-> durable]
NoBody == [kind |-> "none"]
Body(version, next) == [kind |-> "body", version |-> version, next |-> next]
NoTotal == 0

\* Candidate names of the output: the planned one, then the numbered ones.
Names == 0..(MaxNames - 1)
Policies == {"fail", "rename", "overwrite"}

VARIABLES
  remote,    \* the version the server serves
  partial,   \* the staging file: its bytes, and how many are on the platter
  output,    \* the file under each candidate name
  saved,     \* http_resume_state: the version's tag and the durable bytes
  job,       \* the record: its status, total, conflict policy and output name
  pc,        \* where the attempt is, or "idle"; a restart's reset counts as one
  body,      \* the response being read: its version, and its next byte
  written,   \* bytes written so far
  after,     \* where a checkpoint leads
  stop       \* the stop requested of the attempt

files == <<partial, output>>
local == <<body, written, after>>
vars == <<remote, files, saved, job, pc, local, stop>>

Statuses == {"queued", "active", "paused", "interrupted", "retryable", "failed",
             "cancelled", "completed"}

---------------------------------------------------------------------------
Whole(v) == [i \in 1..Size[v] |-> v]

\* A body of this version is checkpointed: it has a tag and a length.
Resumable == body # NoBody /\ body.version \in Tagged

Total(v) == IF v \in Sized THEN Size[v] ELSE NoTotal

Goto(label) == pc' = label

\* The attempt ends with this status, which the manager then records.
Ends(status) == pc' = "record" /\ after' = status

Stopped == Ends(IF stop = "pause" THEN "paused" ELSE "cancelled")

---------------------------------------------------------------------------
(* Preparation. *)

Prepares ==
  /\ pc = "idle"
  /\ job.status = "queued"
  /\ job' = [job EXCEPT !.status = "active"]

PrepareFresh ==
  /\ Prepares
  /\ saved = NoState
  /\ body' = Body(remote, 1)
  /\ written' = 0
  /\ Goto("prepared")
  /\ UNCHANGED <<remote, files, saved, after, stop>>

\* inspect_resume_candidate: what resuming needs of the local files.
Candidate ==
  /\ saved.durable = Size[saved.tag] => output[0] = NoFile
  /\ partial # NoFile
  /\ Len(partial.data) >= saved.durable

\* The server sends the rest of the version that was saved, or nothing of use.
RemoteAgrees ==
  \/ saved.durable = Size[saved.tag]
  \/ remote = saved.tag

PrepareResumed ==
  /\ Prepares
  /\ saved # NoState
  /\ job.total = Size[saved.tag]
  /\ Candidate
  /\ RemoteAgrees
  /\ body' = Body(saved.tag, saved.durable + 1)
  /\ written' = saved.durable
  /\ Goto("prepared")
  /\ UNCHANGED <<remote, files, saved, after, stop>>

\* The saved state cannot be continued: an integrity failure, never a retry.
PrepareRefused ==
  /\ Prepares
  /\ saved # NoState
  /\ job.total # Size[saved.tag] \/ ~Candidate \/ ~RemoteAgrees
  /\ Ends("failed")
  /\ UNCHANGED <<remote, files, saved, body, written, stop>>

PrepareFails(status) ==
  /\ Prepares
  /\ Ends(status)
  /\ UNCHANGED <<remote, files, saved, body, written, stop>>

\* The manager persists the total before anything is staged, a stop or not.
CommitDownloading ==
  /\ pc = "prepared"
  /\ job' = [job EXCEPT !.total = Total(body.version)]
  /\ IF stop # "none" THEN Stopped ELSE Goto("stage") /\ UNCHANGED after
  /\ UNCHANGED <<remote, files, saved, body, written, stop>>

---------------------------------------------------------------------------
(* Staging. *)

StopBeforeStaging ==
  /\ pc = "stage"
  /\ stop # "none"
  /\ Stopped
  /\ UNCHANGED <<remote, files, saved, job, body, written, stop>>

\* An existing partial file is never overwritten.
CreatePartial ==
  /\ pc = "stage"
  /\ stop = "none"
  /\ saved = NoState
  /\ IF partial # NoFile THEN Ends("failed") /\ UNCHANGED partial
     ELSE /\ partial' = File(<<>>, 0)
          /\ Goto(IF Resumable THEN "initialize" ELSE "stream")
          /\ UNCHANGED after
  /\ UNCHANGED <<remote, output, saved, job, body, written, stop>>

Initialize ==
  /\ pc = "initialize"
  /\ saved' = State(body.version, 0)
  /\ Goto("stream")
  /\ UNCHANGED <<remote, files, job, local, stop>>

\* Mutant: bytes past the checkpoint are kept.
OpenPartial_Appends ==
  /\ pc = "stage"
  /\ stop = "none"
  /\ saved # NoState
  /\ Goto("stream")
  /\ UNCHANGED <<remote, files, saved, job, local, stop>>

\* Bytes past the checkpoint are dropped before more are appended.
OpenPartial ==
  /\ pc = "stage"
  /\ stop = "none"
  /\ saved # NoState
  /\ partial' = IF Len(partial.data) = written THEN partial
                ELSE File(SubSeq(partial.data, 1, written), written)
  /\ Goto("stream")
  /\ UNCHANGED <<remote, output, saved, job, local, stop>>

\* Creating, initializing or opening the staging fails: what was done stays.
StagingFails ==
  /\ pc \in {"stage", "initialize"}
  /\ Ends("failed")
  /\ UNCHANGED <<remote, files, saved, job, body, written, stop>>

---------------------------------------------------------------------------
(* Streaming.  A stop is noticed before a byte that is ready with it. *)

Checkpoint(then) == pc' = "sync" /\ after' = then

\* One chunk; a checkpoint follows when one is due.
Receive ==
  /\ pc = "stream"
  /\ stop = "none"
  /\ body.next <= Size[body.version]
  /\ partial' = [partial EXCEPT !.data = Append(@, body.version)]
  /\ written' = written + 1
  /\ body' = [body EXCEPT !.next = @ + 1]
  /\ \/ pc' = "stream" /\ UNCHANGED after
     \/ Resumable /\ Checkpoint("stream")
  /\ UNCHANGED <<remote, output, saved, job, stop>>

\* The file may hold part of a chunk that was not accepted.
WriteFails ==
  /\ pc = "stream"
  /\ body.next <= Size[body.version]
  /\ partial' \in {partial, [partial EXCEPT !.data = Append(@, body.version)]}
  /\ Ends("failed")
  /\ UNCHANGED <<remote, output, saved, job, body, written, stop>>

\* Mutants: without a checkpoint, and for a pause only.
NoticeStop_Unsaved ==
  /\ pc = "stream"
  /\ stop # "none"
  /\ Stopped
  /\ UNCHANGED <<remote, files, saved, job, body, written, stop>>
NoticeStop_PauseOnly ==
  /\ pc = "stream"
  /\ stop = "pause"
  /\ Checkpoint("stopped")
  /\ UNCHANGED <<remote, files, saved, job, body, written, stop>>

NoticeStop ==
  /\ pc = "stream"
  /\ stop # "none"
  /\ Checkpoint("stopped")
  /\ UNCHANGED <<remote, files, saved, job, body, written, stop>>

\* Mutant: the partial file is never discarded.
BodyFails_Leaves(status) ==
  /\ pc = "stream"
  /\ stop = "none"
  /\ body.next <= Size[body.version] \/ body.version \notin Sized
  /\ IF Resumable THEN Checkpoint(status) ELSE Ends(status)
  /\ UNCHANGED <<remote, files, saved, job, body, written, stop>>

\* A connection fails before the announced length, or where none is announced.
BodyFails(status) ==
  /\ pc = "stream"
  /\ stop = "none"
  /\ body.next <= Size[body.version] \/ body.version \notin Sized
  /\ IF Resumable THEN Checkpoint(status) /\ UNCHANGED partial
                  ELSE Ends(status) /\ partial' = NoFile
  /\ UNCHANGED <<remote, output, saved, job, body, written, stop>>

\* Mutant: the announced length is not compared.
EndOfBody_Short ==
  /\ pc = "stream"
  /\ stop = "none"
  /\ Checkpoint("staged")
  /\ UNCHANGED <<remote, files, saved, job, body, written, stop>>

\* Without a length, the end of the connection is the end of the body.
EndOfBody ==
  /\ pc = "stream"
  /\ stop = "none"
  /\ body.next > Size[body.version] \/ body.version \notin Sized
  /\ Checkpoint("staged")
  /\ UNCHANGED <<remote, files, saved, job, body, written, stop>>

\* What follows a checkpoint; a stop requested meanwhile wins over the end.
CheckpointDone ==
  \/ after = "stream" /\ Goto("stream") /\ UNCHANGED after
  \/ after = "stopped" /\ Stopped
  \/ after = "staged" /\ stop # "none" /\ Stopped
  \/ after = "staged" /\ stop = "none" /\ Goto("staged") /\ UNCHANGED after
  \/ after \in Statuses /\ Ends(after)

\* Mutant: the database goes first, the file is left to the system.
Sync_Skipped ==
  /\ pc = "sync"
  /\ IF Resumable /\ written # saved.durable
       THEN Goto("save") /\ UNCHANGED after
       ELSE CheckpointDone
  /\ UNCHANGED <<remote, files, saved, job, body, written, stop>>

\* The file first, then the database: what it says is durable is on disk.
Sync ==
  /\ pc = "sync"
  /\ partial' = [partial EXCEPT !.synced = Len(partial.data)]
  /\ IF Resumable /\ written # saved.durable
       THEN Goto("save") /\ UNCHANGED after
       ELSE CheckpointDone
  /\ UNCHANGED <<remote, output, saved, job, body, written, stop>>

SaveCheckpoint ==
  /\ pc = "save"
  /\ saved.tag = body.version
  /\ saved.durable <= written
  /\ saved' = [saved EXCEPT !.durable = written]
  /\ CheckpointDone
  /\ UNCHANGED <<remote, files, job, body, written, stop>>

CheckpointFails ==
  /\ pc \in {"sync", "save"}
  /\ Ends("failed")
  /\ UNCHANGED <<remote, files, saved, job, body, written, stop>>

---------------------------------------------------------------------------
(* Publication. *)

\* The manager's last look at the stop, and its commit of Finalizing.
CommitFinalizing ==
  /\ pc = "staged"
  /\ IF stop # "none" THEN Stopped ELSE Goto("publish") /\ UNCHANGED after
  /\ UNCHANGED <<remote, files, saved, job, body, written, stop>>

PublishByRename ==
  /\ pc = "publish"
  /\ job.policy = "overwrite"
  /\ Len(partial.data) = written
  /\ output' = [output EXCEPT ![0] = partial]
  /\ partial' = NoFile
  /\ Ends("completed")
  /\ UNCHANGED <<remote, saved, job, body, written, stop>>

\* Under the first free name, or the planned one only.
PublishByLink ==
  /\ pc = "publish"
  /\ job.policy # "overwrite"
  /\ Len(partial.data) = written
  /\ \E name \in Names :
       /\ output[name] = NoFile
       /\ \A earlier \in Names : earlier < name => output[earlier] # NoFile
       /\ job.policy = "fail" => name = 0
       /\ output' = [output EXCEPT ![name] = partial]
       /\ job' = [job EXCEPT !.name = name]
  /\ Goto("cleanup")
  /\ UNCHANGED <<remote, partial, saved, local, stop>>

\* The names are taken, the partial file is not the one written, or the file
\* system refuses.
PublishFails ==
  /\ pc = "publish"
  /\ Ends("failed")
  /\ UNCHANGED <<remote, files, saved, job, body, written, stop>>

\* Failing to remove the staging name is not a failed publication.
CleanUp ==
  /\ pc = "cleanup"
  /\ partial' \in {NoFile, partial}
  /\ Ends("completed")
  /\ UNCHANGED <<remote, output, saved, job, body, written, stop>>

\* The manager records how the attempt ended.
Record ==
  /\ pc = "record"
  /\ job' = [job EXCEPT !.status = after]
  /\ Goto("idle")
  /\ body' = NoBody
  /\ written' = 0
  /\ after' = "stream"
  /\ stop' = "none"
  /\ UNCHANGED <<remote, files, saved>>

---------------------------------------------------------------------------
(* Commands. *)

RequestStop(kind) ==
  /\ pc \notin {"idle", "record", "clear", "reset"}
  /\ stop # "cancel" /\ stop # kind
  /\ kind = "pause" => Resumable
  /\ stop' = kind
  /\ UNCHANGED <<remote, files, saved, job, pc, local>>

\* HttpExecutor::can_resume
CanResume ==
  /\ job.status \in {"paused", "interrupted"}
  /\ saved # NoState
  /\ job.total = Size[saved.tag]
  /\ Candidate

Idle(from, to) ==
  /\ pc = "idle"
  /\ job.status \in from
  /\ job' = [job EXCEPT !.status = to]
  /\ UNCHANGED <<remote, files, saved, pc, local, stop>>

Pause  == Idle({"queued"}, "paused")
Cancel == Idle({"queued", "paused"}, "cancelled")
Retry  == Idle({"retryable"}, "queued")
Resume == CanResume /\ Idle({"paused", "interrupted"}, "queued")

\* reset_for_restart removes the file, then the state; the record is last.
RestartRemove ==
  /\ pc = "idle"
  /\ partial' = NoFile
  /\ Goto("clear")
  /\ UNCHANGED <<remote, output, saved, job, local, stop>>

RestartClear ==
  /\ pc = "clear"
  /\ saved' = NoState
  /\ Goto("reset")
  /\ UNCHANGED <<remote, files, job, local, stop>>

RestartReset ==
  /\ pc = "reset"
  /\ job' = [job EXCEPT !.status = "queued", !.total = NoTotal]
  /\ Goto("idle")
  /\ UNCHANGED <<remote, files, saved, local, stop>>

RestartFails ==
  /\ pc \in {"clear", "reset"}
  /\ Goto("idle")
  /\ UNCHANGED <<remote, files, saved, job, local, stop>>

---------------------------------------------------------------------------
(* The environment. *)

RemoteChanges ==
  /\ remote' \in Versions \ {remote}
  /\ UNCHANGED <<files, saved, job, pc, local, stop>>

\* The process ends; the next one finds an active record interrupted.
ProcessEnds ==
  /\ job' = IF job.status = "active" THEN [job EXCEPT !.status = "interrupted"] ELSE job
  /\ Goto("idle")
  /\ body' = NoBody
  /\ written' = 0
  /\ after' = "stream"
  /\ stop' = "none"
  /\ UNCHANGED <<remote, saved>>

ProcessExit ==
  /\ pc # "idle"
  /\ ProcessEnds
  /\ UNCHANGED files

\* Of a file that was not synced, any length and any bytes past the synced ones.
Survivors(file) ==
  IF file = NoFile THEN {NoFile}
  ELSE {File(SubSeq(file.data, 1, file.synced) \o [i \in 1..n |-> Garbage],
             file.synced + n) : n \in 0..(Len(file.data) - file.synced)}
       \cup {File(file.data, Len(file.data))}

PowerLoss ==
  /\ ProcessEnds
  /\ partial' \in Survivors(partial)
  /\ output' \in {o \in [Names -> UNION {Survivors(output[name]) : name \in Names}] :
                    \A name \in Names : o[name] \in Survivors(output[name])}

---------------------------------------------------------------------------
\* The planned name may be taken by a file this download did not write.
Foreign == File(<<Garbage>>, 1)

Init ==
  /\ remote \in Versions
  /\ partial = NoFile
  /\ output \in {[name \in Names |-> IF name < taken THEN Foreign ELSE NoFile] : taken \in 0..1}
  /\ saved = NoState
  /\ job \in [status: {"queued"}, total: {NoTotal}, policy: Policies, name: {0}]
  /\ pc = "idle"
  /\ body = NoBody
  /\ written = 0
  /\ after = "stream"
  /\ stop = "none"

\* What an attempt does once begun, short of reading the network.
Proceeds ==
  \/ CommitDownloading
  \/ StopBeforeStaging \/ CreatePartial \/ Initialize \/ OpenPartial
  \/ NoticeStop
  \/ Sync \/ SaveCheckpoint
  \/ CommitFinalizing \/ PublishByRename \/ PublishByLink \/ PublishFails \/ CleanUp
  \/ Record

Next ==
  \/ PrepareFresh \/ PrepareResumed \/ PrepareRefused
  \/ \E status \in {"retryable", "failed"} : PrepareFails(status) \/ BodyFails(status)
  \/ Proceeds
  \/ StagingFails \/ CheckpointFails
  \/ Receive \/ WriteFails \/ EndOfBody
  \/ \E kind \in {"pause", "cancel"} : RequestStop(kind)
  \/ Pause \/ Cancel \/ Retry \/ Resume
  \/ RestartRemove \/ RestartClear \/ RestartReset \/ RestartFails
  \/ RemoteChanges \/ ProcessExit \/ PowerLoss

Spec == Init /\ [][Next]_vars

\* Local steps of a running attempt are taken; the network promises nothing.
FairSpec == Spec /\ WF_vars(Proceeds)

---------------------------------------------------------------------------
(* Properties. *)

FileType(f) ==
  \/ f = NoFile
  \/ /\ f.data \in Seq(Versions \cup {Garbage})
     /\ f.synced \in 0..Len(f.data)

\* Every variable keeps its type; of a file at most what was written is synced.
TypeOK ==
  /\ remote \in Versions
  /\ FileType(partial) /\ \A name \in Names : FileType(output[name])
  /\ saved = NoState \/ (saved.tag \in Tagged /\ saved.durable \in 0..Size[saved.tag])
  /\ job.status \in Statuses
  /\ job.total \in {NoTotal} \cup {Size[v] : v \in Sized}
  /\ body = NoBody \/ body.version \in Versions
  /\ written \in Nat
  /\ stop \in {"none", "pause", "cancel"}

\* What the database calls durable is on the platter, is of the version the
\* saved tag names, and belongs to a record of that size: so it survives any
\* power loss, and resuming from it cannot mix two versions.
DurablePrefix ==
  saved # NoState /\ partial # NoFile =>
    /\ saved.durable <= partial.synced
    /\ \A i \in 1..saved.durable : partial.data[i] = saved.tag
    /\ job.total = Size[saved.tag]

\* Bytes being staged are the first ones of the body's own version, whatever an
\* earlier attempt, an earlier process or a power loss left in the file.
StagedIsOneVersion ==
  pc \in {"stream", "sync", "save", "staged", "publish"} =>
    partial.data = [i \in 1..written |-> body.version]

\* A completed download is one whole version of the resource, and on the
\* platter; only a body without a length may have been cut short unnoticed.
OutputIsOneVersion ==
  job.status = "completed" =>
    LET file == output[job.name] IN
    \E v \in Versions :
      /\ \/ file.data = Whole(v)
         \/ v \notin Sized /\ \A i \in 1..Len(file.data) : file.data[i] = v
      /\ file.synced = Len(file.data)

\* A stop is recorded at the bytes the next attempt will start from.
StoppedWhereSaved ==
  pc = "record" /\ after = "paused" /\ saved # NoState => written = saved.durable

\* What the database and the record say of a prefix is so: a resume appends to
\* the bytes that are there (partial.rs:454, 574).
ResumeIsSafe == DurablePrefix /\ StoppedWhereSaved

\* No file, staged or put in place, mixes two versions (client.rs:160,
\* partial.rs:317).
FilesAreOneVersion == StagedIsOneVersion /\ OutputIsOneVersion

\* A fresh attempt never finds a partial file of its own earlier attempts: each
\* way to be queued without a saved state has removed it.
NoLeftoverBlocksAttempt ==
  pc = "stage" /\ saved = NoState => partial = NoFile

\* A requested stop ends the attempt, whichever step it was at.
StopAnswered == stop # "none" ~> pc = "idle"
=============================================================================
