---------------------------- MODULE StreamTransfer ----------------------------
(***************************************************************************)
(* One segmented download (crates/gunda-stream/src/executor.rs): the       *)
(* segments of one or two tracks appended to staging files, a checkpoint   *)
(* of whole segments kept in the database                                  *)
(* (crates/gunda-storage/src/stream_resume.rs), two tracks muxed into the  *)
(* partial file, publication under the final name, and the reset that      *)
(* precedes a restart from zero.                                           *)
(*                                                                         *)
(* A byte is modelled by the version of the presentation, the track and    *)
(* the segment it came from.  The presentation may change, the process may *)
(* exit and the machine may lose power at any step.  The download manager  *)
(* appears as the order in which it drives the executor.                   *)
(*                                                                         *)
(* External, as the code relies on them: a response body tells its end     *)
(* from a broken connection; directory entries and committed transactions  *)
(* survive a power loss; nothing else writes the staging files.            *)
(***************************************************************************)
EXTENDS Integers, SequencesExt

CONSTANTS
  Versions,    \* of the presentation
  Fingerprint,       \* Fingerprint[v]: the fingerprint of the plan of version v
  Segments,    \* Segments[v][t][s]: the bytes of segment s of track t
  Declared,    \* versions whose manifest declares every length
  Estimate,    \* Estimate[v]: the size derived from the bandwidth, or NoTotal
  Policies,    \* conflict policies a download may have
  Garbage,     \* a byte that was lost with the power
  MaxNames     \* bound on the names tried for the output, 1000 in the code

\* Plans with one fingerprint have the same tracks and segments.
ASSUME PresentationAssumption ==
  /\ \A v \in Versions : Segments[v] \in Seq(Seq(Nat)) /\ Len(Segments[v]) \in 1..2
  /\ \A v, w \in Versions : Fingerprint[v] = Fingerprint[w] =>
       /\ Len(Segments[v]) = Len(Segments[w])
       /\ \A t \in 1..Len(Segments[v]) : Len(Segments[v][t]) = Len(Segments[w][t])
  /\ Policies \subseteq {"fail", "rename", "overwrite"}
  /\ MaxNames \in Nat \ {0}

NoFile == [kind |-> "none"]
File(data, synced) == [kind |-> "file", data |-> data, synced |-> synced]
NoState == [kind |-> "none"]
State(print, tracks) == [kind |-> "state", print |-> print, tracks |-> tracks]
NoBody == [kind |-> "none"]
NoTotal == 0
Start == [next |-> 0, durable |-> 0]

\* Candidate names of the output: the planned one, then the numbered ones.
Names == 0..(MaxNames - 1)
Staging == {"part", "video", "audio"}

VARIABLES
  remote,    \* the version the server has now
  staging,   \* the staging files: their bytes, and how many are on the platter
  output,    \* the file under each candidate name
  linked,    \* the output names that are hard links of the partial file
  saved,     \* stream_resume_state and stream_resume_tracks
  job,       \* the record: its status, total, conflict policy and output name
  pc,        \* where the attempt is, or "idle"; a restart's reset counts as one
  attempt,   \* the plan and the position in it
  after,     \* where a checkpoint leads
  stop       \* the stop requested of the attempt

files == <<staging, output, linked>>
vars == <<remote, files, saved, job, pc, attempt, after, stop>>

Statuses == {"queued", "active", "paused", "interrupted", "retryable", "failed",
             "cancelled", "completed"}

---------------------------------------------------------------------------
Tracks(v) == 1..Len(Segments[v])

Size(v) == SumFunction([t \in Tracks(v) |-> SumFunction(Segments[v][t])])

\* staged_path: a presentation of one track is staged in the partial file.
Path(count, track) ==
  IF count = 1 THEN "part" ELSE IF track = 1 THEN "video" ELSE "audio"

Paths(count) == {Path(count, track) : track \in 1..count}

Here == Path(Len(Segments[attempt.plan]), attempt.track)
Planned == Len(Segments[attempt.plan][attempt.track])
Written == attempt.base + attempt.written

StartingBytes(state) ==
  SumFunction([t \in DOMAIN state.tracks |-> state.tracks[t].durable])

\* measure: the declared size, or what the probes add up to, or an estimate.
Totals(v) ==
  {[bytes |-> Size(v), estimated |-> FALSE]} \cup
  IF v \in Declared THEN {}
  ELSE {[bytes |-> Estimate[v], estimated |-> Estimate[v] # NoTotal]}

NoAttempt == [kind |-> "none"]
Attempt(plan, total) ==
  [kind |-> "attempt", plan |-> plan, total |-> total, track |-> 1, base |-> 0,
   next |-> 0, written |-> 0, reported |-> 0, body |-> NoBody]

\* The file holds the bytes a checkpoint counts.
Covers(file, durable) == IF file = NoFile THEN durable = 0 ELSE Len(file.data) >= durable

Goto(label) == pc' = label

\* The attempt ends with this status, which the manager then records.
Ends(status) == pc' = "record" /\ after' = status

Stopped == Ends(IF stop = "pause" THEN "paused" ELSE "cancelled")

\* More was reported than the size that was measured.
Overrun ==
  /\ attempt.total.bytes # NoTotal
  /\ ~attempt.total.estimated
  /\ attempt.reported > attempt.total.bytes

\* The manager's checks end the execution with nothing recorded.
Stuck == pc' = "stuck" /\ UNCHANGED after

Checkpoint(then) == pc' = "sync" /\ after' = then

\* A staging file is written through every name that links to it.
Stage(path, file) ==
  /\ staging' = [staging EXCEPT ![path] = file]
  /\ output' = IF path = "part"
                 THEN [n \in Names |-> IF n \in linked THEN file ELSE output[n]]
                 ELSE output
  /\ UNCHANGED linked

Truncated(file, length) == File(SubSeq(file.data, 1, length), length)

Unstage(paths) ==
  /\ staging' = [p \in Staging |-> IF p \in paths THEN NoFile ELSE staging[p]]
  /\ linked' = IF "part" \in paths THEN {} ELSE linked
  /\ UNCHANGED output

---------------------------------------------------------------------------
(* Preparation. *)

\* The manifest is fetched and planned, the segments are measured.
Plan ==
  /\ pc = "idle"
  /\ job.status = "queued"
  /\ job' = [job EXCEPT !.status = "active"]
  /\ \E total \in Totals(remote) : attempt' = Attempt(remote, total)
  /\ Goto("planned")
  /\ UNCHANGED <<remote, files, saved, after, stop>>

PlanFails(status) ==
  /\ pc = "planned"
  /\ stop = "none"
  /\ Ends(status)
  /\ UNCHANGED <<remote, files, saved, job, attempt, stop>>

\* A stop drops the preparation.
StopPreparing ==
  /\ pc = "planned"
  /\ stop # "none"
  /\ Stopped
  /\ UNCHANGED <<remote, files, saved, job, attempt, stop>>

\* The saved checkpoint belongs to another presentation.
Mismatch ==
  saved # NoState /\ saved.print # Fingerprint[attempt.plan]

\* The size measured now is not the one on record, or less than what is saved.
SizeRefused ==
  /\ ~attempt.total.estimated
  /\ attempt.total.bytes # NoTotal
  /\ \/ job.total \notin {NoTotal, attempt.total.bytes}
     \/ saved # NoState /\ StartingBytes(saved) > attempt.total.bytes

\* A fresh checkpoint is stored before the sizes are compared.
OpenState ==
  /\ pc = "planned"
  /\ saved' = IF saved # NoState THEN saved
              ELSE State(Fingerprint[attempt.plan], [t \in Tracks(attempt.plan) |-> Start])
  /\ IF Mismatch \/ SizeRefused THEN Ends("failed")
                                ELSE Goto("prepared") /\ UNCHANGED after
  /\ UNCHANGED <<remote, files, job, attempt, stop>>

\* The manager persists the total, before anything is staged.  Saved bytes above
\* the total, which an estimate may be, end the execution with nothing recorded.
CommitDownloading ==
  /\ pc = "prepared"
  /\ IF attempt.total.bytes # NoTotal /\ StartingBytes(saved) > attempt.total.bytes
       THEN Stuck /\ UNCHANGED job
       ELSE /\ job' = [job EXCEPT !.total = attempt.total.bytes]
            /\ IF stop # "none" THEN Stopped ELSE Goto("open") /\ UNCHANGED after
  /\ UNCHANGED <<remote, files, saved, attempt, stop>>

---------------------------------------------------------------------------
(* The segments of a track. *)

Saved == saved.tracks[attempt.track]

\* Mutant: bytes past the checkpoint are kept.
OpenTrack_Keeps ==
  /\ pc = "open"
  /\ attempt' = [attempt EXCEPT !.next = Saved.next, !.written = Saved.durable]
  /\ IF staging[Here] = NoFile
       THEN Saved.durable = 0 /\ Stage(Here, File(<<>>, 0))
       ELSE UNCHANGED files
  /\ Goto("segment")
  /\ UNCHANGED <<remote, saved, job, after, stop>>

\* open_track: bytes past the checkpoint are dropped before more are appended.
OpenTrack ==
  /\ pc = "open"
  /\ attempt' = [attempt EXCEPT !.next = Saved.next, !.written = Saved.durable]
  /\ LET file == staging[Here] IN
       \/ /\ file = NoFile /\ Saved.durable = 0
          /\ Stage(Here, File(<<>>, 0))
       \/ /\ file # NoFile /\ Len(file.data) > Saved.durable
          /\ Stage(Here, Truncated(file, Saved.durable))
       \/ /\ file # NoFile /\ Len(file.data) = Saved.durable
          /\ UNCHANGED files
  /\ Goto("segment")
  /\ UNCHANGED <<remote, saved, job, after, stop>>

\* The file is missing, or short of the checkpoint: an integrity failure.
OpenRefused ==
  /\ pc = "open"
  /\ ~Covers(staging[Here], Saved.durable)
  /\ Ends("failed")
  /\ UNCHANGED <<remote, files, saved, job, attempt, stop>>

OpenFails(status) ==
  /\ pc = "open"
  /\ Covers(staging[Here], Saved.durable)
  /\ Ends(status)
  /\ UNCHANGED <<remote, files, saved, job, attempt, stop>>

StopBetweenSegments ==
  /\ pc = "segment"
  /\ attempt.next < Planned
  /\ stop # "none"
  /\ Checkpoint("stopped")
  /\ UNCHANGED <<remote, files, saved, job, attempt, stop>>

\* The server sends what it has under the planned address.
OpenSegment ==
  /\ pc = "segment"
  /\ attempt.next < Planned
  /\ stop = "none"
  /\ LET version == IF Fingerprint[remote] = Fingerprint[attempt.plan] THEN remote ELSE attempt.plan IN
       attempt' = [attempt EXCEPT !.body =
         [kind |-> "body", version |-> version, start |-> attempt.written,
          left |-> Segments[version][attempt.track][attempt.next + 1]]]
  /\ Goto("body")
  /\ UNCHANGED <<remote, files, saved, job, after, stop>>

\* Nothing is checkpointed when a segment cannot be opened.
SegmentFails(status) ==
  /\ pc = "segment"
  /\ attempt.next < Planned
  /\ stop = "none"
  /\ Ends(status)
  /\ UNCHANGED <<remote, files, saved, job, attempt, stop>>

Byte == <<attempt.body.version, attempt.track, attempt.next + 1>>

Appended == [staging[Here] EXCEPT !.data = Append(@, Byte)]

\* A stop is noticed before a chunk that is ready with it.
Receive ==
  /\ pc = "body"
  /\ stop = "none"
  /\ attempt.body.left > 0
  /\ Stage(Here, Appended)
  /\ attempt' = [attempt EXCEPT !.written = @ + 1, !.reported = Written + 1,
                               !.body.left = @ - 1]
  /\ UNCHANGED <<remote, saved, job, pc, after, stop>>

\* The stop or the failure is followed by a truncation and a checkpoint.
Abandon(then) == pc' = "truncate" /\ after' = then

NoticeStop ==
  /\ pc = "body"
  /\ stop # "none"
  /\ Abandon("stopped")
  /\ UNCHANGED <<remote, files, saved, job, attempt, stop>>

BodyFails(status) ==
  /\ pc = "body"
  /\ stop = "none"
  /\ Abandon(status)
  /\ UNCHANGED <<remote, files, saved, job, attempt, stop>>

\* The file may hold part of a chunk that was not accepted.
WriteFails(status) ==
  /\ pc = "body"
  /\ attempt.body.left > 0
  /\ \/ Stage(Here, Appended)
     \/ UNCHANGED files
  /\ Abandon(status)
  /\ UNCHANGED <<remote, saved, job, attempt, stop>>

\* A checkpoint is due at the end of the track, and now and then before it.
EndOfSegment ==
  /\ pc = "body"
  /\ stop = "none"
  /\ attempt.body.left = 0
  /\ attempt' = [attempt EXCEPT !.next = @ + 1, !.body = NoBody]
  /\ \/ Checkpoint("segment")
     \/ attempt.next + 1 < Planned /\ Goto("segment") /\ UNCHANGED after
  /\ UNCHANGED <<remote, files, saved, job, stop>>

EndOfTrack ==
  /\ pc = "segment"
  /\ attempt.next = Planned
  /\ Checkpoint("tracked")
  /\ UNCHANGED <<remote, files, saved, job, attempt, stop>>

---------------------------------------------------------------------------
(* Checkpoints: the file first, then the database. *)

\* The bytes of a segment that did not end are dropped.
Truncate ==
  /\ pc = "truncate"
  /\ Stage(Here, Truncated(staging[Here], attempt.body.start))
  /\ attempt' = [attempt EXCEPT !.written = attempt.body.start, !.body = NoBody]
  /\ Goto("sync")
  /\ UNCHANGED <<remote, saved, job, after, stop>>

\* Mutant: the file is left to the system.
Sync_Skipped ==
  /\ pc = "sync"
  /\ Goto("save")
  /\ UNCHANGED <<remote, files, saved, job, attempt, after, stop>>

Sync ==
  /\ pc = "sync"
  /\ Stage(Here, [staging[Here] EXCEPT !.synced = Len(staging[Here].data)])
  /\ Goto("save")
  /\ UNCHANGED <<remote, saved, job, attempt, after, stop>>

\* What follows the checkpoint at the end of a track: the next one, or the mux.
TrackDone ==
  IF attempt.track < Len(Segments[attempt.plan])
    THEN /\ attempt' = [attempt EXCEPT !.track = @ + 1, !.base = Written,
                                       !.next = 0, !.written = 0]
         /\ Goto("open")
    ELSE /\ Goto(IF Len(Segments[attempt.plan]) = 1 THEN "staged" ELSE "mux")
         /\ UNCHANGED attempt

\* Where a saved checkpoint leads; a cancelled transfer removes its staging.
CheckpointDone ==
  \/ after = "segment" /\ Goto("segment") /\ UNCHANGED <<attempt, after>>
  \/ after = "tracked" /\ TrackDone /\ UNCHANGED after
  \/ after = "stopped" /\ Goto(IF stop = "cancel" THEN "remove" ELSE "stopped")
                       /\ UNCHANGED <<attempt, after>>
  \/ after \in Statuses /\ Ends(after) /\ UNCHANGED attempt

\* A checkpoint never moves backwards.
SaveCheckpoint ==
  /\ pc = "save"
  /\ attempt.next >= Saved.next /\ attempt.written >= Saved.durable
  /\ saved' = [saved EXCEPT !.tracks[attempt.track] =
                 [next |-> attempt.next, durable |-> attempt.written]]
  /\ CheckpointDone
  /\ UNCHANGED <<remote, files, job, stop>>

CheckpointFails(status) ==
  /\ pc \in {"truncate", "sync", "save"}
  /\ Ends(status)
  /\ UNCHANGED <<remote, files, saved, job, attempt, stop>>

\* cleanup_staging: what cannot be removed is left.
CleanUpRemove ==
  /\ pc = "remove"
  /\ \E paths \in SUBSET Paths(Len(Segments[attempt.plan])) : Unstage(paths)
  /\ Goto("forget")
  /\ UNCHANGED <<remote, saved, job, attempt, after, stop>>

CleanUpForget ==
  /\ pc = "forget"
  /\ saved' \in {NoState, saved}
  /\ Goto("stopped")
  /\ UNCHANGED <<remote, files, job, attempt, after, stop>>

\* The manager asks again which stop it was.
ReportStop ==
  /\ pc = "stopped"
  /\ Stopped
  /\ UNCHANGED <<remote, files, saved, job, attempt, stop>>

---------------------------------------------------------------------------
(* Two tracks are muxed into the partial file, which is created anew. *)

MuxCreate ==
  /\ pc = "mux"
  /\ Stage("part", File(<<>>, 0))
  /\ Goto("muxing")
  /\ UNCHANGED <<remote, saved, job, attempt, after, stop>>

\* The samples of one track follow those of the other.
Muxed == staging["video"].data \o staging["audio"].data

MuxWrite ==
  /\ pc = "muxing"
  /\ Stage("part", File(Muxed, Len(Muxed)))
  /\ Goto("staged")
  /\ UNCHANGED <<remote, saved, job, attempt, after, stop>>

MuxFails(status) ==
  /\ pc \in {"mux", "muxing"}
  /\ Ends(status)
  /\ UNCHANGED <<remote, files, saved, job, attempt, stop>>

---------------------------------------------------------------------------
(* Publication. *)

\* The manager compares the size, looks at the stop and commits Finalizing.  Of
\* an estimated total what was fetched takes the place.
CommitFinalizing ==
  /\ pc = "staged"
  /\ ~Overrun
  /\ IF attempt.total.bytes \notin {NoTotal, Written} /\ ~attempt.total.estimated
       THEN Stuck /\ UNCHANGED job
     ELSE IF stop # "none" THEN Stopped /\ UNCHANGED job
     ELSE /\ Goto("publish")
          /\ job' = [job EXCEPT !.total = IF attempt.total.estimated THEN Written ELSE @]
          /\ UNCHANGED after
  /\ UNCHANGED <<remote, files, saved, attempt, stop>>

PublishByRename ==
  /\ pc = "publish"
  /\ job.policy = "overwrite"
  /\ output' = [output EXCEPT ![0] = staging["part"]]
  /\ staging' = [staging EXCEPT !["part"] = NoFile]
  /\ Goto("clear")
  /\ UNCHANGED <<remote, linked, saved, job, attempt, after, stop>>

\* Under the first free name, or the planned one only.
PublishByLink ==
  /\ pc = "publish"
  /\ job.policy # "overwrite"
  /\ \E name \in Names :
       /\ output[name] = NoFile
       /\ \A earlier \in 0..(name - 1) : output[earlier] # NoFile
       /\ job.policy = "fail" => name = 0
       /\ output' = [output EXCEPT ![name] = staging["part"]]
       /\ linked' = linked \cup {name}
       /\ job' = [job EXCEPT !.name = name]
  /\ Goto("unlink")
  /\ UNCHANGED <<remote, staging, saved, attempt, after, stop>>

\* Every name the policy allows is taken.
PublishRefused ==
  /\ pc = "publish"
  /\ job.policy # "overwrite"
  /\ output[0] # NoFile
  /\ job.policy = "rename" => \A name \in Names : output[name] # NoFile
  /\ Ends("failed")
  /\ UNCHANGED <<remote, files, saved, job, attempt, stop>>

PublishFails(status) ==
  /\ pc = "publish"
  /\ Ends(status)
  /\ UNCHANGED <<remote, files, saved, job, attempt, stop>>

\* Failing to remove the staging name is not a failed publication.
Unlink ==
  /\ pc = "unlink"
  /\ \E paths \in SUBSET {"part"} : Unstage(paths)
  /\ Goto("clear")
  /\ UNCHANGED <<remote, saved, job, attempt, after, stop>>

\* Neither is failing to clear the checkpoint or to remove the tracks.
ClearState ==
  /\ pc = "clear"
  /\ saved' \in {NoState, saved}
  /\ Goto("discard")
  /\ UNCHANGED <<remote, files, job, attempt, after, stop>>

DiscardTracks ==
  /\ pc = "discard"
  /\ \E paths \in SUBSET {"video", "audio"} : Unstage(paths)
  /\ Ends("completed")
  /\ UNCHANGED <<remote, saved, job, attempt, stop>>

\* The manager records how the attempt ended.
AttemptEnds ==
  /\ Goto("idle")
  /\ attempt' = NoAttempt
  /\ after' = "segment"
  /\ stop' = "none"

\* An estimated total grows to the bytes on record.
Record ==
  /\ pc = "record"
  /\ ~Overrun
  /\ LET bytes == IF after \in {"paused", "cancelled"} THEN Written ELSE attempt.reported IN
       job' = [job EXCEPT !.status = after,
                 !.total = IF attempt.total.estimated /\ @ < bytes THEN bytes ELSE @]
  /\ AttemptEnds
  /\ UNCHANGED <<remote, files, saved>>

\* The manager's own checkpoint, or its look at the result, finds the overrun.
DropOverrun ==
  /\ pc \notin {"idle", "stuck", "wipe", "reset"}
  /\ Overrun
  /\ Stuck
  /\ UNCHANGED <<remote, files, saved, job, attempt, stop>>

---------------------------------------------------------------------------
(* Commands. *)

\* A stop handle may support pausing from the first: automatic retries reuse it.
RequestStop(kind) ==
  /\ pc \notin {"idle", "record", "stuck", "wipe", "reset"}
  /\ stop # "cancel" /\ stop # kind
  /\ stop' = kind
  /\ UNCHANGED <<remote, files, saved, job, pc, attempt, after>>

\* StreamExecutor::can_resume
CanResume ==
  /\ job.status \in {"paused", "interrupted"}
  /\ saved # NoState
  /\ \A t \in DOMAIN saved.tracks :
       Covers(staging[Path(Len(saved.tracks), t)], saved.tracks[t].durable)

WhenIdle(from, to) ==
  /\ pc = "idle"
  /\ job.status \in from
  /\ job' = [job EXCEPT !.status = to]
  /\ UNCHANGED <<remote, files, saved, pc, attempt, after, stop>>

Pause  == WhenIdle({"queued"}, "paused")
Cancel == WhenIdle({"queued", "paused"}, "cancelled")
Retry  == WhenIdle({"retryable"}, "queued")
Resume == CanResume /\ WhenIdle({"paused", "interrupted"}, "queued")

\* reset_for_restart: without a checkpoint both track files are candidates.  Every
\* status a record has while no attempt runs can be restarted from.
RestartRemove ==
  /\ pc = "idle"
  /\ Unstage({"part"} \cup IF saved = NoState \/ Len(saved.tracks) > 1
                            THEN {"video", "audio"} ELSE {})
  /\ Goto("wipe")
  /\ UNCHANGED <<remote, saved, job, attempt, after, stop>>

\* Removal stops at the first file that cannot be removed.
RestartRemoveFails ==
  /\ pc = "idle"
  /\ \E paths \in {{"part"}, {"part", "video"}} : Unstage(paths)
  /\ UNCHANGED <<remote, saved, job, pc, attempt, after, stop>>

RestartForget ==
  /\ pc = "wipe"
  /\ saved' = NoState
  /\ Goto("reset")
  /\ UNCHANGED <<remote, files, job, attempt, after, stop>>

RestartReset ==
  /\ pc = "reset"
  /\ job' = [job EXCEPT !.status = "queued", !.total = NoTotal]
  /\ Goto("idle")
  /\ UNCHANGED <<remote, files, saved, attempt, after, stop>>

RestartFails ==
  /\ pc \in {"wipe", "reset"}
  /\ Goto("idle")
  /\ UNCHANGED <<remote, files, saved, job, attempt, after, stop>>

---------------------------------------------------------------------------
(* The environment. *)

RemoteChanges ==
  /\ remote' \in Versions \ {remote}
  /\ UNCHANGED <<files, saved, job, pc, attempt, after, stop>>

\* The process ends; the next one finds an active record interrupted.
ProcessEnds ==
  /\ job' = IF job.status = "active" THEN [job EXCEPT !.status = "interrupted"] ELSE job
  /\ AttemptEnds
  /\ UNCHANGED <<remote, linked, saved>>

ProcessExit ==
  /\ pc # "idle"
  /\ ProcessEnds
  /\ UNCHANGED <<staging, output>>

\* Of a file that was not synced, any length and any bytes past the synced ones.
Survivors(file) ==
  IF file = NoFile THEN {NoFile}
  ELSE {File(SubSeq(file.data, 1, file.synced) \o [i \in 1..n |-> Garbage],
             file.synced + n) : n \in 0..(Len(file.data) - file.synced)}
       \cup {File(file.data, Len(file.data))}

\* A published file was synced before it got its name, but for one that shares
\* the bytes of a partial file being written again.
PowerLoss ==
  /\ ProcessEnds
  /\ \E part \in Survivors(staging["part"]), video \in Survivors(staging["video"]),
        audio \in Survivors(staging["audio"]) :
       /\ staging' = [part |-> part, video |-> video, audio |-> audio]
       /\ output' = [n \in Names |-> IF n \in linked THEN part ELSE output[n]]

---------------------------------------------------------------------------
\* The planned name may be taken by a file this download did not write.
Foreign == File(<<Garbage>>, 1)

Init ==
  /\ remote \in Versions
  /\ staging = [p \in Staging |-> NoFile]
  /\ output \in {[n \in Names |-> IF n < taken THEN Foreign ELSE NoFile] : taken \in 0..1}
  /\ linked = {}
  /\ saved = NoState
  /\ job \in [status: {"queued"}, total: {NoTotal}, policy: Policies, name: {0}]
  /\ pc = "idle"
  /\ attempt = NoAttempt
  /\ after = "segment"
  /\ stop = "none"

\* What an attempt does once begun, short of reading the network.
Proceeds ==
  \/ StopPreparing \/ OpenState \/ CommitDownloading
  \/ OpenTrack \/ OpenRefused \/ StopBetweenSegments \/ EndOfTrack \/ NoticeStop
  \/ Truncate \/ Sync \/ SaveCheckpoint
  \/ CleanUpRemove \/ CleanUpForget \/ ReportStop
  \/ MuxCreate \/ MuxWrite
  \/ CommitFinalizing \/ PublishByRename \/ PublishByLink \/ PublishRefused
  \/ Unlink \/ ClearState \/ DiscardTracks
  \/ Record \/ DropOverrun

Fails(status) ==
  \/ PlanFails(status) \/ OpenFails(status)
  \/ SegmentFails(status) \/ BodyFails(status) \/ WriteFails(status)
  \/ CheckpointFails(status) \/ MuxFails(status) \/ PublishFails(status)

Restarts ==
  \/ RestartRemove \/ RestartRemoveFails
  \/ RestartForget \/ RestartReset \/ RestartFails

Next ==
  \/ Plan \/ Proceeds
  \/ OpenSegment \/ Receive \/ EndOfSegment
  \/ \E status \in {"retryable", "failed"} : Fails(status)
  \/ \E kind \in {"pause", "cancel"} : RequestStop(kind)
  \/ Pause \/ Cancel \/ Retry \/ Resume
  \/ Restarts
  \/ RemoteChanges \/ ProcessExit \/ PowerLoss

Spec == Init /\ [][Next]_vars

\* Local steps of a running attempt are taken; the network promises nothing.
FairSpec == Spec /\ WF_vars(Proceeds)

---------------------------------------------------------------------------
(* Properties. *)

\* The first count segments of a track, each as some version had it.
WholeSegments(print, track, count) ==
  {FlattenSeq([s \in 1..count |->
     [i \in 1..Segments[versions[s]][track][s] |-> <<versions[s], track, s>>]]) :
   versions \in [1..count -> {v \in Versions : Fingerprint[v] = print}]}

\* All the segments of a presentation of this shape, one track after the other.
WholePresentations(v) ==
  {FlattenSeq([t \in Tracks(v) |-> tracks[t]]) :
   tracks \in {f \in [Tracks(v) -> UNION {WholeSegments(Fingerprint[v], t, Len(Segments[v][t])) :
                                           t \in Tracks(v)}] :
                 \A t \in Tracks(v) :
                   f[t] \in WholeSegments(Fingerprint[v], t, Len(Segments[v][t]))}}

FileType(f) ==
  f = NoFile \/ (f.synced \in 0..Len(f.data))

\* Every variable keeps its type; of a file at most what was written is synced.
TypeOK ==
  /\ remote \in Versions
  /\ \A p \in Staging : FileType(staging[p])
  /\ \A n \in Names : FileType(output[n])
  /\ \A n \in linked : output[n] = staging["part"]
  /\ saved = NoState \/ Len(saved.tracks) \in 1..2
  /\ job.status \in Statuses
  /\ attempt = NoAttempt \/ attempt.track \in Tracks(attempt.plan)
  /\ stop \in {"none", "pause", "cancel"}

\* A checkpoint counts whole segments of the saved plan, once and in order, and
\* the bytes it counts are on the platter: so they survive any power loss, and a
\* resumed track continues at a boundary of segments.
CheckpointIsWholeSegments ==
  saved # NoState =>
    \A t \in DOMAIN saved.tracks :
      LET file == staging[Path(Len(saved.tracks), t)] IN
      file # NoFile /\ pc # "wipe" =>
        /\ saved.tracks[t].durable <= file.synced
        /\ SubSeq(file.data, 1, saved.tracks[t].durable) \in
             WholeSegments(saved.print, t, saved.tracks[t].next)

\* The audio is begun when the video is whole, also across pauses, failures and
\* crashes: the count of fetched bytes is a sum over the tracks because of it.
TracksInOrder ==
  saved # NoState /\ Len(saved.tracks) = 2 /\ saved.tracks[2].next > 0 =>
    \E v \in Versions : Fingerprint[v] = saved.print /\ saved.tracks[1].next = Len(Segments[v][1])

\* What is published is every segment of every track, once and in order, however
\* many attempts fetched them, and it is on the platter.
CompletedIsWhole ==
  job.status = "completed" =>
    LET file == output[job.name] IN
    /\ \E v \in Versions : file.data \in WholePresentations(v)
    /\ file.synced = Len(file.data)

\* A pause is reported at the bytes the next attempt starts from, and what that
\* attempt needs of the staging is there.
PausedWhereSaved ==
  pc = "stopped" /\ stop = "pause" /\ saved # NoState =>
    /\ Written = StartingBytes(saved)
    /\ \A t \in DOMAIN saved.tracks :
         Covers(staging[Path(Len(saved.tracks), t)], saved.tracks[t].durable)

\* A restart from zero leaves nothing of the earlier attempts in the staging,
\* whatever number of tracks they had and however their own clean-up went.
RestartLeavesNothing ==
  pc = "reset" => saved = NoState /\ \A p \in Staging : staging[p] = NoFile

\* An attempt starts from what the earlier ones left, all of it or nothing of it
\* (executor.rs:157, 312, 737, 862, 1026).
AttemptsStartSafely ==
  /\ CheckpointIsWholeSegments
  /\ TracksInOrder
  /\ PausedWhereSaved
  /\ RestartLeavesNothing

---------------------------------------------------------------------------
(* What the documentation says and the code does not do. *)

\* docs/design/persistence-and-recovery.md: incomplete data is never written over
\* an existing final file, here one this download has published itself.
OutputNeverRewritten ==
  [][\A n \in Names :
       output[n] # NoFile /\ job.policy # "overwrite" => output'[n] = output[n]]_vars

\* docs/design/media-capture.md: an estimate is replaced by what is measured, so
\* the same presentation is refused for its size only when it had another one.
EstimateGivesWay ==
  [][OpenState /\ pc' = "record" /\ ~Mismatch =>
       \E v \in Versions : /\ Fingerprint[v] = saved.print
                           /\ Size(v) = job.total]_vars
=============================================================================
