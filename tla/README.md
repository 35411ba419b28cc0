# A verification development for gunda

gunda is a download manager: a daemon (`gundad`) that owns the downloads, a
desktop application and a browser extension that send it commands, and engines
that fetch plain files over HTTP and segmented media over HLS and DASH. This
directory holds TLA+ models of these parts, the TLC runs that check them on small
instances and proofs, checked by TLAPS, of what holds for every instance. Paths
below are relative to the repository; `manager.rs` alone means
`crates/gunda-core/src/application/manager.rs`.

    tlc -config manager_one.cfg MCDownloadManager.tla      # one run
    tlapm DownloadManagerProofs.tla                        # one module of proofs

`PROJECT.json` lists the components, the runs, the source lines each definition
models, the hazards and the properties aimed at them.

## The system

    browser page -> extension -> capture server -\
                 native host  -> endpoint file     >  gundad loop -> workers
    desktop UI   -> daemon client -> IPC ---------/        |            |
                                                   DownloadManager   executor
                                                           |        (http, stream)
                                                        SQLite  <---- resume stores,
                                                                      staging files

| Component | State | Operations | What makes it correct |
|---|---|---|---|
| Download record (`gunda-core/src/download`) | state, progress, failure, resource, destination | transition, progress, failure, restart | only legal transitions; bytes never exceed a known total |
| Download manager (`manager.rs`) | registry of records, write lock | start with recovery, create, pause, resume, retry, restart, cancel, execute, confirm a published output | registry and repository agree; no lost update; Completed means published; a stop wins; recovery is exact |
| Execution contract (`execution.rs`, `download_cancellation.rs`, `transfer_progress.rs`) | the stop handle, a watch of reported bytes | request a pause or cancel, prepare, transfer, finalize | the manager holds whatever an executor reports |
| Daemon loop (`apps/gundad/src/lib.rs`) | active jobs, pending outputs, pending engines, notice | commands, worker events, scheduling, snapshots | slots match workers; nothing runnable waits; callers of one download are serialised |
| HTTP engine (`gunda-http`) | staging file, resume checkpoint | prepare fresh or resumed, stream to the staging file, checkpoint, publish | no mixed versions; a durable count is backed by durable bytes; a stop keeps what it reports |
| Repository and resume stores (`gunda-storage`) | SQLite tables, one connection | create, list, find, save, migrate; resume state | a call is atomic; what was returned reads back; no stored row blocks the others |
| Runtime lease and endpoint (`runtime_lease.rs`, `gunda-ipc`) | lock file, endpoint file, token | acquire, publish, connect, spawn | one daemon per data directory; a client ends up with a live one |
| Daemon protocol (`gunda-ipc`, `serve_client`) | a connection, the watch of snapshots | greeting, command, snapshot | no command lost or half read |
| Stream engine (`gunda-stream`) | segment plan, segment directory, resume state | inspect, plan, fetch segments, mux | segments used once and in order, a resume takes only whole segments |
| Manifests, plans and containers (`hls.rs`, `dash.rs`, `plan.rs`, `ts.rs`, `mux.rs`, `xml.rs`) | none: functions of their input | parse, plan, choose, demux, mux | each segment has the address, interval, key state and duration its tags say; samples keep their bytes, times and order |
| Capture (`gunda-capture`, the capture part of the daemon) | catalog of candidates, connections, published view, inspection sequence | report, list, formats, download, status, inspect, dismiss | the catalog is bounded, an answer goes to its question, an old inspection is dropped |
| Desktop (`apps/desktop`) | view of snapshots, client thread | commands, reconnect, start a daemon | a daemon is found or started; the view converges |
| Native host (`native_host.rs`) | none kept | look for a daemon, start one, hand out address and token | what it hands out works |
| Extension (`apps/extension`) | socket, held reports, browser downloads taken over | report, take over, Start, Cancel, restore, forget | a download is never with neither the browser nor the daemon; a held report is sent |

What is hard: executions, commands, stop requests and checkpoints interleave on
one registry with a lock that covers only the commit; a save can fail at any
point of an execution; the process can end between any two steps, and files and
rows then disagree; automatic retries reuse a stop handle; a resource can change
between two attempts; estimated totals are exceeded; daemons come and go under the
files that announce them; answers cross tasks through channels with room for one;
the browser may end the extension's worker at any await. The full list, each entry
at its line, is under `hazards` in `PROJECT.json`.

## Modules

| Module | Models |
|---|---|
| `DownloadJob` | `DownloadState`, `DownloadJob`, `DownloadProgress` as values and operators |
| `DownloadLifecycle` | the abstract specification: what the durable state of a download, and the fact that its output is published, may do |
| `DownloadManager` | the manager, any executor, the stop handle, the process |
| `DownloadManagerProofs` | theorems about `DownloadManager`: types, the registry against the repository, its promises and its refinement of `DownloadLifecycle` |
| `Daemon` | the loop of `gundad` on top of `DownloadManager` (EXTENDS it and drives its actions) |
| `HttpTransfer` | one direct download: HTTP executor, staging file, resume store, disk |
| `StreamTransfer` | one segmented download: stream executor, staging files, resume store, mux, disk |
| `DownloadStore` | the repository of records: rows, codecs, transactions, migration |
| `IpcSession` | the desktop's connections to the daemon |
| `Startup` | daemons, desktop and native host around one data directory |
| `Capture` | connections of the extension, the listener with its catalog, the capture part of the daemon's loop |
| `Extension` | the extension's background worker, its windows and the browser |
| `SegmentPlan`, `HlsPlan`, `DashPlan` | playlists and presentations, the plans and choices made of them |
| `TsDemux`, `Mp4Mux` | samples out of transport streams, ADTS and fragments; one file out of two tracks |
| `WebSocket`, `XmlReader` | frames into messages; lexical items into a tree |
| `Optional` | `Option` and `Result` as values |
| `DaemonProofs`, `HttpTransferProofs`, `StreamTransferProofs`, `DownloadStoreProofs`, `StartupProofs`, `CaptureProofs`, `ExtensionProofs` | theorems about the module each is named after |
| `MCDownloadManager`, `MCDaemon`, `MCHttpTransfer`, `MCStreamTransfer`, `MCDownloadStore`, `MCCapture`, `MCExtension`, `MCFormats` | instances for TLC |

`Daemon` EXTENDS `DownloadManager` and every step of the manager happens inside a
step of the daemon. `HlsPlan` and `DashPlan` extend `SegmentPlan`, and `MCFormats`
extends all the format modules. The others meet at interfaces: the executor that
`DownloadManager` leaves open is `HttpTransfer` or `StreamTransfer`; its store, an atomic save
that may fail, is what `DownloadStore` shows of the repository; the plans `StreamTransfer` takes
as constants are what `HlsPlan` and `DashPlan` produce; the daemon that `Extension` talks
to is `Capture` reduced to its order; the daemon whose start `Startup` follows is
the one `IpcSession` connects to.

### DownloadManager

`jobs` is the registry, `store` the repository, `writer` the holder of
`write_lock`. A commit is two steps, `SaveJob` and `RegisterJob` (`ClientSaves`
and `ClientRegister` for the idle commands), because the code saves, awaits, and
then registers under the lock; `SaveFails` may replace the first. Each call of
`execute` is an element of `Executions`; `exec[e]` holds its place (`pc`) and its
locals: the local copy of the job, the copy being committed (`cand`) and the
place to go on at (`then`), the announced plan, the bytes reported, how the
transfer ended.

| place | code |
|---|---|
| `start` | the look at the registry: not Queued, already stopped, or Inspecting |
| `inspect` | the select of the stop request against `executor.prepare` |
| `prepared` | the second look at the stop request, then the commit of Downloading |
| `transfer` | the loop of the transfer against the checkpoint tick, and what follows each outcome |
| `finalize`, `confirm` | the publication, then `confirm_published_output` |
| `fail` | `record_execution_failure` |
| `commit`, `saved` | the two halves of a commit |
| `done`, `requeued` | the caller's: the result, and a record put back in the queue by an automatic retry |

The transfer runs on while a checkpoint commits (`Transferring`), as the nested
select lets it. The executor is the environment: `Prepare` announces any plan of
`Plans`, `Report` and `TransferEnds` any byte count, in any order; the manager's
own comparisons decide what it accepts. `StopInspection` and `Prepare` are both
possible once a stop is requested, since the request may come just after the
biased select looked.

`request_pause` is two steps (`AskPause`, `SendPause`), because the code reads an
atomic and then sends on a watch channel. The process is `down`, `recovering` or
`up`; `Crash` ends it anywhere. The repository's rule that callers serialise
updates of a download is not in the operations; it is conjoined in `ClientStep`
and `CallerStep` (`ClientMay`, `ExecuteMay`), so that a module with real callers
has to establish it.

### Daemon

`loop` says what the single loop is doing: waiting in its select, serving a
command, or scheduling. `active` is `active_jobs` with the worker of each slot,
`pendingOutputs` is `pending_outputs`, `attempts` the counter of `execute_job`.
Commands on a download with a worker go to its handle (`PauseActive`,
`CancelActive`), the others to the manager (`IdleCommand`). `ServesManager` says
that every step of the daemon is a step of `DownloadManager`, the caller rule
included.

Resume and Restart first ask the executor (whether durable bytes exist, to
discard them); here that answer is the choice of the command, and
`HttpTransfer` models the files. `pending_engines` is left out; captures
are in `Capture`.

### HttpTransfer

One download over one staging file (`partial`), the output names tried in order
(`output`, first the planned name), the row of the resume store (`saved`) and the
job's status. A file is a sequence of bytes with the length that the last fsync
covered; `Survivors` is what a power loss leaves of it. Bytes carry the version
of the resource they came from, so a mix is visible. The actions follow
`prepare`, the opening or creation of the staging file, the loop of
`stream_to_partial` with its checkpoints (`Sync`, then `SaveCheckpoint`), and
`publish` with its three policies. `RemoteChanges`, `ProcessExit` and `PowerLoss`
may come between any two. `RestartRemove`, `RestartClear` and `RestartReset` are the
three steps of a restart.

### StreamTransfer

One segmented download over its staging files: the partial file for one track,
a file for each of two tracks and the partial file they are muxed into. `saved`
is the row of `stream_resume_state` with those of `stream_resume_tracks`,
`attempt` the plan of the running attempt and its position: the track, the
bytes of the tracks before it (`base`), the next segment, the bytes of the track
(`written`), the response body being read. A byte carries the version of the
presentation, the track and the segment it came from.

A checkpoint is three steps: `Truncate` when a segment did not end, then `Sync`,
then `SaveCheckpoint`; `after` says where the code goes on from it. A stop and a
failed read both take that way, a segment that cannot be opened does not
(`SegmentFails`), and the next attempt drops what is past the row (`OpenTrack`).
`MuxCreate` and `MuxWrite` are two steps because the muxer creates its output
before it fills it. `publish` makes a hard link and then removes the staging
name, so until `Unlink` a write to the partial file is a write to the output:
`linked` holds the names for which that is so. A restart is three steps, and its
first may stop half way.

Overruns of a measured total end the execution with nothing recorded
(`DropOverrun`, place `stuck`), as `DownloadManager` has it. Left out: the manager's
periodic saves of progress, downloads of fragments whose resume store is absent,
the temporary files of container elements. The fingerprint of a plan covers
addresses and intervals only, and a segment has no validator, so one staged
track may hold segments of several versions of one fingerprint; the properties
allow each segment its own version and no mix within a segment's bytes. A cancel of a
queued or paused download leaves the staging where it is (`Cancel`), as
`DownloadManager::cancel` documents.

### IpcSession

One desktop and the sessions `serve_client` runs for its successive connections.
A message is a line written whole and read in two parts (`Parts`): `read_until`
gathers them in a buffer of the future that reads, and both ends poll that
future in a select, so `ServerSnapshot` and `ClientCommand` forget the part read
so far (`half`). The tail that arrives then is no JSON (`ReadGarbled`, the last
disjunct of `ClientRead`) and ends the connection; the desktop opens another.
`inbox` is the command channel of the loop, `Serve` and `Publish` its answer and the
snapshot after it, `version` the value of the watch channel and `seen` what each
session has seen of it. A session whose desktop has gone may execute what was
sent before or lose it (`ServerEnd`). Left out: the greeting's deadline and
refusals, the size limit; a daemon that exits is in `Startup`.

### DownloadStore

`db` is what SQLite has committed, `work` the copy an open transaction works on and
`holder` the caller that has the pool's only connection. Each `await` of
`create`, `list`, `find` and `save` is a step, so calls of two clients interleave
statement by statement wherever the connection lets them. A call that returns
early and `Lost`, the end of the process, drop `work`. A record is taken apart into
the columns of a row (`InsertedRow`, `UpdatedRow`), checked against the schema's
constraints (`AllowedRow`), and put together again (`ToJob`); times are in half
milliseconds because the columns hold whole ones. The records a client holds
change by the operations of `DownloadJob`, so that only states the program reaches are
saved. `Migrate` opens the database of this version or of an earlier one.
`confirmed` is an observer: what `create` and `save` have said is stored.

### Startup

A slot is a process that can run as a daemon. `pc` follows `run()` of the daemon in
the order of its calls: the lease, the capture token, the capture listener and
its endpoint file, the daemon token, the socket and its endpoint file. Files are
truncated in one step and written in another, so a reader may find one empty, and
with `TornWrites` a process may end between the two. `Ended` releases what the
system releases and leaves the files. The desktop's thread (`ReadEndpoint`,
`Connect`, `GiveUp`) and one run of the native host (`HostLooks`, `HostReadsEndpoint`,
`HostReadsToken`, `HostPairs`) read the files one by one meanwhile. An address is named by the
process that listens there, except the fixed port, "preferred", which any daemon may have.

### Capture

Three kinds of task share channels only. A connection (`conn`) reads one message,
raises its questions one after the other, waits on its one-shot `reply`, and
answers. The listener owns `catalog`; it records a report, publishes the catalog
(`Publish`, a step of its own, since the daemon may read `view` before it), forwards
requests and applies the commands of the daemon. The daemon's loop answers the
forwarded requests from `view`, waits for a manifest inside the loop
(`ManifestRead`) or for room in the command channel (`Dismissed`), refuses a download that no
folder or record could be had for (`Declined`), and takes the
results of inspections with the `sequence` they were asked under. `wanted` is an
observer: the capture the user asked about last. `minted` records what each
identifier was given to.

### Extension

The worker runs alone between two awaits, so an action is a callback with the
microtasks it sets off: the events of a socket, the reconnect timer and alarm, a
report, the browser's events about a download, a window's Start and Cancel, the
timeout of a request. `chan` is the connection as the worker's variables have it, which
may not be the socket whose event comes (`sock`); `held` is the queue of reports
with the read and the writes of the session storage under way; `waiting` the
requests that wait for an answer, in order; `item` each download of the browser,
with its copies and its window. `Restart` ends the worker: its variables are
gone, the windows, the session storage and the browser's downloads stay. The
close event of a socket answers every waiting request, also when a new socket has
taken its place (`background.ts:226`); the observer `past.dropped` marks that. Two calls
of `connect` may wait for the pairing at once (`background.ts:184`, `chan.settling`
counts them); both then open a socket, and the second takes the place of the first, which
stays open and still delivers its answers. `past.dropped` marks that too, if requests wait.

### The formats

`MCFormats` grows one input piece by piece: a line of a playlist, an entry of a
timeline, an element of a presentation, a packet, a fragment, a frame, an item of a
document. In every state what the code's algorithm makes of the input is compared
with a reference that says, without the algorithm's running state, what each
piece should become. A line, an attribute or a byte is abstracted to what the
algorithms tell apart. Of playlists there are two families: lines of one media playlist, and
("kinds") one line of every tag, so that the tags of both kinds of playlist meet. `TsDemux` and `XmlReader` use recursive operators, as the code
loops over what is left of its input; nothing is proved about these modules.

## Runs

| Run | Instance | Shows |
|---|---|---|
| `manager_one` | one download, one execution at a time, totals and bytes 0 to 2, seven plans | the manager's invariants and action properties under any executor; it implements `DownloadLifecycle` |
| `daemon` | two downloads, one execution at a time, one slot, two attempts, fairness | work conservation, publications kept, the daemon respects the manager's rule, an accepted stop frees its slot |
| `daemon_two` | two downloads, two slots, one attempt | slots match workers and no update is lost with two executions at once |
| `http_transfer` | four versions of a resource: two with an entity tag, one with a size only, one of unknown size; two bytes or one; two output names | files, checkpoints and outputs over resumes, changes, exits and power loss; a stop is answered |
| `stream` | a presentation of two tracks whose size is measured or estimated, one of a single track with declared lengths, and that one with a segment grown under its address; fail and overwrite | checkpoints, staging, the order of tracks and the published file over stops, failures, changes, exits and power loss |
| `store` | two clients, two records, two changes, no database or one of the first schema | a record reads back as returned; no row blocks the store; a listing is of one moment |
| `ipc_session` | two commands, one change of the daemon's own, one exit of the desktop, six connections | no gap in the commands a connection executes; a lost command means a lost connection; the desktop comes to show the daemon's state |
| `startup` | two processes, two of them end | a daemon that serves is the one the files name; the native host hands out an address and a token that belong together and to a listener that runs; the desktop gets connected |
| `capture` | two connections, two pages, a catalog of two, three messages or orders | every question gets its own answer, in the end; the tracks shown are of the capture asked about last |
| `extension` | two downloads, or one and an order to forget, or held reports with an order and a restart; two sockets | a download is somewhere; what is forgotten stays so; a held report is sent |
| `formats` | playlists of five lines, or of four of any kind, timelines of three entries, four packets, three fragments, four frames, documents of five items | plans, choices, samples, tables, messages and trees are what the input says |
| `extension_late` | as `extension` | **violated**: a late answer resolves another request, and a download is lost |

Some properties are conjunctions of named parts that one run checks together:
`StepsKeepPromises` (an accepted stop wins, progress goes back only to the
stop position of an executor that announced it, a publication is final), `ResumeIsSafe`
and `FilesAreOneVersion` of `HttpTransfer`, `AttemptsStartSafely` of `StreamTransfer`,
`ServingIsFound` of `Startup`,
`ChoiceIsKept`, `DashSegmentsFollow` and `DemuxKeepsTheStream` of `MCFormats`. Next to the
operators that a plausible mistake would change stand their mutants, named `X_Mistake`; with one in
place of `X` the run finds its property violated.

Nine more configurations are demonstrations and not among the runs: TLC finds
each of them violated, and the counterexample is that of a known divergence below.

    tlc -config pause_race.cfg MCDownloadManager.tla

Bounds, and why they are enough. `MaxBytes` bounds byte counts: the manager only
compares counts with each other and with the total, so 0, 1 and 2 give below,
at and past for any two of them; the daemon runs take 0, since what they check
does not look at bytes. `MaxAttempts` is 3 in the code and 2 or 1 here: with 2
there is a first attempt, a retry and an exhausted one. `MaxConcurrent` is 3 in the code
and 1 or 2 here: with 1 the slots run out, with 2 workers contend. `MaxNames` is
1000 in the code and 2 here: a taken name, and the end of the names. Process
starts are not bounded. One download is enough for the manager, whose
operations touch one record and share only the write lock; `daemon_two` has two. It has as
many executions as slots, so there `SlotsMatchWorkers` is about which worker has which slot; that
there are never more workers than slots is the theorem's to say.

In `stream` a segment has one or two bytes: a byte that
was received before its segment ended is already the partial segment that a stop,
a failure or a power loss can leave, and two segments or two tracks give a boundary to
resume at. The estimate is below the real size, so what is fetched passes it. One
output name is enough there, as `http_transfer` checks the search for a free one, which
both engines share.

In `ipc_session` the queue
of the interface holds 4 in the code and 1 here, so that it fills; six
connections are one more than any behaviour of the instance opens, or
`ViewConverges` would fail for want of one.

In `store` the largest stored count is 1, below the largest a record may have, so
that a count that does not fit its column occurs; two records are what a listing
can mix and two changes what a save can follow. In `capture` the catalog keeps 2 of the code's
256 and the channels hold 1, so both fill; two connections wait at once, and three
inputs are a report, a question and one that comes between. The code's limit of
8 connections is 2. In `startup` two daemons end, so the files may be of a
process that is gone while another writes its own. `extension` has three kinds of
starts: a worker that still reads its session, with reports, an order of the options page
and a restart to come; one download and such an order; two downloads. The properties of
downloads say nothing of a worker that ended, so a download with a restart would add
states and no case. Two calls of `connect` may wait for the pairing (`MaxSettling`), which
is the least with which one replaces the other's socket, and two reports may be held (32 in the
code). Its sockets, downloads and reports are symmetric. In `formats` the bounds are of the
input's length. `U32Max` is 24, so that the payload, an offset or a duration
passes a 32-bit field with three fragments, and `MovieTimescale`, 1000 in the code, is 4 for the
same reason; media headers have both widths of a duration. A DASH presentation lasts 8
seconds, so that segments of 3 and of 4 seconds differ in number and the last one may be shorter.

`CHECK_DEADLOCK` is off in `ipc_session`, `capture`, `startup` and `extension`, where the
user's inputs or the exits run out, and in `formats`, where inputs end; elsewhere a process may
always end and start again.

Fairness (`FairDaemonSpec` in `daemon`; `FairSpec` of `HttpTransfer`, `IpcSession`, `Capture` and
`Startup`):

- the steps of the loop and of a worker are weakly fair: tokio polls a ready
  task;
- taking the write lock is strongly fair: tokio's `Mutex` is FIFO, so a waiter
  is not overtaken for ever;
- `Finished` is strongly fair: `tokio::select!` without `biased` picks its
  branches at random, so commands cannot hide a worker event for ever;
- a transfer ends if a stop is requested, never otherwise: no server is obliged
  to answer. `StopAnswered` of `HttpTransfer` is the matching promise of an
  executor, where a read in progress is abandoned by the select and the file and
  database calls return;
- publication ends;
- in `IpcSession` the client, each session and the loop keep running, and no select
  starves one of its two branches;
- in `Capture` the connections, the listener and the daemon's loop keep running;
  with finitely many inputs each ready branch of a select gets its turn, and a
  manifest read inside the loop ends because the client has a deadline;
- in `Startup` the daemons and the desktop's thread keep running, and the desktop
  gives up a start after its hundred polls (strongly fair: the polls are not
  counted).

A save under way ends, well or with an error; the strong fairness of saving in `daemon` is of
the two together. No fairness is given to saves that succeed: a store may fail for ever, and
the stop is still answered.

## Findings

`extension_late` (`background.ts:408`). `finishDownloadRequest` gives any answer to
the request that has waited longest. A request that timed out has been taken out
of the list; when the daemon answers it after all, the answer resolves the next
Start. Its window closes as queued, and when the daemon then refuses that second
download nobody waits for the refusal. `docs/design/media-capture.md:61`: "If the
daemon refuses or times out on Start, the extension restores the browser
download." `DownloadIsNotLost`, and the theorem about it, show that nothing else loses one but a
late close event of an earlier socket, a socket that takes the place of one that requests
wait on (both answers then come to one list of waiting requests), or an end of the worker.
The second was found by the proof: without it the line of a socket does not match the
requests that wait.

Known divergences, each with the configuration that shows it:

1. *A resume past the estimate* (`estimate_exceeded`, `manager.rs:331`). Nothing
   has to fail. Segmented media get a total estimated from bandwidth; the
   durable segments may exceed it, the executor skips its own comparison for an
   estimate, and `DownloadProgress::new` refuses. `execute` returns an error with
   the record Inspecting, which `state.rs:102` calls work owned by the current
   process; nobody owns it, and after a new start each resume ends the same way.
2. *A failed save strands the record* (`save_failure`, `manager.rs:348` and the
   other commits after Inspecting). The same state, until the next start.
   `StrandedOnlyByError` shows that an error of execute is the only way there.
3. *Pause race* (`pause_race`, `download_cancellation.rs:39`). The flag read by
   `request_pause` may be the previous attempt's; the pause then stops a transfer
   whose executor said it cannot stop at a durable checkpoint.
4. *A published file is written again* (`stream_relink`, `mux.rs:1185`). Two tracks
   are muxed, linked under the final name, and the process exits before the
   staging name is removed. The download is then interrupted and resumable, and the
   muxer opens the partial file with `File::create`, which truncates the
   published file.
5. *An estimate is held against a measurement* (`stream_estimate`, `executor.rs:330` of
   `gunda-stream`). A probe fails in one attempt, which records an estimated
   total; it succeeds in the next, and the comparison of the two totals ends an
   unchanged presentation with a final error.
6. *A choice by index goes to another quality* (`capture_choice`, `server.rs:286`, `lib.rs:1350` of
   `gundad`). A format is named by its position among the variants of a capture;
   a later report of the same address replaces the variants.
7. *A torn token file stays* (`startup_torn`, `pairing.rs:149`). A token is created
   empty and then written. A daemon that ends in between leaves a file that every
   later daemon refuses, and the desktop never connects.
8. *The last access unit of a stream is given up* (`formats_last_unit`, `ts.rs:694`, `ts.rs:487`).
   The NAL unit that is still open when the file ends is not moved into the access unit
   that `finish` closes: the bytes behind its start code are in no sample.
9. *A repeat stops short of its end* (`formats_repeat`, `dash.rs:836`). The number of
   segments of an open repeat is floored, so the last, shorter one of a
   period is not planned.

Smaller ones met while modelling, visible in the definitions: a track whose language has a
space in it cannot be chosen again by what the listing shows (`HlsPlan`); a DASH set of an unknown
kind is listed and then refused (`DashPlan`); slices that follow without a
delimiter are one picture (`TsDemux`); the first fragment sets the origin of the
timeline whatever its decode time (`Mp4Mux`); a bare `&` is kept, references in
CDATA are replaced, and attributes that differ only by prefix are refused as
duplicates (`XmlReader`).

## Proofs

TLC checks small instances; the theorems below hold for every value of the constants that
meets the named assumptions. Each proof module states an inductive invariant, proves that
the initial states have it and that every action keeps it, one lemma per action, and
draws the theorems from it. `PROJECT.json` lists them with the property each one is about.

| Module | Inductive invariant | Theorems about properties of the runs |
|---|---|---|
| `DownloadManagerProofs` | `IInv` | `TypeOK`, `RegistryMatchesStore` |
| | `PInv` | `ExecutionHoldsLatest`, `CompletedIsPublished`, `StepsKeepPromises`, `StrandedOnlyByError`, `ImplementsLifecycle` |
| `DaemonProofs` | `DInv` | `ServesManager`, `SlotsMatchWorkers`, `WorkConserving`, `PublicationIsKept`, and `ExecutionHoldsLatest` of the daemon |
| `HttpTransferProofs` | `HInv` | `ResumeIsSafe`, `FilesAreOneVersion`, `NoLeftoverBlocksAttempt` |
| `StreamTransferProofs` | `Kept` | `AttemptsStartSafely`, `CompletedIsWhole` |
| `DownloadStoreProofs` | `StoreInv` | `ReadsBackWhatWasReturned`, `NoRecordLocksTheStore`, `ListingIsOneMoment` |
| `StartupProofs` | `SInv` | `ServingIsFound` |
| `CaptureProofs` | `Picker`, `CInv` | `TracksAreWanted`, `AnswersTheQuestion` |
| | `CInv`, `Published` | `BrowserDownloadFindsItsCapture` |
| `ExtensionProofs` | `EInv` | `DownloadIsNotLost`, `RestoredIsNotPrompted`, `ForgottenStaysForgotten`, `HeldUntilSent` |

Assumptions. They say of the constants only what the code has of them: the largest byte
count is a natural number, identifiers are positive, the holders of the write lock are
distinct, and a plan has the type of a plan (`MaxBytesAssumption`, `DownloadsAssumption`,
`HoldersAssumption`, `PlansAssumption`); there is a slot and an attempt
(`DaemonAssumption`); a version has a length, one with a tag declares it, and garbage is
no version (`VersionsAssumption`); a presentation has one or two tracks of segments of any lengths, and
those with one fingerprint have as many tracks and segments (`PresentationAssumption`); the processes are distinct from the marks a file may hold
(`StartupAssumption`); what clients ask the repository to hold has the types of the code, and an old
database is one its schema allows, whose rows are the records that version had
(`StoreAssumption`); the catalog, the connections and the channels have room for one
(`CaptureAssumption`); sockets, downloads and reports are distinct and a report may be held
(`ExtensionAssumption`). No set has to be finite, apart from what the invariant of
`Daemon` derives of its slots. TLC evaluates the assumptions in the runs.

### The manager

Neither `TypeOK` nor `RegistryMatchesStore` is inductive. `TypeOK` does not say that the
copy an execution commits is a job at all (`cand` may be `NoJob` at other places), and
`RegistryMatchesStore` does not say who holds the lock. `IInv` adds:

- `LocalsFilled` and `ClientFilled`: at each place, the locals that the code has
  assigned there, and what `then` may be;
- `LockHeld`: the write lock is held exactly by the execution or client that is
  at `saved`, so at most one save is in flight;
- `SavedIsStored`: what is at `saved` is what the repository holds;
- `ControlTyped`: the stop handles.

The promises need to know, of each place of an attempt, what the record and the output of
its download may be. `PInv` adds to `IInv`:

- `Exclusive`: nobody else has the download of an execution, and only a running process
  executes one. The manager does not see to that itself; it follows from the rule for its
  callers (`ClientMay`, `ExecuteMay`);
- `Attempts`: at `inspect` the record is Inspecting and nothing is published, at
  `confirm` it is Finalizing and the output is there, and so on; what is being committed is
  one of the states the place leads to (`Intends`), follows the table of transitions, loses
  no progress except by a stop that may rewind, and completes only what is published (`Allows`);
- `ClientIntends`: outside an execution, a record that works is committed only as the
  confirmation of its publication or as recovered;
- `StoreIsSound`: a durable record of a publication shows all its bytes, so what recovery
  compares with the output is what was published.

From it: `NoLostUpdate`, `CompletedHasItsOutput`, `EveryStepKeepsPromises` (an action
property), `OnlyErrorsStrand`, and `Refinement`: the initial states map to initial states of
`DownloadLifecycle` and every step to a step of it or to a stutter.

### The daemon

`Daemon` extends the manager with a real caller. `DaemonServesManager` proves that every
step of the daemon is a step of the manager *with* the rule for callers: what the manager
assumes is established where the code establishes it, by the one loop and its slots.
The theorems of the manager then hold of the daemon; `DaemonLosesNoUpdate` states one. `DInv` adds to
`PInv` what the loop's tables mean: a slot names the execution that has the download
(`Slots`) and there are never too many (`Counted`); before the process serves, the loop has
nothing, and a command at the manager has the loop to itself (`Looping`, `Serving`); a kept
output is the one on disk, of a Finalizing record that nobody works on (`Pending`);
a worker begins on a queued record, and one that ends with an error leaves no publication behind
(`WorkersStand`); one that goes round has an attempt left (`Retries`).

### The HTTP transfer

`HInv` follows an attempt through its places. A response is read from where the file
ends (`Read`); what is saved belongs to the record and is on the platter (`Durable`);
a response continues what is saved or nothing is staged (`Begins`, `Initializes`); what is
stored is what was written of one version (`Stores`); a checkpoint saves only what was
synced (`Checkpointed`); an output is complete from its publication on (`Published`);
without a saved state no partial file is left to an attempt that may follow (`Clean`).
`ResumeIsSafe` by itself is not inductive, because a checkpoint between `Sync` and `SaveCheckpoint`
is safe only if nothing was written in between. Losing power is one lemma: what
survives has the synced bytes.

### The segmented transfer

What the properties say of a file is said of sequences joined from sequences, and of a sum over the
tracks. Both are folds, and no theorem here is about a fold of every input: `FlattenAdds` says what a
fold of one segment more is, which is all that an attempt needs, because it
adds one segment at a time; `SumOfOne` and `SumOfTwo` are the sums over the tracks
there can be. `FlattenAdds` follows from the least place at which two joins would differ.

`Kept` follows the attempt. Before its first byte on a track the checkpoint fits the plan
(`SavedFits`, `OnTrack`) and the track before it is whole and saved (`Fetched`). Between segments the
file holds the segments before the position and nothing else (`AtBoundary`); in a segment, those
up to where it begins (`InSegment`) and then the bytes of it received so far (`InBody`), so a
truncation is at a boundary again. Where a checkpoint leads fits the position it is made at
(`Leads`): without that, a track could be taken for whole that is not. A file that is muxed or
published is whole and on the platter (`WholeFile`), from then on under the name of the output
(`Published`).

Three parts are needed for what is left between attempts. `TrackKept` speaks of the first bytes of
a file that is there: an exit may leave more of them, a loss of power cuts or garbles only
what was not synced (`Survives`), and a file that is gone is missed when it is opened.
`TracksKept`: without a checkpoint track files are left only after a cancellation, a completion
or a crash, and never by a record with a checkpoint of one track; so a restart, which
decides by the checkpoint what to remove, removes all there is. `JobKept`: a download that
overwrites has no hard links, so what it renames over is no other name of its partial
file. Neither of the two properties is inductive without these. `CompletedIsWhole` does not
contradict `stream_relink`: the file written through its link there belongs to a record that was
interrupted and resumed, never to a completed one.

### The repository

None of the three invariants says what a transaction in progress has done. `StoreInv`
adds it, statement by statement (`Knows`): before its first write a transaction's copy is the
committed database; after an insertion it is that and one row, the selection once it is
stored, and the header rows written so far (`Inserted`); after an update, that with the
one row replaced. Because the pool has one connection, `ConnectionOK`, the committed database
is still the one the copy was made of when it is committed. `ClientsOK` says what calls and
memory hold: a version of a record there is, with its request and its moment of creation
(`Known`), which is why no save is refused as another's. `DatabaseOK` says that the rows are the
confirmed records, or will be once the migrations left have added their columns
(`Upgraded`), so an interrupted upgrade loses nothing.

Most of the lemmas are about the two codecs. Every enumeration is read back as it was
written; a resource, a failure, a total and a moment are, too; a row has exactly one
reading when each of its parts has one (`OneRecord`); the header rows of a download are as
many as its headers, by a bijection, and are put in order by their positions
(`HeadersReadBack`). From them: a saved and a created row read back as their record
(`SavedRowReadsBack`, `CreatedRowReadsBack`) and satisfy the constraints (`RowIsAllowed`).
`StoreAssumption` is about what the types `NewDownload`, `ResourceDescriptor` and
`DownloadFailure` enforce, and about old databases: the foreign key of a header row, the
AUTOINCREMENT of the identifiers, and rows that the version that wrote them could read. A
new, empty database meets it.

### Startup

`Exclusive` is the lease: only its holder is past the lock. So what it knows of the files
(`Known`) is disturbed by nobody else, and a capture token, once it is in its
file, is never replaced, which is what the native host relies on between reading the
endpoint and the token (`HostKnows`): it may find the endpoint of one daemon and the token
while another runs, and the two belong together all the same. This holds with `TornWrites` too.

### Capture

`Picker`: an inspection that is as late as the last order was asked for by it. `CInv`: a
connection waits with one question, and the question is in one place, which is a channel, the
daemon's hand or the reply (`OnTheirWay`, `Replies`); the candidate it carries on its way
may have been dropped from the catalog, and is known by its identifier, which is never given
again (`Recording`, `Known`). A request for an address that is
being downloaded gets the first such job, and that there is a first is well-founded induction over
the naturals, with the library's facts.

That a browser download finds its capture relates the candidate a request carries with the view the
daemon looks it up in. `Published`: unless the listener is about to publish, the view is the
catalog; a candidate that waits with the daemon and is still in the catalog is in the view,
because a report recorded meanwhile gets an identifier that no request carries; and all that
bear one identifier are of one kind (`Agreeing`), so what is found can be downloaded if what
was forwarded can. `NobodyElseAnswers` says that the answer is the daemon's.

### Extension

The worker matches an answer with the request that has waited longest, by order alone.
`Matched` says why that is right: the answers not read yet and behind them the requests not
served yet are the *line* of a socket, and the line of the connection carries exactly the requests
that wait, in their order, while no other line carries any. It holds until a request times
out, a socket is replaced or closes late, or the worker ends. The
other parts are `Requests` (each download waits once, and what was answered as queued is with the
daemon), `Followed` (where a download is whose copy the browser gave up), `GivenBack`
(a copy started again bears the mark), `Reading` and `Forgetting` (while the session is
read nothing is written to it, and what was forgotten is not used when the read
arrives).

## What is only model-checked

- Liveness: `StopFreesSlot`, `StopAnswered`, `CommandAnswered`, `ViewConverges`,
  `Answered`, `DesktopConnects`. Leads-to under fairness needs
  ENABLED, which the prover does not handle.
- `MCFormats`: parsers, planners, demuxers and the muxer are folds and recursive operators over
  their input; each of its invariants is about all of an input.

## Not modelled

- The external extractor: one child process and the translation of its JSON, with
  no state of its own.
- The desktop interface, which presents snapshots. Most of the desktop's
  `backend.rs` is compiled for tests only (`#[cfg(test)]`); in the shipped program
  the daemon does that work and `Daemon` models it.
- Headers: `Content-Range`, `Content-Disposition`, validators; file names and URLs and
  how they are resolved; names, logging and notices.
- The WebSocket upgrade, the deadline and refusals of greetings, the comparison of
  tokens, the frame around the native host's message.
- In the daemon: the stop of the capture listener (`handle_capture_change`) and
  `pending_engines`, the engine a capture chose, which only the first execution uses.
- In the extension: overlays in pages and their agent, requests for formats and states,
  the time limits of marks, the choice of a file name.
- In the containers: codec configuration, the byte layout of boxes, the sniffing of a
  container, continuity counters.

## Plan

Theorems: for `IpcSession` that what was executed is a prefix of what
was sent; lemmas on `SegmentPlan`.

Modules: `EngineSelection`, which engine an attempt uses after a retry or a new
start; content ranges and candidate file names against reference definitions.

Abstract specifications: `DownloadLifecycle` (done); an ordered channel for
`IpcSession`; a resumable file for `HttpTransfer` and `StreamTransfer` together.
