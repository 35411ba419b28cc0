----------------------------- MODULE DownloadStore -----------------------------
(***************************************************************************)
(* The SQLite repository of the download records                            *)
(* (crates/gunda-storage/src/repository.rs, its migrations): every record is *)
(* taken apart into the columns of a row and put together from them again,   *)
(* in transactions of several statements over the pool's one connection.     *)
(*                                                                         *)
(* `work` is the copy of the database the open transaction works on; SQLite  *)
(* keeps it to itself until the commit and drops it with the transaction,    *)
(* which is what a lost process or a call that returns early leaves behind.  *)
(* Times are counted in half milliseconds, so that the precision the columns *)
(* lose is one that records have.                                           *)
(***************************************************************************)
EXTENDS DownloadJob, Optional, FiniteSets

CONSTANTS
    Clients,        \* the concurrent callers of the repository
    Downloads,      \* the new downloads they may ask for
    Resources,      \* what an inspection may report
    StoredFailures, \* the failures an attempt may end with
    Times,          \* the moments changes are made at
    OldDatabases,   \* databases earlier versions left, by schema version
    I64Max,         \* the largest stored byte count
    MaxDownloads,   \* bound on the records created
    MaxChanges      \* bound on the changes made to records

VARIABLES
    db,             \* the committed database
    work,           \* the copy of the open transaction
    holder,         \* who has the connection
    opened,         \* whether this process has opened and migrated the database
    call,           \* per client, the call it is in
    job,            \* per client, the record it holds in memory
    result,         \* per client, how its last call ended
    changes,
    confirmed       \* history: the records the repository said it holds

vars == <<db, work, holder, opened, call, job, result, changes, confirmed>>

Ids == 1..MaxDownloads
Latest == 5

---------------------------------------------------------------------------
(* The columns. *)

StateNames ==
    [Queued |-> "queued", Inspecting |-> "inspecting", Downloading |-> "downloading",
     Paused |-> "paused", Finalizing |-> "finalizing", Completed |-> "completed",
     Failed |-> "failed", Cancelled |-> "cancelled", Interrupted |-> "interrupted"]

ResourceNames == [Unknown |-> "unknown", File |-> "file", Hls |-> "hls", Dash |-> "dash"]

FailureNames ==
    [Network |-> "network", Authentication |-> "authentication",
     RemoteRejected |-> "remote_rejected", InvalidResponse |-> "invalid_response",
     UnsupportedResource |-> "unsupported_resource", PermissionDenied |-> "permission_denied",
     DiskFull |-> "disk_full", Integrity |-> "integrity", Storage |-> "storage",
     Internal |-> "internal"]

OriginNames == [Desktop |-> "desktop", Cli |-> "cli", Browser |-> "browser"]
PolicyNames == [Rename |-> "rename", Overwrite |-> "overwrite", Fail |-> "fail"]

Decoded(names, text) == {value \in DOMAIN names : names[value] = text}

EncodeTimestamp(t) == t \div 2
DecodeTimestamp(ms) == 2 * ms
Normalized(t) == DecodeTimestamp(EncodeTimestamp(t))

FitsByteCount(n) == n <= I64Max
EncodeTotal(total) == IF total = Unknown THEN None ELSE Some(total)
DecodeTotal(column) == OrElse(column, Unknown)

HasSensitiveHeaders(download) ==
    \E i \in DOMAIN download.headers : download.headers[i].sensitive

(* What the INSERT binds; the columns it does not name are NULL.             *)
InsertedRow(download, ms) ==
    [url |-> download.url, origin |-> OriginNames[download.origin],
     page |-> download.page, title |-> download.title,
     directory |-> download.directory, filename |-> download.filename,
     policy |-> PolicyNames[download.policy],
     state |-> "queued", done |-> 0, total |-> None, created |-> ms, updated |-> ms,
     resolved |-> None, resource_kind |-> None, resource_name |-> None, resource_type |-> None,
     failure_kind |-> None, failure_message |-> None, retryable |-> None, selection |-> None]

\* A mutant: only a failure worth retrying says whether it is.
Retryable_OnlyTrue(failure) == {1 : f \in {g \in failure : g.retryable}}

Retryable(failure) == {IF f.retryable THEN 1 ELSE 0 : f \in failure}

(* What the UPDATE of save sets; the rest belongs to the creation.           *)
UpdatedRow(row, record) ==
    [row EXCEPT
        !.state = StateNames[record.state],
        !.done = record.done, !.total = EncodeTotal(record.total),
        !.updated = EncodeTimestamp(record.updated), !.resolved = record.resolved,
        !.resource_kind = {ResourceNames[r.kind] : r \in record.resource},
        !.resource_name = UNION {r.name : r \in record.resource},
        !.resource_type = UNION {r.type : r \in record.resource},
        !.failure_kind = {FailureNames[f.kind] : f \in record.failure},
        !.failure_message = {f.message : f \in record.failure},
        !.retryable = Retryable(record.failure)]

(* The constraints of the migrations.                                        *)
AllowedRow(row) ==
    /\ row.origin \in {"desktop", "cli", "browser"}
    /\ row.policy \in {"rename", "overwrite", "fail"}
    /\ row.state \in {"queued", "inspecting", "downloading", "paused", "finalizing",
                      "completed", "failed", "cancelled", "interrupted"}
    /\ row.done >= 0 /\ \A total \in row.total : total >= 0 /\ row.done <= total
    /\ IF row.origin = "browser" THEN row.page # None ELSE row.page = None /\ row.title = None
    /\ row.resource_kind \subseteq {"unknown", "file", "hls", "dash"}
    /\ row.resource_kind = None => row.resource_name = None /\ row.resource_type = None
    /\ row.failure_kind \subseteq {"network", "authentication", "remote_rejected",
           "invalid_response", "unsupported_resource", "permission_denied", "disk_full",
           "integrity", "storage", "internal"}
    /\ \/ row.failure_kind = None /\ row.failure_message = None /\ row.retryable = None
       \/ row.failure_kind # None /\ row.failure_message # None /\ row.retryable \in {{0}, {1}}

(* The columns each migration adds to the rows that exist.                   *)
AddedColumns(version) ==
    CASE version = 2 -> [resolved |-> None, resource_kind |-> None, resource_name |-> None,
                         resource_type |-> None, failure_kind |-> None,
                         failure_message |-> None, retryable |-> None]
      [] version = 4 -> [selection |-> None]
      [] OTHER -> [c \in {} |-> None]

WithColumns(row, added) ==
    [c \in DOMAIN row \cup DOMAIN added |-> IF c \in DOMAIN row THEN row[c] ELSE added[c]]

Migrated(d) ==
    [d EXCEPT !.schema = @ + 1,
              !.rows = [id \in DOMAIN @ |-> WithColumns(@[id], AddedColumns(d.schema + 1))]]

(* The columns the migrations after a version add, and a database with them. *)
LaterColumns(version) ==
    WithColumns(IF version < 2 THEN AddedColumns(2) ELSE [c \in {} |-> None],
                IF version < 4 THEN AddedColumns(4) ELSE [c \in {} |-> None])

Upgraded(d) == [id \in DOMAIN d.rows |-> WithColumns(d.rows[id], LaterColumns(d.schema))]

---------------------------------------------------------------------------
(* A record out of its row, or nothing where a column makes no sense. *)

DecodedOrigin(row) ==
    {origin \in Decoded(OriginNames, row.origin) :
        IF origin = "Browser" THEN row.page # None ELSE row.page = None /\ row.title = None}

DecodedDownload(row, headers) ==
    {[url |-> row.url, headers |-> headers, selection |-> row.selection, origin |-> origin,
      page |-> row.page, title |-> row.title, directory |-> row.directory,
      filename |-> row.filename, policy |-> policy] :
        origin \in DecodedOrigin(row), policy \in Decoded(PolicyNames, row.policy)}

DecodedResource(row) ==
    CASE row.resource_kind # None ->
            {Some([kind |-> kind, name |-> row.resource_name, type |-> row.resource_type]) :
                kind \in Decoded(ResourceNames, The(row.resource_kind))}
      [] row.resource_kind = None /\ row.resource_name = None /\ row.resource_type = None ->
            Some(None)
      [] OTHER -> None

DecodedFailure(row) ==
    CASE row.failure_kind = None /\ row.failure_message = None /\ row.retryable = None -> Some(None)
      [] row.failure_kind # None /\ row.failure_message # None /\ row.retryable \in {{0}, {1}} ->
            {Some([kind |-> kind, message |-> The(row.failure_message),
                   retryable |-> row.retryable = {1}]) :
                kind \in Decoded(FailureNames, The(row.failure_kind))}
      [] OTHER -> None

ToJob(id, row, headers) ==
    {[id |-> id, download |-> download, resolved |-> row.resolved, resource |-> resource,
      state |-> state, done |-> row.done, total |-> DecodeTotal(row.total),
      failure |-> failure, created |-> DecodeTimestamp(row.created),
      updated |-> DecodeTimestamp(row.updated)] :
        download \in {d \in DecodedDownload(row, headers) : ~HasSensitiveHeaders(d)},
        resource \in DecodedResource(row), failure \in DecodedFailure(row),
        state \in {s \in Decoded(StateNames, row.state) :
                      row.done >= 0 /\ ValidProgress(row.done, DecodeTotal(row.total))}}

(* The header rows of a download, by position.                               *)
Headers(stored, id) ==
    LET rows == {h \in stored : h.id = id}
    IN  [i \in 1..Cardinality(rows) |->
            [name |-> (CHOOSE h \in rows : h.position = i - 1).name, sensitive |-> FALSE]]

---------------------------------------------------------------------------
(* What the types of the code say of the constants. *)

IsDownload(d) ==
    /\ d = [url |-> d.url, headers |-> d.headers, selection |-> d.selection, origin |-> d.origin,
            page |-> d.page, title |-> d.title, directory |-> d.directory,
            filename |-> d.filename, policy |-> d.policy]
    /\ d.origin \in DOMAIN OriginNames /\ d.policy \in DOMAIN PolicyNames
    /\ IF d.origin = "Browser" THEN d.page # None ELSE d.page = None /\ d.title = None
    /\ Len(d.headers) \in Nat
    /\ d.headers = [i \in 1..Len(d.headers) |->
                       [name |-> d.headers[i].name, sensitive |-> d.headers[i].sensitive]]
    /\ \A i \in 1..Len(d.headers) : d.headers[i].sensitive \in BOOLEAN

IsResource(r) ==
    /\ r = [kind |-> r.kind, name |-> r.name, type |-> r.type]
    /\ r.kind \in DOMAIN ResourceNames

IsFailure(f) ==
    /\ f = [kind |-> f.kind, message |-> f.message, retryable |-> f.retryable]
    /\ f.kind \in DOMAIN FailureNames /\ f.retryable \in BOOLEAN

IsRecord(r) ==
    /\ r = [id |-> r.id, download |-> r.download, resolved |-> r.resolved,
            resource |-> r.resource, state |-> r.state, done |-> r.done, total |-> r.total,
            failure |-> r.failure, created |-> r.created, updated |-> r.updated]
    /\ r.state \in States
    /\ r.done \in Nat /\ r.total \in Nat \cup {Unknown} /\ ValidProgress(r.done, r.total)
    /\ r.resource # None => r.resource = Some(The(r.resource)) /\ IsResource(The(r.resource))
    /\ r.failure # None => r.failure = Some(The(r.failure)) /\ IsFailure(The(r.failure))
    /\ r.created \in Nat /\ r.updated \in Nat

(* A record with the precision of the columns.                               *)
IsStored(r) ==
    IsRecord(r) /\ Normalized(r.created) = r.created /\ Normalized(r.updated) = r.updated

(* AUTOINCREMENT gives the next id after the last; a header row belongs to   *)
(* the row of a download (its foreign key).                                  *)
IsDatabase(d) ==
    /\ DOMAIN d = {"schema", "rows", "headers", "last"}
    /\ d.schema \in 0..Latest /\ d.last \in Nat
    /\ d.rows = [id \in DOMAIN d.rows |-> [c \in DOMAIN d.rows[id] |-> d.rows[id][c]]]
    /\ DOMAIN d.rows \subseteq 1..d.last
    /\ \A h \in d.headers : h.id \in DOMAIN d.rows

Columns ==
    {"url", "origin", "page", "title", "directory", "filename", "policy", "state", "done",
     "total", "created", "updated", "resolved", "resource_kind", "resource_name",
     "resource_type", "failure_kind", "failure_message", "retryable", "selection"}

(* The rows of all columns that are these records.                           *)
Hold(rows, headers, records) ==
    /\ records = [id \in DOMAIN rows |-> records[id]]
    /\ \A id \in DOMAIN rows :
        /\ DOMAIN rows[id] = Columns
        /\ IsStored(records[id])
        /\ ToJob(id, rows[id], Headers(headers, id)) = {records[id]}

ASSUME StoreAssumption ==
    /\ \A d \in Downloads : IsDownload(d)
    /\ \A r \in Resources : IsResource(r)
    /\ \A f \in StoredFailures : IsFailure(f)
    /\ Times \subseteq Nat
    /\ \A old \in OldDatabases :
        IsDatabase(old.db) /\ Hold(Upgraded(old.db), old.db.headers, old.records)

---------------------------------------------------------------------------
(* A record as the manager changes it in memory. *)

\* A mutant: the moment of the creation is kept as it was read from the clock.
NewRecord_Exact(id, download, now) ==
    [id |-> id, download |-> download, resolved |-> None, resource |-> None,
     state |-> "Queued", done |-> 0, total |-> Unknown, failure |-> None,
     created |-> now, updated |-> now]

NewRecord(id, download, now) ==
    [id |-> id, download |-> download, resolved |-> None, resource |-> None,
     state |-> "Queued", done |-> 0, total |-> Unknown, failure |-> None,
     created |-> Normalized(now), updated |-> Normalized(now)]

Restarted(record) ==
    [RestartJob(record) EXCEPT !.failure = None, !.resource = None, !.resolved = None]

(* transition_to, update_progress, set_resource, resolve_destination, fail   *)
(* and restart.                                                              *)
Changed(record) ==
    {TransitionTo(record, next) : next \in Successors[record.state]} \cup
    {UpdateProgress(record, p[1], p[2]) :
        p \in {q \in Bytes \X Totals : ValidProgress(q[1], q[2])}} \cup
    {[record EXCEPT !.resource = Some(r)] : r \in Resources} \cup
    {[record EXCEPT !.resolved = Some("path")]} \cup
    {FailJob(record, Some(f)) : f \in {g \in StoredFailures : "Failed" \in Successors[record.state]}} \cup
    {Restarted(r) : r \in {q \in {record} : CanRestart(q.state)}}

---------------------------------------------------------------------------
(* A call: the statements it has left, one pc each. *)

Idle == [op |-> "none", pc |-> "idle"]

Init ==
    /\ \E old \in OldDatabases :
        /\ db = old.db /\ work = old.db
        /\ confirmed = old.records
    /\ holder = None /\ opened = FALSE
    /\ call = [c \in Clients |-> Idle]
    /\ job = [c \in Clients |-> None]
    /\ result = [c \in Clients |-> "ok"]
    /\ changes = 0

(* open: one migration, in a transaction of its own; the repository is there *)
(* when none is left.                                                        *)
Migrate ==
    /\ ~opened
    /\ IF db.schema < Latest
       THEN db' = Migrated(db) /\ work' = db' /\ UNCHANGED opened
       ELSE opened' = TRUE /\ UNCHANGED <<db, work>>
    /\ UNCHANGED <<holder, call, job, result, changes, confirmed>>

(* The process is lost, with its calls and the transaction they had open.    *)
Lost ==
    /\ opened
    /\ opened' = FALSE /\ holder' = None
    /\ call' = [c \in Clients |-> Idle]
    /\ job' = [c \in Clients |-> None]
    /\ result' = [c \in Clients |-> "ok"]
    /\ work' = db
    /\ UNCHANGED <<db, changes, confirmed>>

Waits(c, next) ==
    /\ call' = [call EXCEPT ![c] = next]
    /\ result' = [result EXCEPT ![c] = "ok"]
    /\ UNCHANGED <<db, work, holder, opened, job, changes, confirmed>>

RefusedAtOnce(c, error) ==
    /\ result' = [result EXCEPT ![c] = error]
    /\ job' = [job EXCEPT ![c] = None]
    /\ UNCHANGED <<db, work, holder, opened, call, changes, confirmed>>

Free(c) == opened /\ call[c].op = "none"

Creating == {c \in Clients : call[c].op = "create"}

StartCreate(c) ==
    /\ Free(c) /\ job[c] = None
    /\ db.last + Cardinality(Creating) < MaxDownloads
    /\ \E download \in Downloads, now \in Times :
        IF HasSensitiveHeaders(download)
        THEN RefusedAtOnce(c, "SensitiveDataUnsupported")
        ELSE Waits(c, [op |-> "create", pc |-> "begin", download |-> download, now |-> now,
                       id |-> 0, written |-> 0])

StartList(c) ==
    /\ Free(c)
    /\ Waits(c, [op |-> "list", pc |-> "begin", rows |-> <<>>, jobs |-> <<>>])

StartFind(c) ==
    /\ Free(c)
    /\ \E id \in Ids : Waits(c, [op |-> "find", pc |-> "begin", id |-> id])

(* save encodes what it is given before it asks for the connection.          *)
StartSave(c) ==
    /\ Free(c) /\ job[c] # None
    /\ LET record == The(job[c])
       IN  IF ~FitsByteCount(record.done)
                \/ (record.total # Unknown /\ ~FitsByteCount(record.total))
           THEN RefusedAtOnce(c, "ConstraintViolation")
           ELSE Waits(c, [op |-> "save", pc |-> "begin", snapshot |->
                   [record EXCEPT !.created = Normalized(@), !.updated = Normalized(@)]])

(* The manager changes a record it holds; it is the only one who holds it.   *)
Change(c) ==
    /\ Free(c) /\ job[c] # None /\ changes < MaxChanges
    /\ \E next \in Changed(The(job[c])), now \in Times :
        job' = [job EXCEPT ![c] = Some([next EXCEPT !.updated = now])]
    /\ changes' = changes + 1
    /\ UNCHANGED <<db, work, holder, opened, call, result, confirmed>>

Begin(c) ==
    /\ call[c].pc = "begin" /\ holder = None
    /\ holder' = {c} /\ work' = db
    /\ call' = [call EXCEPT ![c].pc = call[c].op]
    /\ UNCHANGED <<db, opened, job, result, changes, confirmed>>

(* What a statement of the call sees: its transaction, if one is open.       *)
Seen(c) == IF holder = {c} THEN work ELSE db

Released(c) == IF holder = {c} THEN None ELSE holder

(* The call returns early: what its transaction wrote is dropped.            *)
Fails(c, error) ==
    /\ call' = [call EXCEPT ![c] = Idle]
    /\ holder' = Released(c)
    /\ result' = [result EXCEPT ![c] = error]
    /\ job' = [job EXCEPT ![c] = None]
    /\ work' = IF holder = {c} THEN db ELSE work
    /\ UNCHANGED <<db, opened, changes, confirmed>>

(* The call commits and returns what its caller holds in memory from now on. *)
Returns(c, records, told) ==
    /\ call' = [call EXCEPT ![c] = Idle]
    /\ holder' = Released(c)
    /\ db' = Seen(c)
    /\ job' = [job EXCEPT ![c] = told]
    /\ confirmed' = records
    /\ UNCHANGED <<work, opened, result, changes>>

Goes(c, next) ==
    /\ call' = [call EXCEPT ![c] = next]
    /\ UNCHANGED <<db, opened, job, result, changes, confirmed>>

InsertDownload(c) ==
    LET row == InsertedRow(call[c].download, EncodeTimestamp(call[c].now))
        id == work.last + 1
    IN  /\ call[c].pc = "create"
        /\ IF AllowedRow(row)
           THEN /\ work' = [work EXCEPT !.last = id,
                                        !.rows = [n \in DOMAIN @ \cup {id} |->
                                                    IF n = id THEN row ELSE @[n]]]
                /\ Goes(c, [call[c] EXCEPT !.pc = "selection", !.id = id])
                /\ UNCHANGED holder
           ELSE Fails(c, "Internal")

StoreSelection(c) ==
    /\ call[c].pc = "selection"
    /\ work' = [work EXCEPT !.rows[call[c].id].selection = call[c].download.selection]
    /\ Goes(c, [call[c] EXCEPT !.pc = "headers"])
    /\ UNCHANGED holder

InsertHeader(c) ==
    LET position == call[c].written
        headers == call[c].download.headers
    IN  /\ call[c].pc = "headers" /\ position < Len(headers)
        /\ work' = [work EXCEPT !.headers = @ \cup
                {[id |-> call[c].id, position |-> position, name |-> headers[position + 1].name]}]
        /\ Goes(c, [call[c] EXCEPT !.written = @ + 1])
        /\ UNCHANGED holder

CommitCreate(c) ==
    LET record == NewRecord(call[c].id, call[c].download, call[c].now)
    IN  /\ call[c].pc = "headers" /\ call[c].written = Len(call[c].download.headers)
        /\ Returns(c, [n \in DOMAIN confirmed \cup {record.id} |->
                           IF n = record.id THEN record ELSE confirmed[n]], Some(record))

\* A mutant: the rows are read before the transaction that reads the headers.
ListRows_Early(c) ==
    /\ call[c].pc = "list"
    /\ Goes(c, [call[c] EXCEPT !.pc = "listHeaders", !.rows = Seen(c).rows])
    /\ holder' = Released(c) /\ UNCHANGED work

ListRows(c) ==
    /\ call[c].pc = "list"
    /\ Goes(c, [call[c] EXCEPT !.pc = "listHeaders", !.rows = Seen(c).rows])
    /\ UNCHANGED <<work, holder>>

(* One row that cannot be read, or a header of no row, and there is no list. *)
ListHeaders(c) ==
    LET rows == call[c].rows
        stored == Seen(c).headers
        read == [id \in DOMAIN rows |-> ToJob(id, rows[id], Headers(stored, id))]
    IN  /\ call[c].pc = "listHeaders"
        /\ IF (\E id \in DOMAIN rows : read[id] = None) \/ (\E h \in stored : h.id \notin DOMAIN rows)
           THEN Fails(c, "InvalidData")
           ELSE /\ Goes(c, [call[c] EXCEPT !.pc = "listed",
                                           !.jobs = [id \in DOMAIN rows |-> The(read[id])]])
                /\ UNCHANGED <<work, holder>>

HeldElsewhere(c, id) == \E d \in Clients \ {c} : \E r \in job[d] : r.id = id

(* A start of the program lists the records and holds them from then on;     *)
(* here one of them, which no other caller holds: updates of a record are    *)
(* serialized by the caller.                                                *)
CommitList(c) ==
    /\ call[c].pc = "listed"
    /\ \E held \in {job[c]} \cup {Some(call[c].jobs[id]) :
                         id \in {i \in DOMAIN call[c].jobs : ~HeldElsewhere(c, i)}} :
        Returns(c, confirmed, held)

FindRow(c) ==
    LET id == call[c].id
        read == ToJob(id, work.rows[id], Headers(work.headers, id))
    IN  /\ call[c].pc = "find"
        /\ CASE id \notin DOMAIN work.rows -> Returns(c, confirmed, job[c])
             [] id \in DOMAIN work.rows /\ read = None -> Fails(c, "InvalidData")
             [] OTHER -> Returns(c, confirmed, job[c])

SaveRow(c) ==
    LET snapshot == call[c].snapshot
        id == snapshot.id
        row == work.rows[id]
        read == ToJob(id, row, Headers(work.headers, id))
        updated == UpdatedRow(row, snapshot)
    IN  /\ call[c].pc = "save"
        /\ CASE id \notin DOMAIN work.rows -> Fails(c, "NotFound")
             [] id \in DOMAIN work.rows /\ read = None -> Fails(c, "InvalidData")
             [] id \in DOMAIN work.rows /\ read # None /\
                    (The(read).download # snapshot.download \/ The(read).created # snapshot.created) ->
                    Fails(c, "ConstraintViolation")
             [] OTHER ->
                    IF AllowedRow(updated)
                    THEN /\ work' = [work EXCEPT !.rows[id] = updated]
                         /\ Goes(c, [call[c] EXCEPT !.pc = "updated"])
                         /\ UNCHANGED holder
                    ELSE Fails(c, "Internal")

CommitSave(c) ==
    LET snapshot == call[c].snapshot
    IN  /\ call[c].pc = "updated"
        /\ Returns(c, [confirmed EXCEPT ![snapshot.id] = snapshot], Some(snapshot))

Next ==
    \/ Migrate \/ Lost
    \/ \E c \in Clients :
        \/ StartCreate(c) \/ StartList(c) \/ StartFind(c) \/ StartSave(c) \/ Change(c)
        \/ Begin(c) \/ InsertDownload(c) \/ StoreSelection(c) \/ InsertHeader(c) \/ CommitCreate(c)
        \/ ListRows(c) \/ ListHeaders(c) \/ CommitList(c) \/ FindRow(c)
        \/ SaveRow(c) \/ CommitSave(c)

Spec == Init /\ [][Next]_vars

---------------------------------------------------------------------------
(* Properties. *)

(* What a create or a save returned is what the next start reads: whatever   *)
(* the operations of a job make of it, its row, its header rows and the two  *)
(* codecs give the same record back, to the stored precision, and nothing of *)
(* a call that did not finish is there (create, save, StoredDownload).       *)
ReadsBackWhatWasReturned ==
    opened =>
        /\ DOMAIN db.rows = DOMAIN confirmed
        /\ \A id \in DOMAIN confirmed :
            ToJob(id, db.rows[id], Headers(db.headers, id)) = {confirmed[id]}

(* No call is turned away by a row the repository itself wrote or by a       *)
(* constraint of the schema: one such row makes list fail, and with it every *)
(* later start of the program (StoredDownload::to_job, list, the CHECKs).    *)
NoRecordLocksTheStore ==
    \A c \in Clients : result[c] \notin {"InvalidData", "Internal", "NotFound"}

(* A listing is the records of one moment, although it reads rows and        *)
(* headers with two statements while others create and save (list).          *)
ListingIsOneMoment ==
    \A c \in Clients : call[c].pc = "listed" => call[c].jobs = confirmed
===============================================================================
