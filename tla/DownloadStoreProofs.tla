-------------------------- MODULE DownloadStoreProofs --------------------------
(***************************************************************************)
(* Theorems about DownloadStore, for every download, resource, failure and   *)
(* moment, any number of callers, and every database an earlier version     *)
(* left: what was returned is what the next start reads, no call is turned  *)
(* away by a row the repository wrote, and a listing is of one moment.      *)
(*                                                                         *)
(* The invariant says what a call knows at each of its statements: who has   *)
(* the connection works on what is committed, but for the row and the       *)
(* header rows it has itself written so far, and a record held in memory is *)
(* one the database has, with the same request and moment of creation.      *)
(***************************************************************************)
EXTENDS DownloadStore, FiniteSetTheorems, TLAPS

Refusals == {"InvalidData", "Internal", "NotFound"}

\* The statements before which a transaction has written nothing.
Reading == {"create", "list", "listHeaders", "listed", "find", "save"}

Working(k) == k.pc \notin {"idle", "begin"}

\* A version of a record there is: the request and the creation never change.
Known(r, records) ==
    /\ r.id \in DOMAIN records
    /\ r.download = records[r.id].download /\ r.created = records[r.id].created

IsCreate(k) ==
    /\ k.op = "create"
    /\ k = [op |-> "create", pc |-> k.pc, download |-> k.download, now |-> k.now,
            id |-> k.id, written |-> k.written]
    /\ k.pc \in {"begin", "create", "selection", "headers"}
    /\ IsDownload(k.download) /\ ~HasSensitiveHeaders(k.download) /\ k.now \in Nat
    /\ k.pc # "headers" => k.written = 0

IsList(k) ==
    /\ k.op = "list"
    /\ k = [op |-> "list", pc |-> k.pc, rows |-> k.rows, jobs |-> k.jobs]
    /\ k.pc \in {"begin", "list", "listHeaders", "listed"}

IsFind(k) ==
    /\ k.op = "find"
    /\ k = [op |-> "find", pc |-> k.pc, id |-> k.id]
    /\ k.pc \in {"begin", "find"}

IsSave(k, records) ==
    /\ k.op = "save"
    /\ k = [op |-> "save", pc |-> k.pc, snapshot |-> k.snapshot]
    /\ k.pc \in {"begin", "save", "updated"}
    /\ IsStored(k.snapshot) /\ Known(k.snapshot, records)

IsCall(k, records) ==
    k = Idle \/ IsCreate(k) \/ IsList(k) \/ IsFind(k) \/ IsSave(k, records)

IsHeld(held, records) ==
    \/ held = None
    \/ /\ held = Some(The(held)) /\ IsRecord(The(held)) /\ Known(The(held), records)
       /\ Normalized(The(held).created) = The(held).created

\* The header rows a create has written, and the row.
HeaderRows(k) ==
    {[id |-> k.id, position |-> i, name |-> k.download.headers[i + 1].name] :
        i \in 0..(k.written - 1)}

NewRow(d, now, selection) ==
    [InsertedRow(d, EncodeTimestamp(now)) EXCEPT !.selection = selection]

CreatedRow(k) ==
    NewRow(k.download, k.now, IF k.pc = "headers" THEN k.download.selection ELSE None)

Inserted(k, w, d) ==
    /\ k.id = d.last + 1
    /\ k.written \in 0..Len(k.download.headers)
    /\ DOMAIN w = DOMAIN d /\ w.schema = d.schema /\ w.last = k.id
    /\ w.rows = [n \in DOMAIN d.rows \cup {k.id} |->
                    IF n = k.id THEN CreatedRow(k) ELSE d.rows[n]]
    /\ w.headers = d.headers \cup HeaderRows(k)

\* What the holder of the connection knows of its transaction's copy `w` of the
\* database `d`.
Knows(k, w, d, records) ==
    /\ k.pc \in Reading => w = d
    /\ k.pc = "listHeaders" => k.rows = d.rows
    /\ k.pc = "listed" => k.jobs = records
    /\ k.pc \in {"selection", "headers"} => Inserted(k, w, d)
    /\ k.pc = "updated" =>
         /\ DOMAIN w = DOMAIN d /\ w.schema = d.schema /\ w.last = d.last
         /\ w.headers = d.headers
         /\ w.rows = [d.rows EXCEPT ![k.snapshot.id] = UpdatedRow(@, k.snapshot)]

ClientsOK ==
    /\ DOMAIN call = Clients /\ DOMAIN job = Clients /\ DOMAIN result = Clients
    /\ \A c \in Clients :
        /\ IsCall(call[c], confirmed) /\ IsHeld(job[c], confirmed)
        /\ result[c] \notin Refusals

ConnectionOK ==
    /\ holder = None \/ \E c \in Clients : holder = {c}
    /\ \A c \in Clients : holder = {c} <=> Working(call[c])
    /\ holder = None => work = db
    /\ \A c \in Clients : Working(call[c]) => Knows(call[c], work, db, confirmed)

DatabaseOK ==
    /\ IsDatabase(db)
    /\ opened => db.schema = Latest /\ Hold(db.rows, db.headers, confirmed)
    /\ ~opened => /\ Hold(Upgraded(db), db.headers, confirmed)
                  /\ \A c \in Clients : call[c] = Idle
                  /\ \A c \in Clients : job[c] = None

StoreInv == DatabaseOK /\ ClientsOK /\ ConnectionOK

-----------------------------------------------------------------------------
(* The columns and what is read from them. *)

\* The parts of ToJob.
Requests(row, headers) == {d \in DecodedDownload(row, headers) : ~HasSensitiveHeaders(d)}
ReadStates(row) ==
    {s \in Decoded(StateNames, row.state) :
        row.done >= 0 /\ ValidProgress(row.done, DecodeTotal(row.total))}

ReadRecord(id, row, d, resource, failure, state) ==
    [id |-> id, download |-> d, resolved |-> row.resolved, resource |-> resource,
     state |-> state, done |-> row.done, total |-> DecodeTotal(row.total),
     failure |-> failure, created |-> DecodeTimestamp(row.created),
     updated |-> DecodeTimestamp(row.updated)]

\* The columns of save hold this record.
Carries(row, r) ==
    /\ row.state = StateNames[r.state]
    /\ row.done = r.done /\ row.total = EncodeTotal(r.total)
    /\ row.updated = EncodeTimestamp(r.updated) /\ row.resolved = r.resolved
    /\ row.resource_kind = {ResourceNames[x.kind] : x \in r.resource}
    /\ row.resource_name = UNION {x.name : x \in r.resource}
    /\ row.resource_type = UNION {x.type : x \in r.resource}
    /\ row.failure_kind = {FailureNames[f.kind] : f \in r.failure}
    /\ row.failure_message = {f.message : f \in r.failure}
    /\ row.retryable = Retryable(r.failure)

\* What is in an option is what was put there (Option::Some).
LEMMA TheOfSome ==
  \A x : The(Some(x)) = x /\ Some(x) # None
PROOF BY Zenon DEF The, Some, None

\* The names of the states, kinds, origins and policies are read back as what
\* they were written for: no two share one (encode_state, decode_state and the
\* other pairs).
LEMMA StateNamesDecode ==
  ASSUME NEW v \in States
  PROVE  Decoded(StateNames, StateNames[v]) = {v}
PROOF BY DEF Decoded, StateNames, States

\* So are the kinds of a resource (encode_resource_kind, decode_resource_kind).
LEMMA ResourceNamesDecode ==
  ASSUME NEW v \in DOMAIN ResourceNames
  PROVE  /\ Decoded(ResourceNames, ResourceNames[v]) = {v}
         /\ ResourceNames[v] \in {"unknown", "file", "hls", "dash"}
PROOF BY DEF Decoded, ResourceNames

\* And of a failure, each one the schema allows (encode_failure_kind).
LEMMA FailureNamesDecode ==
  ASSUME NEW v \in DOMAIN FailureNames
  PROVE  /\ Decoded(FailureNames, FailureNames[v]) = {v}
         /\ FailureNames[v] \in {"network", "authentication", "remote_rejected",
               "invalid_response", "unsupported_resource", "permission_denied", "disk_full",
               "integrity", "storage", "internal"}
PROOF BY DEF Decoded, FailureNames

\* And the origins of a request (encode_origin).
LEMMA OriginNamesDecode ==
  ASSUME NEW v \in DOMAIN OriginNames
  PROVE  /\ Decoded(OriginNames, OriginNames[v]) = {v}
         /\ OriginNames[v] \in {"desktop", "cli", "browser"}
         /\ OriginNames[v] = "browser" <=> v = "Browser"
PROOF BY DEF Decoded, OriginNames

\* And its policies for a name that is taken (encode_conflict_policy).
LEMMA PolicyNamesDecode ==
  ASSUME NEW v \in DOMAIN PolicyNames
  PROVE  /\ Decoded(PolicyNames, PolicyNames[v]) = {v}
         /\ PolicyNames[v] \in {"rename", "overwrite", "fail"}
PROOF BY DEF Decoded, PolicyNames

\* A moment written and read is the moment to the precision of the column, and
\* writing it again loses nothing more (encode_timestamp, decode_timestamp).
LEMMA TimeRoundTrip ==
  ASSUME NEW t \in Nat
  PROVE  /\ EncodeTimestamp(t) \in Nat /\ Normalized(t) \in Nat
         /\ DecodeTimestamp(EncodeTimestamp(t)) = Normalized(t)
         /\ Normalized(Normalized(t)) = Normalized(t)
PROOF
  <1> DEFINE m == t \div 2
  <1>1. m \in Nat  BY SMT
  <1>2. Normalized(t) = 2 * m  BY DEF Normalized, DecodeTimestamp, EncodeTimestamp
  <1>3. (2 * m) \div 2 = m  BY <1>1, SMT
  <1>4. Normalized(2 * m) = 2 * m  BY <1>3 DEF Normalized, DecodeTimestamp, EncodeTimestamp
  <1> QED BY <1>1, <1>2, <1>4, SMT DEF EncodeTimestamp, DecodeTimestamp, Normalized

\* A total written and read is the total (Option<ByteCount>).
LEMMA TotalRoundTrip ==
  ASSUME NEW total \in Nat \cup {Unknown}
  PROVE  DecodeTotal(EncodeTotal(total)) = total
PROOF BY TheOfSome DEF DecodeTotal, EncodeTotal, OrElse, None, Some, The

\* A row whose parts are each read in one way is one record.
LEMMA OneRecord ==
  ASSUME NEW id, NEW row, NEW headers, NEW d, NEW resource, NEW failure, NEW state,
         Requests(row, headers) = {d}, DecodedResource(row) = {resource},
         DecodedFailure(row) = {failure}, ReadStates(row) = {state}
  PROVE  ToJob(id, row, headers) = {ReadRecord(id, row, d, resource, failure, state)}
PROOF
  <1>1. \A x : x \in ToJob(id, row, headers) <=>
          \E a \in Requests(row, headers), b \in DecodedResource(row),
             c \in DecodedFailure(row), e \in ReadStates(row) : x = ReadRecord(id, row, a, b, c, e)
    BY SMT DEF ToJob, Requests, ReadStates, ReadRecord
  <1>2. \A x : x \in ToJob(id, row, headers) <=> x \in {ReadRecord(id, row, d, resource, failure, state)}
    BY <1>1, Zenon
  <1>3. ToJob(id, row, headers) = {ReadRecord(id, row, d, resource, failure, state)}
    BY <1>2, SMT
  <1> QED BY <1>3

\* A row that is one record is so in each of its parts.
LEMMA OneRequest ==
  ASSUME NEW id, NEW row, NEW headers, NEW r, ToJob(id, row, headers) = {r}
  PROVE  /\ Requests(row, headers) = {r.download}
         /\ r.id = id /\ r.created = DecodeTimestamp(row.created)
PROOF
  <1>1. \A x : x \in ToJob(id, row, headers) <=>
          \E a \in Requests(row, headers), b \in DecodedResource(row),
             c \in DecodedFailure(row), e \in ReadStates(row) : x = ReadRecord(id, row, a, b, c, e)
    BY SMT DEF ToJob, Requests, ReadStates, ReadRecord
  <1>2. \A a, b, c, e : /\ ReadRecord(id, row, a, b, c, e).download = a /\ ReadRecord(id, row, a, b, c, e).id = id
                        /\ ReadRecord(id, row, a, b, c, e).created = DecodeTimestamp(row.created)
    BY SMT DEF ReadRecord
  <1>3. PICK a \in Requests(row, headers), b \in DecodedResource(row),
             c \in DecodedFailure(row), e \in ReadStates(row) : r = ReadRecord(id, row, a, b, c, e)
    BY <1>1, Zenon
  <1>4. r.download \in Requests(row, headers)  BY <1>2, <1>3, Zenon
  <1>5. ASSUME NEW d \in Requests(row, headers) PROVE d = r.download
    <2>1. ReadRecord(id, row, d, b, c, e) \in ToJob(id, row, headers)  BY <1>1, <1>3, <1>5, Zenon
    <2>2. ReadRecord(id, row, d, b, c, e) = r  BY <2>1, Zenon
    <2> QED BY <1>2, <2>2, Zenon
  <1>6. Requests(row, headers) = {r.download}  BY <1>4, <1>5, Zenon
  <1>7. r.id = id /\ r.created = DecodeTimestamp(row.created)  BY <1>2, <1>3, SMT
  <1> QED BY <1>6, <1>7, Zenon

\* The resource of a saved record is read back from its three columns.
LEMMA ResourceReadsBack ==
  ASSUME NEW r, IsRecord(r), NEW row, Carries(row, r)
  PROVE  DecodedResource(row) = {r.resource}
PROOF
  <1>1. CASE r.resource = None
    <2>1. row.resource_kind = None  BY <1>1, Zenon DEF Carries, None
    <2>2. row.resource_name = None /\ row.resource_type = None  BY <1>1, SMT DEF Carries, None
    <2>3. DecodedResource(row) = Some(None)  BY <2>1, <2>2, Zenon DEF DecodedResource
    <2> QED BY <2>3, <1>1, Zenon DEF Some
  <1>2. CASE r.resource # None
    <2> DEFINE x == The(r.resource)
    <2>1. r.resource = {x} /\ IsResource(x)  BY <1>2, Zenon DEF IsRecord, Some
    <2> HIDE DEF x
    <2>2. row.resource_kind = {ResourceNames[x.kind]}  BY <2>1, Zenon DEF Carries
    <2>3. {y.name : y \in r.resource} = {x.name} /\ {y.type : y \in r.resource} = {x.type}
      BY <2>1, Zenon
    <2>4. row.resource_name = x.name  BY <2>3, SMT DEF Carries
    <2>5. row.resource_type = x.type  BY <2>3, SMT DEF Carries
    <2>6. row.resource_kind # None /\ The(row.resource_kind) = ResourceNames[x.kind]
      BY <2>2, TheOfSome, Zenon DEF Some
    <2>7. Decoded(ResourceNames, The(row.resource_kind)) = {x.kind}
      BY <2>1, <2>6, ResourceNamesDecode, Zenon DEF IsResource
    <2>8. DecodedResource(row) =
            {Some([kind |-> kind, name |-> row.resource_name, type |-> row.resource_type]) :
                kind \in {x.kind}}
      BY <2>6, <2>7, Zenon DEF DecodedResource
    <2>9. x = [kind |-> x.kind, name |-> row.resource_name, type |-> row.resource_type]
      BY <2>1, <2>4, <2>5, Zenon DEF IsResource
    <2>10. \A z : z \in DecodedResource(row) <=> z = Some(x)
      BY <2>8, <2>9, Zenon
    <2>11. \A z : z \in DecodedResource(row) <=> z \in {Some(x)}  BY <2>10, Zenon
    <2>12. DecodedResource(row) = {Some(x)}  BY <2>11, SMT
    <2> QED BY <2>1, <2>12, Zenon DEF Some
  <1> QED BY <1>1, <1>2

\* And its failure, where a failure that is not worth retrying says so.
LEMMA FailureReadsBack ==
  ASSUME NEW r, IsRecord(r), NEW row, Carries(row, r)
  PROVE  DecodedFailure(row) = {r.failure}
PROOF
  <1>1. CASE r.failure = None
    <2>1. row.failure_kind = None /\ row.failure_message = None  BY <1>1, Zenon DEF Carries, None
    <2>2. row.retryable = None  BY <1>1, Zenon DEF Carries, None, Retryable
    <2>3. DecodedFailure(row) = Some(None)  BY <2>1, <2>2, Zenon DEF DecodedFailure
    <2> QED BY <2>3, <1>1, Zenon DEF Some
  <1>2. CASE r.failure # None
    <2> DEFINE f == The(r.failure)
    <2>1. r.failure = {f} /\ IsFailure(f)  BY <1>2, Zenon DEF IsRecord, Some
    <2> HIDE DEF f
    <2>2. row.failure_kind = {FailureNames[f.kind]} /\ row.failure_message = {f.message}
      BY <2>1, Zenon DEF Carries
    <2>3. row.retryable = {IF f.retryable THEN 1 ELSE 0}  BY <2>1, Zenon DEF Carries, Retryable
    <2>4. /\ row.failure_kind # None /\ The(row.failure_kind) = FailureNames[f.kind]
          /\ row.failure_message # None /\ The(row.failure_message) = f.message
      BY <2>2, TheOfSome, Zenon DEF Some
    <2>5. f.retryable \in BOOLEAN  BY <2>1, Zenon DEF IsFailure
    <2>6. row.retryable \in {{0}, {1}} /\ (row.retryable = {1}) = f.retryable
      <3>1. CASE f.retryable = TRUE
        <4>1. row.retryable = {1}  BY <2>3, <3>1, Zenon
        <4> QED BY <3>1, <4>1, Zenon
      <3>2. CASE f.retryable = FALSE
        <4>1. row.retryable = {0}  BY <2>3, <3>2, Zenon
        <4>2. 0 # 1  OBVIOUS
        <4>3. {0} # {1}  BY <4>2, Zenon
        <4> QED BY <3>2, <4>1, <4>3, Zenon
      <3> QED BY <2>5, <3>1, <3>2
    <2>7. Decoded(FailureNames, The(row.failure_kind)) = {f.kind}
      BY <2>1, <2>4, FailureNamesDecode, Zenon DEF IsFailure
    <2>8. DecodedFailure(row) =
            {Some([kind |-> kind, message |-> The(row.failure_message),
                   retryable |-> row.retryable = {1}]) : kind \in {f.kind}}
      BY <2>4, <2>6, <2>7, Zenon DEF DecodedFailure
    <2>9. DecodedFailure(row) =
            {Some([kind |-> f.kind, message |-> f.message, retryable |-> f.retryable])}
      BY <2>4, <2>6, <2>8, Zenon
    <2>10. f = [kind |-> f.kind, message |-> f.message, retryable |-> f.retryable]
      BY <2>1, Zenon DEF IsFailure
    <2> QED BY <2>1, <2>9, <2>10, Zenon DEF Some
  <1> QED BY <1>1, <1>2

\* And its state, with its progress.
LEMMA StateReadsBack ==
  ASSUME NEW r, IsRecord(r), NEW row, Carries(row, r)
  PROVE  ReadStates(row) = {r.state} /\ DecodeTotal(row.total) = r.total
PROOF
  <1>1. DecodeTotal(row.total) = r.total  BY TotalRoundTrip, Zenon DEF IsRecord, Carries
  <1>2. Decoded(StateNames, row.state) = {r.state}
    BY StateNamesDecode, Zenon DEF IsRecord, Carries
  <1>3. row.done >= 0 /\ ValidProgress(row.done, DecodeTotal(row.total))
    <2>1. row.done = r.done  BY Zenon DEF Carries
    <2>2. r.done \in Nat /\ ValidProgress(r.done, r.total)  BY Zenon DEF IsRecord
    <2>3. row.done >= 0  BY <2>1, <2>2, SMT
    <2> QED BY <1>1, <2>1, <2>2, <2>3, Zenon
  <1>4. ReadStates(row) = Decoded(StateNames, row.state)  BY <1>3, Zenon DEF ReadStates
  <1> QED BY <1>1, <1>2, <1>4, Zenon

\* A row with the request and the columns of a record reads back as the record.
LEMMA RowReadsBack ==
  ASSUME NEW id, NEW row, NEW headers, NEW r, IsStored(r), Carries(row, r), r.id = id,
         Requests(row, headers) = {r.download}, DecodeTimestamp(row.created) = r.created
  PROVE  ToJob(id, row, headers) = {r}
PROOF
  <1>1. IsRecord(r)  BY Zenon DEF IsStored
  <1>2. ToJob(id, row, headers) =
          {ReadRecord(id, row, r.download, r.resource, r.failure, r.state)}
    <2>1. DecodedResource(row) = {r.resource}  BY <1>1, ResourceReadsBack
    <2>2. DecodedFailure(row) = {r.failure}  BY <1>1, FailureReadsBack
    <2>3. ReadStates(row) = {r.state}  BY <1>1, StateReadsBack
    <2> QED BY <2>1, <2>2, <2>3, OneRecord
  <1>3. DecodeTotal(row.total) = r.total  BY <1>1, StateReadsBack, Zenon
  <1>4. DecodeTimestamp(row.updated) = r.updated
    BY Zenon DEF Carries, IsStored, Normalized
  <1>5. row.resolved = r.resolved /\ row.done = r.done  BY Zenon DEF Carries
  <1>6. r = [id |-> r.id, download |-> r.download, resolved |-> r.resolved,
             resource |-> r.resource, state |-> r.state, done |-> r.done, total |-> r.total,
             failure |-> r.failure, created |-> r.created, updated |-> r.updated]
    BY <1>1, Zenon DEF IsRecord
  <1> QED BY <1>2, <1>3, <1>4, <1>5, <1>6, Zenon DEF ReadRecord

\* Such a row meets the constraints of the schema.
LEMMA RowIsAllowed ==
  ASSUME NEW row, NEW r, IsRecord(r), Carries(row, r),
         row.origin \in {"desktop", "cli", "browser"},
         row.policy \in {"rename", "overwrite", "fail"},
         IF row.origin = "browser" THEN row.page # None ELSE row.page = None /\ row.title = None
  PROVE  AllowedRow(row)
PROOF
  <1>1. row.state \in {"queued", "inspecting", "downloading", "paused", "finalizing",
                       "completed", "failed", "cancelled", "interrupted"}
    <2>1. r.state \in States /\ row.state = StateNames[r.state]  BY Zenon DEF IsRecord, Carries
    <2> QED BY <2>1, SMT DEF States, StateNames
  <1>2. row.done >= 0 /\ \A total \in row.total : total >= 0 /\ row.done <= total
    <2>1. row.done = r.done /\ row.total = EncodeTotal(r.total)  BY Zenon DEF Carries
    <2>2. r.done \in Nat /\ r.total \in Nat \cup {Unknown} /\ ValidProgress(r.done, r.total)
      BY Zenon DEF IsRecord
    <2> QED BY <2>1, <2>2, SMT DEF EncodeTotal, ValidProgress, Unknown, None, Some
  <1>3. /\ row.resource_kind \subseteq {"unknown", "file", "hls", "dash"}
        /\ row.resource_kind = None => row.resource_name = None /\ row.resource_type = None
    <2>1. CASE r.resource = None
      <3>1. row.resource_kind = {}  BY <2>1, Zenon DEF Carries, None
      <3>2. row.resource_name = {} /\ row.resource_type = {}  BY <2>1, SMT DEF Carries, None
      <3> QED BY <3>1, <3>2, Zenon DEF None
    <2>2. CASE r.resource # None
      <3> DEFINE x == The(r.resource)
      <3>1. r.resource = {x} /\ IsResource(x)  BY <2>2, Zenon DEF IsRecord, Some
      <3> HIDE DEF x
      <3>2. row.resource_kind = {ResourceNames[x.kind]}  BY <3>1, Zenon DEF Carries
      <3>3. ResourceNames[x.kind] \in {"unknown", "file", "hls", "dash"}
        BY <3>1, ResourceNamesDecode, Zenon DEF IsResource
      <3> QED BY <3>2, <3>3, Zenon DEF None
    <2> QED BY <2>1, <2>2
  <1>4. /\ row.failure_kind \subseteq {"network", "authentication", "remote_rejected",
               "invalid_response", "unsupported_resource", "permission_denied", "disk_full",
               "integrity", "storage", "internal"}
        /\ \/ row.failure_kind = None /\ row.failure_message = None /\ row.retryable = None
           \/ /\ row.failure_kind # None /\ row.failure_message # None
              /\ row.retryable \in {{0}, {1}}
    <2>1. CASE r.failure = None  BY <2>1, Zenon DEF Carries, None, Retryable
    <2>2. CASE r.failure # None
      <3> DEFINE f == The(r.failure)
      <3>1. r.failure = {f} /\ IsFailure(f)  BY <2>2, Zenon DEF IsRecord, Some
      <3> HIDE DEF f
      <3>2. row.failure_kind = {FailureNames[f.kind]} /\ row.failure_message = {f.message}
        BY <3>1, Zenon DEF Carries
      <3>3. row.retryable = {IF f.retryable THEN 1 ELSE 0}
        BY <3>1, Zenon DEF Carries, Retryable
      <3>4. FailureNames[f.kind] \in {"network", "authentication", "remote_rejected",
               "invalid_response", "unsupported_resource", "permission_denied", "disk_full",
               "integrity", "storage", "internal"}
        BY <3>1, FailureNamesDecode, Zenon DEF IsFailure
      <3>5. row.retryable \in {{0}, {1}}  BY <3>3, Zenon
      <3>6. row.failure_kind # None /\ row.failure_message # None  BY <3>2, Zenon DEF None
      <3>7. row.failure_kind \subseteq {"network", "authentication", "remote_rejected",
               "invalid_response", "unsupported_resource", "permission_denied", "disk_full",
               "integrity", "storage", "internal"}
        BY <3>2, <3>4, Zenon
      <3> QED BY <3>5, <3>6, <3>7, Zenon
    <2> QED BY <2>1, <2>2
  <1> QED BY <1>1, <1>2, <1>3, <1>4, Zenon DEF AllowedRow

\* What save leaves alone of a row and what it sets.
LEMMA UpdatedColumns ==
  ASSUME NEW row, DOMAIN row = Columns, NEW r
  PROVE  LET u == UpdatedRow(row, r)
         IN  /\ DOMAIN u = Columns /\ u = [c \in DOMAIN u |-> u[c]]
             /\ Carries(u, r)
             /\ u.url = row.url /\ u.origin = row.origin /\ u.page = row.page
             /\ u.title = row.title /\ u.directory = row.directory
             /\ u.filename = row.filename /\ u.policy = row.policy
             /\ u.created = row.created /\ u.selection = row.selection
PROOF
  <1> DEFINE u == UpdatedRow(row, r)
  <1>1. DOMAIN u = Columns  BY Zenon DEF UpdatedRow
  <1>2. u = [c \in DOMAIN u |-> u[c]]  BY Zenon DEF UpdatedRow
  <1>3. Carries(u, r)  BY SMT DEF UpdatedRow, Carries, Columns
  <1>4. /\ u.url = row.url /\ u.origin = row.origin /\ u.page = row.page
        /\ u.title = row.title /\ u.directory = row.directory
        /\ u.filename = row.filename /\ u.policy = row.policy
        /\ u.created = row.created /\ u.selection = row.selection
    BY SMT DEF UpdatedRow, Columns
  <1> QED BY <1>1, <1>2, <1>3, <1>4

\* The request is read from the columns of the creation alone.
LEMMA SameRequests ==
  ASSUME NEW row, NEW u, NEW headers,
         u.url = row.url, u.origin = row.origin, u.page = row.page, u.title = row.title,
         u.directory = row.directory, u.filename = row.filename, u.policy = row.policy,
         u.selection = row.selection
  PROVE  Requests(u, headers) = Requests(row, headers)
PROOF
  <1>1. DecodedOrigin(u) = DecodedOrigin(row)  BY Zenon DEF DecodedOrigin
  <1>2. \A d : d \in DecodedDownload(u, headers) <=> d \in DecodedDownload(row, headers)
    BY <1>1, SMT DEF DecodedDownload
  <1> QED BY <1>2, SMT DEF Requests

\* A row that can be read has an origin and a policy the schema allows.
LEMMA ReadableRow ==
  ASSUME NEW row, NEW headers, Requests(row, headers) # {}
  PROVE  /\ row.origin \in {"desktop", "cli", "browser"}
         /\ row.policy \in {"rename", "overwrite", "fail"}
         /\ IF row.origin = "browser" THEN row.page # None
            ELSE row.page = None /\ row.title = None
PROOF
  <1>1. PICK origin \in DecodedOrigin(row), policy \in Decoded(PolicyNames, row.policy) : TRUE
    <2>1. DecodedDownload(row, headers) # {}  BY Zenon DEF Requests
    <2> QED BY <2>1, SMT DEF DecodedDownload
  <1>2. /\ policy \in DOMAIN PolicyNames /\ row.policy = PolicyNames[policy]
        /\ origin \in DOMAIN OriginNames /\ row.origin = OriginNames[origin]
        /\ IF origin = "Browser" THEN row.page # None ELSE row.page = None /\ row.title = None
    BY <1>1, Zenon DEF Decoded, DecodedOrigin
  <1>3. row.policy \in {"rename", "overwrite", "fail"}  BY <1>2, PolicyNamesDecode, Zenon
  <1>4. /\ row.origin \in {"desktop", "cli", "browser"}
        /\ row.origin = "browser" <=> origin = "Browser"
    BY <1>2, OriginNamesDecode, Zenon
  <1> QED BY <1>2, <1>3, <1>4, Zenon

\* A save of a version of the record leaves a row that reads back as it, and no
\* constraint turns it away (save).
LEMMA SavedRowReadsBack ==
  ASSUME NEW id, NEW row, NEW headers, NEW r, NEW s,
         ToJob(id, row, headers) = {r}, DOMAIN row = Columns,
         IsStored(s), s.id = id, s.download = r.download, s.created = r.created
  PROVE  /\ ToJob(id, UpdatedRow(row, s), headers) = {s}
         /\ AllowedRow(UpdatedRow(row, s))
PROOF
  <1> DEFINE u == UpdatedRow(row, s)
  <1>1. /\ Carries(u, s)
        /\ u.url = row.url /\ u.origin = row.origin /\ u.page = row.page
        /\ u.title = row.title /\ u.directory = row.directory
        /\ u.filename = row.filename /\ u.policy = row.policy
        /\ u.created = row.created /\ u.selection = row.selection
    BY UpdatedColumns, Zenon
  <1> HIDE DEF u
  <1>2. Requests(row, headers) = {s.download} /\ s.created = DecodeTimestamp(row.created)
    <2>1. Requests(row, headers) = {r.download}  BY OneRequest
    <2>2. r.created = DecodeTimestamp(row.created)  BY OneRequest
    <2> QED BY <2>1, <2>2
  <1>3. Requests(u, headers) = {s.download}  BY <1>1, <1>2, SameRequests, Zenon
  <1>4. DecodeTimestamp(u.created) = s.created  BY <1>1, <1>2, Zenon
  <1>5. ToJob(id, u, headers) = {s}  BY <1>1, <1>3, <1>4, RowReadsBack
  <1>6. Requests(u, headers) # {}  BY <1>3, Zenon
  <1>7. IsRecord(s)  BY Zenon DEF IsStored
  <1>8. AllowedRow(u)  BY <1>1, <1>6, <1>7, ReadableRow, RowIsAllowed, Zenon
  <1> QED BY <1>5, <1>8, Zenon DEF u

\* The header rows of a create are its headers, by position (insert_headers,
\* load_headers).
LEMMA HeadersReadBack ==
  ASSUME NEW k, IsCreate(k), k.written = Len(k.download.headers),
         NEW stored, {h \in stored : h.id = k.id} = HeaderRows(k)
  PROVE  Headers(stored, k.id) = k.download.headers
PROOF
  <1> DEFINE headers == k.download.headers
             n == Len(headers)
             Row(i) == [id |-> k.id, position |-> i, name |-> headers[i + 1].name]
             rows == HeaderRows(k)
             f == [i \in 0..(n - 1) |-> Row(i)]
  <1>1. n \in Nat /\ IsDownload(k.download)  BY Zenon DEF IsCreate, IsDownload
  <1>2. rows = {Row(i) : i \in 0..(n - 1)}  BY Zenon DEF HeaderRows
  <1>3. \A i, j : Row(i) = Row(j) => i = j
    <2>1. \A i : Row(i).position = i  BY SMT
    <2> QED BY <2>1, Zenon
  <1>4. \A i : Row(i).position = i /\ Row(i).name = headers[i + 1].name  BY SMT
  <1>5. f \in Bijection(0..(n - 1), rows)
    <2> HIDE DEF Row, n
    <2>1. f \in [0..(n - 1) -> rows]  BY <1>2, Zenon
    <2>2. \A a, b \in 0..(n - 1) : f[a] = f[b] => a = b  BY <1>3, Zenon
    <2>3. \A t \in rows : \E s \in 0..(n - 1) : f[s] = t  BY <1>2, Zenon
    <2> QED BY <2>1, <2>2, <2>3, Zenon DEF Bijection, Injection, Surjection, IsInjective
  <1>6. ExistsBijection(0..(n - 1), rows)  BY <1>5, Zenon DEF ExistsBijection
  <1>7. IsFiniteSet(0..(n - 1)) /\ Cardinality(0..(n - 1)) = n
    <2>1. 0 \in Int /\ n - 1 \in Int  BY <1>1, SMT
    <2>2. /\ IsFiniteSet(0..(n - 1))
          /\ Cardinality(0..(n - 1)) = IF 0 > n - 1 THEN 0 ELSE (n - 1) - 0 + 1
      BY <2>1, FS_Interval
    <2> HIDE DEF n
    <2> QED BY <1>1, <2>2, SMT
  <1>8. Cardinality(rows) = n
    <2>1. \A S, T : IsFiniteSet(S) /\ ExistsBijection(S, T) => Cardinality(T) = Cardinality(S)
      BY FS_Bijection
    <2> QED BY <1>6, <1>7, <2>1, Zenon
  <1>9. ASSUME NEW i \in 1..n
        PROVE  [name |-> (CHOOSE h \in rows : h.position = i - 1).name, sensitive |-> FALSE]
                 = headers[i]
    <2> DEFINE h == CHOOSE x \in rows : x.position = i - 1
    <2>1. i - 1 \in 0..(n - 1) /\ (i - 1) + 1 = i
      <3> HIDE DEF n
      <3> QED BY <1>1, <1>9, SMT
    <2> HIDE DEF Row, n
    <2>2. Row(i - 1) \in rows /\ Row(i - 1).position = i - 1  BY <1>2, <1>4, <2>1, Zenon
    <2>3. h \in rows /\ h.position = i - 1  BY <2>2, Zenon
    <2> HIDE DEF h
    <2>4. h = Row(i - 1)
      <3>1. PICK j \in 0..(n - 1) : h = Row(j)  BY <1>2, <2>3, Zenon
      <3>2. j = i - 1  BY <1>4, <2>3, <3>1, Zenon
      <3> QED BY <3>1, <3>2, Zenon
    <2>5. h.name = headers[i].name  BY <1>4, <2>1, <2>4, Zenon
    <2>6. headers[i].sensitive = FALSE
      <3> USE DEF n
      <3>1. headers[i].sensitive \in BOOLEAN  BY <1>1, <1>9, Zenon DEF IsDownload
      <3>2. DOMAIN headers = 1..n  BY <1>1, Zenon DEF IsDownload
      <3>3. ~headers[i].sensitive  BY <1>9, <3>2, Zenon DEF IsCreate, HasSensitiveHeaders
      <3> QED BY <3>1, <3>3, Zenon
    <2>7. headers[i] = [name |-> headers[i].name, sensitive |-> headers[i].sensitive]
      <3> USE DEF n
      <3> QED BY <1>1, <1>9, Zenon DEF IsDownload
    <2>8. [name |-> h.name, sensitive |-> FALSE] = headers[i]  BY <2>5, <2>6, <2>7, Zenon
    <2> QED BY <2>8 DEF h
  <1>10. headers = [i \in 1..n |-> headers[i]]
    <2>1. headers = [i \in 1..n |->
                       [name |-> headers[i].name, sensitive |-> headers[i].sensitive]]
      BY <1>1, Zenon DEF IsDownload
    <2> QED BY <2>1, Zenon
  <1>11. Headers(stored, k.id) =
           [i \in 1..n |-> [name |-> (CHOOSE h \in rows : h.position = i - 1).name,
                            sensitive |-> FALSE]]
    <2> HIDE DEF rows, n
    <2>1. {h \in stored : h.id = k.id} = rows  BY Zenon DEF rows
    <2> QED BY <1>8, <2>1, Zenon DEF Headers
  <1> HIDE DEF n, headers, rows
  <1>12. Headers(stored, k.id) = headers  BY <1>9, <1>10, <1>11, Zenon
  <1> QED BY <1>12, Zenon DEF headers

\* The columns of the row of a create (insert_download, NewDownload).
LEMMA InsertedColumns ==
  ASSUME NEW d, NEW now, NEW selection
  PROVE  LET row == NewRow(d, now, selection)
         IN  /\ DOMAIN row = Columns /\ row = [c \in DOMAIN row |-> row[c]]
             /\ row.url = d.url /\ row.origin = OriginNames[d.origin] /\ row.page = d.page
             /\ row.title = d.title /\ row.directory = d.directory
             /\ row.filename = d.filename /\ row.policy = PolicyNames[d.policy]
             /\ row.created = EncodeTimestamp(now) /\ row.selection = selection
PROOF
  <1> DEFINE new == InsertedRow(d, EncodeTimestamp(now))
             row == NewRow(d, now, selection)
  <1>1. DOMAIN new = Columns  BY SMT DEF InsertedRow, Columns
  <1>2. DOMAIN row = Columns /\ row = [c \in DOMAIN row |-> row[c]]
    <2>1. row = [new EXCEPT !.selection = selection]  BY Zenon DEF NewRow
    <2> HIDE DEF new, row
    <2> QED BY <1>1, <2>1, Zenon
  <1>3. /\ row.url = d.url /\ row.origin = OriginNames[d.origin] /\ row.page = d.page
        /\ row.title = d.title /\ row.directory = d.directory
        /\ row.filename = d.filename /\ row.policy = PolicyNames[d.policy]
        /\ row.created = EncodeTimestamp(now) /\ row.selection = selection
    BY SMT DEF InsertedRow, NewRow
  <1> QED BY <1>2, <1>3

\* They hold the record the create returns.
LEMMA InsertedCarries ==
  ASSUME NEW d, NEW now \in Nat, NEW id, NEW selection
  PROVE  Carries(NewRow(d, now, selection), NewRecord(id, d, now))
PROOF
  <1> DEFINE row == NewRow(d, now, selection)
             r == NewRecord(id, d, now)
  <1>1. /\ row.state = "queued" /\ row.done = 0 /\ row.total = None
        /\ row.updated = EncodeTimestamp(now) /\ row.resolved = None
        /\ row.resource_kind = None /\ row.resource_name = None /\ row.resource_type = None
        /\ row.failure_kind = None /\ row.failure_message = None /\ row.retryable = None
    BY SMT DEF InsertedRow, NewRow
  <1>2. /\ r.state = "Queued" /\ r.done = 0 /\ r.total = Unknown /\ r.updated = Normalized(now)
        /\ r.resolved = None /\ r.resource = None /\ r.failure = None
    BY SMT DEF NewRecord
  <1> HIDE DEF r
  <1>3. StateNames["Queued"] = "queued" /\ EncodeTotal(Unknown) = None
    BY SMT DEF StateNames, EncodeTotal
  <1>4. EncodeTimestamp(Normalized(now)) = EncodeTimestamp(now)
    BY TimeRoundTrip, SMT DEF Normalized, DecodeTimestamp, EncodeTimestamp
  <1>5. /\ {ResourceNames[x.kind] : x \in r.resource} = None
        /\ {FailureNames[f.kind] : f \in r.failure} = None
        /\ {f.message : f \in r.failure} = None /\ Retryable(r.failure) = None
    BY <1>2, Zenon DEF None, Retryable
  <1>6. /\ UNION {x.name : x \in r.resource} = None
        /\ UNION {x.type : x \in r.resource} = None
    BY <1>2, SMT DEF None
  <1>7. Carries(row, r)  BY <1>1, <1>2, <1>3, <1>4, <1>5, <1>6, Zenon DEF Carries
  <1> QED BY <1>7, Zenon DEF r

\* The record of a new download has the precision of the columns (NewDownload,
\* create's answer).
LEMMA NewRecordIsStored ==
  ASSUME NEW d, NEW now \in Nat, NEW id
  PROVE  LET r == NewRecord(id, d, now)
         IN  /\ IsStored(r) /\ r.id = id /\ r.download = d
             /\ r.created = Normalized(now)
PROOF
  <1> DEFINE r == NewRecord(id, d, now)
             m == Normalized(now)
  <1>1. m \in Nat /\ Normalized(m) = m  BY TimeRoundTrip
  <1> HIDE DEF m
  <1>2. r = [id |-> id, download |-> d, resolved |-> None, resource |-> None,
             state |-> "Queued", done |-> 0, total |-> Unknown, failure |-> None,
             created |-> m, updated |-> m]
    BY Zenon DEF NewRecord, m
  <1> HIDE DEF r
  <1>3. /\ r.id = id /\ r.download = d /\ r.resolved = None /\ r.resource = None
        /\ r.state = "Queued" /\ r.done = 0 /\ r.total = Unknown /\ r.failure = None
        /\ r.created = m /\ r.updated = m
    BY <1>2, SMT
  <1>4. r = [id |-> r.id, download |-> r.download, resolved |-> r.resolved,
             resource |-> r.resource, state |-> r.state, done |-> r.done, total |-> r.total,
             failure |-> r.failure, created |-> r.created, updated |-> r.updated]
    BY <1>2, <1>3, Zenon
  <1>5. /\ r.state \in States /\ r.done \in Nat /\ r.total \in Nat \cup {Unknown}
        /\ ValidProgress(r.done, r.total)
    BY <1>3, SMT DEF States, ValidProgress, Unknown
  <1>6. IsRecord(r)  BY <1>1, <1>3, <1>4, <1>5, Zenon DEF IsRecord
  <1> QED BY <1>1, <1>3, <1>6, Zenon DEF IsStored, r, m

\* The row a create inserts is one the schema allows.
LEMMA InsertedRowIsAllowed ==
  ASSUME NEW d, IsDownload(d), NEW now \in Nat
  PROVE  AllowedRow(InsertedRow(d, EncodeTimestamp(now)))
PROOF
  <1> DEFINE row == NewRow(d, now, None)
             r == NewRecord(0, d, now)
  <1>1. row = InsertedRow(d, EncodeTimestamp(now))  BY SMT DEF NewRow, InsertedRow
  <1>2. /\ row.origin = OriginNames[d.origin] /\ row.page = d.page
        /\ row.title = d.title /\ row.policy = PolicyNames[d.policy]
    BY InsertedColumns
  <1>3. IsRecord(r)  BY NewRecordIsStored, Zenon DEF IsStored
  <1>4. Carries(row, r)  BY InsertedCarries, Zenon
  <1> HIDE DEF row, r
  <1>5. /\ d.origin \in DOMAIN OriginNames /\ d.policy \in DOMAIN PolicyNames
        /\ IF d.origin = "Browser" THEN d.page # None ELSE d.page = None /\ d.title = None
    BY Zenon DEF IsDownload
  <1>6. /\ row.origin \in {"desktop", "cli", "browser"}
        /\ row.policy \in {"rename", "overwrite", "fail"}
        /\ IF row.origin = "browser" THEN row.page # None
           ELSE row.page = None /\ row.title = None
    BY <1>2, <1>5, OriginNamesDecode, PolicyNamesDecode, Zenon
  <1>7. AllowedRow(row)  BY <1>3, <1>6, <1>4, RowIsAllowed, Zenon
  <1> QED BY <1>1, <1>7, Zenon

\* With its headers stored, it reads back as the record the create returns.
LEMMA CreatedRowReadsBack ==
  ASSUME NEW k, IsCreate(k), k.pc = "headers", k.written = Len(k.download.headers),
         NEW stored, {h \in stored : h.id = k.id} = HeaderRows(k)
  PROVE  ToJob(k.id, CreatedRow(k), Headers(stored, k.id)) =
           {NewRecord(k.id, k.download, k.now)}
PROOF
  <1> DEFINE d == k.download
             row == CreatedRow(k)
             r == NewRecord(k.id, d, k.now)
             headers == Headers(stored, k.id)
  <1>1. headers = d.headers  BY HeadersReadBack
  <1>2. IsDownload(d) /\ ~HasSensitiveHeaders(d) /\ k.now \in Nat  BY Zenon DEF IsCreate
  <1>3. row = NewRow(d, k.now, d.selection)  BY Zenon DEF CreatedRow
  <1> HIDE DEF d
  <1>4. /\ Carries(row, r)
        /\ row.url = d.url /\ row.origin = OriginNames[d.origin] /\ row.page = d.page
        /\ row.title = d.title /\ row.directory = d.directory
        /\ row.filename = d.filename /\ row.policy = PolicyNames[d.policy]
        /\ row.created = EncodeTimestamp(k.now) /\ row.selection = d.selection
    <2>1. Carries(row, r)  BY <1>2, <1>3, InsertedCarries, Zenon
    <2> HIDE DEF row, r
    <2> QED BY <2>1, <1>3, InsertedColumns
  <1>5. IsStored(r) /\ r.id = k.id /\ r.download = d /\ r.created = Normalized(k.now)
    BY <1>2, NewRecordIsStored
  <1> HIDE DEF row, r, headers
  <1>6. DecodeTimestamp(row.created) = r.created  BY <1>4, <1>5, Zenon DEF Normalized
  <1>7. /\ d.origin \in DOMAIN OriginNames /\ d.policy \in DOMAIN PolicyNames
        /\ IF d.origin = "Browser" THEN d.page # None ELSE d.page = None /\ d.title = None
        /\ d = [url |-> d.url, headers |-> d.headers, selection |-> d.selection,
                origin |-> d.origin, page |-> d.page, title |-> d.title,
                directory |-> d.directory, filename |-> d.filename, policy |-> d.policy]
    BY <1>2, Zenon DEF IsDownload
  <1>8. Decoded(OriginNames, row.origin) = {d.origin}
    BY <1>4, <1>7, OriginNamesDecode, Zenon
  <1>9. DecodedOrigin(row) = {d.origin}
    BY <1>4, <1>7, <1>8, Zenon DEF DecodedOrigin
  <1>10. Decoded(PolicyNames, row.policy) = {d.policy}
    BY <1>4, <1>7, PolicyNamesDecode, Zenon
  <1> DEFINE D(origin, policy) ==
        [url |-> row.url, headers |-> headers, selection |-> row.selection, origin |-> origin,
         page |-> row.page, title |-> row.title, directory |-> row.directory,
         filename |-> row.filename, policy |-> policy]
  <1>11. \A x : x \in DecodedDownload(row, headers) <=>
           \E origin \in DecodedOrigin(row), policy \in Decoded(PolicyNames, row.policy) :
              x = D(origin, policy)
    BY SMT DEF DecodedDownload
  <1>12. D(d.origin, d.policy) = d  BY <1>1, <1>4, <1>7, Zenon
  <1> HIDE DEF D
  <1>13. \A x : x \in DecodedDownload(row, headers) <=> x = d
    BY <1>9, <1>10, <1>11, <1>12, Zenon
  <1>14. \A x : x \in Requests(row, headers) <=> x \in {d}  BY <1>2, <1>13, Zenon DEF Requests
  <1>15. Requests(row, headers) = {r.download}  BY <1>5, <1>14, SMT
  <1>16. Carries(row, r)  BY <1>4
  <1>17. IsStored(r)  BY <1>5
  <1>18. ToJob(r.id, row, headers) = {r}  BY <1>6, <1>15, <1>16, <1>17, RowReadsBack
  <1>19. ToJob(k.id, row, headers) = {r}  BY <1>5, <1>18, Zenon
  <1> QED BY <1>19, Zenon DEF row, headers, r, d

-----------------------------------------------------------------------------
(* The migrations. *)

\* Columns added in two migrations are the columns of both (ALTER TABLE).
LEMMA ColumnsCompose ==
  ASSUME NEW row, NEW a, NEW b
  PROVE  WithColumns(WithColumns(row, a), b) = WithColumns(row, WithColumns(a, b))
PROOF
  <1> DEFINE l == WithColumns(WithColumns(row, a), b)
             r == WithColumns(row, WithColumns(a, b))
             D == (DOMAIN row \cup DOMAIN a) \cup DOMAIN b
             E(c) == IF c \in DOMAIN row THEN row[c] ELSE IF c \in DOMAIN a THEN a[c] ELSE b[c]
  <1>1. l = [c \in D |-> E(c)]
    <2>1. DOMAIN WithColumns(row, a) = DOMAIN row \cup DOMAIN a  BY Zenon DEF WithColumns
    <2>2. \A c \in DOMAIN row \cup DOMAIN a :
            WithColumns(row, a)[c] = IF c \in DOMAIN row THEN row[c] ELSE a[c]
      BY Zenon DEF WithColumns
    <2> QED BY <2>1, <2>2, SMT DEF WithColumns
  <1>2. r = [c \in D |-> E(c)]
    <2>1. DOMAIN WithColumns(a, b) = DOMAIN a \cup DOMAIN b  BY Zenon DEF WithColumns
    <2>2. \A c \in DOMAIN a \cup DOMAIN b :
            WithColumns(a, b)[c] = IF c \in DOMAIN a THEN a[c] ELSE b[c]
      BY Zenon DEF WithColumns
    <2>3. DOMAIN row \cup DOMAIN WithColumns(a, b) = D  BY <2>1, SMT
    <2> QED BY <2>1, <2>2, <2>3, SMT DEF WithColumns
  <1> QED BY <1>1, <1>2

NoColumns == [c \in {} |-> None]

\* A migration that adds no column changes no row.
LEMMA NoColumnsAdded ==
  ASSUME NEW a, a = [c \in DOMAIN a |-> a[c]]
  PROVE  WithColumns(a, NoColumns) = a /\ WithColumns(NoColumns, a) = a
PROOF
  <1>1. DOMAIN NoColumns = {}  BY Zenon DEF NoColumns
  <1>2. WithColumns(a, NoColumns) = [c \in DOMAIN a |-> a[c]]  BY <1>1, SMT DEF WithColumns
  <1>3. WithColumns(NoColumns, a) = [c \in DOMAIN a |-> a[c]]  BY <1>1, SMT DEF WithColumns
  <1> QED BY <1>2, <1>3, Zenon

\* What is left to add before a migration is what it adds and what is left
\* after it.
LEMMA ColumnsLeft ==
  ASSUME NEW v \in 0..Latest, v < Latest
  PROVE  LaterColumns(v) = WithColumns(AddedColumns(v + 1), LaterColumns(v + 1))
PROOF
  <1> DEFINE two == AddedColumns(2)
             four == AddedColumns(4)
  <1>1. two = [c \in DOMAIN two |-> two[c]] /\ four = [c \in DOMAIN four |-> four[c]]
    BY SMT DEF AddedColumns
  <1>2. \A n \in {1, 3, 5} : AddedColumns(n) = NoColumns  BY SMT DEF AddedColumns, NoColumns
  <1> HIDE DEF two, four
  <1>3. NoColumns = [c \in DOMAIN NoColumns |-> NoColumns[c]]  BY Zenon DEF NoColumns
  <1>4. \A n : LaterColumns(n) = WithColumns(IF n < 2 THEN two ELSE NoColumns,
                                             IF n < 4 THEN four ELSE NoColumns)
    BY Zenon DEF LaterColumns, NoColumns, two, four
  <1>5. /\ WithColumns(NoColumns, NoColumns) = NoColumns
        /\ WithColumns(NoColumns, four) = four /\ WithColumns(four, NoColumns) = four
    BY <1>1, <1>3, NoColumnsAdded
  <1>6. /\ LaterColumns(0) = WithColumns(two, four) /\ LaterColumns(1) = WithColumns(two, four)
        /\ LaterColumns(2) = four /\ LaterColumns(3) = four
        /\ LaterColumns(4) = NoColumns /\ LaterColumns(5) = NoColumns
    BY <1>4, <1>5, SMT
  <1>7. WithColumns(NoColumns, WithColumns(two, four)) = WithColumns(two, four)
    <2>1. WithColumns(two, four) =
            [c \in DOMAIN WithColumns(two, four) |-> WithColumns(two, four)[c]]
      BY Zenon DEF WithColumns
    <2> QED BY <2>1, NoColumnsAdded
  <1>8. v \in {0, 1, 2, 3, 4}  BY SMT DEF Latest
  <1>9. CASE v = 0  BY <1>9, <1>2, <1>6, <1>7
  <1>10. CASE v = 1
    <2>1. AddedColumns(v + 1) = two /\ LaterColumns(v + 1) = four  BY <1>10, <1>6 DEF two
    <2> QED BY <2>1, <1>10, <1>6
  <1>11. CASE v = 2  BY <1>11, <1>2, <1>5, <1>6
  <1>12. CASE v = 3
    <2>1. AddedColumns(v + 1) = four /\ LaterColumns(v + 1) = NoColumns
      BY <1>12, <1>6 DEF four
    <2> QED BY <2>1, <1>12, <1>5, <1>6
  <1>13. CASE v = 4  BY <1>13, <1>2, <1>5, <1>6
  <1> QED BY <1>8, <1>9, <1>10, <1>11, <1>12, <1>13

\* One migration brings the database nearer to the same rows.
LEMMA MigratedDatabase ==
  ASSUME NEW d, IsDatabase(d), d.schema < Latest
  PROVE  /\ IsDatabase(Migrated(d)) /\ Migrated(d).headers = d.headers
         /\ Upgraded(Migrated(d)) = Upgraded(d)
PROOF
  <1> DEFINE m == Migrated(d)
             added == AddedColumns(d.schema + 1)
             left == LaterColumns(d.schema + 1)
  <1>1. DOMAIN d = {"schema", "rows", "headers", "last"} /\ d.schema \in 0..Latest
    BY Zenon DEF IsDatabase
  <1>2. DOMAIN m = {"schema", "rows", "headers", "last"}  BY <1>1, Zenon DEF Migrated
  <1>3. /\ m.schema = d.schema + 1 /\ m.headers = d.headers /\ m.last = d.last
        /\ m.rows = [id \in DOMAIN d.rows |-> WithColumns(d.rows[id], added)]
    <2> DEFINE s == d.schema + 1
               R == [id \in DOMAIN d.rows |-> WithColumns(d.rows[id], added)]
    <2>1. m = [d EXCEPT !.schema = s, !.rows = R]  BY Zenon DEF Migrated
    <2> HIDE DEF s, R, m
    <2>2. m.schema = s /\ m.rows = R /\ m.headers = d.headers /\ m.last = d.last
      BY <1>1, <2>1, SMT
    <2> QED BY <2>2, Zenon DEF s, R
  <1>4. DOMAIN m.rows = DOMAIN d.rows
        /\ \A id \in DOMAIN d.rows : m.rows[id] = WithColumns(d.rows[id], added)
    BY <1>3, Zenon
  <1>5. LaterColumns(d.schema) = WithColumns(added, left)  BY <1>1, ColumnsLeft
  <1> HIDE DEF m, added, left
  <1>6. IsDatabase(m)
    <2>1. m.schema \in 0..Latest  BY <1>1, <1>3, SMT DEF Latest
    <2>2. \A id \in DOMAIN m.rows : m.rows[id] = [c \in DOMAIN m.rows[id] |-> m.rows[id][c]]
      BY <1>4, Zenon DEF WithColumns
    <2>3. m.rows = [id \in DOMAIN m.rows |-> m.rows[id]]  BY <1>3, <1>4, Zenon
    <2>4. m.rows = [id \in DOMAIN m.rows |-> [c \in DOMAIN m.rows[id] |-> m.rows[id][c]]]
      BY <2>2, <2>3, Zenon
    <2>5. /\ d.last \in Nat /\ DOMAIN d.rows \subseteq 1..d.last
          /\ \A h \in d.headers : h.id \in DOMAIN d.rows
      BY Zenon DEF IsDatabase
    <2> QED BY <1>2, <1>3, <1>4, <2>1, <2>4, <2>5, Zenon DEF IsDatabase
  <1>7. \A id \in DOMAIN d.rows :
          WithColumns(m.rows[id], LaterColumns(m.schema)) =
            WithColumns(d.rows[id], LaterColumns(d.schema))
    <2>1. LaterColumns(m.schema) = left  BY <1>3, Zenon DEF left
    <2>2. \A id \in DOMAIN d.rows :
            WithColumns(WithColumns(d.rows[id], added), left) =
              WithColumns(d.rows[id], WithColumns(added, left))
      BY ColumnsCompose
    <2> QED BY <1>4, <1>5, <2>1, <2>2, Zenon
  <1>8. Upgraded(m) = Upgraded(d)  BY <1>4, <1>7, Zenon DEF Upgraded
  <1> QED BY <1>3, <1>6, <1>8, Zenon DEF m

\* With the last migration the rows have all columns.
LEMMA UpgradedAtLatest ==
  ASSUME NEW d, IsDatabase(d), d.schema = Latest
  PROVE  Upgraded(d) = d.rows
PROOF
  <1>1. LaterColumns(Latest) = NoColumns
    <2>1. NoColumns = [c \in DOMAIN NoColumns |-> NoColumns[c]]  BY Zenon DEF NoColumns
    <2>2. WithColumns(NoColumns, NoColumns) = NoColumns  BY <2>1, NoColumnsAdded
    <2>3. LaterColumns(5) = WithColumns(NoColumns, NoColumns)  BY SMT DEF LaterColumns, NoColumns
    <2> QED BY <2>2, <2>3 DEF Latest
  <1> DEFINE R == d.rows
  <1>2. R = [id \in DOMAIN R |-> [c \in DOMAIN R[id] |-> R[id][c]]]  BY Zenon DEF IsDatabase
  <1>3. Upgraded(d) = [id \in DOMAIN R |-> WithColumns(R[id], NoColumns)]
    BY <1>1, Zenon DEF Upgraded
  <1> HIDE DEF R
  <1>4. ASSUME NEW id \in DOMAIN R PROVE R[id] = [c \in DOMAIN R[id] |-> R[id][c]]
    BY <1>2, <1>4, Zenon
  <1>5. \A id \in DOMAIN R : WithColumns(R[id], NoColumns) = R[id]  BY <1>4, NoColumnsAdded
  <1>6. R = [id \in DOMAIN R |-> R[id]]  BY <1>2, <1>4, Zenon
  <1>7. Upgraded(d) = R  BY <1>3, <1>5, <1>6, Zenon
  <1> QED BY <1>7, Zenon DEF R

-----------------------------------------------------------------------------
(* What each way to end a statement leaves. *)

\* More records, with what was there unchanged in what is never saved.
Extends(records, more) ==
    \A id \in DOMAIN records :
        /\ id \in DOMAIN more
        /\ more[id].download = records[id].download /\ more[id].created = records[id].created

\* A client in no call.
LEMMA IdleCall ==
  ASSUME NEW k, NEW records, IsCall(k, records), k.op = "none"
  PROVE  k = Idle
PROOF
  <1>1. "none" # "create" /\ "none" # "list" /\ "none" # "find" /\ "none" # "save"  OBVIOUS
  <1> QED BY <1>1, Zenon DEF IsCall, IsCreate, IsList, IsFind, IsSave

\* A client in no call has no connection.
LEMMA IdleIsNotWorking == ~Working(Idle) /\ Idle.pc = "idle" /\ Idle.op = "none"
PROOF BY SMT DEF Working, Idle

\* What a call knows stays true as records are added and saved by others.
LEMMA CallStays ==
  ASSUME NEW k, NEW records, NEW more, Extends(records, more), IsCall(k, records)
  PROVE  IsCall(k, more)
PROOF
  <1>1. ASSUME IsSave(k, records) PROVE IsSave(k, more)
    <2>1. Known(k.snapshot, more)  BY <1>1, Zenon DEF IsSave, Known, Extends
    <2> QED BY <1>1, <2>1, Zenon DEF IsSave
  <1> QED BY <1>1, Zenon DEF IsCall

\* And what it holds stays a version of a record there is.
LEMMA HeldStays ==
  ASSUME NEW held, NEW records, NEW more, Extends(records, more), IsHeld(held, records)
  PROVE  IsHeld(held, more)
PROOF
  <1>1. ASSUME Known(The(held), records) PROVE Known(The(held), more)
    BY <1>1, Zenon DEF Known, Extends
  <1> QED BY <1>1, Zenon DEF IsHeld

\* Who works has the connection, alone, on an open database.
LEMMA WorkerHolds ==
  ASSUME StoreInv, NEW c \in Clients, Working(call[c])
  PROVE  /\ holder = {c} /\ opened /\ Knows(call[c], work, db, confirmed)
         /\ IsDatabase(db) /\ db.schema = Latest /\ Hold(db.rows, db.headers, confirmed)
         /\ \A d \in Clients \ {c} : ~Working(call[d]) /\ holder # {d}
PROOF
  <1>1. opened  BY IdleIsNotWorking, Zenon DEF StoreInv, DatabaseOK
  <1>2. holder = {c} /\ Knows(call[c], work, db, confirmed)
    BY Zenon DEF StoreInv, ConnectionOK
  <1>3. \A d \in Clients \ {c} : holder # {d}  BY <1>2, Zenon
  <1>4. \A d \in Clients \ {c} : ~Working(call[d])
    BY <1>3, Zenon DEF StoreInv, ConnectionOK
  <1> QED BY <1>1, <1>2, <1>3, <1>4, Zenon DEF StoreInv, DatabaseOK

\* The database of an open repository stays as it is.
LEMMA DatabaseStays ==
  ASSUME DatabaseOK, opened, db' = db, opened' = opened, confirmed' = confirmed
  PROVE  DatabaseOK'
PROOF
  <1>1. IsDatabase(db) /\ db.schema = Latest /\ Hold(db.rows, db.headers, confirmed)
    BY Zenon DEF DatabaseOK
  <1> QED BY <1>1, Zenon DEF DatabaseOK

\* A call that asks for the connection.
LEMMA WaitsKeeps ==
  ASSUME StoreInv, NEW c \in Clients, Free(c), NEW next, Waits(c, next),
         IsCall(next, confirmed), next.pc = "begin"
  PROVE  StoreInv'
PROOF
  <1>1. /\ call' = [call EXCEPT ![c] = next] /\ result' = [result EXCEPT ![c] = "ok"]
        /\ db' = db /\ work' = work /\ holder' = holder /\ opened' = opened
        /\ job' = job /\ confirmed' = confirmed
    BY Zenon DEF Waits
  <1>2. opened /\ ~Working(call[c])
    BY IdleCall, IdleIsNotWorking, Zenon DEF Free, StoreInv, ClientsOK
  <1>3. DatabaseOK'  BY <1>1, <1>2, DatabaseStays, Zenon DEF StoreInv
  <1>4. DOMAIN call = Clients /\ DOMAIN job = Clients /\ DOMAIN result = Clients
    BY Zenon DEF StoreInv, ClientsOK
  <1>5. /\ DOMAIN call' = Clients /\ DOMAIN result' = Clients
        /\ call'[c] = next /\ result'[c] = "ok"
        /\ \A d \in Clients \ {c} : call'[d] = call[d] /\ result'[d] = result[d]
    BY <1>1, <1>4, Zenon
  <1>6. ASSUME NEW d \in Clients
        PROVE  /\ IsCall(call[d], confirmed)' /\ IsHeld(job[d], confirmed)'
               /\ result'[d] \notin Refusals
    <2>1. IsHeld(job[d], confirmed)'  BY <1>1, Zenon DEF StoreInv, ClientsOK
    <2>2. CASE d = c
      <3>1. "ok" \notin Refusals  BY SMT DEF Refusals
      <3> QED BY <1>1, <1>5, <2>1, <2>2, <3>1, Zenon
    <2>3. CASE d # c  BY <1>1, <1>5, <2>1, <2>3, Zenon DEF StoreInv, ClientsOK
    <2> QED BY <2>2, <2>3
  <1>7. ClientsOK'  BY <1>1, <1>4, <1>5, <1>6, Zenon DEF ClientsOK
  <1>8. ~Working(call'[c])
    <2>1. ~Working(next)  BY SMT DEF Working
    <2> QED BY <1>5, <2>1, Zenon
  <1>9. \A d \in Clients : Working(call'[d]) => Working(call[d]) /\ call'[d] = call[d]
    BY <1>5, <1>8, Zenon
  <1>10. \A d \in Clients : holder = {d} <=> Working(call'[d])
    BY <1>2, <1>5, <1>8, Zenon DEF StoreInv, ConnectionOK
  <1>11. ConnectionOK'
    BY <1>1, <1>9, <1>10, Zenon DEF StoreInv, ConnectionOK
  <1> QED BY <1>3, <1>7, <1>11, Zenon DEF StoreInv

\* A call that is refused before it asks for it.
LEMMA RefusedKeeps ==
  ASSUME StoreInv, NEW c \in Clients, Free(c), NEW error, RefusedAtOnce(c, error),
         error \notin Refusals
  PROVE  StoreInv'
PROOF
  <1>1. /\ result' = [result EXCEPT ![c] = error] /\ job' = [job EXCEPT ![c] = None]
        /\ db' = db /\ work' = work /\ holder' = holder /\ opened' = opened
        /\ call' = call /\ confirmed' = confirmed
    BY Zenon DEF RefusedAtOnce
  <1>2. DatabaseOK'  BY <1>1, DatabaseStays, Zenon DEF StoreInv, Free
  <1>3. DOMAIN call = Clients /\ DOMAIN job = Clients /\ DOMAIN result = Clients
    BY Zenon DEF StoreInv, ClientsOK
  <1>4. /\ DOMAIN job' = Clients /\ DOMAIN result' = Clients
        /\ job'[c] = None /\ result'[c] = error
        /\ \A d \in Clients \ {c} : job'[d] = job[d] /\ result'[d] = result[d]
    BY <1>1, <1>3, Zenon
  <1>5. ASSUME NEW d \in Clients
        PROVE  /\ IsCall(call[d], confirmed)' /\ IsHeld(job[d], confirmed)'
               /\ result'[d] \notin Refusals
    <2>1. IsCall(call[d], confirmed)'  BY <1>1, Zenon DEF StoreInv, ClientsOK
    <2>2. CASE d = c  BY <1>1, <1>4, <2>1, <2>2, Zenon DEF IsHeld
    <2>3. CASE d # c  BY <1>1, <1>4, <2>1, <2>3, Zenon DEF StoreInv, ClientsOK
    <2> QED BY <2>2, <2>3
  <1>6. ClientsOK'  BY <1>1, <1>3, <1>4, <1>5, Zenon DEF ClientsOK
  <1>7. ConnectionOK'  BY <1>1, Zenon DEF StoreInv, ConnectionOK
  <1> QED BY <1>2, <1>6, <1>7, Zenon DEF StoreInv

\* A call that returns early.
LEMMA FailsKeeps ==
  ASSUME StoreInv, NEW c \in Clients, Working(call[c]), NEW error, Fails(c, error),
         error \notin Refusals
  PROVE  StoreInv'
PROOF
  <1>1. holder = {c} /\ opened /\ \A d \in Clients \ {c} : ~Working(call[d])
    BY WorkerHolds
  <1>2. /\ call' = [call EXCEPT ![c] = Idle] /\ holder' = None /\ work' = db
        /\ result' = [result EXCEPT ![c] = error] /\ job' = [job EXCEPT ![c] = None]
        /\ db' = db /\ opened' = opened /\ confirmed' = confirmed
    BY <1>1, Zenon DEF Fails, Released
  <1>3. DatabaseOK'  BY <1>1, <1>2, DatabaseStays, Zenon DEF StoreInv
  <1>4. DOMAIN call = Clients /\ DOMAIN job = Clients /\ DOMAIN result = Clients
    BY Zenon DEF StoreInv, ClientsOK
  <1>5. /\ DOMAIN call' = Clients /\ DOMAIN job' = Clients /\ DOMAIN result' = Clients
        /\ call'[c] = Idle /\ job'[c] = None /\ result'[c] = error
        /\ \A d \in Clients \ {c} :
             call'[d] = call[d] /\ job'[d] = job[d] /\ result'[d] = result[d]
    BY <1>2, <1>4, Zenon
  <1>6. ASSUME NEW d \in Clients
        PROVE  /\ IsCall(call[d], confirmed)' /\ IsHeld(job[d], confirmed)'
               /\ result'[d] \notin Refusals
    <2>1. CASE d = c  BY <1>5, <2>1, Zenon DEF IsHeld, IsCall
    <2>2. CASE d # c  BY <1>2, <1>5, <2>2, Zenon DEF StoreInv, ClientsOK
    <2> QED BY <2>1, <2>2
  <1>7. ClientsOK'  BY <1>5, <1>6, Zenon DEF ClientsOK
  <1>8. \A d \in Clients : ~Working(call'[d])  BY <1>1, <1>5, IdleIsNotWorking, Zenon
  <1>9. \A d \in Clients : holder' # {d}  BY <1>2, Zenon DEF None
  <1>10. ConnectionOK'  BY <1>2, <1>8, <1>9, Zenon DEF ConnectionOK
  <1> QED BY <1>3, <1>7, <1>10, Zenon DEF StoreInv

\* A call that commits and returns.
LEMMA ReturnsKeeps ==
  ASSUME StoreInv, NEW c \in Clients, Working(call[c]), NEW records, NEW told,
         Returns(c, records, told), IsDatabase(work), work.schema = Latest,
         Hold(work.rows, work.headers, records), Extends(confirmed, records),
         IsHeld(told, records)
  PROVE  StoreInv'
PROOF
  <1>1. holder = {c} /\ opened /\ \A d \in Clients \ {c} : ~Working(call[d])
    BY WorkerHolds
  <1>2. /\ call' = [call EXCEPT ![c] = Idle] /\ holder' = None /\ work' = work
        /\ result' = result /\ job' = [job EXCEPT ![c] = told]
        /\ db' = work /\ opened' = opened /\ confirmed' = records
    BY <1>1, Zenon DEF Returns, Released, Seen
  <1>3. DatabaseOK'  BY <1>1, <1>2, Zenon DEF DatabaseOK
  <1>4. DOMAIN call = Clients /\ DOMAIN job = Clients /\ DOMAIN result = Clients
    BY Zenon DEF StoreInv, ClientsOK
  <1>5. /\ DOMAIN call' = Clients /\ DOMAIN job' = Clients /\ DOMAIN result' = Clients
        /\ call'[c] = Idle /\ job'[c] = told
        /\ \A d \in Clients \ {c} : call'[d] = call[d] /\ job'[d] = job[d]
    BY <1>2, <1>4, Zenon
  <1>6. ASSUME NEW d \in Clients
        PROVE  /\ IsCall(call'[d], records) /\ IsHeld(job'[d], records)
               /\ result'[d] \notin Refusals
    <2>1. /\ IsCall(call[d], confirmed) /\ IsHeld(job[d], confirmed)
          /\ result[d] \notin Refusals
      BY Zenon DEF StoreInv, ClientsOK
    <2>2. CASE d = c  BY <1>2, <1>5, <2>1, <2>2, Zenon DEF IsCall
    <2>3. CASE d # c
      <3>1. IsCall(call[d], records)  BY <2>1, CallStays
      <3>2. IsHeld(job[d], records)  BY <2>1, HeldStays
      <3> QED BY <1>2, <1>5, <2>1, <2>3, <3>1, <3>2, Zenon
    <2> QED BY <2>2, <2>3
  <1>7. ClientsOK'  BY <1>2, <1>5, <1>6, Zenon DEF ClientsOK
  <1>8. \A d \in Clients : ~Working(call'[d])  BY <1>1, <1>5, IdleIsNotWorking, Zenon
  <1>9. \A d \in Clients : holder' # {d}  BY <1>2, Zenon DEF None
  <1>10. ConnectionOK'  BY <1>2, <1>8, <1>9, Zenon DEF ConnectionOK
  <1> QED BY <1>3, <1>7, <1>10, Zenon DEF StoreInv

\* A statement that is followed by another.
LEMMA GoesKeeps ==
  ASSUME StoreInv, NEW c \in Clients, Working(call[c]), NEW next, Goes(c, next),
         holder' = holder, IsCall(next, confirmed), Working(next),
         Knows(next, work', db, confirmed)
  PROVE  StoreInv'
PROOF
  <1>1. holder = {c} /\ opened /\ \A d \in Clients \ {c} : ~Working(call[d]) /\ holder # {d}
    BY WorkerHolds
  <1>2. /\ call' = [call EXCEPT ![c] = next] /\ result' = result /\ job' = job
        /\ db' = db /\ opened' = opened /\ confirmed' = confirmed
    BY Zenon DEF Goes
  <1>3. DatabaseOK'  BY <1>1, <1>2, DatabaseStays, Zenon DEF StoreInv
  <1>4. DOMAIN call = Clients /\ DOMAIN job = Clients /\ DOMAIN result = Clients
    BY Zenon DEF StoreInv, ClientsOK
  <1>5. /\ DOMAIN call' = Clients /\ call'[c] = next
        /\ \A d \in Clients \ {c} : call'[d] = call[d]
    BY <1>2, <1>4, Zenon
  <1>6. ASSUME NEW d \in Clients PROVE IsCall(call'[d], confirmed)
    BY <1>5, Zenon DEF StoreInv, ClientsOK
  <1>7. ClientsOK'  BY <1>2, <1>4, <1>5, <1>6, Zenon DEF StoreInv, ClientsOK
  <1>8. ASSUME NEW d \in Clients
        PROVE  /\ holder' = {d} <=> Working(call'[d])
               /\ Working(call'[d]) => Knows(call'[d], work', db, confirmed)
    <2>1. CASE d = c  BY <1>1, <1>5, <2>1, Zenon
    <2>2. CASE d # c  BY <1>1, <1>5, <2>2, Zenon
    <2> QED BY <2>1, <2>2
  <1>9. holder' # None  BY <1>1, Zenon DEF None
  <1>10. ConnectionOK'  BY <1>1, <1>2, <1>8, <1>9, Zenon DEF ConnectionOK
  <1> QED BY <1>3, <1>7, <1>10, Zenon DEF StoreInv

-----------------------------------------------------------------------------
(* The operations of a record in memory. *)

RecordFields == {"id", "download", "resolved", "resource", "state", "done", "total",
                 "failure", "created", "updated"}

Shaped(r) ==
    r = [id |-> r.id, download |-> r.download, resolved |-> r.resolved,
         resource |-> r.resource, state |-> r.state, done |-> r.done, total |-> r.total,
         failure |-> r.failure, created |-> r.created, updated |-> r.updated]

\* A record is its fields.
LEMMA RecordShape ==
  ASSUME NEW r
  PROVE  Shaped(r) <=> DOMAIN r = RecordFields /\ r = [f \in DOMAIN r |-> r[f]]
PROOF
  <1> DEFINE l == [id |-> r.id, download |-> r.download, resolved |-> r.resolved,
                   resource |-> r.resource, state |-> r.state, done |-> r.done,
                   total |-> r.total, failure |-> r.failure, created |-> r.created,
                   updated |-> r.updated]
  <1>1. DOMAIN l = RecordFields  BY SMT DEF RecordFields
  <1>2. l = [f \in RecordFields |-> l[f]]  BY SMT DEF RecordFields
  <1>3. \A f \in RecordFields : l[f] = r[f]  BY SMT DEF RecordFields
  <1> HIDE DEF l
  <1>4. l = [f \in RecordFields |-> r[f]]  BY <1>2, <1>3, Zenon
  <1>5. ASSUME r = l PROVE DOMAIN r = RecordFields /\ r = [f \in DOMAIN r |-> r[f]]
    <2>1. DOMAIN r = RecordFields  BY <1>1, <1>5, Zenon
    <2> QED BY <1>4, <1>5, <2>1, Zenon
  <1>6. ASSUME DOMAIN r = RecordFields, r = [f \in DOMAIN r |-> r[f]] PROVE r = l
    BY <1>4, <1>6, Zenon
  <1> QED BY <1>5, <1>6, Zenon DEF Shaped, l

\* What an operation sets of a record, the record staying one.
LEMMA RecordKept ==
  ASSUME NEW r, IsRecord(r), NEW x, DOMAIN x = DOMAIN r, x = [f \in DOMAIN x |-> x[f]],
         x.state \in States, x.done \in Nat, x.total \in Nat \cup {Unknown},
         ValidProgress(x.done, x.total),
         x.resource # None => x.resource = Some(The(x.resource)) /\ IsResource(The(x.resource)),
         x.failure # None => x.failure = Some(The(x.failure)) /\ IsFailure(The(x.failure)),
         x.created \in Nat, x.updated \in Nat
  PROVE  IsRecord(x)
PROOF
  <1>1. DOMAIN r = RecordFields  BY RecordShape, Zenon DEF IsRecord, Shaped
  <1>2. Shaped(x)  BY <1>1, RecordShape, Zenon
  <1> QED BY <1>2, Zenon DEF IsRecord, Shaped

\* Every operation of a job gives a record of the same download (download/job.rs).
LEMMA ChangedRecord ==
  ASSUME NEW r, IsRecord(r), NEW x \in Changed(r)
  PROVE  IsRecord(x) /\ x.id = r.id /\ x.download = r.download /\ x.created = r.created
PROOF
  <1>1. /\ DOMAIN r = RecordFields /\ r.state \in States /\ r.done \in Nat
        /\ r.total \in Nat \cup {Unknown} /\ ValidProgress(r.done, r.total)
        /\ r.resource # None => r.resource = Some(The(r.resource)) /\ IsResource(The(r.resource))
        /\ r.failure # None => r.failure = Some(The(r.failure)) /\ IsFailure(The(r.failure))
        /\ r.created \in Nat /\ r.updated \in Nat
    BY RecordShape, Zenon DEF IsRecord, Shaped
  <1>2. CASE \E next \in Successors[r.state] : x = TransitionTo(r, next)
    <2>1. PICK next \in Successors[r.state] : x = TransitionTo(r, next)  BY <1>2
    <2>2. next \in States  BY <1>1, <2>1, SMT DEF Successors, States
    <2>3. DOMAIN x = DOMAIN r /\ x = [f \in DOMAIN x |-> x[f]]  BY <2>1, Zenon DEF TransitionTo
    <2>4. /\ x.state = next /\ x.id = r.id /\ x.download = r.download
          /\ x.created = r.created /\ x.updated = r.updated /\ x.done = r.done
          /\ x.total = r.total /\ x.resource = r.resource /\ x.failure = r.failure
      BY <1>1, <2>1, SMT DEF TransitionTo, RecordFields
    <2>5. IsRecord(x)  BY <1>1, <2>2, <2>3, <2>4, RecordKept, Zenon
    <2> QED BY <2>4, <2>5
  <1>3. CASE \E p \in {q \in Bytes \X Totals : ValidProgress(q[1], q[2])} :
               x = UpdateProgress(r, p[1], p[2])
    <2>1. PICK p \in {q \in Bytes \X Totals : ValidProgress(q[1], q[2])} :
                 x = UpdateProgress(r, p[1], p[2])
      BY <1>3
    <2>2. p[1] \in Nat /\ p[2] \in Nat \cup {Unknown} /\ ValidProgress(p[1], p[2])
      BY <2>1, MaxBytesAssumption, SMT DEF Bytes, Totals
    <2>3. DOMAIN x = DOMAIN r /\ x = [f \in DOMAIN x |-> x[f]]
      BY <2>1, Zenon DEF UpdateProgress
    <2>4. /\ x.state = r.state /\ x.id = r.id /\ x.download = r.download
          /\ x.created = r.created /\ x.updated = r.updated /\ x.done = p[1]
          /\ x.total = p[2] /\ x.resource = r.resource /\ x.failure = r.failure
      BY <1>1, <2>1, SMT DEF UpdateProgress, RecordFields
    <2>5. IsRecord(x)  BY <1>1, <2>2, <2>3, <2>4, RecordKept, Zenon
    <2> QED BY <2>4, <2>5
  <1>4. CASE \E s \in Resources : x = [r EXCEPT !.resource = Some(s)]
    <2>1. PICK s \in Resources : x = [r EXCEPT !.resource = Some(s)]  BY <1>4
    <2>2. IsResource(s) /\ The(Some(s)) = s  BY StoreAssumption, TheOfSome, Zenon
    <2>3. DOMAIN x = DOMAIN r /\ x = [f \in DOMAIN x |-> x[f]]  BY <2>1, Zenon
    <2>4. /\ x.state = r.state /\ x.id = r.id /\ x.download = r.download
          /\ x.created = r.created /\ x.updated = r.updated /\ x.done = r.done
          /\ x.total = r.total /\ x.resource = Some(s) /\ x.failure = r.failure
      BY <1>1, <2>1, SMT DEF RecordFields
    <2>5. IsRecord(x)  BY <1>1, <2>2, <2>3, <2>4, RecordKept, Zenon
    <2> QED BY <2>4, <2>5
  <1>5. CASE x = [r EXCEPT !.resolved = Some("path")]
    <2>3. DOMAIN x = DOMAIN r /\ x = [f \in DOMAIN x |-> x[f]]  BY <1>5, Zenon
    <2>4. /\ x.state = r.state /\ x.id = r.id /\ x.download = r.download
          /\ x.created = r.created /\ x.updated = r.updated /\ x.done = r.done
          /\ x.total = r.total /\ x.resource = r.resource /\ x.failure = r.failure
      BY <1>1, <1>5, SMT DEF RecordFields
    <2>5. IsRecord(x)  BY <1>1, <2>3, <2>4, RecordKept, Zenon
    <2> QED BY <2>4, <2>5
  <1>6. CASE \E s \in StoredFailures : x = FailJob(r, Some(s))
    <2>1. PICK s \in StoredFailures : x = FailJob(r, Some(s))  BY <1>6
    <2>2. IsFailure(s) /\ The(Some(s)) = s  BY StoreAssumption, TheOfSome, Zenon
    <2>3. DOMAIN x = DOMAIN r /\ x = [f \in DOMAIN x |-> x[f]]  BY <2>1, Zenon DEF FailJob
    <2>4. /\ x.state = "Failed" /\ x.id = r.id /\ x.download = r.download
          /\ x.created = r.created /\ x.updated = r.updated /\ x.done = r.done
          /\ x.total = r.total /\ x.resource = r.resource /\ x.failure = Some(s)
      BY <1>1, <2>1, SMT DEF FailJob, RecordFields
    <2>5. x.state \in States  BY <2>4, SMT DEF States
    <2>6. IsRecord(x)  BY <1>1, <2>2, <2>3, <2>4, <2>5, RecordKept, Zenon
    <2> QED BY <2>4, <2>6
  <1>7. CASE x = Restarted(r)
    <2> DEFINE y == RestartJob(r)
    <2>1. DOMAIN y = DOMAIN r  BY Zenon DEF RestartJob
    <2>2. /\ y.state = "Queued" /\ y.id = r.id /\ y.download = r.download
          /\ y.created = r.created /\ y.updated = r.updated /\ y.done = 0
          /\ y.total = Unknown
      BY <1>1, SMT DEF RestartJob, RecordFields
    <2>3. x = [y EXCEPT !.failure = None, !.resource = None, !.resolved = None]
      BY <1>7, Zenon DEF Restarted
    <2> HIDE DEF y
    <2>4. DOMAIN x = DOMAIN r /\ x = [f \in DOMAIN x |-> x[f]]  BY <2>1, <2>3, Zenon
    <2>5. /\ x.state = "Queued" /\ x.id = r.id /\ x.download = r.download
          /\ x.created = r.created /\ x.updated = r.updated /\ x.done = 0
          /\ x.total = Unknown /\ x.resource = None /\ x.failure = None
      BY <1>1, <2>1, <2>2, <2>3, SMT DEF RecordFields
    <2>6. /\ x.state \in States /\ x.done \in Nat /\ x.total \in Nat \cup {Unknown}
          /\ ValidProgress(x.done, x.total)
      BY <2>5, SMT DEF States, ValidProgress, Unknown
    <2>7. IsRecord(x)  BY <1>1, <2>4, <2>5, <2>6, RecordKept, Zenon
    <2> QED BY <2>5, <2>7
  <1>8. \/ \E next \in Successors[r.state] : x = TransitionTo(r, next)
        \/ \E p \in {q \in Bytes \X Totals : ValidProgress(q[1], q[2])} :
             x = UpdateProgress(r, p[1], p[2])
        \/ \E s \in Resources : x = [r EXCEPT !.resource = Some(s)]
        \/ x = [r EXCEPT !.resolved = Some("path")]
        \/ \E s \in StoredFailures : x = FailJob(r, Some(s))
        \/ x = Restarted(r)
    BY Zenon DEF Changed
  <1> QED BY <1>2, <1>3, <1>4, <1>5, <1>6, <1>7, <1>8

\* And so does noting the moment of the change, or rounding the moments.
LEMMA TouchedRecord ==
  ASSUME NEW r, IsRecord(r), NEW now \in Nat
  PROVE  LET x == [r EXCEPT !.updated = now]
         IN  IsRecord(x) /\ x.id = r.id /\ x.download = r.download /\ x.created = r.created
PROOF
  <1> DEFINE x == [r EXCEPT !.updated = now]
  <1>1. DOMAIN r = RecordFields  BY RecordShape, Zenon DEF IsRecord, Shaped
  <1>2. DOMAIN x = DOMAIN r /\ x = [f \in DOMAIN x |-> x[f]]  BY Zenon
  <1>3. /\ x.state = r.state /\ x.id = r.id /\ x.download = r.download
        /\ x.created = r.created /\ x.updated = now /\ x.done = r.done
        /\ x.total = r.total /\ x.resource = r.resource /\ x.failure = r.failure
    BY <1>1, SMT DEF RecordFields
  <1> HIDE DEF x
  <1>4. IsRecord(x)  BY <1>2, <1>3, RecordKept, Zenon DEF IsRecord
  <1> QED BY <1>3, <1>4, Zenon DEF x

\* What save is given, at the precision of the columns (save's first lines).
LEMMA SnapshotIsStored ==
  ASSUME NEW r, IsRecord(r), Normalized(r.created) = r.created
  PROVE  LET x == [r EXCEPT !.created = Normalized(@), !.updated = Normalized(@)]
         IN  IsStored(x) /\ x.id = r.id /\ x.download = r.download /\ x.created = r.created
PROOF
  <1> DEFINE a == Normalized(r.created)
             b == Normalized(r.updated)
             x == [r EXCEPT !.created = a, !.updated = b]
  <1>1. DOMAIN r = RecordFields  BY RecordShape, Zenon DEF IsRecord, Shaped
  <1>2. r.updated \in Nat /\ r.created \in Nat  BY Zenon DEF IsRecord
  <1>3. a = r.created /\ b \in Nat /\ Normalized(b) = b  BY <1>2, TimeRoundTrip
  <1> HIDE DEF a, b
  <1>4. DOMAIN x = DOMAIN r /\ x = [f \in DOMAIN x |-> x[f]]  BY Zenon
  <1>5. /\ x.state = r.state /\ x.id = r.id /\ x.download = r.download
        /\ x.created = a /\ x.updated = b /\ x.done = r.done
        /\ x.total = r.total /\ x.resource = r.resource /\ x.failure = r.failure
    BY <1>1, SMT DEF RecordFields
  <1> HIDE DEF x
  <1>6. IsRecord(x)  BY <1>2, <1>3, <1>4, <1>5, RecordKept, Zenon DEF IsRecord
  <1>7. IsStored(x)  BY <1>3, <1>5, <1>6, Zenon DEF IsStored
  <1> QED BY <1>3, <1>5, <1>7, Zenon DEF x, a, b

-----------------------------------------------------------------------------
(* The actions. *)

\* A database an earlier version left, before anything is opened.
LEMMA InitKeeps == Init => StoreInv
PROOF
  <1> SUFFICES ASSUME Init PROVE StoreInv  OBVIOUS
  <1>1. PICK old \in OldDatabases : db = old.db /\ work = old.db /\ confirmed = old.records
    BY Zenon DEF Init
  <1>2. IsDatabase(db) /\ Hold(Upgraded(db), db.headers, confirmed)
    BY <1>1, StoreAssumption, Zenon
  <1>3. /\ holder = None /\ opened = FALSE /\ call = [c \in Clients |-> Idle]
        /\ job = [c \in Clients |-> None] /\ result = [c \in Clients |-> "ok"]
    BY Zenon DEF Init
  <1>4. /\ DOMAIN call = Clients /\ DOMAIN job = Clients /\ DOMAIN result = Clients
        /\ \A c \in Clients : call[c] = Idle /\ job[c] = None /\ result[c] = "ok"
    BY <1>3, Zenon
  <1>5. DatabaseOK  BY <1>2, <1>3, <1>4, Zenon DEF DatabaseOK
  <1>6. "ok" \notin Refusals  BY SMT DEF Refusals
  <1>7. ClientsOK  BY <1>4, <1>6, Zenon DEF ClientsOK, IsCall, IsHeld
  <1>8. \A c \in Clients : ~Working(call[c]) /\ holder # {c}
    BY <1>3, <1>4, IdleIsNotWorking, Zenon DEF None
  <1>9. work = db  BY <1>1
  <1>10. ConnectionOK  BY <1>3, <1>8, <1>9, Zenon DEF ConnectionOK
  <1> QED BY <1>5, <1>7, <1>10 DEF StoreInv

\* One migration, or the last look at the version (Migrator::run).
LEMMA MigrateKeeps == ASSUME StoreInv, Migrate PROVE StoreInv'
PROOF
  <1>1. /\ ~opened /\ holder' = holder /\ call' = call /\ job' = job /\ result' = result
        /\ confirmed' = confirmed
    BY Zenon DEF Migrate
  <1>2. /\ IsDatabase(db) /\ Hold(Upgraded(db), db.headers, confirmed)
        /\ \A c \in Clients : call[c] = Idle /\ job[c] = None
    BY <1>1, Zenon DEF StoreInv, DatabaseOK
  <1>3. \A c \in Clients : ~Working(call[c]) /\ holder # {c}
    BY <1>2, IdleIsNotWorking, Zenon DEF StoreInv, ConnectionOK
  <1>4. holder = None /\ work = db
    <2>1. holder = None  BY <1>3, Zenon DEF StoreInv, ConnectionOK
    <2> QED BY <2>1, Zenon DEF StoreInv, ConnectionOK
  <1>5. ClientsOK'  BY <1>1, Zenon DEF StoreInv, ClientsOK
  <1>6. CASE db.schema < Latest
    <2>1. db' = Migrated(db) /\ work' = db' /\ opened' = opened  BY <1>6, Zenon DEF Migrate
    <2>2. IsDatabase(db') /\ Hold(Upgraded(db'), db'.headers, confirmed)
      <3>1. /\ IsDatabase(Migrated(db)) /\ Migrated(db).headers = db.headers
            /\ Upgraded(Migrated(db)) = Upgraded(db)
        BY <1>2, <1>6, MigratedDatabase
      <3> QED BY <1>2, <2>1, <3>1, Zenon
    <2>3. DatabaseOK'  BY <1>1, <1>2, <2>1, <2>2, Zenon DEF DatabaseOK
    <2>4. ConnectionOK'  BY <1>1, <1>3, <1>4, <2>1, Zenon DEF ConnectionOK
    <2> QED BY <1>5, <2>3, <2>4, Zenon DEF StoreInv
  <1>7. CASE ~(db.schema < Latest)
    <2>1. opened' = TRUE /\ db' = db /\ work' = work  BY <1>7, Zenon DEF Migrate
    <2>2. db.schema = Latest
      <3>1. db.schema \in 0..Latest  BY <1>2, Zenon DEF IsDatabase
      <3> QED BY <1>7, <3>1, SMT DEF Latest
    <2>3. Upgraded(db) = db.rows  BY <1>2, <2>2, UpgradedAtLatest
    <2>4. Hold(db.rows, db.headers, confirmed)  BY <1>2, <2>3, Zenon
    <2>5. DatabaseOK'  BY <1>1, <1>2, <2>1, <2>2, <2>4, Zenon DEF DatabaseOK
    <2>6. ConnectionOK'  BY <1>1, <2>1, Zenon DEF StoreInv, ConnectionOK
    <2> QED BY <1>5, <2>5, <2>6, Zenon DEF StoreInv
  <1> QED BY <1>6, <1>7

\* The process is lost with what it had not committed.
LEMMA LostKeeps == ASSUME StoreInv, Lost PROVE StoreInv'
PROOF
  <1>1. /\ opened /\ opened' = FALSE /\ holder' = None /\ call' = [c \in Clients |-> Idle]
        /\ job' = [c \in Clients |-> None] /\ result' = [c \in Clients |-> "ok"]
        /\ work' = db /\ db' = db /\ confirmed' = confirmed
    BY Zenon DEF Lost
  <1>2. /\ DOMAIN call' = Clients /\ DOMAIN job' = Clients /\ DOMAIN result' = Clients
        /\ \A c \in Clients : call'[c] = Idle /\ job'[c] = None /\ result'[c] = "ok"
    BY <1>1, Zenon
  <1>3. IsDatabase(db) /\ db.schema = Latest /\ Hold(db.rows, db.headers, confirmed)
    BY <1>1, Zenon DEF StoreInv, DatabaseOK
  <1>4. Hold(Upgraded(db), db.headers, confirmed)  BY <1>3, UpgradedAtLatest
  <1>5. DatabaseOK'  BY <1>1, <1>2, <1>3, <1>4, Zenon DEF DatabaseOK
  <1>6. "ok" \notin Refusals  BY SMT DEF Refusals
  <1>7. ClientsOK'  BY <1>2, <1>6, Zenon DEF ClientsOK, IsCall, IsHeld
  <1>8. \A c \in Clients : ~Working(call'[c]) /\ holder' # {c}
    BY <1>1, <1>2, IdleIsNotWorking, Zenon DEF None
  <1>9. ConnectionOK'  BY <1>1, <1>8, Zenon DEF ConnectionOK
  <1> QED BY <1>5, <1>7, <1>9, Zenon DEF StoreInv

\* A create, a list, a find and a save that ask for the connection.
LEMMA StartCreateKeeps == ASSUME StoreInv, NEW c \in Clients, StartCreate(c) PROVE StoreInv'
PROOF
  <1>1. PICK download \in Downloads, now \in Times :
          IF HasSensitiveHeaders(download)
          THEN RefusedAtOnce(c, "SensitiveDataUnsupported")
          ELSE Waits(c, [op |-> "create", pc |-> "begin", download |-> download, now |-> now,
                         id |-> 0, written |-> 0])
    BY Zenon DEF StartCreate
  <1>2. Free(c)  BY Zenon DEF StartCreate
  <1>3. IsDownload(download) /\ now \in Nat  BY StoreAssumption, SMT
  <1>4. CASE HasSensitiveHeaders(download)
    <2>1. "SensitiveDataUnsupported" \notin Refusals  BY SMT DEF Refusals
    <2>2. RefusedAtOnce(c, "SensitiveDataUnsupported")  BY <1>1, <1>4, Zenon
    <2> QED BY <1>2, <2>1, <2>2, RefusedKeeps
  <1>5. CASE ~HasSensitiveHeaders(download)
    <2> DEFINE k == [op |-> "create", pc |-> "begin", download |-> download, now |-> now,
                     id |-> 0, written |-> 0]
    <2>1. Waits(c, k)  BY <1>1, <1>5, Zenon
    <2>2. /\ k.op = "create" /\ k.pc = "begin" /\ k.download = download /\ k.now = now
          /\ k.id = 0 /\ k.written = 0
      OBVIOUS
    <2>3. k = [op |-> "create", pc |-> k.pc, download |-> k.download, now |-> k.now,
               id |-> k.id, written |-> k.written]
      BY <2>2, Zenon
    <2> HIDE DEF k
    <2>4. IsCreate(k)  BY <1>3, <1>5, <2>2, <2>3, Zenon DEF IsCreate
    <2>5. IsCall(k, confirmed)  BY <2>4, Zenon DEF IsCall
    <2> QED BY <1>2, <2>1, <2>2, <2>5, WaitsKeeps
  <1> QED BY <1>4, <1>5

\* A listing is asked for.
LEMMA StartListKeeps == ASSUME StoreInv, NEW c \in Clients, StartList(c) PROVE StoreInv'
PROOF
  <1> DEFINE k == [op |-> "list", pc |-> "begin", rows |-> <<>>, jobs |-> <<>>]
  <1>1. Free(c) /\ Waits(c, k)  BY Zenon DEF StartList
  <1>2. k.op = "list" /\ k.pc = "begin" /\ k.rows = <<>> /\ k.jobs = <<>>  OBVIOUS
  <1>3. k = [op |-> "list", pc |-> k.pc, rows |-> k.rows, jobs |-> k.jobs]  BY <1>2, Zenon
  <1> HIDE DEF k
  <1>4. IsCall(k, confirmed)  BY <1>2, <1>3, Zenon DEF IsCall, IsList
  <1> QED BY <1>1, <1>2, <1>4, WaitsKeeps

\* A record is asked for.
LEMMA StartFindKeeps == ASSUME StoreInv, NEW c \in Clients, StartFind(c) PROVE StoreInv'
PROOF
  <1>1. PICK id \in Ids : Waits(c, [op |-> "find", pc |-> "begin", id |-> id])
    BY Zenon DEF StartFind
  <1> DEFINE k == [op |-> "find", pc |-> "begin", id |-> id]
  <1>2. Free(c) /\ Waits(c, k)  BY <1>1, Zenon DEF StartFind
  <1>3. k.op = "find" /\ k.pc = "begin" /\ k.id = id  OBVIOUS
  <1>4. k = [op |-> "find", pc |-> k.pc, id |-> k.id]  BY <1>3, Zenon
  <1> HIDE DEF k
  <1>5. IsCall(k, confirmed)  BY <1>3, <1>4, Zenon DEF IsCall, IsFind
  <1> QED BY <1>2, <1>3, <1>5, WaitsKeeps

\* A version of a record may be held.
LEMMA SomeIsHeld ==
  ASSUME NEW x, NEW records, IsRecord(x), Known(x, records), Normalized(x.created) = x.created
  PROVE  IsHeld(Some(x), records)
PROOF
  <1>1. The(Some(x)) = x  BY TheOfSome
  <1>2. Some(x) = Some(The(Some(x)))  BY <1>1
  <1>3. IsRecord(The(Some(x))) /\ Known(The(Some(x)), records)  BY <1>1
  <1>4. Normalized(The(Some(x)).created) = The(Some(x)).created  BY <1>1
  <1> HIDE <1>1
  <1> QED BY <1>2, <1>3, <1>4, Zenon DEF IsHeld

\* What a client holds is a record, and there is one.
LEMMA HeldRecord ==
  ASSUME StoreInv, NEW c \in Clients, job[c] # None
  PROVE  LET r == The(job[c])
         IN  /\ job[c] = Some(r) /\ IsRecord(r) /\ Known(r, confirmed)
             /\ Normalized(r.created) = r.created
PROOF BY Zenon DEF StoreInv, ClientsOK, IsHeld

\* A record is given to save, or turned away before the connection is asked for.
LEMMA StartSaveKeeps == ASSUME StoreInv, NEW c \in Clients, StartSave(c) PROVE StoreInv'
PROOF
  <1> DEFINE r == The(job[c])
             s == [r EXCEPT !.created = Normalized(@), !.updated = Normalized(@)]
             k == [op |-> "save", pc |-> "begin", snapshot |-> s]
  <1>1. Free(c) /\ job[c] # None  BY Zenon DEF StartSave
  <1>2. IsRecord(r) /\ Known(r, confirmed) /\ Normalized(r.created) = r.created
    BY <1>1, HeldRecord
  <1>3. RefusedAtOnce(c, "ConstraintViolation") \/ Waits(c, k)  BY Zenon DEF StartSave
  <1>4. CASE RefusedAtOnce(c, "ConstraintViolation")
    <2>1. "ConstraintViolation" \notin Refusals  BY SMT DEF Refusals
    <2> QED BY <1>1, <1>4, <2>1, RefusedKeeps
  <1>5. CASE Waits(c, k)
    <2>1. IsStored(s) /\ s.id = r.id /\ s.download = r.download /\ s.created = r.created
      <3> HIDE DEF r
      <3> QED BY <1>2, SnapshotIsStored
    <2> HIDE DEF r, s
    <2>2. Known(s, confirmed)  BY <1>2, <2>1, Zenon DEF Known
    <2>3. k.op = "save" /\ k.pc = "begin" /\ k.snapshot = s  OBVIOUS
    <2>4. k = [op |-> "save", pc |-> k.pc, snapshot |-> k.snapshot]  BY <2>3, Zenon
    <2> HIDE DEF k
    <2>5. IsCall(k, confirmed)  BY <2>1, <2>2, <2>3, <2>4, Zenon DEF IsCall, IsSave
    <2> QED BY <1>1, <1>5, <2>3, <2>5, WaitsKeeps
  <1> QED BY <1>3, <1>4, <1>5

\* A change made in memory.
LEMMA ChangeKeeps == ASSUME StoreInv, NEW c \in Clients, Change(c) PROVE StoreInv'
PROOF
  <1> DEFINE r == The(job[c])
  <1>1. /\ job[c] # None /\ opened /\ db' = db /\ work' = work /\ holder' = holder
        /\ opened' = opened /\ call' = call /\ result' = result /\ confirmed' = confirmed
    BY Zenon DEF Change, Free
  <1>2. IsRecord(r) /\ Known(r, confirmed) /\ Normalized(r.created) = r.created
    BY <1>1, HeldRecord
  <1>3. PICK next \in Changed(r), now \in Times :
          job' = [job EXCEPT ![c] = Some([next EXCEPT !.updated = now])]
    BY Zenon DEF Change
  <1>4. now \in Nat  BY StoreAssumption, SMT
  <1> DEFINE x == [next EXCEPT !.updated = now]
  <1>5. /\ IsRecord(next) /\ next.id = r.id /\ next.download = r.download
        /\ next.created = r.created
    <2> HIDE DEF r
    <2> QED BY <1>2, <1>3, ChangedRecord
  <1>6. /\ IsRecord(x) /\ x.id = next.id /\ x.download = next.download
        /\ x.created = next.created
    BY <1>4, <1>5, TouchedRecord
  <1> HIDE DEF r, x
  <1>7. Known(x, confirmed) /\ Normalized(x.created) = x.created
    BY <1>2, <1>5, <1>6, Zenon DEF Known
  <1>8. DOMAIN call = Clients /\ DOMAIN job = Clients /\ DOMAIN result = Clients
    BY Zenon DEF StoreInv, ClientsOK
  <1>9. /\ DOMAIN job' = Clients /\ job'[c] = Some(x)
        /\ \A d \in Clients \ {c} : job'[d] = job[d]
    BY <1>3, <1>8, Zenon DEF x
  <1>10. IsHeld(Some(x), confirmed)  BY <1>6, <1>7, SomeIsHeld
  <1>11. ClientsOK'  BY <1>1, <1>8, <1>9, <1>10, Zenon DEF StoreInv, ClientsOK
  <1>12. DatabaseOK'  BY <1>1, DatabaseStays, Zenon DEF StoreInv
  <1>13. ConnectionOK'  BY <1>1, Zenon DEF StoreInv, ConnectionOK
  <1> QED BY <1>11, <1>12, <1>13, Zenon DEF StoreInv

\* The statement a call is at says which call it is.
LEMMA CallAt ==
  ASSUME NEW k, NEW records, IsCall(k, records)
  PROVE  /\ k.pc = "begin" => k # Idle
         /\ k.pc \in {"create", "selection", "headers"} => IsCreate(k) /\ Working(k)
         /\ k.pc \in {"list", "listHeaders", "listed"} => IsList(k) /\ Working(k)
         /\ k.pc = "find" => IsFind(k) /\ Working(k)
         /\ k.pc \in {"save", "updated"} => IsSave(k, records) /\ Working(k)
PROOF
  <1>1. CASE k = Idle  BY <1>1, IdleIsNotWorking
  <1>2. CASE IsCreate(k)
    <2>1. k.pc \in {"begin", "create", "selection", "headers"}  BY <1>2, Zenon DEF IsCreate
    <2>2. k.op = "create"  BY <1>2, Zenon DEF IsCreate
    <2>3. k # Idle  BY <2>2, IdleIsNotWorking
    <2> QED BY <1>2, <2>1, <2>3, SMT DEF Working
  <1>3. CASE IsList(k)
    <2>1. k.pc \in {"begin", "list", "listHeaders", "listed"}  BY <1>3, Zenon DEF IsList
    <2>2. k.op = "list"  BY <1>3, Zenon DEF IsList
    <2>3. k # Idle  BY <2>2, IdleIsNotWorking
    <2> QED BY <1>3, <2>1, <2>3, SMT DEF Working
  <1>4. CASE IsFind(k)
    <2>1. k.pc \in {"begin", "find"}  BY <1>4, Zenon DEF IsFind
    <2>2. k.op = "find"  BY <1>4, Zenon DEF IsFind
    <2>3. k # Idle  BY <2>2, IdleIsNotWorking
    <2> QED BY <1>4, <2>1, <2>3, SMT DEF Working
  <1>5. CASE IsSave(k, records)
    <2>1. k.pc \in {"begin", "save", "updated"}  BY <1>5, Zenon DEF IsSave
    <2>2. k.op = "save"  BY <1>5, Zenon DEF IsSave
    <2>3. k # Idle  BY <2>2, IdleIsNotWorking
    <2> QED BY <1>5, <2>1, <2>3, SMT DEF Working
  <1> QED BY <1>1, <1>2, <1>3, <1>4, <1>5 DEF IsCall

\* A call that has the connection begins with the statement of its operation.
LEMMA BegunCall ==
  ASSUME NEW k, NEW records, IsCall(k, records), k.pc = "begin"
  PROVE  LET next == [k EXCEPT !.pc = k.op]
         IN  IsCall(next, records) /\ next.pc \in {"create", "list", "find", "save"}
PROOF
  <1> DEFINE next == [k EXCEPT !.pc = k.op]
  <1> SUFFICES IsCall(next, records) /\ next.pc \in {"create", "list", "find", "save"}
    OBVIOUS
  <1>1. CASE k = Idle  BY <1>1, IdleIsNotWorking
  <1>2. CASE IsCreate(k)
    <2>1. k = [op |-> k.op, pc |-> k.pc, download |-> k.download, now |-> k.now,
               id |-> k.id, written |-> k.written] /\ k.op = "create"
      BY <1>2, Zenon DEF IsCreate
    <2>2. /\ next.op = "create" /\ next.pc = "create" /\ next.download = k.download
          /\ next.now = k.now /\ next.id = k.id /\ next.written = k.written
          /\ next = [op |-> next.op, pc |-> next.pc, download |-> next.download,
                     now |-> next.now, id |-> next.id, written |-> next.written]
      BY <2>1, SMT
    <2>3. k.written = 0  BY <1>2, Zenon DEF IsCreate
    <2> HIDE DEF next
    <2>4. IsCreate(next)  BY <1>2, <2>2, <2>3, Zenon DEF IsCreate
    <2> QED BY <2>2, <2>4, Zenon DEF IsCall
  <1>3. CASE IsList(k)
    <2>1. k = [op |-> k.op, pc |-> k.pc, rows |-> k.rows, jobs |-> k.jobs] /\ k.op = "list"
      BY <1>3, Zenon DEF IsList
    <2>2. /\ next.op = "list" /\ next.pc = "list"
          /\ next = [op |-> next.op, pc |-> next.pc, rows |-> next.rows, jobs |-> next.jobs]
      BY <2>1, SMT
    <2> HIDE DEF next
    <2>3. IsList(next)  BY <2>2, Zenon DEF IsList
    <2> QED BY <2>2, <2>3, Zenon DEF IsCall
  <1>4. CASE IsFind(k)
    <2>1. k = [op |-> k.op, pc |-> k.pc, id |-> k.id] /\ k.op = "find"
      BY <1>4, Zenon DEF IsFind
    <2>2. /\ next.op = "find" /\ next.pc = "find"
          /\ next = [op |-> next.op, pc |-> next.pc, id |-> next.id]
      BY <2>1, SMT
    <2> HIDE DEF next
    <2>3. IsFind(next)  BY <2>2, Zenon DEF IsFind
    <2> QED BY <2>2, <2>3, Zenon DEF IsCall
  <1>5. CASE IsSave(k, records)
    <2>1. k = [op |-> k.op, pc |-> k.pc, snapshot |-> k.snapshot] /\ k.op = "save"
      BY <1>5, Zenon DEF IsSave
    <2>2. /\ next.op = "save" /\ next.pc = "save" /\ next.snapshot = k.snapshot
          /\ next = [op |-> next.op, pc |-> next.pc, snapshot |-> next.snapshot]
      BY <2>1, SMT
    <2> HIDE DEF next
    <2>3. IsSave(next, records)  BY <1>5, <2>2, Zenon DEF IsSave
    <2> QED BY <2>2, <2>3, Zenon DEF IsCall
  <1> QED BY <1>1, <1>2, <1>3, <1>4, <1>5 DEF IsCall

\* A call gets the connection (begin).
LEMMA BeginKeeps == ASSUME StoreInv, NEW c \in Clients, Begin(c) PROVE StoreInv'
PROOF
  <1> DEFINE next == [call[c] EXCEPT !.pc = call[c].op]
  <1>1. /\ call[c].pc = "begin" /\ holder = None /\ holder' = {c} /\ work' = db
        /\ call' = [call EXCEPT ![c] = next] /\ db' = db /\ opened' = opened
        /\ job' = job /\ result' = result /\ confirmed' = confirmed
    BY Zenon DEF Begin
  <1>2. IsCall(call[c], confirmed)  BY Zenon DEF StoreInv, ClientsOK
  <1>3. IsCall(next, confirmed) /\ next.pc \in {"create", "list", "find", "save"}
    BY <1>1, <1>2, BegunCall
  <1> HIDE DEF next
  <1>4. call[c] # Idle  BY <1>1, <1>2, CallAt
  <1>5. opened  BY <1>4, Zenon DEF StoreInv, DatabaseOK
  <1>6. DatabaseOK'  BY <1>1, <1>5, DatabaseStays, Zenon DEF StoreInv
  <1>7. DOMAIN call = Clients /\ DOMAIN job = Clients /\ DOMAIN result = Clients
    BY Zenon DEF StoreInv, ClientsOK
  <1>8. /\ DOMAIN call' = Clients /\ call'[c] = next
        /\ \A d \in Clients \ {c} : call'[d] = call[d]
    BY <1>1, <1>7, Zenon
  <1>9. ASSUME NEW d \in Clients PROVE IsCall(call'[d], confirmed)
    BY <1>3, <1>8, Zenon DEF StoreInv, ClientsOK
  <1>10. ClientsOK'  BY <1>1, <1>7, <1>8, <1>9, Zenon DEF StoreInv, ClientsOK
  <1>11. \A d \in Clients : ~Working(call[d]) /\ holder # {d}
    BY <1>1, Zenon DEF StoreInv, ConnectionOK, None
  <1>12. Working(next)  BY <1>3, SMT DEF Working
  <1>13. Knows(next, db, db, confirmed)
    <2>1. next.pc \in Reading /\ next.pc \notin {"listHeaders", "listed", "selection",
                                                 "headers", "updated"}
      BY <1>3, SMT DEF Reading
    <2> QED BY <2>1, SMT DEF Knows
  <1>14. ASSUME NEW d \in Clients
         PROVE  /\ holder' = {d} <=> Working(call'[d])
                /\ Working(call'[d]) => Knows(call'[d], db, db, confirmed)
    <2>1. CASE d = c  BY <1>1, <1>8, <1>12, <1>13, <2>1, Zenon
    <2>2. CASE d # c
      <3>1. ~Working(call'[d])  BY <1>8, <1>11, <2>2, Zenon
      <3>2. holder' # {d}  BY <1>1, <2>2, Zenon
      <3> QED BY <3>1, <3>2
    <2> QED BY <2>1, <2>2
  <1>15. holder' # None  BY <1>1, Zenon DEF None
  <1>16. ConnectionOK'  BY <1>1, <1>14, <1>15, Zenon DEF ConnectionOK
  <1> QED BY <1>6, <1>10, <1>16, Zenon DEF StoreInv

\* What a call knows and the database it knows it of.
LEMMA CallWorks ==
  ASSUME StoreInv, NEW c \in Clients, Working(call[c])
  PROVE  /\ holder = {c} /\ IsCall(call[c], confirmed)
         /\ call[c].pc \in Reading => work = db
         /\ call[c].pc = "listHeaders" => call[c].rows = db.rows
         /\ call[c].pc = "listed" => call[c].jobs = confirmed
         /\ call[c].pc \in {"selection", "headers"} => Inserted(call[c], work, db)
         /\ IsDatabase(db) /\ db.schema = Latest /\ Hold(db.rows, db.headers, confirmed)
PROOF
  <1>1. IsCall(call[c], confirmed)  BY Zenon DEF StoreInv, ClientsOK
  <1>2. /\ holder = {c} /\ Knows(call[c], work, db, confirmed)
        /\ IsDatabase(db) /\ db.schema = Latest /\ Hold(db.rows, db.headers, confirmed)
    BY WorkerHolds
  <1> QED BY <1>1, <1>2, Zenon DEF Knows

\* A create between its statements knows what it has written.
LEMMA CreateKnows ==
  ASSUME NEW k, NEW w, NEW d, NEW records, k.pc \in {"selection", "headers"}, Inserted(k, w, d)
  PROVE  Knows(k, w, d, records) /\ Working(k)
PROOF
  <1>1. /\ k.pc \notin Reading /\ k.pc # "listHeaders" /\ k.pc # "listed" /\ k.pc # "updated"
        /\ k.pc # "idle" /\ k.pc # "begin"
    BY SMT DEF Reading
  <1>2. Working(k)  BY <1>1, SMT DEF Working
  <1> QED BY <1>1, <1>2, Zenon DEF Knows

\* The row of a create before its selection is stored is what was inserted.
LEMMA RowAsInserted ==
  ASSUME NEW d, NEW now
  PROVE  NewRow(d, now, None) = InsertedRow(d, EncodeTimestamp(now))
PROOF BY SMT DEF NewRow, InsertedRow

\* The insertion of the row (insert_download).
LEMMA InsertDownloadKeeps ==
  ASSUME StoreInv, NEW c \in Clients, InsertDownload(c) PROVE StoreInv'
PROOF
  <1> DEFINE k == call[c]
             id == work.last + 1
             row == InsertedRow(k.download, EncodeTimestamp(k.now))
             rows == [n \in DOMAIN work.rows \cup {id} |-> IF n = id THEN row ELSE work.rows[n]]
             next == [k EXCEPT !.pc = "selection", !.id = id]
  <1>1. k.pc = "create"  BY Zenon DEF InsertDownload
  <1>2. IsCall(k, confirmed)  BY Zenon DEF StoreInv, ClientsOK
  <1>3. IsCreate(k) /\ Working(k)  BY <1>1, <1>2, CallAt
  <1>4. k.pc \in Reading  BY <1>1, SMT DEF Reading
  <1>5. work = db /\ IsDatabase(db)  BY <1>3, <1>4, CallWorks
  <1>6. IsDownload(k.download) /\ ~HasSensitiveHeaders(k.download) /\ k.now \in Nat /\ k.written = 0
    BY <1>1, <1>3, SMT DEF IsCreate
  <1>7. AllowedRow(row)  BY <1>6, InsertedRowIsAllowed
  <1>8. /\ work' = [work EXCEPT !.last = id, !.rows = rows]
        /\ Goes(c, next) /\ holder' = holder
    BY <1>7, Zenon DEF InsertDownload
  <1>9. k = [op |-> k.op, pc |-> k.pc, download |-> k.download, now |-> k.now,
             id |-> k.id, written |-> k.written] /\ k.op = "create"
    BY <1>3, Zenon DEF IsCreate
  <1>10. /\ next.op = "create" /\ next.pc = "selection" /\ next.download = k.download
         /\ next.now = k.now /\ next.id = id /\ next.written = 0
         /\ next = [op |-> next.op, pc |-> next.pc, download |-> next.download,
                    now |-> next.now, id |-> next.id, written |-> next.written]
    <2> HIDE DEF k, id
    <2>1. DOMAIN k = {"op", "pc", "download", "now", "id", "written"}  BY <1>9, SMT
    <2>2. DOMAIN next = DOMAIN k /\ next = [f \in DOMAIN next |-> next[f]]  BY Zenon
    <2>3. /\ next.op = "create" /\ next.pc = "selection" /\ next.download = k.download
          /\ next.now = k.now /\ next.id = id /\ next.written = 0
      BY <1>6, <1>9, <2>1, SMT
    <2> HIDE DEF next
    <2> QED BY <2>1, <2>2, <2>3, SMT
  <1> HIDE DEF next
  <1>11. IsCreate(next)  BY <1>6, <1>10, Zenon DEF IsCreate
  <1>12. CreatedRow(next) = row
    <2>1. next.pc # "headers"  BY <1>10
    <2>2. CreatedRow(next) = NewRow(k.download, k.now, None)
      BY <1>10, <2>1, Zenon DEF CreatedRow
    <2> QED BY <2>2, RowAsInserted
  <1>13. HeaderRows(next) = {}
    <2>1. 0..(next.written - 1) = {}  BY <1>10, SMT
    <2> QED BY <2>1, Zenon DEF HeaderRows
  <1>14. /\ DOMAIN work' = DOMAIN db /\ work'.schema = db.schema /\ work'.last = id
         /\ work'.rows = rows /\ work'.headers = db.headers
    <2>1. DOMAIN work = {"schema", "rows", "headers", "last"}  BY <1>5, Zenon DEF IsDatabase
    <2>2. DOMAIN work' = DOMAIN db  BY <1>5, <1>8, Zenon
    <2> HIDE DEF rows, id
    <2> QED BY <1>5, <1>8, <2>1, <2>2, SMT
  <1>15. rows = [n \in DOMAIN db.rows \cup {next.id} |->
                   IF n = next.id THEN CreatedRow(next) ELSE db.rows[n]]
    BY <1>5, <1>10, <1>12, Zenon
  <1>16. next.written \in 0..Len(next.download.headers)
    BY <1>6, <1>10, SMT DEF IsDownload
  <1>17. next.id = db.last + 1  BY <1>5, <1>10
  <1>18. work'.headers = db.headers \cup HeaderRows(next)  BY <1>13, <1>14
  <1> HIDE DEF rows, id, row
  <1>19. Inserted(next, work', db)
    BY <1>10, <1>14, <1>15, <1>16, <1>17, <1>18, Zenon DEF Inserted
  <1>20. Knows(next, work', db, confirmed) /\ Working(next)
    BY <1>10, <1>19, CreateKnows
  <1>21. IsCall(next, confirmed)  BY <1>11, Zenon DEF IsCall
  <1> QED BY <1>3, <1>8, <1>20, <1>21, GoesKeeps

\* The selection of the new row (store_selection).
LEMMA StoreSelectionKeeps ==
  ASSUME StoreInv, NEW c \in Clients, StoreSelection(c) PROVE StoreInv'
PROOF
  <1> DEFINE k == call[c]
             d == k.download
             next == [k EXCEPT !.pc = "headers"]
  <1>1. /\ k.pc = "selection" /\ Goes(c, next) /\ holder' = holder
        /\ work' = [work EXCEPT !.rows[k.id].selection = d.selection]
    BY Zenon DEF StoreSelection
  <1>2. IsCall(k, confirmed)  BY Zenon DEF StoreInv, ClientsOK
  <1>3. IsCreate(k) /\ Working(k)  BY <1>1, <1>2, CallAt
  <1>4. Inserted(k, work, db) /\ IsDatabase(db)  BY <1>1, <1>3, CallWorks
  <1>5. IsDownload(d) /\ ~HasSensitiveHeaders(d) /\ k.now \in Nat /\ k.written = 0
    BY <1>1, <1>3, SMT DEF IsCreate
  <1>6. k = [op |-> k.op, pc |-> k.pc, download |-> k.download, now |-> k.now,
             id |-> k.id, written |-> k.written] /\ k.op = "create"
    BY <1>3, Zenon DEF IsCreate
  <1>7. /\ next.op = "create" /\ next.pc = "headers" /\ next.download = d
        /\ next.now = k.now /\ next.id = k.id /\ next.written = k.written
        /\ next = [op |-> next.op, pc |-> next.pc, download |-> next.download,
                   now |-> next.now, id |-> next.id, written |-> next.written]
    <2> HIDE DEF k
    <2> QED BY <1>6, SMT
  <1> HIDE DEF next
  <1>8. IsCreate(next)  BY <1>5, <1>7, Zenon DEF IsCreate
  <1>9. CreatedRow(k) = InsertedRow(d, EncodeTimestamp(k.now))
    <2>1. k.pc # "headers"  BY <1>1
    <2>2. CreatedRow(k) = NewRow(d, k.now, None)  BY <2>1, Zenon DEF CreatedRow
    <2> QED BY <2>2, RowAsInserted
  <1>10. CreatedRow(next) = [CreatedRow(k) EXCEPT !.selection = d.selection]
    <2>1. CreatedRow(next) = NewRow(d, k.now, d.selection)  BY <1>7, Zenon DEF CreatedRow
    <2> QED BY <1>9, <2>1, Zenon DEF NewRow
  <1>11. HeaderRows(next) = HeaderRows(k)  BY <1>7, Zenon DEF HeaderRows
  <1>12. /\ k.id = db.last + 1 /\ k.written \in 0..Len(d.headers)
         /\ DOMAIN work = DOMAIN db /\ work.schema = db.schema /\ work.last = k.id
         /\ work.rows = [n \in DOMAIN db.rows \cup {k.id} |->
                           IF n = k.id THEN CreatedRow(k) ELSE db.rows[n]]
         /\ work.headers = db.headers \cup HeaderRows(k)
    BY <1>4, Zenon DEF Inserted
  <1> HIDE DEF k, d
  <1>13. /\ DOMAIN work' = DOMAIN work /\ work'.schema = work.schema /\ work'.last = work.last
         /\ work'.headers = work.headers
         /\ work'.rows = [work.rows EXCEPT ![k.id] = [@ EXCEPT !.selection = d.selection]]
    <2>1. DOMAIN work = {"schema", "rows", "headers", "last"}
      BY <1>4, <1>12, Zenon DEF IsDatabase
    <2>2. DOMAIN work' = DOMAIN work  BY <1>1, Zenon
    <2> QED BY <1>1, <2>1, <2>2, SMT
  <1>14. work'.rows = [n \in DOMAIN db.rows \cup {k.id} |->
                         IF n = k.id THEN CreatedRow(next) ELSE db.rows[n]]
    <2>1. work.rows[k.id] = CreatedRow(k)  BY <1>12, Zenon
    <2>2. work'.rows = [work.rows EXCEPT ![k.id] = CreatedRow(next)]
      BY <1>10, <1>13, <2>1, Zenon
    <2> QED BY <1>12, <2>2, Zenon
  <1>15. Inserted(next, work', db)
    <2>1. next.written \in 0..Len(next.download.headers)  BY <1>7, <1>12
    <2>2. next.id = db.last + 1 /\ work'.last = next.id  BY <1>7, <1>12, <1>13
    <2>3. work'.headers = db.headers \cup HeaderRows(next)  BY <1>11, <1>12, <1>13
    <2>4. work'.rows = [n \in DOMAIN db.rows \cup {next.id} |->
                          IF n = next.id THEN CreatedRow(next) ELSE db.rows[n]]
      BY <1>7, <1>14, Zenon
    <2>5. DOMAIN work' = DOMAIN db /\ work'.schema = db.schema  BY <1>12, <1>13
    <2> QED BY <2>1, <2>2, <2>3, <2>4, <2>5, Zenon DEF Inserted
  <1>16. Knows(next, work', db, confirmed) /\ Working(next)
    BY <1>7, <1>15, CreateKnows
  <1>17. IsCall(next, confirmed)  BY <1>8, Zenon DEF IsCall
  <1>18. Working(call[c]) /\ Goes(c, next) /\ holder' = holder  BY <1>1, <1>3 DEF k
  <1> QED BY <1>16, <1>17, <1>18, GoesKeeps

\* One header row (insert_headers).
LEMMA InsertHeaderKeeps ==
  ASSUME StoreInv, NEW c \in Clients, InsertHeader(c) PROVE StoreInv'
PROOF
  <1> DEFINE k == call[c]
             d == k.download
             i == k.written
             new == [id |-> k.id, position |-> i, name |-> d.headers[i + 1].name]
             next == [k EXCEPT !.written = i + 1]
  <1>1. /\ k.pc = "headers" /\ i < Len(d.headers) /\ Goes(c, next) /\ holder' = holder
        /\ work' = [work EXCEPT !.headers = work.headers \cup {new}]
    BY Zenon DEF InsertHeader
  <1>2. IsCall(k, confirmed)  BY Zenon DEF StoreInv, ClientsOK
  <1>3. IsCreate(k) /\ Working(k)  BY <1>1, <1>2, CallAt
  <1>4. Inserted(k, work, db) /\ IsDatabase(db)  BY <1>1, <1>3, CallWorks
  <1>5. IsDownload(d) /\ ~HasSensitiveHeaders(d) /\ k.now \in Nat
    BY <1>3, SMT DEF IsCreate
  <1>6. k = [op |-> k.op, pc |-> k.pc, download |-> k.download, now |-> k.now,
             id |-> k.id, written |-> k.written] /\ k.op = "create"
    BY <1>3, Zenon DEF IsCreate
  <1>7. /\ next.op = "create" /\ next.pc = "headers" /\ next.download = d
        /\ next.now = k.now /\ next.id = k.id /\ next.written = i + 1
        /\ next = [op |-> next.op, pc |-> next.pc, download |-> next.download,
                   now |-> next.now, id |-> next.id, written |-> next.written]
    <2>1. k.pc = "headers"  BY <1>1
    <2> HIDE DEF k
    <2> QED BY <1>6, <2>1, SMT
  <1> HIDE DEF next
  <1>8. IsCreate(next)  BY <1>5, <1>7, Zenon DEF IsCreate
  <1>9. /\ k.id = db.last + 1 /\ i \in 0..Len(d.headers)
        /\ DOMAIN work = DOMAIN db /\ work.schema = db.schema /\ work.last = k.id
        /\ work.rows = [n \in DOMAIN db.rows \cup {k.id} |->
                          IF n = k.id THEN CreatedRow(k) ELSE db.rows[n]]
        /\ work.headers = db.headers \cup HeaderRows(k)
    BY <1>4, Zenon DEF Inserted
  <1>10. CreatedRow(next) = CreatedRow(k)  BY <1>1, <1>7, Zenon DEF CreatedRow
  <1>11. i + 1 \in 0..Len(d.headers) /\ Len(d.headers) \in Nat /\ i \in Nat
    <2>1. Len(d.headers) \in Nat  BY <1>5, Zenon DEF IsDownload
    <2> HIDE DEF k, d
    <2> QED BY <1>1, <1>9, <2>1, SMT
  <1>12. HeaderRows(next) = HeaderRows(k) \cup {new}
    <2> DEFINE Row(j) == [id |-> k.id, position |-> j, name |-> d.headers[j + 1].name]
    <2>1. HeaderRows(k) = {Row(j) : j \in 0..(i - 1)}  BY Zenon DEF HeaderRows
    <2>2. HeaderRows(next) = {Row(j) : j \in 0..(next.written - 1)}
      BY <1>7, Zenon DEF HeaderRows
    <2>3. \A j : j \in 0..(next.written - 1) <=> j \in 0..(i - 1) \/ j = i
      <3> HIDE DEF i
      <3> QED BY <1>7, <1>11, SMT
    <2>4. new = Row(i)  OBVIOUS
    <2> HIDE DEF Row, new, i
    <2>5. \A x : x \in HeaderRows(next) <=> x \in HeaderRows(k) \/ x = new
      BY <2>1, <2>2, <2>3, <2>4, Zenon
    <2> QED BY <2>5, Zenon
  <1> HIDE DEF k, d, new, i
  <1>13. /\ DOMAIN work' = DOMAIN work /\ work'.schema = work.schema /\ work'.last = work.last
         /\ work'.headers = work.headers \cup {new} /\ work'.rows = work.rows
    <2>1. DOMAIN work = {"schema", "rows", "headers", "last"}
      BY <1>4, <1>9, Zenon DEF IsDatabase
    <2>2. DOMAIN work' = DOMAIN work  BY <1>1, Zenon
    <2> QED BY <1>1, <2>1, <2>2, SMT
  <1>14. work'.headers = db.headers \cup HeaderRows(next)  BY <1>9, <1>12, <1>13, SMT
  <1>15. Inserted(next, work', db)
    BY <1>7, <1>9, <1>10, <1>11, <1>13, <1>14, Zenon DEF Inserted
  <1>16. Knows(next, work', db, confirmed) /\ Working(next)
    BY <1>7, <1>15, CreateKnows
  <1>17. IsCall(next, confirmed)  BY <1>8, Zenon DEF IsCall
  <1>18. Working(call[c]) /\ Goes(c, next) /\ holder' = holder  BY <1>1, <1>3 DEF k
  <1> QED BY <1>16, <1>17, <1>18, GoesKeeps

\* The header rows of one download are all that its headers are made of.
LEMMA SameHeaders ==
  ASSUME NEW a, NEW b, NEW id, {h \in a : h.id = id} = {h \in b : h.id = id}
  PROVE  Headers(a, id) = Headers(b, id)
PROOF BY Zenon DEF Headers

\* The rows of a database are functions of functions when each of them is one.
LEMMA RowsAreFunctions ==
  ASSUME NEW rows, rows = [id \in DOMAIN rows |-> rows[id]],
         \A id \in DOMAIN rows : rows[id] = [c \in DOMAIN rows[id] |-> rows[id][c]]
  PROVE  rows = [id \in DOMAIN rows |-> [c \in DOMAIN rows[id] |-> rows[id][c]]]
PROOF OBVIOUS

\* The records and the rows of an open database, one by one.
LEMMA DatabaseRows ==
  ASSUME NEW d, NEW records, IsDatabase(d), Hold(d.rows, d.headers, records)
  PROVE  /\ DOMAIN records = DOMAIN d.rows
         /\ records = [id \in DOMAIN d.rows |-> records[id]]
         /\ d.rows = [id \in DOMAIN d.rows |-> d.rows[id]]
         /\ \A id \in DOMAIN d.rows :
              /\ d.rows[id] = [c \in DOMAIN d.rows[id] |-> d.rows[id][c]]
              /\ DOMAIN d.rows[id] = Columns /\ IsStored(records[id])
              /\ ToJob(id, d.rows[id], Headers(d.headers, id)) = {records[id]}
PROOF
  <1> DEFINE R == d.rows
  <1>1. R = [id \in DOMAIN R |-> [c \in DOMAIN R[id] |-> R[id][c]]]  BY Zenon DEF IsDatabase
  <1>2. records = [id \in DOMAIN R |-> records[id]]  BY Zenon DEF Hold
  <1>3. ASSUME NEW id \in DOMAIN R
        PROVE  /\ DOMAIN R[id] = Columns /\ IsStored(records[id])
               /\ ToJob(id, R[id], Headers(d.headers, id)) = {records[id]}
    BY Zenon DEF Hold
  <1> HIDE DEF R
  <1>4. ASSUME NEW id \in DOMAIN R PROVE R[id] = [c \in DOMAIN R[id] |-> R[id][c]]
    BY <1>1, <1>4, Zenon
  <1>5. R = [id \in DOMAIN R |-> R[id]]  BY <1>1, <1>4, Zenon
  <1>6. DOMAIN records = DOMAIN R  BY <1>2, Zenon
  <1> QED BY <1>2, <1>3, <1>4, <1>5, <1>6, Zenon DEF R

\* The commit of a create: its row, with its header rows, is the record it
\* returns, and no other has changed (create).
LEMMA CommitCreateKeeps ==
  ASSUME StoreInv, NEW c \in Clients, CommitCreate(c) PROVE StoreInv'
PROOF
  <1> DEFINE k == call[c]
             d == k.download
             id == k.id
             record == NewRecord(id, d, k.now)
             records == [n \in DOMAIN confirmed \cup {record.id} |->
                           IF n = record.id THEN record ELSE confirmed[n]]
  <1>1. /\ k.pc = "headers" /\ k.written = Len(d.headers)
        /\ Returns(c, records, Some(record))
    BY Zenon DEF CommitCreate
  <1>2. IsCall(k, confirmed)  BY Zenon DEF StoreInv, ClientsOK
  <1>3. IsCreate(k) /\ Working(k)  BY <1>1, <1>2, CallAt
  <1>4. /\ Inserted(k, work, db) /\ IsDatabase(db) /\ db.schema = Latest
        /\ Hold(db.rows, db.headers, confirmed)
    BY <1>1, <1>3, CallWorks
  <1>5. k.now \in Nat  BY <1>3, Zenon DEF IsCreate
  <1>6. /\ IsStored(record) /\ record.id = id /\ record.download = d
        /\ record.created = Normalized(k.now)
    BY <1>5, NewRecordIsStored
  <1>7. /\ DOMAIN confirmed = DOMAIN db.rows
        /\ db.rows = [n \in DOMAIN db.rows |-> db.rows[n]]
        /\ \A n \in DOMAIN db.rows :
             /\ db.rows[n] = [x \in DOMAIN db.rows[n] |-> db.rows[n][x]]
             /\ DOMAIN db.rows[n] = Columns /\ IsStored(confirmed[n])
             /\ ToJob(n, db.rows[n], Headers(db.headers, n)) = {confirmed[n]}
    <2> HIDE DEF record, records, k, d, id
    <2>1. DOMAIN confirmed = DOMAIN db.rows  BY <1>4, DatabaseRows
    <2>2. db.rows = [n \in DOMAIN db.rows |-> db.rows[n]]  BY <1>4, DatabaseRows
    <2>3. ASSUME NEW n \in DOMAIN db.rows
          PROVE  db.rows[n] = [x \in DOMAIN db.rows[n] |-> db.rows[n][x]]
      BY <1>4, DatabaseRows
    <2>4. ASSUME NEW n \in DOMAIN db.rows
          PROVE  /\ DOMAIN db.rows[n] = Columns /\ IsStored(confirmed[n])
                 /\ ToJob(n, db.rows[n], Headers(db.headers, n)) = {confirmed[n]}
      BY <1>4, <2>4, Zenon DEF Hold
    <2> QED BY <2>1, <2>2, <2>3, <2>4
  <1>8. /\ id = db.last + 1 /\ DOMAIN work = DOMAIN db /\ work.schema = db.schema
        /\ work.last = id /\ work.headers = db.headers \cup HeaderRows(k)
        /\ work.rows = [n \in DOMAIN db.rows \cup {id} |->
                          IF n = id THEN CreatedRow(k) ELSE db.rows[n]]
    BY <1>4, Zenon DEF Inserted
  <1>9. /\ db.last \in Nat /\ DOMAIN db.rows \subseteq 1..db.last
        /\ \A h \in db.headers : h.id \in DOMAIN db.rows
        /\ DOMAIN db = {"schema", "rows", "headers", "last"} /\ db.schema \in 0..Latest
    BY <1>4, Zenon DEF IsDatabase
  <1>10. \A n \in DOMAIN db.rows : n # id  BY <1>8, <1>9, SMT
  <1>11. \A h \in HeaderRows(k) : h.id = id
    <2>1. \A i : [id |-> k.id, position |-> i, name |-> d.headers[i + 1].name].id = k.id  BY SMT
    <2> HIDE DEF d
    <2> QED BY <2>1, Zenon DEF HeaderRows, d
  <1>12. ToJob(id, CreatedRow(k), Headers(work.headers, id)) = {record}
    <2>1. {h \in work.headers : h.id = k.id} = HeaderRows(k)
      <3> HIDE DEF k, id
      <3>1. id = k.id  BY DEF id
      <3> QED BY <1>8, <1>9, <1>10, <1>11, <3>1, SMT
    <2> QED BY <1>1, <1>3, <2>1, CreatedRowReadsBack
  <1>13. DOMAIN CreatedRow(k) = Columns /\ CreatedRow(k) = [x \in DOMAIN CreatedRow(k) |-> CreatedRow(k)[x]]
    BY InsertedColumns DEF CreatedRow
  <1> HIDE DEF record, k, d, id
  <1>14. /\ DOMAIN records = DOMAIN confirmed \cup {id} /\ records[id] = record
         /\ \A n \in DOMAIN confirmed : n # id => records[n] = confirmed[n]
         /\ records = [n \in DOMAIN records |-> records[n]]
    BY <1>6, Zenon
  <1> HIDE DEF records
  <1>15. /\ DOMAIN work.rows = DOMAIN db.rows \cup {id} /\ work.rows[id] = CreatedRow(k)
         /\ \A n \in DOMAIN db.rows : work.rows[n] = db.rows[n]
         /\ work.rows = [n \in DOMAIN work.rows |-> work.rows[n]]
    BY <1>8, <1>10, Zenon
  <1>16. \A n \in DOMAIN db.rows : Headers(work.headers, n) = Headers(db.headers, n)
    <2>1. ASSUME NEW n \in DOMAIN db.rows
          PROVE  {h \in work.headers : h.id = n} = {h \in db.headers : h.id = n}
      BY <1>8, <1>10, <1>11, <2>1, SMT
    <2> QED BY <2>1, SameHeaders
  <1>17. IsDatabase(work)
    <2>1. work.last \in Nat /\ DOMAIN work.rows \subseteq 1..work.last
      BY <1>8, <1>9, <1>15, SMT
    <2>2. \A n \in DOMAIN work.rows : work.rows[n] = [x \in DOMAIN work.rows[n] |-> work.rows[n][x]]
      BY <1>7, <1>13, <1>15, Zenon
    <2>3. work.rows = [n \in DOMAIN work.rows |-> [x \in DOMAIN work.rows[n] |-> work.rows[n][x]]]
      BY <1>15, <2>2, RowsAreFunctions
    <2>4. \A h \in work.headers : h.id \in DOMAIN work.rows
      BY <1>8, <1>9, <1>11, <1>15, Zenon
    <2>5. work.schema \in 0..Latest  BY <1>8, <1>9
    <2> QED BY <1>8, <1>9, <2>1, <2>3, <2>4, <2>5, Zenon DEF IsDatabase
  <1>18. Hold(work.rows, work.headers, records)
    <2>1. records = [n \in DOMAIN work.rows |-> records[n]]  BY <1>7, <1>14, <1>15, Zenon
    <2>2. ASSUME NEW n \in DOMAIN work.rows
          PROVE  /\ DOMAIN work.rows[n] = Columns /\ IsStored(records[n])
                 /\ ToJob(n, work.rows[n], Headers(work.headers, n)) = {records[n]}
      <3>1. CASE n = id  BY <1>6, <1>12, <1>13, <1>14, <1>15, <3>1, Zenon
      <3>2. CASE n # id
        <4>1. n \in DOMAIN db.rows  BY <1>15, <3>2, Zenon
        <4>2. work.rows[n] = db.rows[n]  BY <1>15, <4>1
        <4>3. records[n] = confirmed[n]  BY <1>7, <1>14, <3>2, <4>1
        <4>4. Headers(work.headers, n) = Headers(db.headers, n)  BY <1>16, <4>1
        <4> QED BY <1>7, <4>1, <4>2, <4>3, <4>4, Zenon
      <3> QED BY <3>1, <3>2
    <2> QED BY <2>1, <2>2, Zenon DEF Hold
  <1>19. Extends(confirmed, records)
    <2>1. \A n \in DOMAIN confirmed : n \in DOMAIN records /\ records[n] = confirmed[n]
      BY <1>7, <1>10, <1>14, Zenon
    <2> QED BY <2>1, Zenon DEF Extends
  <1>20. IsHeld(Some(record), records)
    <2>1. IsRecord(record)  BY <1>6, Zenon DEF IsStored
    <2>2. Known(record, records)  BY <1>6, <1>14, Zenon DEF Known
    <2>3. Normalized(record.created) = record.created  BY <1>6, Zenon DEF IsStored
    <2> QED BY <2>1, <2>2, <2>3, SomeIsHeld
  <1>21. work.schema = Latest  BY <1>4, <1>8
  <1>22. Working(call[c])  BY <1>3 DEF k
  <1> QED BY <1>1, <1>17, <1>18, <1>19, <1>20, <1>21, <1>22, ReturnsKeeps

\* A call that reads goes on with what it read.
LEMMA ReaderKnows ==
  ASSUME NEW k, NEW d, NEW records, k.pc \in {"listHeaders", "listed"},
         k.pc = "listHeaders" => k.rows = d.rows, k.pc = "listed" => k.jobs = records
  PROVE  Knows(k, d, d, records) /\ Working(k)
PROOF
  <1>1. k.pc \notin {"selection", "headers", "updated", "idle", "begin"}  BY SMT
  <1>2. Working(k)  BY <1>1, SMT DEF Working
  <1> QED BY <1>1, <1>2, SMT DEF Knows

\* The rows of a listing (list's first query).
LEMMA ListRowsKeeps == ASSUME StoreInv, NEW c \in Clients, ListRows(c) PROVE StoreInv'
PROOF
  <1> DEFINE k == call[c]
             seen == Seen(c).rows
             next == [k EXCEPT !.pc = "listHeaders", !.rows = seen]
  <1>1. k.pc = "list" /\ Goes(c, next) /\ holder' = holder /\ work' = work
    BY Zenon DEF ListRows
  <1>2. IsCall(k, confirmed)  BY Zenon DEF StoreInv, ClientsOK
  <1>3. IsList(k) /\ Working(k)  BY <1>1, <1>2, CallAt
  <1>4. k.pc \in Reading  BY <1>1, SMT DEF Reading
  <1>5. holder = {c} /\ work = db  BY <1>3, <1>4, CallWorks
  <1>6. seen = db.rows  BY <1>5, Zenon DEF Seen
  <1>7. k = [op |-> k.op, pc |-> k.pc, rows |-> k.rows, jobs |-> k.jobs] /\ k.op = "list"
    BY <1>3, Zenon DEF IsList
  <1> HIDE DEF seen
  <1>8. /\ next.op = "list" /\ next.pc = "listHeaders" /\ next.rows = seen
        /\ next = [op |-> next.op, pc |-> next.pc, rows |-> next.rows, jobs |-> next.jobs]
    <2> HIDE DEF k
    <2>1. DOMAIN k = {"op", "pc", "rows", "jobs"}  BY <1>7, SMT
    <2>2. DOMAIN next = DOMAIN k /\ next = [f \in DOMAIN next |-> next[f]]  BY Zenon
    <2>3. next.op = "list" /\ next.pc = "listHeaders" /\ next.rows = seen  BY <1>7, <2>1, SMT
    <2> HIDE DEF next
    <2> QED BY <2>1, <2>2, <2>3, SMT
  <1> HIDE DEF next
  <1>9. IsList(next)  BY <1>8, Zenon DEF IsList
  <1>10. IsCall(next, confirmed)  BY <1>9, Zenon DEF IsCall
  <1>11. Knows(next, db, db, confirmed) /\ Working(next)  BY <1>6, <1>8, ReaderKnows
  <1>12. Knows(next, work', db, confirmed)  BY <1>1, <1>5, <1>11
  <1> QED BY <1>1, <1>3, <1>10, <1>11, <1>12, GoesKeeps

\* Its headers and its records: all rows can be read, so none fails it (list).
LEMMA ListHeadersKeeps == ASSUME StoreInv, NEW c \in Clients, ListHeaders(c) PROVE StoreInv'
PROOF
  <1> DEFINE k == call[c]
             rows == k.rows
             stored == Seen(c).headers
             read == [id \in DOMAIN rows |-> ToJob(id, rows[id], Headers(stored, id))]
             jobs == [id \in DOMAIN rows |-> The(read[id])]
             next == [k EXCEPT !.pc = "listed", !.jobs = jobs]
  <1>1. k.pc = "listHeaders"  BY Zenon DEF ListHeaders
  <1>2. IsCall(k, confirmed)  BY Zenon DEF StoreInv, ClientsOK
  <1>3. IsList(k) /\ Working(k)  BY <1>1, <1>2, CallAt
  <1>4. k.pc \in Reading  BY <1>1, SMT DEF Reading
  <1>5. /\ holder = {c} /\ work = db /\ rows = db.rows
        /\ IsDatabase(db) /\ Hold(db.rows, db.headers, confirmed)
    BY <1>1, <1>3, <1>4, CallWorks
  <1>6. stored = db.headers  BY <1>5, Zenon DEF Seen
  <1>7. confirmed = [id \in DOMAIN rows |-> confirmed[id]]
    <2> HIDE DEF rows
    <2> QED BY <1>5, Zenon DEF Hold
  <1>8. ASSUME NEW id \in DOMAIN rows PROVE read[id] = Some(confirmed[id])
    <2>1. read[id] = ToJob(id, db.rows[id], Headers(db.headers, id))  BY <1>5, <1>6, Zenon
    <2>2. id \in DOMAIN db.rows  BY <1>5
    <2>3. ToJob(id, db.rows[id], Headers(db.headers, id)) = {confirmed[id]}
      <3> HIDE DEF rows, stored, k
      <3> QED BY <1>5, <2>2, Zenon DEF Hold
    <2> QED BY <2>1, <2>3, Zenon DEF Some
  <1>9. \A h \in stored : h.id \in DOMAIN rows
    <2>1. \A h \in db.headers : h.id \in DOMAIN db.rows  BY <1>5, Zenon DEF IsDatabase
    <2> QED BY <1>5, <1>6, <2>1
  <1>10. Goes(c, next) /\ work' = work /\ holder' = holder
    <2>1. \A id \in DOMAIN rows : read[id] # None  BY <1>8, TheOfSome, Zenon
    <2> QED BY <1>9, <2>1, Zenon DEF ListHeaders
  <1>11. jobs = confirmed
    <2>1. \A id \in DOMAIN rows : The(read[id]) = confirmed[id]  BY <1>8, TheOfSome, Zenon
    <2> HIDE DEF read, rows
    <2> QED BY <1>7, <2>1, Zenon
  <1>12. k = [op |-> k.op, pc |-> k.pc, rows |-> k.rows, jobs |-> k.jobs] /\ k.op = "list"
    BY <1>3, Zenon DEF IsList
  <1> HIDE DEF jobs
  <1>13. /\ next.op = "list" /\ next.pc = "listed" /\ next.jobs = jobs
         /\ next = [op |-> next.op, pc |-> next.pc, rows |-> next.rows, jobs |-> next.jobs]
    <2> HIDE DEF k
    <2>1. DOMAIN k = {"op", "pc", "rows", "jobs"}  BY <1>12, SMT
    <2>2. DOMAIN next = DOMAIN k /\ next = [f \in DOMAIN next |-> next[f]]  BY Zenon
    <2>3. next.op = "list" /\ next.pc = "listed" /\ next.jobs = jobs  BY <1>12, <2>1, SMT
    <2> HIDE DEF next
    <2> QED BY <2>1, <2>2, <2>3, SMT
  <1> HIDE DEF next
  <1>14. IsList(next)  BY <1>13, Zenon DEF IsList
  <1>15. IsCall(next, confirmed)  BY <1>14, Zenon DEF IsCall
  <1>16. Knows(next, db, db, confirmed) /\ Working(next)  BY <1>11, <1>13, ReaderKnows
  <1>17. Knows(next, work', db, confirmed)  BY <1>5, <1>10, <1>16
  <1> QED BY <1>3, <1>10, <1>15, <1>16, <1>17, GoesKeeps

\* A call that has only read ends, and its caller holds a record there is.
LEMMA ReaderReturns ==
  ASSUME StoreInv, NEW c \in Clients, Working(call[c]), call[c].pc \in Reading,
         NEW told, Returns(c, confirmed, told), IsHeld(told, confirmed)
  PROVE  StoreInv'
PROOF
  <1>1. /\ work = db /\ IsDatabase(db) /\ db.schema = Latest
        /\ Hold(db.rows, db.headers, confirmed)
    BY CallWorks
  <1>2. Extends(confirmed, confirmed)  BY Zenon DEF Extends
  <1>3. IsDatabase(work) /\ work.schema = Latest /\ Hold(work.rows, work.headers, confirmed)
    BY <1>1
  <1> QED BY <1>2, <1>3, ReturnsKeeps

\* The end of a listing: the caller may hold one of the records from then on.
LEMMA CommitListKeeps == ASSUME StoreInv, NEW c \in Clients, CommitList(c) PROVE StoreInv'
PROOF
  <1> DEFINE k == call[c]
  <1>1. k.pc = "listed"  BY Zenon DEF CommitList
  <1>2. IsCall(k, confirmed)  BY Zenon DEF StoreInv, ClientsOK
  <1>3. Working(k)  BY <1>1, <1>2, CallAt
  <1>4. k.pc \in Reading  BY <1>1, SMT DEF Reading
  <1>5. k.jobs = confirmed /\ IsDatabase(db) /\ Hold(db.rows, db.headers, confirmed)
    BY <1>1, <1>3, CallWorks
  <1>6. PICK held \in {job[c]} \cup {Some(k.jobs[id]) :
                 id \in {i \in DOMAIN k.jobs : ~HeldElsewhere(c, i)}} :
          Returns(c, confirmed, held)
    BY Zenon DEF CommitList
  <1>7. IsHeld(job[c], confirmed)  BY Zenon DEF StoreInv, ClientsOK
  <1>8. ASSUME NEW id \in DOMAIN confirmed PROVE IsHeld(Some(confirmed[id]), confirmed)
    <2>1. DOMAIN confirmed = DOMAIN db.rows  BY <1>5, DatabaseRows
    <2>2. id \in DOMAIN db.rows  BY <2>1
    <2>3. /\ IsStored(confirmed[id])
          /\ ToJob(id, db.rows[id], Headers(db.headers, id)) = {confirmed[id]}
      BY <1>5, <2>2, Zenon DEF Hold
    <2>4. confirmed[id].id = id  BY <2>3, OneRequest
    <2>5. Known(confirmed[id], confirmed)  BY <2>4, Zenon DEF Known
    <2>6. IsRecord(confirmed[id]) /\ Normalized(confirmed[id].created) = confirmed[id].created
      BY <2>3, Zenon DEF IsStored
    <2> QED BY <2>5, <2>6, SomeIsHeld
  <1>9. IsHeld(held, confirmed)  BY <1>5, <1>6, <1>7, <1>8, Zenon
  <1> QED BY <1>3, <1>4, <1>6, <1>9, ReaderReturns

\* The search of one record: its row, when it is there, can be read (find).
LEMMA FindRowKeeps == ASSUME StoreInv, NEW c \in Clients, FindRow(c) PROVE StoreInv'
PROOF
  <1> DEFINE k == call[c]
             id == k.id
             read == ToJob(id, work.rows[id], Headers(work.headers, id))
  <1>1. k.pc = "find"  BY Zenon DEF FindRow
  <1>2. IsCall(k, confirmed)  BY Zenon DEF StoreInv, ClientsOK
  <1>3. Working(k)  BY <1>1, <1>2, CallAt
  <1>4. k.pc \in Reading  BY <1>1, SMT DEF Reading
  <1>5. work = db /\ IsDatabase(db) /\ Hold(db.rows, db.headers, confirmed)
    BY <1>3, <1>4, CallWorks
  <1>6. IsHeld(job[c], confirmed)  BY Zenon DEF StoreInv, ClientsOK
  <1>7. ASSUME id \in DOMAIN work.rows PROVE read # None
    <2>1. id \in DOMAIN db.rows  BY <1>5, <1>7
    <2>2. ToJob(id, db.rows[id], Headers(db.headers, id)) = {confirmed[id]}
      <3> HIDE DEF id, read
      <3> QED BY <1>5, <2>1, Zenon DEF Hold
    <2> QED BY <1>5, <2>2 DEF None
  <1> HIDE DEF read
  <1>8. Returns(c, confirmed, job[c])
    <2>1. CASE id \notin DOMAIN work.rows  BY <2>1, SMT DEF FindRow
    <2>2. CASE id \in DOMAIN work.rows  BY <1>7, <2>2, SMT DEF FindRow, read
    <2> QED BY <2>1, <2>2
  <1> QED BY <1>3, <1>4, <1>6, <1>8, ReaderReturns

\* The record of a save is there, and no constraint turns its row away (save).
LEMMA SaveRowKeeps == ASSUME StoreInv, NEW c \in Clients, SaveRow(c) PROVE StoreInv'
PROOF
  <1> DEFINE k == call[c]
             s == k.snapshot
             id == s.id
             row == work.rows[id]
             read == ToJob(id, row, Headers(work.headers, id))
             updated == UpdatedRow(row, s)
             next == [k EXCEPT !.pc = "updated"]
  <1>1. k.pc = "save"  BY Zenon DEF SaveRow
  <1>2. IsCall(k, confirmed)  BY Zenon DEF StoreInv, ClientsOK
  <1>3. IsSave(k, confirmed) /\ Working(k)  BY <1>1, <1>2, CallAt
  <1>4. k.pc \in Reading  BY <1>1, SMT DEF Reading
  <1>5. work = db /\ IsDatabase(db) /\ Hold(db.rows, db.headers, confirmed)
    BY <1>3, <1>4, CallWorks
  <1>6. IsStored(s) /\ Known(s, confirmed)  BY <1>3, Zenon DEF IsSave
  <1>7. /\ id \in DOMAIN confirmed /\ s.download = confirmed[id].download
        /\ s.created = confirmed[id].created
    BY <1>6, Zenon DEF Known
  <1>8. id \in DOMAIN work.rows
    <2> HIDE DEF id
    <2>1. DOMAIN confirmed = DOMAIN db.rows  BY <1>5, DatabaseRows
    <2> QED BY <1>5, <1>7, <2>1
  <1>9. read = {confirmed[id]} /\ DOMAIN row = Columns
    <2> HIDE DEF id, s, k
    <2>1. id \in DOMAIN db.rows  BY <1>5, <1>8
    <2>2. /\ ToJob(id, db.rows[id], Headers(db.headers, id)) = {confirmed[id]}
          /\ DOMAIN db.rows[id] = Columns
      BY <1>5, <2>1, Zenon DEF Hold
    <2> QED BY <1>5, <2>2
  <1>10. AllowedRow(updated)
    <2> HIDE DEF row, s, k
    <2>1. id = s.id  OBVIOUS
    <2> HIDE DEF id
    <2> DEFINE h == Headers(work.headers, id)
               r == confirmed[id]
    <2>2. ToJob(id, row, h) = {r} /\ DOMAIN row = Columns  BY <1>9
    <2>3. IsStored(s) /\ s.id = id /\ s.download = r.download /\ s.created = r.created
      BY <1>6, <1>7, <2>1
    <2> HIDE DEF h, r
    <2>4. /\ ToJob(id, UpdatedRow(row, s), h) = {s}
          /\ AllowedRow(UpdatedRow(row, s))
      BY <2>2, <2>3, SavedRowReadsBack
    <2> QED BY <2>4
  <1>11. The(read) = confirmed[id] /\ read # None
    <2> HIDE DEF read, id
    <2>1. read = Some(confirmed[id])  BY <1>9, Zenon DEF Some
    <2> QED BY <2>1, TheOfSome
  <1>12. /\ work' = [work EXCEPT !.rows[id] = updated] /\ Goes(c, next) /\ holder' = holder
    <2>1. ~(id \notin DOMAIN work.rows) /\ ~(id \in DOMAIN work.rows /\ read = None)
      BY <1>8, <1>11
    <2>2. ~(id \in DOMAIN work.rows /\ read # None /\
              (The(read).download # s.download \/ The(read).created # s.created))
      BY <1>7, <1>11
    <2> DEFINE Absent == id \notin DOMAIN work.rows
               Unread == id \in DOMAIN work.rows /\ read = None
               Another == /\ id \in DOMAIN work.rows /\ read # None
                          /\ \/ The(read).download # s.download
                             \/ The(read).created # s.created
               Lets == IF AllowedRow(updated)
                       THEN /\ work' = [work EXCEPT !.rows[id] = updated]
                            /\ Goes(c, next) /\ UNCHANGED holder
                       ELSE Fails(c, "Internal")
               Gone == Fails(c, "NotFound")
               Bad == Fails(c, "InvalidData")
               Refused == Fails(c, "ConstraintViolation")
    <2>3. (CASE Absent -> Gone [] Unread -> Bad [] Another -> Refused [] OTHER -> Lets)
      BY Zenon DEF SaveRow
    <2>4. ~Absent /\ ~Unread /\ ~Another  BY <2>1, <2>2
    <2> HIDE DEF Absent, Unread, Another, Lets, Gone, Bad, Refused
    <2>5. Lets  BY <2>3, <2>4, SMT
    <2> QED BY <1>10, <2>5 DEF Lets
  <1>13. k = [op |-> k.op, pc |-> k.pc, snapshot |-> k.snapshot] /\ k.op = "save"
    BY <1>3, Zenon DEF IsSave
  <1>14. /\ next.op = "save" /\ next.pc = "updated" /\ next.snapshot = k.snapshot
         /\ next = [op |-> next.op, pc |-> next.pc, snapshot |-> next.snapshot]
    <2> HIDE DEF k
    <2> QED BY <1>13, SMT
  <1> HIDE DEF next
  <1>15. IsSave(next, confirmed)
    <2>1. next.snapshot = s  BY <1>14
    <2> HIDE DEF s
    <2> QED BY <1>6, <1>14, <2>1, Zenon DEF IsSave
  <1>16. IsCall(next, confirmed)  BY <1>15, Zenon DEF IsCall
  <1>17. /\ DOMAIN work' = DOMAIN db /\ work'.schema = db.schema /\ work'.last = db.last
         /\ work'.headers = db.headers
         /\ work'.rows = [db.rows EXCEPT ![id] = updated]
    <2>1. DOMAIN work = {"schema", "rows", "headers", "last"}  BY <1>5, Zenon DEF IsDatabase
    <2> HIDE DEF updated, id
    <2>2. DOMAIN work' = DOMAIN work  BY <1>12, Zenon
    <2> QED BY <1>5, <1>12, <2>1, <2>2, SMT
  <1>18. work'.rows = [db.rows EXCEPT ![next.snapshot.id] = UpdatedRow(@, next.snapshot)]
    <2>1. next.snapshot = s /\ next.snapshot.id = id /\ updated = UpdatedRow(db.rows[id], s)
      BY <1>5, <1>14
    <2> HIDE DEF updated, id, s
    <2> QED BY <1>17, <2>1, Zenon
  <1>19. Knows(next, work', db, confirmed) /\ Working(next)
    <2>1. next.pc \notin Reading \cup {"listHeaders", "listed", "selection", "headers"}
      BY <1>14, SMT DEF Reading
    <2>2. next.pc \notin Reading /\ next.pc # "listHeaders" /\ next.pc # "listed"
          /\ next.pc \notin {"selection", "headers"}
      BY <2>1, Zenon
    <2>3. Knows(next, work', db, confirmed)
      BY <1>17, <1>18, <2>2, Zenon DEF Knows
    <2> QED BY <1>14, <2>3, SMT DEF Working
  <1> QED BY <1>3, <1>12, <1>16, <1>19, GoesKeeps

\* The commit of a save: the one row reads back as what was saved, and no other
\* has changed (save).
LEMMA CommitSaveKeeps == ASSUME StoreInv, NEW c \in Clients, CommitSave(c) PROVE StoreInv'
PROOF
  <1> DEFINE k == call[c]
             s == k.snapshot
             id == s.id
             records == [confirmed EXCEPT ![id] = s]
  <1>1. k.pc = "updated" /\ Returns(c, records, Some(s))  BY Zenon DEF CommitSave
  <1>2. IsCall(k, confirmed)  BY Zenon DEF StoreInv, ClientsOK
  <1>3. IsSave(k, confirmed) /\ Working(k)  BY <1>1, <1>2, CallAt
  <1>4. /\ Knows(k, work, db, confirmed) /\ IsDatabase(db) /\ db.schema = Latest
        /\ Hold(db.rows, db.headers, confirmed)
    BY <1>3, WorkerHolds
  <1>5. IsStored(s) /\ Known(s, confirmed)  BY <1>3, Zenon DEF IsSave
  <1>6. /\ DOMAIN work = DOMAIN db /\ work.schema = db.schema /\ work.last = db.last
        /\ work.headers = db.headers
        /\ work.rows = [db.rows EXCEPT ![id] = UpdatedRow(@, s)]
    BY <1>1, <1>4, Zenon DEF Knows
  <1>7. /\ id \in DOMAIN confirmed /\ s.download = confirmed[id].download
        /\ s.created = confirmed[id].created
    BY <1>5, Zenon DEF Known
  <1>8. s.id = id  OBVIOUS
  <1>9. Working(call[c])  BY <1>3
  <1> HIDE DEF k, s, id
  <1>10. DOMAIN confirmed = DOMAIN db.rows  BY <1>4, DatabaseRows
  <1>11. confirmed = [n \in DOMAIN db.rows |-> confirmed[n]]  BY <1>4, DatabaseRows
  <1>12. db.rows = [n \in DOMAIN db.rows |-> db.rows[n]]  BY <1>4, DatabaseRows
  <1>13. ASSUME NEW n \in DOMAIN db.rows
         PROVE  db.rows[n] = [x \in DOMAIN db.rows[n] |-> db.rows[n][x]]
    BY <1>4, DatabaseRows
  <1>14. ASSUME NEW n \in DOMAIN db.rows
         PROVE  /\ DOMAIN db.rows[n] = Columns /\ IsStored(confirmed[n])
                /\ ToJob(n, db.rows[n], Headers(db.headers, n)) = {confirmed[n]}
    BY <1>4, <1>14, Zenon DEF Hold
  <1> DEFINE u == UpdatedRow(db.rows[id], s)
  <1>15. /\ DOMAIN work.rows = DOMAIN db.rows /\ work.rows[id] = u
         /\ \A n \in DOMAIN db.rows : n # id => work.rows[n] = db.rows[n]
         /\ work.rows = [n \in DOMAIN work.rows |-> work.rows[n]]
    <2> HIDE DEF u
    <2>1. work.rows = [db.rows EXCEPT ![id] = u]  BY <1>6, Zenon DEF u
    <2> QED BY <1>7, <1>10, <1>12, <2>1, Zenon
  <1>16. /\ DOMAIN records = DOMAIN db.rows /\ records[id] = s
         /\ \A n \in DOMAIN db.rows : n # id => records[n] = confirmed[n]
         /\ records = [n \in DOMAIN db.rows |-> records[n]]
    BY <1>7, <1>10, <1>11, Zenon
  <1>17. DOMAIN u = Columns /\ u = [x \in DOMAIN u |-> u[x]]
    <2>1. DOMAIN db.rows[id] = Columns  BY <1>7, <1>10, <1>14
    <2> QED BY <2>1, UpdatedColumns
  <1>18. ToJob(id, u, Headers(db.headers, id)) = {s}
    <2>1. /\ ToJob(id, db.rows[id], Headers(db.headers, id)) = {confirmed[id]}
          /\ DOMAIN db.rows[id] = Columns
      BY <1>7, <1>10, <1>14
    <2> QED BY <1>5, <1>7, <1>8, <2>1, SavedRowReadsBack
  <1> HIDE DEF u, records
  <1>19. IsDatabase(work)
    <2>1. /\ DOMAIN db = {"schema", "rows", "headers", "last"}
          /\ db.schema \in 0..Latest /\ db.last \in Nat
          /\ DOMAIN db.rows \subseteq 1..db.last
          /\ \A h \in db.headers : h.id \in DOMAIN db.rows
      BY <1>4, Zenon DEF IsDatabase
    <2>2. \A n \in DOMAIN work.rows : work.rows[n] = [x \in DOMAIN work.rows[n] |-> work.rows[n][x]]
      BY <1>13, <1>15, <1>17, Zenon
    <2>3. work.rows = [n \in DOMAIN work.rows |-> [x \in DOMAIN work.rows[n] |-> work.rows[n][x]]]
      BY <1>15, <2>2, RowsAreFunctions
    <2> QED BY <1>6, <1>15, <2>1, <2>3, Zenon DEF IsDatabase
  <1>20. Hold(work.rows, work.headers, records)
    <2>1. records = [n \in DOMAIN work.rows |-> records[n]]  BY <1>15, <1>16, Zenon
    <2>2. ASSUME NEW n \in DOMAIN work.rows
          PROVE  /\ DOMAIN work.rows[n] = Columns /\ IsStored(records[n])
                 /\ ToJob(n, work.rows[n], Headers(work.headers, n)) = {records[n]}
      <3>1. CASE n = id  BY <1>5, <1>6, <1>15, <1>16, <1>17, <1>18, <3>1, Zenon
      <3>2. CASE n # id  BY <1>6, <1>14, <1>15, <1>16, <3>2, Zenon
      <3> QED BY <3>1, <3>2
    <2> QED BY <2>1, <2>2, Zenon DEF Hold
  <1>21. Extends(confirmed, records)
    <2>1. ASSUME NEW n \in DOMAIN confirmed
          PROVE  /\ n \in DOMAIN records /\ records[n].download = confirmed[n].download
                 /\ records[n].created = confirmed[n].created
      <3>1. CASE n = id  BY <1>7, <1>10, <1>16, <3>1, Zenon
      <3>2. CASE n # id  BY <1>10, <1>16, <3>2, Zenon
      <3> QED BY <3>1, <3>2
    <2> QED BY <2>1, Zenon DEF Extends
  <1>22. IsHeld(Some(s), records)
    <2>1. IsRecord(s) /\ Normalized(s.created) = s.created  BY <1>5, Zenon DEF IsStored
    <2>2. Known(s, records)  BY <1>7, <1>8, <1>10, <1>16, Zenon DEF Known
    <2> QED BY <2>1, <2>2, SomeIsHeld
  <1>23. work.schema = Latest  BY <1>4, <1>6
  <1> QED BY <1>1, <1>9, <1>19, <1>20, <1>21, <1>22, <1>23, ReturnsKeeps

\* A step that changes nothing of the model.
LEMMA StutterKeeps == ASSUME StoreInv, UNCHANGED vars PROVE StoreInv'
PROOF
  <1>1. /\ db' = db /\ work' = work /\ holder' = holder /\ opened' = opened /\ call' = call
        /\ job' = job /\ result' = result /\ confirmed' = confirmed
    BY Zenon DEF vars
  <1>2. DatabaseOK'  BY <1>1, Zenon DEF StoreInv, DatabaseOK
  <1>3. ClientsOK'  BY <1>1, Zenon DEF StoreInv, ClientsOK
  <1>4. ConnectionOK'  BY <1>1, Zenon DEF StoreInv, ConnectionOK
  <1> QED BY <1>2, <1>3, <1>4, Zenon DEF StoreInv

\* Every step keeps the invariant.
LEMMA NextKeeps == ASSUME StoreInv, [Next]_vars PROVE StoreInv'
PROOF
  <1>1. CASE UNCHANGED vars  BY <1>1, StutterKeeps
  <1>2. CASE Migrate  BY <1>2, MigrateKeeps
  <1>3. CASE Lost  BY <1>3, LostKeeps
  <1>4. ASSUME NEW c \in Clients,
               StartCreate(c) \/ StartList(c) \/ StartFind(c) \/ StartSave(c) \/ Change(c)
        PROVE  StoreInv'
    BY <1>4, StartCreateKeeps, StartListKeeps, StartFindKeeps, StartSaveKeeps, ChangeKeeps
  <1>5. ASSUME NEW c \in Clients,
               \/ Begin(c) \/ InsertDownload(c) \/ StoreSelection(c) \/ InsertHeader(c)
               \/ CommitCreate(c)
        PROVE  StoreInv'
    BY <1>5, BeginKeeps, InsertDownloadKeeps, StoreSelectionKeeps, InsertHeaderKeeps,
       CommitCreateKeeps
  <1>6. ASSUME NEW c \in Clients,
               \/ ListRows(c) \/ ListHeaders(c) \/ CommitList(c) \/ FindRow(c)
               \/ SaveRow(c) \/ CommitSave(c)
        PROVE  StoreInv'
    BY <1>6, ListRowsKeeps, ListHeadersKeeps, CommitListKeeps, FindRowKeeps, SaveRowKeeps,
       CommitSaveKeeps
  <1> QED BY <1>1, <1>2, <1>3, <1>4, <1>5, <1>6, Zenon DEF Next

-----------------------------------------------------------------------------
(* The theorems. *)

\* The inductive invariant: an open database holds the confirmed records, one
\* that is not yet migrated will, and every call knows what it has written of
\* them (DownloadRepository, its pool of one connection).
THEOREM StoreIsConsistent == Spec => []StoreInv
PROOF
  <1>1. Init => StoreInv  BY InitKeeps
  <1>2. StoreInv /\ [Next]_vars => StoreInv'  BY NextKeeps
  <1> QED BY <1>1, <1>2, PTL DEF Spec

\* What a create or a save returned is what the next start reads, whatever was
\* lost in between and whatever version wrote the row (create, save, to_job).
THEOREM ReturnedRecordsReadBack == Spec => []ReadsBackWhatWasReturned
PROOF
  <1>1. ASSUME StoreInv PROVE ReadsBackWhatWasReturned
    <2> SUFFICES ASSUME opened
                 PROVE  /\ DOMAIN db.rows = DOMAIN confirmed
                        /\ \A id \in DOMAIN confirmed :
                             ToJob(id, db.rows[id], Headers(db.headers, id)) = {confirmed[id]}
      BY Zenon DEF ReadsBackWhatWasReturned
    <2>1. IsDatabase(db) /\ Hold(db.rows, db.headers, confirmed)
      BY <1>1, Zenon DEF StoreInv, DatabaseOK
    <2>2. DOMAIN confirmed = DOMAIN db.rows  BY <2>1, DatabaseRows
    <2> QED BY <2>1, <2>2, Zenon DEF Hold
  <1> QED BY <1>1, StoreIsConsistent, PTL

\* No row the repository wrote, and no constraint of the schema, makes a call
\* fail, and so no record can keep the program from starting (list, find, save).
THEOREM NoRowFailsACall == Spec => []NoRecordLocksTheStore
PROOF
  <1>1. StoreInv => NoRecordLocksTheStore
    BY Zenon DEF StoreInv, ClientsOK, NoRecordLocksTheStore, Refusals
  <1> QED BY <1>1, StoreIsConsistent, PTL

\* A listing is of one moment, with any number of callers (list, its transaction).
THEOREM ListingsAreOfOneMoment == Spec => []ListingIsOneMoment
PROOF
  <1>1. ASSUME StoreInv PROVE ListingIsOneMoment
    <2> SUFFICES ASSUME NEW c \in Clients, call[c].pc = "listed"
                 PROVE  call[c].jobs = confirmed
      BY Zenon DEF ListingIsOneMoment
    <2>1. Working(call[c])  BY SMT DEF Working
    <2> QED BY <1>1, <2>1, CallWorks
  <1> QED BY <1>1, StoreIsConsistent, PTL
===============================================================================
