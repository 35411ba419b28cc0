--------------------------- MODULE HttpTransferProofs ---------------------------
(***************************************************************************)
(* Theorems about HttpTransfer, for every set of versions, every length     *)
(* and every number of names: what is called durable survives any loss of   *)
(* power, a file that is staged or completed is of one version, and no      *)
(* attempt is blocked by what its own earlier attempts left.                *)
(*                                                                         *)
(* The invariant follows an attempt through its places: what the response   *)
(* that is read, the record, the saved state and the partial file have to   *)
(* do with each other in each of them, and what remains between attempts.   *)
(***************************************************************************)
EXTENDS HttpTransfer, SequenceTheorems, TLAPS

Bytes == Versions \cup {Garbage}

\* The places of an attempt in which it has a response to read.
Staging   == {"prepared", "stage"}
Streaming == {"stream", "sync", "save", "staged", "publish"}
Reading   == Staging \cup {"initialize", "cleanup"} \cup Streaming
Places    == {"idle", "clear", "reset", "record"} \cup Reading

\* Where a checkpoint may lead, and how an attempt may end.
Checkpoints == {"stream", "stopped", "staged", "retryable", "failed"}
Endings     == {"paused", "cancelled", "retryable", "failed", "completed"}

FileTypes == [kind: {"file"}, data: Seq(Bytes), synced: Nat]
IsFile(f) == f \in FileTypes /\ f.synced <= Len(f.data)

Typed ==
  /\ remote \in Versions
  /\ partial = NoFile \/ IsFile(partial)
  /\ \A name \in Names : output[name] = NoFile \/ IsFile(output[name])
  /\ DOMAIN output = Names /\ output = [name \in Names |-> output[name]]
  /\ saved = NoState \/ saved \in [kind: {"state"}, tag: Tagged, durable: Nat]
  /\ job \in [status: Statuses, total: Nat, policy: Policies, name: Names]
  /\ pc \in Places
  /\ body = NoBody \/ body \in [kind: {"body"}, version: Versions, next: Nat]
  /\ written \in Nat
  /\ after \in Checkpoints \cup Endings
  /\ stop \in {"none", "pause", "cancel"}

\* Between attempts nothing is read, and a restart removes the file first.
Between ==
  /\ pc \in {"idle", "clear", "reset"} <=> job.status # "active"
  /\ pc \in {"idle", "clear", "reset"} => stop = "none"
  /\ pc \in {"clear", "reset"} => partial = NoFile
  /\ pc = "reset" => saved = NoState
  /\ pc = "record" => after \in Endings
  /\ job.policy = "overwrite" => job.name = 0

\* A response is read from where the file ends.
Read ==
  /\ pc \in Reading => body # NoBody
  /\ pc \in Reading => body.next = written + 1
  /\ pc \in Reading \cap {"prepared", "stage", "initialize"} => written <= Size[body.version]
  /\ pc \in Reading /\ body.version \in Sized => written <= Size[body.version]

\* What is saved belongs to the record, and is on the platter.
Durable ==
  saved # NoState =>
    /\ job.total = Size[saved.tag]
    /\ saved.durable <= Size[saved.tag]
    /\ partial # NoFile => /\ saved.durable <= partial.synced
                           /\ \A i \in 1..saved.durable : partial.data[i] = saved.tag

\* Before the staging begins, the response continues what is saved, or nothing
\* is staged; the record has its length by then.
Begins ==
  pc \in Staging =>
    /\ saved # NoState => /\ body.version = saved.tag
                          /\ written = saved.durable
                          /\ partial # NoFile
                          /\ written <= Len(partial.data)
    /\ saved = NoState => written = 0
    /\ pc = "stage" => job.total = Total(body.version)

\* Between the staging file and its first saved state.
Initializes ==
  pc = "initialize" => /\ Resumable
                       /\ saved = NoState
                       /\ partial = File(<<>>, 0)
                       /\ written = 0
                       /\ job.total = Size[body.version]

\* While the response is stored, the file is what was written of its version.
Stores ==
  pc \in Streaming =>
    /\ partial # NoFile
    /\ partial.data = [i \in 1..written |-> body.version]
    /\ Resumable <=> saved # NoState
    /\ saved # NoState => saved.tag = body.version /\ saved.durable <= written

\* A checkpoint saves what is on the platter, and the staged response is whole.
Checkpointed ==
  /\ pc \in {"sync", "save"} => after \in Checkpoints
  /\ pc \in {"sync", "save"} /\ after \in {"retryable", "failed"} => Resumable
  /\ pc = "save" => Resumable
  /\ pc \in {"save", "staged", "publish"} => partial.synced = written
  /\ pc \in {"staged", "publish"} /\ saved # NoState => saved.durable = written
  /\ \/ pc \in {"staged", "publish"}
     \/ pc \in {"sync", "save"} /\ after = "staged"
     => body.version \notin Sized \/ written = Size[body.version]

\* A file that is complete.
Complete(file) ==
  /\ file # NoFile
  /\ \E v \in Versions :
       \/ file.data = Whole(v)
       \/ v \notin Sized /\ \A i \in 1..Len(file.data) : file.data[i] = v
  /\ file.synced = Len(file.data)

\* From the publication on, the output is complete.
Published ==
  \/ job.status = "completed"
  \/ pc = "cleanup"
  \/ pc = "record" /\ after = "completed"
  => Complete(output[job.name])

\* An attempt that may follow finds no partial file without a saved state.
Clean ==
  /\ saved = NoState
  /\ \/ job.status \in {"queued", "retryable"}
     \/ pc \in Staging
     \/ pc = "record" /\ after = "retryable"
  => partial = NoFile

HInv ==
  /\ Typed /\ Between /\ Read /\ Durable /\ Begins /\ Initializes /\ Stores
  /\ Checkpointed /\ Published /\ Clean /\ StoppedWhereSaved

-----------------------------------------------------------------------------
(* Sequences that repeat one element. *)

\* The bytes of one version are a sequence as long as they are many.
LEMMA SameBytes ==
    ASSUME NEW S, NEW v \in S, NEW n \in Nat
    PROVE  [i \in 1..n |-> v] \in Seq(S) /\ Len([i \in 1..n |-> v]) = n
  OBVIOUS

\* One more byte of the version.
LEMMA AppendSame ==
    ASSUME NEW S, NEW v \in S, NEW n \in Nat
    PROVE  Append([i \in 1..n |-> v], v) = [i \in 1..(n + 1) |-> v]
<1> DEFINE s == [i \in 1..n |-> v]
           t == [i \in 1..(n + 1) |-> v]
<1>1. s \in Seq(S) /\ Len(s) = n /\ t \in Seq(S) /\ Len(t) = n + 1
  BY SameBytes
<1>2. Append(s, v) \in Seq(S) /\ Len(Append(s, v)) = n + 1
      /\ \A i \in 1..(n + 1) : Append(s, v)[i] = t[i]
  BY <1>1, AppendProperties
<1> HIDE DEF s, t
<1>3. Append(s, v) = t
  BY <1>1, <1>2, SeqEqual
<1> QED
  BY <1>3 DEF s, t

\* The first bytes of a file, when they are of one version.
LEMMA PrefixSame ==
    ASSUME NEW S, NEW s \in Seq(S), NEW v \in S, NEW n \in 0..Len(s),
           \A i \in 1..n : s[i] = v
    PROVE  SubSeq(s, 1, n) = [i \in 1..n |-> v]
<1> DEFINE p == SubSeq(s, 1, n)
           t == [i \in 1..n |-> v]
<1>1. t \in Seq(S) /\ Len(t) = n
  BY SameBytes
<1>2. p \in Seq(S) /\ Len(p) = n /\ \A i \in 1..n : p[i] = s[i]
  BY SubSeqProperties
<1>3. \A i \in 1..n : p[i] = t[i]
  BY <1>2
<1> HIDE DEF p, t
<1>4. p = t
  BY <1>1, <1>2, <1>3, SeqEqual
<1> QED
  BY <1>4 DEF p, t

-----------------------------------------------------------------------------
(* What a loss of power leaves of a file. *)

\* The bytes on the platter survive, and a file that is all on the platter does
\* as it is.
LEMMA Survives ==
    ASSUME NEW f, IsFile(f), NEW g \in Survivors(f)
    PROVE  /\ IsFile(g) /\ g.synced = Len(g.data) /\ g.synced >= f.synced
           /\ \A i \in 1..f.synced : g.data[i] = f.data[i]
           /\ f.synced = Len(f.data) => g = f
<1>1. f \in FileTypes /\ f.data \in Seq(Bytes) /\ f.synced \in Nat /\ f.synced <= Len(f.data)
      /\ f # NoFile /\ f = File(f.data, f.synced)
  BY DEF IsFile, FileTypes, NoFile, File
<1>2. CASE g = File(f.data, Len(f.data))
  BY <1>1, <1>2, LenProperties DEF IsFile, FileTypes, File
<1>3. CASE g # File(f.data, Len(f.data))
  <2>1. PICK n \in 0..(Len(f.data) - f.synced) :
          g = File(SubSeq(f.data, 1, f.synced) \o [i \in 1..n |-> Garbage], f.synced + n)
    BY <1>1, <1>3 DEF Survivors
  <2> DEFINE kept == SubSeq(f.data, 1, f.synced)
             lost == [i \in 1..n |-> Garbage]
  <2>2. kept \in Seq(Bytes) /\ Len(kept) = f.synced
        /\ \A i \in 1..f.synced : kept[i] = f.data[i]
    BY <1>1, SubSeqProperties
  <2>3. n \in Nat /\ lost \in Seq(Bytes) /\ Len(lost) = n
    BY <1>1, LenProperties, SameBytes DEF Bytes
  <2> HIDE DEF kept, lost
  <2>4. /\ kept \o lost \in Seq(Bytes)
        /\ Len(kept \o lost) = f.synced + n
        /\ \A i \in 1..f.synced : (kept \o lost)[i] = f.data[i]
    <3>1. /\ kept \o lost \in Seq(Bytes)
          /\ Len(kept \o lost) = Len(kept) + Len(lost)
          /\ \A i \in 1..(Len(kept) + Len(lost)) :
               (kept \o lost)[i] = IF i <= Len(kept) THEN kept[i] ELSE lost[i - Len(kept)]
      BY ONLY <2>2, <2>3, ConcatProperties, Zenon
    <3> QED
      BY ONLY <1>1, <2>2, <2>3, <3>1
  <2>5. g = File(kept \o lost, f.synced + n)
    BY <2>1 DEF kept, lost
  <2>6. f.synced = Len(f.data) => kept \o lost = f.data /\ n = 0
    <3> SUFFICES ASSUME f.synced = Len(f.data) PROVE kept \o lost = f.data /\ n = 0
      OBVIOUS
    <3>1. n = 0
      BY <1>1, LenProperties
    <3>2. Len(kept \o lost) = Len(f.data)
      BY <1>1, <2>4, <3>1
    <3> QED
      BY <1>1, <2>4, <3>1, <3>2, SeqEqual
  <2> QED
    BY <1>1, <2>3, <2>4, <2>5, <2>6 DEF IsFile, FileTypes, File
<1> QED
  BY <1>2, <1>3

\* No file comes back.
LEMMA NothingSurvives == Survivors(NoFile) = {NoFile}
  BY DEF Survivors

\* A power loss keeps what was synced, and a checkpoint promises no more than that.
LEMMA PowerLossKeeps == HInv /\ PowerLoss => HInv'
<1> SUFFICES ASSUME HInv, PowerLoss PROVE HInv'
  OBVIOUS
<1>1. /\ job' = IF job.status = "active" THEN [job EXCEPT !.status = "interrupted"] ELSE job
      /\ pc' = "idle" /\ body' = NoBody /\ written' = 0 /\ after' = "stream" /\ stop' = "none"
      /\ UNCHANGED <<remote, saved>>
  BY DEF PowerLoss, ProcessEnds, Goto
<1>2. /\ job' \in [status: Statuses, total: Nat, policy: Policies, name: Names]
      /\ job'.status # "active" /\ job'.total = job.total /\ job'.policy = job.policy
      /\ job'.name = job.name
      /\ job'.status = job.status \/ job'.status = "interrupted"
  BY <1>1 DEF HInv, Typed, Statuses
<1>3. /\ partial' \in Survivors(partial)
      /\ output' \in [Names -> UNION {Survivors(output[name]) : name \in Names}]
      /\ \A name \in Names : output'[name] \in Survivors(output[name])
  BY DEF PowerLoss
<1>4. /\ partial = NoFile => partial' = NoFile
      /\ partial # NoFile => /\ IsFile(partial) /\ IsFile(partial')
                             /\ partial'.synced >= partial.synced
                             /\ \A i \in 1..partial.synced : partial'.data[i] = partial.data[i]
  BY <1>3, Survives, NothingSurvives DEF HInv, Typed
<1>5. \A name \in Names : /\ output'[name] = NoFile \/ IsFile(output'[name])
                          /\ Complete(output[name]) => output'[name] = output[name]
  <2> SUFFICES ASSUME NEW name \in Names
               PROVE  /\ output'[name] = NoFile \/ IsFile(output'[name])
                      /\ Complete(output[name]) => output'[name] = output[name]
    OBVIOUS
  <2>1. output'[name] \in Survivors(output[name])
        /\ (output[name] = NoFile \/ IsFile(output[name]))
    BY <1>3 DEF HInv, Typed
  <2>2. CASE output[name] = NoFile
    BY <2>1, <2>2, NothingSurvives
  <2>3. CASE IsFile(output[name])
    BY <2>1, <2>3, Survives DEF Complete
  <2> QED
    BY <2>1, <2>2, <2>3
<1>6. Typed'
  BY <1>1, <1>2, <1>3, <1>4, <1>5 DEF HInv, Typed, Places, Checkpoints
<1>7. Durable'
  <2>1. saved # NoState => saved.durable \in Nat
    BY DEF HInv, Typed
  <2>2. partial # NoFile => partial.synced \in Nat /\ partial'.synced \in Nat
    BY <1>4 DEF IsFile, FileTypes
  <2> QED
    BY <1>1, <1>2, <1>4, <2>1, <2>2 DEF HInv, Durable
<1>8. Published'
  BY <1>1, <1>2, <1>5 DEF HInv, Typed, Published, Statuses
<1>9. Between' /\ Clean' /\ StoppedWhereSaved'
  BY <1>1, <1>2, <1>4 DEF HInv, Between, Clean, StoppedWhereSaved, Staging
<1>10. Read' /\ Begins' /\ Initializes' /\ Stores' /\ Checkpointed'
  BY <1>1 DEF Read, Begins, Initializes, Stores, Checkpointed, Reading, Staging, Streaming
<1> QED
  BY <1>6, <1>7, <1>8, <1>9, <1>10 DEF HInv

-----------------------------------------------------------------------------
(* Staging and streaming: the steps that write the file or the saved state. *)

\* The partial file is created empty (partial.rs:219-275).
LEMMA CreatePartialKeeps == HInv /\ CreatePartial => HInv'
<1> SUFFICES ASSUME HInv, CreatePartial PROVE HInv'
  OBVIOUS
<1>1. /\ pc = "stage" /\ saved = NoState /\ written = 0 /\ job.status = "active"
      /\ UNCHANGED <<remote, output, saved, job, body, written, stop>>
      /\ body \in [kind: {"body"}, version: Versions, next: Nat]
  BY DEF CreatePartial, HInv, Typed, Begins, Between, Read, Reading, Staging
<1>2. CASE partial # NoFile
  <2>1. UNCHANGED partial /\ pc' = "record" /\ after' = "failed"
    BY <1>2 DEF CreatePartial, Ends
  <2>2. Typed' /\ Between' /\ Clean' /\ StoppedWhereSaved'
    BY <1>1, <2>1 DEF HInv, Typed, Between, Clean, StoppedWhereSaved, Places, Endings, Staging
  <2>3. Read' /\ Durable' /\ Begins' /\ Initializes' /\ Stores' /\ Checkpointed' /\ Published'
    BY <1>1, <2>1 DEF HInv, Read, Durable, Begins, Initializes, Stores, Checkpointed, Published,
                      Reading, Staging, Streaming
  <2> QED
    BY <2>2, <2>3 DEF HInv
<1>3. CASE partial = NoFile
  <2>1. /\ partial' = File(<<>>, 0) /\ UNCHANGED after
        /\ pc' = IF Resumable THEN "initialize" ELSE "stream"
    BY <1>3 DEF CreatePartial, Goto
  <2>2. partial' # NoFile /\ IsFile(partial') /\ partial'.data = <<>> /\ partial'.synced = 0
    BY <2>1 DEF File, NoFile, IsFile, FileTypes
  <2>3. Typed' /\ Between' /\ Clean' /\ StoppedWhereSaved' /\ Published' /\ Durable' /\ Begins'
    BY <1>1, <2>1, <2>2 DEF HInv, Typed, Between, Clean, StoppedWhereSaved, Published, Durable,
                            Begins, Places, Reading, Streaming, Staging
  <2>4. Read'
    BY <1>1, <2>1 DEF HInv, Read, Reading, Staging, Streaming
  <2>5. <<>> = [i \in 1..0 |-> body.version]
    OBVIOUS
  <2>6. Stores' /\ Checkpointed'
    BY <1>1, <2>1, <2>2, <2>5 DEF Stores, Checkpointed, Streaming, Resumable
  <2>7. Initializes'
    <3>1. Resumable =>  job.total = Size[body.version]
      BY <1>1, VersionsAssumption DEF HInv, Begins, Staging, Resumable, Total
    <3> QED
      BY <1>1, <2>1, <3>1 DEF Initializes, Resumable
  <2> QED
    BY <2>3, <2>4, <2>6, <2>7 DEF HInv
<1> QED
  BY <1>2, <1>3

\* Its first saved state names the version that is read (http_resume.rs:20-56).
LEMMA InitializeKeeps == HInv /\ Initialize => HInv'
<1> SUFFICES ASSUME HInv, Initialize PROVE HInv'
  OBVIOUS
<1>1. /\ pc = "initialize" /\ pc' = "stream" /\ saved = NoState /\ written = 0
      /\ saved' = State(body.version, 0) /\ UNCHANGED <<remote, partial, output, job, body, written,
                                                       after, stop>>
      /\ partial = File(<<>>, 0) /\ job.total = Size[body.version] /\ job.status = "active"
      /\ body # NoBody /\ body.version \in Tagged
      /\ body \in [kind: {"body"}, version: Versions, next: Nat]
  BY DEF Initialize, Goto, files, local, HInv, Typed, Initializes, Resumable, Between
<1>2. saved' \in [kind: {"state"}, tag: Tagged, durable: Nat] /\ saved' # NoState
      /\ saved'.tag = body.version /\ saved'.durable = 0
  BY <1>1 DEF State, NoState
<1>3. partial.data = <<>> /\ partial # NoFile
      /\ partial.synced = 0 /\ Size[body.version] \in Nat
  BY <1>1, VersionsAssumption DEF File, NoFile
<1>4. Typed' /\ Between' /\ Clean' /\ StoppedWhereSaved' /\ Published' /\ Begins'
  BY <1>1, <1>2 DEF HInv, Typed, Between, Clean, StoppedWhereSaved, Published,
                    Begins, Places, Reading, Streaming, Staging
<1>5. Read' /\ Initializes'
  BY <1>1 DEF HInv, Read, Reading, Staging, Streaming, Initializes
<1>6. Durable'
  BY <1>1, <1>2, <1>3 DEF Durable
<1>7. <<>> = [i \in 1..0 |-> body.version]
  OBVIOUS
<1>8. Stores' /\ Checkpointed'
  BY <1>1, <1>2, <1>3, <1>7 DEF Stores, Checkpointed, Streaming, Resumable
<1> QED
  BY <1>4, <1>5, <1>6, <1>8 DEF HInv

\* What follows the saved prefix is dropped before more is appended
\* (partial.rs:317-395).
LEMMA OpenPartialKeeps == HInv /\ OpenPartial => HInv'
<1> SUFFICES ASSUME HInv, OpenPartial PROVE HInv'
  OBVIOUS
<1>1. /\ pc = "stage" /\ pc' = "stream" /\ stop = "none" /\ job.status = "active"
      /\ UNCHANGED <<remote, output, saved, job, body, written, after, stop>>
      /\ saved # NoState /\ body.version = saved.tag /\ written = saved.durable
      /\ partial # NoFile /\ written <= Len(partial.data)
  BY DEF OpenPartial, Goto, local, HInv, Begins, Staging, Between
<1>2. /\ IsFile(partial) /\ saved \in [kind: {"state"}, tag: Tagged, durable: Nat]
      /\ partial \in FileTypes /\ partial.data \in Seq(Bytes) /\ partial.synced \in Nat
      /\ body \in [kind: {"body"}, version: Versions, next: Nat] /\ body # NoBody
      /\ body.version \in Bytes /\ body.version \in Tagged /\ written \in Nat
      /\ Len(partial.data) \in Nat
  BY <1>1, LenProperties
  DEF HInv, Typed, Read, Reading, Staging, IsFile, FileTypes, Bytes
<1>3. written <= partial.synced /\ \A i \in 1..written : partial.data[i] = body.version
  BY <1>1 DEF HInv, Durable
<1>4. partial' = IF Len(partial.data) = written THEN partial
                 ELSE File(SubSeq(partial.data, 1, written), written)
  BY DEF OpenPartial
<1>5. SubSeq(partial.data, 1, written) = [i \in 1..written |-> body.version]
  BY <1>1, <1>2, <1>3, PrefixSame
<1>6. [i \in 1..written |-> body.version] \in Seq(Bytes)
      /\ Len([i \in 1..written |-> body.version]) = written
  BY <1>2, SameBytes
<1>7. /\ IsFile(partial') /\ partial' # NoFile
      /\ partial'.data = [i \in 1..written |-> body.version]
      /\ written <= partial'.synced
  <2>1. CASE Len(partial.data) = written
    <3>1. partial.data = [i \in 1..written |-> body.version]
      BY <1>2, <1>3, <1>6, <2>1, SeqEqual
    <3> QED
      BY <1>1, <1>2, <1>3, <1>4, <2>1, <3>1
  <2>2. CASE Len(partial.data) # written
    <3>1. partial' = File([i \in 1..written |-> body.version], written)
      BY <1>4, <1>5, <2>2
    <3> QED
      BY <1>2, <1>6, <3>1 DEF File, NoFile, IsFile, FileTypes
  <2> QED
    BY <2>1, <2>2
<1>8. Typed' /\ Between' /\ Clean' /\ StoppedWhereSaved' /\ Published' /\ Begins'
  BY <1>1, <1>7 DEF HInv, Typed, Between, Clean, StoppedWhereSaved, Published,
                    Begins, Places, Reading, Streaming, Staging
<1>9. Read' /\ Initializes' /\ Checkpointed'
  BY <1>1 DEF HInv, Read, Reading, Staging, Streaming, Initializes, Checkpointed
<1>10. Durable'
  <2>1. \A i \in 1..written : partial'.data[i] = body.version
    BY <1>7
  <2> QED
    BY <1>1, <1>7, <2>1 DEF HInv, Durable
<1>11. Stores'
  BY <1>1, <1>2, <1>7 DEF Stores, Resumable
<1> QED
  BY <1>8, <1>9, <1>10, <1>11 DEF HInv

\* One more byte of the response's version (partial.rs:500-541).
LEMMA AppendedFile ==
    ASSUME HInv, pc = "stream"
    PROVE  LET longer == [partial EXCEPT !.data = Append(@, body.version)] IN
           /\ IsFile(longer) /\ longer # NoFile /\ longer.synced = partial.synced
           /\ longer.data = [i \in 1..(written + 1) |-> body.version]
<1>1. /\ partial # NoFile /\ IsFile(partial) /\ partial \in FileTypes
      /\ partial.data = [i \in 1..written |-> body.version]
      /\ body # NoBody /\ body.version \in Versions /\ body.version \in Bytes /\ written \in Nat
  BY DEF HInv, Typed, Stores, Streaming, IsFile, Read, Reading, Bytes
<1>2. Append(partial.data, body.version) = [i \in 1..(written + 1) |-> body.version]
  BY <1>1, AppendSame
<1>3. [i \in 1..(written + 1) |-> body.version] \in Seq(Bytes)
      /\ Len([i \in 1..(written + 1) |-> body.version]) = written + 1
      /\ Len(partial.data) = written
  BY <1>1, SameBytes
<1> DEFINE longer == [partial EXCEPT !.data = [i \in 1..(written + 1) |-> body.version]]
<1>4. longer \in FileTypes /\ longer.synced = partial.synced
      /\ longer.data = [i \in 1..(written + 1) |-> body.version]
  BY <1>1, <1>3 DEF FileTypes
<1>5. longer # NoFile /\ IsFile(longer)
  BY <1>1, <1>3, <1>4 DEF FileTypes, NoFile, IsFile
<1> QED
  BY <1>2, <1>4, <1>5

\* A byte that is received is of the body's version, and goes behind those staged.
LEMMA ReceiveKeeps == HInv /\ Receive => HInv'
<1> SUFFICES ASSUME HInv, Receive PROVE HInv'
  OBVIOUS
<1>1. /\ pc = "stream" /\ stop = "none" /\ body.next <= Size[body.version]
      /\ partial' = [partial EXCEPT !.data = Append(@, body.version)]
      /\ written' = written + 1 /\ body' = [body EXCEPT !.next = @ + 1]
      /\ UNCHANGED <<remote, output, saved, job, stop>>
      /\ \/ pc' = "stream" /\ UNCHANGED after
         \/ Resumable /\ pc' = "sync" /\ after' = "stream"
  BY DEF Receive, Checkpoint
<1>2. /\ IsFile(partial') /\ partial' # NoFile /\ partial'.synced = partial.synced
      /\ partial'.data = [i \in 1..(written + 1) |-> body.version]
  BY <1>1, AppendedFile
<1>3. /\ partial # NoFile /\ partial.data = [i \in 1..written |-> body.version]
      /\ body \in [kind: {"body"}, version: Versions, next: Nat] /\ body # NoBody
      /\ body.next = written + 1 /\ written \in Nat /\ job.status = "active"
  BY <1>1 DEF HInv, Typed, Stores, Streaming, Read, Reading, Between
<1>4. /\ body' \in [kind: {"body"}, version: Versions, next: Nat] /\ body' # NoBody
      /\ body'.version = body.version /\ body'.next = body.next + 1
  BY <1>1, <1>3 DEF NoBody
<1>5. Typed' /\ Between' /\ Clean' /\ StoppedWhereSaved' /\ Published' /\ Begins'
  BY <1>1, <1>2, <1>3, <1>4 DEF HInv, Typed, Between, Clean, StoppedWhereSaved, Published,
                    Begins, Places, Reading, Streaming, Staging, Checkpoints
<1>6. Read' /\ Initializes'
  BY <1>1, <1>3, <1>4 DEF HInv, Read, Reading, Staging, Streaming, Initializes
<1>7. saved # NoState => /\ saved.tag = body.version /\ saved.durable <= written
                         /\ saved.durable \in Nat
  BY <1>1 DEF HInv, Stores, Streaming, Typed
<1>8. Durable'
  BY <1>1, <1>2, <1>3, <1>7 DEF HInv, Durable
<1>9. Stores'
  BY <1>1, <1>2, <1>3, <1>4, <1>7 DEF HInv, Stores, Streaming, Resumable
<1>10. Checkpointed'
  BY <1>1, <1>4 DEF HInv, Checkpointed, Checkpoints, Resumable
<1> QED
  BY <1>5, <1>6, <1>8, <1>9, <1>10 DEF HInv

\* A write that fails may leave part of it in the file; the attempt is over.
LEMMA WriteFailsKeeps == HInv /\ WriteFails => HInv'
<1> SUFFICES ASSUME HInv, WriteFails PROVE HInv'
  OBVIOUS
<1>1. /\ pc = "stream" /\ pc' = "record" /\ after' = "failed"
      /\ partial' \in {partial, [partial EXCEPT !.data = Append(@, body.version)]}
      /\ UNCHANGED <<remote, output, saved, job, body, written, stop>>
  BY DEF WriteFails, Ends
<1>2. /\ partial # NoFile /\ IsFile(partial)
      /\ partial.data = [i \in 1..written |-> body.version]
      /\ saved # NoState => saved.tag = body.version /\ saved.durable <= written
                            /\ saved.durable \in Nat
      /\ written \in Nat /\ job.status = "active"
  BY <1>1 DEF HInv, Typed, Stores, Streaming, Between
<1>3. /\ IsFile(partial') /\ partial' # NoFile /\ partial'.synced = partial.synced
      /\ \A i \in 1..written : partial'.data[i] = body.version
  <2>1. CASE partial' = partial
    BY <1>2, <2>1
  <2>2. CASE partial' = [partial EXCEPT !.data = Append(@, body.version)]
    <3>1. /\ IsFile(partial') /\ partial' # NoFile /\ partial'.synced = partial.synced
          /\ partial'.data = [i \in 1..(written + 1) |-> body.version]
      BY <1>1, <2>2, AppendedFile
    <3> QED
      BY <1>2, <3>1
  <2> QED
    BY <1>1, <2>1, <2>2
<1>4. Durable'
  BY <1>1, <1>2, <1>3 DEF HInv, Durable
<1>5. Typed' /\ Between' /\ Clean' /\ StoppedWhereSaved' /\ Published' /\ Begins'
  BY <1>1, <1>2, <1>3 DEF HInv, Typed, Between, Clean, StoppedWhereSaved, Published,
                    Begins, Places, Reading, Streaming, Staging, Endings
<1>6. Read' /\ Initializes' /\ Stores' /\ Checkpointed'
  BY <1>1 DEF HInv, Read, Reading, Staging, Streaming, Initializes, Stores, Checkpointed
<1> QED
  BY <1>4, <1>5, <1>6 DEF HInv

\* Where a checkpoint leads, once what it is for is saved: a stop is recorded at
\* what is saved, and a complete response goes on to its publication.
LEMMA CheckpointLeads ==
    ASSUME HInv, pc \in {"sync", "save"}, CheckpointDone,
           UNCHANGED <<remote, output, job, body, written, stop>>,
           IsFile(partial'), partial' # NoFile, partial'.data = partial.data,
           partial'.synced = written, partial.synced <= written,
           saved' = NoState <=> saved = NoState,
           saved' # NoState => /\ saved' \in [kind: {"state"}, tag: Tagged, durable: Nat]
                               /\ saved'.tag = saved.tag /\ saved'.durable = written
    PROVE  HInv'
<1>1. /\ partial # NoFile /\ partial.data = [i \in 1..written |-> body.version]
      /\ Resumable <=> saved # NoState
      /\ saved # NoState => saved.tag = body.version /\ job.total = Size[saved.tag]
      /\ body # NoBody /\ body \in [kind: {"body"}, version: Versions, next: Nat]
      /\ body.next = written + 1 /\ written \in Nat /\ job.status = "active"
      /\ body.version \in Sized => written <= Size[body.version]
      /\ Tagged \subseteq Sized
  BY VersionsAssumption
  DEF HInv, Typed, Stores, Streaming, Read, Reading, Between, Durable
<1>2. /\ pc' \in {"stream", "staged", "record"} /\ after' \in Checkpoints \cup Endings
      /\ pc' = "record" => after' \in {"paused", "cancelled", "retryable", "failed"}
      /\ pc' = "record" /\ after' = "retryable" => Resumable
      /\ pc' = "staged" => body.version \notin Sized \/ written = Size[body.version]
  <2>1. /\ after \in Checkpoints
        /\ after \in {"retryable", "failed"} => Resumable
        /\ after = "staged" => body.version \notin Sized \/ written = Size[body.version]
    BY DEF HInv, Checkpointed
  <2>2. Stopped => pc' = "record" /\ after' \in {"paused", "cancelled"}
    BY DEF Stopped, Ends
  <2>3. \/ after = "stream" /\ pc' = "stream" /\ after' = after
        \/ pc' = "record" /\ after' \in {"paused", "cancelled"}
        \/ after = "staged" /\ pc' = "staged" /\ after' = after
        \/ after \in {"retryable", "failed"} /\ pc' = "record" /\ after' = after
    BY <2>1, <2>2 DEF CheckpointDone, Goto, Ends, Checkpoints, Statuses
  <2> QED
    BY <2>1, <2>3 DEF Checkpoints, Endings
<1>3. saved' # NoState => written <= Size[saved'.tag]
  BY <1>1
<1>4. Typed'
  BY <1>1, <1>2 DEF HInv, Typed, Places, Reading, Streaming
<1>5. Between' /\ Clean' /\ StoppedWhereSaved' /\ Published' /\ Begins' /\ Initializes'
  BY <1>1, <1>2 DEF HInv, Between, Clean, StoppedWhereSaved, Published, Begins, Staging,
                    Initializes, Endings
<1>6. Read'
  BY <1>1, <1>2 DEF Read, Reading, Streaming, Staging
<1>7. Durable'
  BY <1>1, <1>3 DEF Durable
<1>8. Stores' /\ Checkpointed'
  BY <1>1, <1>2 DEF Stores, Streaming, Checkpointed, Resumable
<1> QED
  BY <1>4, <1>5, <1>6, <1>7, <1>8 DEF HInv

\* The file first (partial.rs:574-596).
LEMMA SyncKeeps == HInv /\ Sync => HInv'
<1> SUFFICES ASSUME HInv, Sync PROVE HInv'
  OBVIOUS
<1>1. /\ pc = "sync" /\ partial' = [partial EXCEPT !.synced = Len(partial.data)]
      /\ UNCHANGED <<remote, output, saved, job, body, written, stop>>
      /\ IF Resumable /\ written # saved.durable THEN pc' = "save" /\ UNCHANGED after
                                                 ELSE CheckpointDone
  BY DEF Sync, Goto
<1>2. /\ partial # NoFile /\ IsFile(partial) /\ partial \in FileTypes /\ written \in Nat
      /\ partial.data = [i \in 1..written |-> body.version] /\ body.version \in Bytes
      /\ Len(partial.data) = written /\ partial.synced <= written /\ partial.synced \in Nat
      /\ Resumable <=> saved # NoState
      /\ body.next = written + 1 /\ body # NoBody /\ job.status = "active"
  BY <1>1, SameBytes
  DEF HInv, Typed, Stores, Streaming, IsFile, FileTypes, Read, Reading, Bytes, Between
<1>3. /\ partial' \in FileTypes /\ partial'.data = partial.data /\ partial'.synced = written
      /\ partial' # NoFile
  BY <1>1, <1>2 DEF FileTypes, NoFile
<1>4. IsFile(partial')
  BY <1>2, <1>3 DEF IsFile
<1>5. CASE Resumable /\ written # saved.durable
  <2>1. pc' = "save" /\ UNCHANGED after
    BY <1>1, <1>5
  <2>2. Typed' /\ Between' /\ Clean' /\ StoppedWhereSaved' /\ Published' /\ Begins' /\ Initializes'
    BY <1>1, <1>2, <1>3, <1>4, <2>1
    DEF HInv, Typed, Between, Clean, StoppedWhereSaved, Published, Begins, Initializes,
        Places, Reading, Streaming, Staging
  <2>3. Read'
    BY <1>1, <1>2, <2>1 DEF HInv, Read, Reading, Staging, Streaming
  <2>4. Durable'
    <3>1. saved # NoState => saved.durable \in Nat /\ saved.durable <= written
      BY <1>1 DEF HInv, Stores, Streaming, Typed
    <3> QED
      BY <1>1, <1>2, <1>3, <3>1 DEF HInv, Durable
  <2>5. Stores' /\ Checkpointed'
    BY <1>1, <1>2, <1>3, <1>5, <2>1 DEF HInv, Stores, Streaming, Checkpointed, Resumable
  <2> QED
    BY <2>2, <2>3, <2>4, <2>5 DEF HInv
<1>6. CASE ~(Resumable /\ written # saved.durable)
  <2>1. CheckpointDone
    BY <1>1, <1>6
  <2>2. saved # NoState => saved \in [kind: {"state"}, tag: Tagged, durable: Nat]
                           /\ saved.durable = written
    BY <1>2, <1>6 DEF HInv, Typed
  <2> QED
    BY <1>1, <1>2, <1>3, <1>4, <2>1, <2>2, CheckpointLeads
<1> QED
  BY <1>5, <1>6

\* Then the database (http_resume.rs:74-115).
LEMMA SaveCheckpointKeeps == HInv /\ SaveCheckpoint => HInv'
<1> SUFFICES ASSUME HInv, SaveCheckpoint PROVE HInv'
  OBVIOUS
<1>1. /\ pc = "save" /\ saved' = [saved EXCEPT !.durable = written] /\ CheckpointDone
      /\ UNCHANGED <<remote, partial, output, job, body, written, stop>>
  BY DEF SaveCheckpoint, files
<1>2. /\ partial # NoFile /\ IsFile(partial) /\ written \in Nat
      /\ saved # NoState /\ saved \in [kind: {"state"}, tag: Tagged, durable: Nat]
      /\ partial.synced = written
  BY <1>1 DEF HInv, Typed, Stores, Streaming, Checkpointed
<1>3. /\ saved' \in [kind: {"state"}, tag: Tagged, durable: Nat] /\ saved' # NoState
      /\ saved'.tag = saved.tag /\ saved'.durable = written
  BY <1>1, <1>2 DEF NoState
<1> QED
  BY <1>1, <1>2, <1>3, CheckpointLeads

-----------------------------------------------------------------------------
(* The publication. *)

\* The staged file, which is complete.
LEMMA StagedIsComplete == HInv /\ pc = "publish" => Complete(partial) /\ IsFile(partial)
<1> SUFFICES ASSUME HInv, pc = "publish" PROVE Complete(partial) /\ IsFile(partial)
  OBVIOUS
<1>1. /\ partial # NoFile /\ IsFile(partial) /\ written \in Nat
      /\ partial.data = [i \in 1..written |-> body.version]
      /\ body # NoBody /\ body.version \in Versions /\ partial.synced = written
      /\ body.version \notin Sized \/ written = Size[body.version]
  BY DEF HInv, Typed, Stores, Streaming, Read, Reading, Checkpointed
<1>2. Len(partial.data) = written
  BY <1>1, SameBytes
<1>3. CASE written = Size[body.version]
  <2>1. partial.data = Whole(body.version)
    BY <1>1, <1>3 DEF Whole
  <2> QED
    BY <1>1, <1>2, <2>1 DEF Complete
<1>4. CASE body.version \notin Sized
  <2>1. \A i \in 1..Len(partial.data) : partial.data[i] = body.version
    BY <1>1, <1>2
  <2> QED
    BY <1>1, <1>2, <1>4, <2>1 DEF Complete
<1> QED
  BY <1>1, <1>3, <1>4

\* The staged file becomes the output in place (finalize.rs:121-158).
LEMMA PublishByRenameKeeps == HInv /\ PublishByRename => HInv'
<1> SUFFICES ASSUME HInv, PublishByRename PROVE HInv'
  OBVIOUS
<1>1. /\ pc = "publish" /\ pc' = "record" /\ after' = "completed" /\ job.policy = "overwrite"
      /\ output' = [output EXCEPT ![0] = partial] /\ partial' = NoFile
      /\ UNCHANGED <<remote, saved, job, body, written, stop>>
  BY DEF PublishByRename, Ends
<1>2. Complete(partial) /\ IsFile(partial) /\ 0 \in Names
  BY <1>1, StagedIsComplete, VersionsAssumption DEF Names
<1>3. /\ output'[0] = partial /\ DOMAIN output' = Names
      /\ output' = [name \in Names |-> output'[name]]
      /\ \A name \in Names : output'[name] = NoFile \/ IsFile(output'[name])
  BY <1>1, <1>2 DEF HInv, Typed
<1>4. job.name = 0 /\ job.status = "active"
  BY <1>1 DEF HInv, Between
<1>5. Typed' /\ Between' /\ Clean' /\ StoppedWhereSaved' /\ Durable'
  BY <1>1, <1>3 DEF HInv, Typed, Between, Clean, StoppedWhereSaved, Durable, Places, Endings,
                    Staging
<1>6. Published'
  BY <1>1, <1>2, <1>3, <1>4 DEF Published
<1>7. Read' /\ Begins' /\ Initializes' /\ Stores' /\ Checkpointed'
  BY <1>1 DEF Read, Begins, Initializes, Stores, Checkpointed, Reading, Staging, Streaming
<1> QED
  BY <1>5, <1>6, <1>7 DEF HInv

\* Or it is linked under a name that is free (finalize.rs:160-196).
LEMMA PublishByLinkKeeps == HInv /\ PublishByLink => HInv'
<1> SUFFICES ASSUME HInv, PublishByLink PROVE HInv'
  OBVIOUS
<1>1. PICK name \in Names : /\ output' = [output EXCEPT ![name] = partial]
                            /\ job' = [job EXCEPT !.name = name]
  BY DEF PublishByLink
<1>2. /\ pc = "publish" /\ pc' = "cleanup" /\ job.policy # "overwrite"
      /\ UNCHANGED <<remote, partial, saved, body, written, after, stop>>
  BY DEF PublishByLink, Goto, local
<1>3. Complete(partial) /\ IsFile(partial)
  BY <1>2, StagedIsComplete
<1>4. /\ output'[name] = partial /\ DOMAIN output' = Names
      /\ output' = [n \in Names |-> output'[n]]
      /\ \A n \in Names : output'[n] = NoFile \/ IsFile(output'[n])
  BY <1>1, <1>3 DEF HInv, Typed
<1>5. /\ job' \in [status: Statuses, total: Nat, policy: Policies, name: Names]
      /\ job'.name = name /\ job'.status = job.status /\ job'.total = job.total
      /\ job'.policy = job.policy /\ job.status = "active"
  BY <1>1, <1>2 DEF HInv, Typed, Between
<1>6. Typed' /\ Between' /\ Clean' /\ StoppedWhereSaved' /\ Durable'
  BY <1>2, <1>4, <1>5
  DEF HInv, Typed, Between, Clean, StoppedWhereSaved, Durable, Places, Reading, Staging
<1>7. Published'
  BY <1>3, <1>4, <1>5 DEF Published
<1>8. Read'
  BY <1>2 DEF HInv, Read, Reading, Streaming, Staging
<1>9. Begins' /\ Initializes' /\ Stores' /\ Checkpointed'
  BY <1>2 DEF Begins, Initializes, Stores, Checkpointed, Staging, Streaming
<1> QED
  BY <1>6, <1>7, <1>8, <1>9 DEF HInv

\* A restart's last step makes the record a fresh one.
LEMMA RestartResetKeeps == HInv /\ RestartReset => HInv'
<1> SUFFICES ASSUME HInv, RestartReset PROVE HInv'
  OBVIOUS
<1>1. /\ pc = "reset" /\ pc' = "idle" /\ job' = [job EXCEPT !.status = "queued", !.total = NoTotal]
      /\ UNCHANGED <<remote, partial, output, saved, body, written, after, stop>>
      /\ saved = NoState /\ partial = NoFile
  BY DEF RestartReset, Goto, files, local, HInv, Between
<1>2. /\ job' \in [status: Statuses, total: Nat, policy: Policies, name: Names]
      /\ job'.status = "queued" /\ job'.policy = job.policy /\ job'.name = job.name
  BY <1>1 DEF HInv, Typed, Statuses, NoTotal
<1>3. Typed' /\ Between' /\ Clean' /\ StoppedWhereSaved' /\ Durable' /\ Published'
  BY <1>1, <1>2 DEF HInv, Typed, Between, Clean, StoppedWhereSaved, Durable, Published, Places
<1>4. Read' /\ Begins' /\ Initializes' /\ Stores' /\ Checkpointed'
  BY <1>1 DEF Read, Begins, Initializes, Stores, Checkpointed, Reading, Staging, Streaming
<1> QED
  BY <1>3, <1>4 DEF HInv

-----------------------------------------------------------------------------
(* The steps that leave the bytes and the saved state alone, or remove both. *)

\* Before anything is staged.
LEMMA PreparationKeeps ==
    ASSUME HInv
    PROVE  /\ PrepareFresh => HInv'
           /\ PrepareResumed => HInv'
           /\ PrepareRefused => HInv'
           /\ CommitDownloading => HInv'
           /\ StopBeforeStaging => HInv'
           /\ StagingFails => HInv'
           /\ PrepareFails("retryable") => HInv'
           /\ PrepareFails("failed") => HInv'
<1> USE DEF HInv, Typed, Between, Read, Durable, Begins, Initializes, Stores, Checkpointed,
           Published, Clean, StoppedWhereSaved, Places, Reading, Staging, Streaming,
           Checkpoints, Endings, Statuses, Goto, Ends, Stopped, files, local
<1>1. PrepareFresh => HInv'
  BY VersionsAssumption, SMTT(20) DEF PrepareFresh, Prepares, Body, NoBody, NoState
<1>2. PrepareResumed => HInv'
  BY VersionsAssumption, SMTT(20) DEF PrepareResumed, Prepares, Candidate, Body, NoBody, NoState
<1>3. PrepareRefused => HInv'
  BY VersionsAssumption, SMTT(20) DEF PrepareRefused, Prepares
<1>4. CommitDownloading => HInv'
  BY VersionsAssumption, SMTT(20) DEF CommitDownloading, Total, NoTotal
<1>5. StopBeforeStaging => HInv'
  BY VersionsAssumption, SMTT(20) DEF StopBeforeStaging
<1>6. StagingFails => HInv'
  BY VersionsAssumption, SMTT(20) DEF StagingFails
<1>7. PrepareFails("retryable") => HInv'
  BY VersionsAssumption, SMTT(20) DEF PrepareFails, Prepares
<1>8. PrepareFails("failed") => HInv'
  BY VersionsAssumption, SMTT(20) DEF PrepareFails, Prepares
<1> QED
  BY <1>1, <1>2, <1>3, <1>4, <1>5, <1>6, <1>7, <1>8

\* A stop, the end of the response, and checkpoints that fail.
LEMMA StreamingKeeps ==
    ASSUME HInv
    PROVE  /\ NoticeStop => HInv'
           /\ EndOfBody => HInv'
           /\ CheckpointFails => HInv'
           /\ BodyFails("retryable") => HInv'
           /\ BodyFails("failed") => HInv'
<1> USE DEF HInv, Typed, Between, Read, Durable, Begins, Initializes, Stores, Checkpointed,
           Published, Clean, StoppedWhereSaved, Places, Reading, Staging, Streaming,
           Checkpoints, Endings, Statuses, Goto, Ends, Stopped, files, local
<1>1. NoticeStop => HInv'
  BY VersionsAssumption, SMTT(20) DEF NoticeStop, Checkpoint, Resumable
<1>2. EndOfBody => HInv'
  BY VersionsAssumption, SMTT(20) DEF EndOfBody, Checkpoint, Resumable
<1>3. CheckpointFails => HInv'
  BY VersionsAssumption, SMTT(20) DEF CheckpointFails
<1>4. BodyFails("retryable") => HInv'
  BY VersionsAssumption, SMTT(20) DEF BodyFails, Checkpoint, Resumable
<1>5. BodyFails("failed") => HInv'
  BY VersionsAssumption, SMTT(20) DEF BodyFails, Checkpoint, Resumable
<1> QED
  BY <1>1, <1>2, <1>3, <1>4, <1>5

\* The looks at the stop and what does not touch the output.
LEMMA PublicationKeeps ==
    ASSUME HInv
    PROVE  /\ CommitFinalizing => HInv'
           /\ PublishFails => HInv'
           /\ CleanUp => HInv'
           /\ Record => HInv'
<1> USE DEF HInv, Typed, Between, Read, Durable, Begins, Initializes, Stores, Checkpointed,
           Published, Clean, StoppedWhereSaved, Places, Reading, Staging, Streaming,
           Checkpoints, Endings, Statuses, Goto, Ends, Stopped, files, local
<1>1. CommitFinalizing => HInv'
  BY VersionsAssumption, SMTT(20) DEF CommitFinalizing, Resumable
<1>2. PublishFails => HInv'
  BY VersionsAssumption, SMTT(20) DEF PublishFails
<1>3. CleanUp => HInv'
  BY VersionsAssumption, SMTT(20) DEF CleanUp
<1>4. Record => HInv'
  BY VersionsAssumption, SMTT(20) DEF Record
<1> QED
  BY <1>1, <1>2, <1>3, <1>4

\* Commands, the rest of a restart, and what happens around the attempt.
LEMMA CommandKeeps ==
    ASSUME HInv
    PROVE  /\ Pause => HInv'
           /\ Cancel => HInv'
           /\ Retry => HInv'
           /\ Resume => HInv'
           /\ RestartRemove => HInv'
           /\ RestartClear => HInv'
           /\ RestartFails => HInv'
           /\ RemoteChanges => HInv'
           /\ ProcessExit => HInv'
           /\ RequestStop("pause") => HInv'
           /\ RequestStop("cancel") => HInv'
<1> USE DEF HInv, Typed, Between, Read, Durable, Begins, Initializes, Stores, Checkpointed,
           Published, Clean, StoppedWhereSaved, Places, Reading, Staging, Streaming,
           Checkpoints, Endings, Statuses, Goto, Ends, Stopped, files, local
<1>1. Pause => HInv'
  BY VersionsAssumption, SMTT(20) DEF Pause, Idle
<1>2. Cancel => HInv'
  BY VersionsAssumption, SMTT(20) DEF Cancel, Idle
<1>3. Retry => HInv'
  BY VersionsAssumption, SMTT(20) DEF Retry, Idle
<1>4. Resume => HInv'
  BY VersionsAssumption, SMTT(20) DEF Resume, Idle, CanResume
<1>5. RestartRemove => HInv'
  BY VersionsAssumption, SMTT(20) DEF RestartRemove
<1>6. RestartClear => HInv'
  BY VersionsAssumption, SMTT(20) DEF RestartClear
<1>7. RestartFails => HInv'
  BY VersionsAssumption, SMTT(20) DEF RestartFails
<1>8. RemoteChanges => HInv'
  BY VersionsAssumption, SMTT(20) DEF RemoteChanges, Resumable
<1>9. ProcessExit => HInv'
  BY VersionsAssumption, SMTT(20) DEF ProcessExit, ProcessEnds
<1>10. RequestStop("pause") => HInv'
  BY VersionsAssumption, SMTT(20) DEF RequestStop, Resumable
<1>11. RequestStop("cancel") => HInv'
  BY VersionsAssumption, SMTT(20) DEF RequestStop, Resumable
<1> HIDE DEF HInv
<1> QED
  BY <1>1, <1>2, <1>3, <1>4, <1>5, <1>6, <1>7, <1>8, <1>9, <1>10, <1>11

-----------------------------------------------------------------------------
(* The invariant and the theorems. *)

\* The initial states.
LEMMA HttpInit == Init => HInv
<1> SUFFICES ASSUME Init PROVE HInv
  OBVIOUS
<1>1. 0 \in Names /\ Size \in [Versions -> Nat \ {0}]
  BY VersionsAssumption DEF Names
<1>2. \A name \in Names : output[name] = NoFile \/ IsFile(output[name])
  <2>1. <<Garbage>> \in Seq(Bytes) /\ Len(<<Garbage>>) = 1
    BY DEF Bytes
  <2>2. IsFile(Foreign)
    BY <2>1 DEF IsFile, FileTypes, Foreign, File
  <2> QED
    BY <2>2 DEF Init
<1>3. DOMAIN output = Names /\ output = [name \in Names |-> output[name]]
  BY DEF Init
<1>4. job \in [status: {"queued"}, total: {0}, policy: Policies, name: {0}]
  BY DEF Init, NoTotal
<1>5. Typed
  BY <1>1, <1>2, <1>3, <1>4 DEF Init, Typed, Places, Checkpoints, Statuses
<1> QED
  BY <1>4, <1>5
  DEF Init, HInv, Between, Read, Durable, Begins, Initializes, Stores, Checkpointed, Published,
      Clean, StoppedWhereSaved, Reading, Staging, Streaming

\* Every step keeps the invariant.
LEMMA HttpNext == HInv /\ [Next]_vars => HInv'
<1> SUFFICES ASSUME HInv, [Next]_vars PROVE HInv'
  OBVIOUS
<1>1. ASSUME NEW status \in {"retryable", "failed"}, PrepareFails(status) \/ BodyFails(status)
      PROVE  HInv'
  BY <1>1, PreparationKeeps, StreamingKeeps
<1>2. ASSUME NEW kind \in {"pause", "cancel"}, RequestStop(kind) PROVE HInv'
  BY <1>2, CommandKeeps
<1>3. CASE Proceeds
  BY <1>3, PreparationKeeps, CreatePartialKeeps, InitializeKeeps, OpenPartialKeeps,
     StreamingKeeps, SyncKeeps, SaveCheckpointKeeps, PublicationKeeps, PublishByRenameKeeps,
     PublishByLinkKeeps DEF Proceeds
<1>4. CASE PrepareFresh \/ PrepareResumed \/ PrepareRefused \/ StagingFails \/ CheckpointFails
           \/ Receive \/ WriteFails \/ EndOfBody
  BY <1>4, PreparationKeeps, StreamingKeeps, ReceiveKeeps, WriteFailsKeeps
<1>5. CASE Pause \/ Cancel \/ Retry \/ Resume \/ RestartRemove \/ RestartClear \/ RestartReset
           \/ RestartFails \/ RemoteChanges \/ ProcessExit \/ PowerLoss
  BY <1>5, CommandKeeps, RestartResetKeeps, PowerLossKeeps
<1>6. CASE UNCHANGED vars
  BY <1>6
  DEF vars, files, local, HInv, Typed, Between, Read, Durable, Begins, Initializes, Stores,
      Checkpointed, Published, Clean, StoppedWhereSaved, Resumable
<1> QED
  BY <1>1, <1>2, <1>3, <1>4, <1>5, <1>6 DEF Next

\* The invariant of a transfer.
THEOREM TransferInvariance == Spec => []HInv
<1> QED
  BY HttpInit, HttpNext, PTL DEF Spec

\* What the database says is durable is on the platter and of the version it
\* names, and a stop is recorded at what is saved, after any power loss
\* (partial.rs:454, 574).
THEOREM ResumingIsSafe == Spec => []ResumeIsSafe
<1>1. HInv => ResumeIsSafe
  BY DEF HInv, Durable, ResumeIsSafe, DurablePrefix
<1> QED
  BY <1>1, TransferInvariance, PTL

\* A staged file and a completed output hold the bytes of one version of the
\* resource, however often the transfer was resumed (client.rs:160, partial.rs:317).
THEOREM NoFileMixesVersions == Spec => []FilesAreOneVersion
<1>1. HInv => StagedIsOneVersion
  BY DEF HInv, Stores, StagedIsOneVersion, Streaming
<1>2. HInv => OutputIsOneVersion
  BY DEF HInv, Published, Complete, OutputIsOneVersion
<1>3. HInv => FilesAreOneVersion
  BY <1>1, <1>2 DEF FilesAreOneVersion
<1> QED
  BY <1>3, TransferInvariance, PTL

\* No attempt that starts from nothing is blocked by a partial file of an
\* earlier attempt (partial.rs:219-275).
THEOREM NoAttemptIsBlocked == Spec => []NoLeftoverBlocksAttempt
<1>1. HInv => NoLeftoverBlocksAttempt
  BY DEF HInv, Clean, Staging, NoLeftoverBlocksAttempt
<1> QED
  BY <1>1, TransferInvariance, PTL
=============================================================================
