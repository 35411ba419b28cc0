-------------------------- MODULE StreamTransferProofs --------------------------
(***************************************************************************)
(* Theorems about StreamTransfer, for every set of presentations, every     *)
(* length of their segments and every number of names: an attempt starts    *)
(* from what the earlier ones left of it, and what is published is every    *)
(* segment of every track, once and in order, on the platter.               *)
(*                                                                         *)
(* The invariant follows an attempt through its places: what the position   *)
(* it has, the staging file it appends to and the saved checkpoint have to  *)
(* do with each other in each of them, and what remains between attempts.   *)
(***************************************************************************)
EXTENDS StreamTransfer, SequenceTheorems, WellFoundedInduction, TLAPS

Bytes == (Versions \X Nat \X Nat) \cup {Garbage}
Files == [kind : {"file"}, data : Seq(Bytes), synced : Nat]
Checkpoints == [next : Nat, durable : Nat]

\* Of a file at most what it holds is on the platter.
IsFile(file) == file # NoFile => file \in Files /\ file.synced <= Len(file.data)

\* A file that holds all of a presentation, on the platter.
WholeFile(file) ==
  /\ file # NoFile
  /\ file.synced = Len(file.data)
  /\ \E v \in Versions : file.data \in WholePresentations(v)

\* An output name that shares the bytes of the partial file has that file.
FilesKept ==
  /\ staging \in [Staging -> Files \cup {NoFile}]
  /\ output \in [Names -> Files \cup {NoFile}]
  /\ \A p \in Staging : IsFile(staging[p])
  /\ \A n \in Names : IsFile(output[n])
  /\ linked \subseteq Names
  /\ \A n \in linked : output[n] = staging["part"] /\ staging["part"] # NoFile

Running == pc \notin {"idle", "wipe", "reset"}

\* Publishing by a rename, a download has no hard links.
JobKept ==
  /\ DOMAIN job = {"status", "total", "policy", "name"}
  /\ job.status \in Statuses
  /\ job.name \in Names
  /\ job.policy = "overwrite" => linked = {} /\ job.name = 0
  /\ job.status = "active" <=> Running

AttemptKept ==
  IF Running
    THEN /\ DOMAIN attempt = {"kind", "plan", "total", "track", "base", "next", "written",
                              "reported", "body"}
         /\ attempt.plan \in Versions
         /\ attempt.track \in Tracks(attempt.plan)
         /\ attempt.base \in Nat /\ attempt.next \in Nat /\ attempt.written \in Nat
    ELSE attempt = NoAttempt

\* What a checkpoint says of a track, and the file it says it of.  A file that is
\* gone comes back empty.
TrackKept(v, t) ==
  LET track == saved.tracks[t]
      file == staging[Path(Len(Segments[v]), t)] IN
  /\ track.next <= Len(Segments[v][t])
  /\ track.next = 0 => track.durable = 0
  /\ track.durable = 0 => <<>> \in WholeSegments(Fingerprint[v], t, track.next)
  /\ file # NoFile =>
       /\ track.durable <= file.synced
       /\ SubSeq(file.data, 1, track.durable) \in WholeSegments(Fingerprint[v], t, track.next)

\* The saved checkpoint is one of a presentation like v.
SavedFits(v) ==
  /\ saved = State(Fingerprint[v], saved.tracks)
  /\ saved.tracks \in Seq(Checkpoints)
  /\ Len(saved.tracks) = Len(Segments[v])
  /\ \A t \in Tracks(v) : TrackKept(v, t)
  /\ Len(Segments[v]) = 2 /\ saved.tracks[2].next > 0 =>
       saved.tracks[1].next = Len(Segments[v][1])

SavedKept == saved = NoState \/ \E v \in Versions : SavedFits(v)

\* Without a checkpoint track files are left in these cases only, and what is
\* left of them a restart removes.
TracksLeft ==
  \/ pc \in {"stopped", "discard", "stuck"}
  \/ pc = "record" /\ after \in {"cancelled", "completed"}
  \/ ~Running /\ job.status \in {"cancelled", "interrupted", "completed"}

TracksKept ==
  \/ saved = NoState /\ TracksLeft
  \/ saved # NoState /\ Len(saved.tracks) = 2
  \/ staging["video"] = NoFile /\ staging["audio"] = NoFile

\* Track t of the plan is fetched, and saved.
Fetched(t) ==
  LET file == staging[Path(Len(Segments[attempt.plan]), t)] IN
  /\ file # NoFile
  /\ saved.tracks[t].next = Len(Segments[attempt.plan][t])
  /\ saved.tracks[t].durable = Len(file.data)

\* An attempt on a track: the one before it is whole.
OnTrack ==
  /\ SavedFits(attempt.plan)
  /\ attempt.track = 1 => attempt.base = 0
  /\ attempt.track = 2 => Fetched(1) /\ attempt.base = saved.tracks[1].durable

\* The file of the track holds the segments before the position of the attempt.
AtBoundary ==
  /\ staging[Here] # NoFile
  /\ attempt.next <= Planned
  /\ Saved.next <= attempt.next /\ Saved.durable <= attempt.written
  /\ attempt.written = Len(staging[Here].data)
  /\ staging[Here].data \in WholeSegments(Fingerprint[attempt.plan], attempt.track, attempt.next)

\* It holds those up to where the segment at the position begins.
InSegment ==
  /\ staging[Here] # NoFile
  /\ attempt.next < Planned
  /\ Saved.next <= attempt.next /\ Saved.durable <= attempt.body.start
  /\ attempt.body.start \in Nat
  /\ attempt.body.start <= Len(staging[Here].data)
  /\ SubSeq(staging[Here].data, 1, attempt.body.start) \in
       WholeSegments(Fingerprint[attempt.plan], attempt.track, attempt.next)

\* And a part of that segment, the rest of which is on its way.
InBody ==
  /\ DOMAIN attempt.body = {"kind", "version", "start", "left"}
  /\ attempt.body.version \in Versions
  /\ Fingerprint[attempt.body.version] = Fingerprint[attempt.plan]
  /\ attempt.body.left \in Nat
  /\ attempt.written = Len(staging[Here].data)
  /\ attempt.written + attempt.body.left =
       attempt.body.start + Segments[attempt.body.version][attempt.track][attempt.next + 1]
  /\ \A i \in (attempt.body.start + 1)..attempt.written : staging[Here].data[i] = Byte

\* Where a checkpoint leads fits the position it is made at.
Leads ==
  \/ after = "segment"
  \/ after = "tracked" /\ attempt.next = Planned
  \/ after = "stopped" /\ attempt.next < Planned /\ stop # "none"
  \/ after \in {"retryable", "failed"}

\* The place of the attempt, and what it relies on there.
PlaceKept ==
  /\ stop \in {"none", "pause", "cancel"}
  /\ pc \in {"planned", "prepared"} => attempt.track = 1 /\ attempt.base = 0
  /\ pc = "prepared" => SavedFits(attempt.plan)
  /\ pc \in {"open", "segment", "body", "truncate", "sync", "save"} => OnTrack
  /\ pc \in {"segment", "sync", "save"} => AtBoundary
  /\ pc = "save" => staging[Here].synced = attempt.written
  /\ pc \in {"body", "truncate"} => InSegment
  /\ pc = "body" => InBody
  /\ pc \in {"truncate", "sync", "save"} => Leads
  /\ pc = "truncate" => after \in {"stopped", "retryable", "failed"}
  /\ pc \in {"remove", "forget"} => stop = "cancel"
  /\ pc = "stopped" => stop # "none" /\ (saved = NoState => stop = "cancel") /\ PausedWhereSaved
  /\ pc \in {"mux", "muxing"} =>
       SavedFits(attempt.plan) /\ Len(Segments[attempt.plan]) = 2 /\ Fetched(1) /\ Fetched(2)
  /\ pc \in {"staged", "publish"} => WholeFile(staging["part"])
  /\ pc = "unlink" => job.policy # "overwrite"
  /\ pc = "record" => after \in {"paused", "cancelled", "retryable", "failed", "completed"}
  /\ pc \in {"wipe", "reset"} => \A p \in Staging : staging[p] = NoFile
  /\ pc = "reset" => saved = NoState

\* From its publication on, a download has its output.
Published ==
  \/ pc \in {"unlink", "clear", "discard"}
  \/ pc = "record" /\ after = "completed"
  \/ ~Running /\ job.status = "completed"

OutputKept == Published => WholeFile(output[job.name])

\* The inductive invariant.
Kept ==
  /\ remote \in Versions
  /\ FilesKept
  /\ JobKept
  /\ AttemptKept
  /\ SavedKept
  /\ TracksKept
  /\ PlaceKept
  /\ OutputKept

---------------------------------------------------------------------------
(* What the operators of the library compute. *)

\* A set of numbers has a least element.
LEMMA LeastIsIn ==
    ASSUME NEW S, S \subseteq Nat, S # {}
    PROVE  \E least \in S : \A x \in S : least <= x
<1> DEFINE R == {ss \in Nat \X Nat : ss[1] < ss[2]}
<1>1. IsWellFoundedOn(R, Nat)
  BY ONLY NatLessThanWellFounded DEF OpToRel
<1>2. \A x, y \in S : ~(<<y, x>> \in R) => x <= y
  <2> TAKE x \in S, y \in S
  <2>1. x \in Nat /\ y \in Nat
    OBVIOUS
  <2> QED
    BY <2>1
<1> HIDE DEF R
<1>3. \E x \in S : \A y \in S : ~(<<y, x>> \in R)
  BY ONLY <1>1, WFMin, S \subseteq Nat, S # {}, Zenon
<1> QED
  BY ONLY <1>2, <1>3

\* The sequences up to n, joined.
Joins(f, seqs, n) ==
  f = [i \in 1..n |-> IF i = 1 THEN seqs[i] ELSE f[i-1] \o seqs[i]]

\* There are such joins of any number of sequences.
LEMMA JoinsExist ==
    ASSUME NEW seqs, NEW n \in Nat
    PROVE  \E f : Joins(f, seqs, n)
<1> DEFINE Lacking == {m \in Nat : ~ \E f : Joins(f, seqs, m)}
<1> SUFFICES ASSUME Lacking # {} PROVE FALSE
  OBVIOUS
<1>1. PICK m \in Lacking : \A x \in Lacking : m <= x
  BY LeastIsIn
<1>2. m # 0
  <2> SUFFICES ASSUME m = 0 PROVE FALSE
    OBVIOUS
  <2> DEFINE e == [i \in 1..0 |-> <<>>]
  <2>1. e = [i \in 1..0 |-> IF i = 1 THEN seqs[i] ELSE e[i-1] \o seqs[i]]
    OBVIOUS
  <2> HIDE DEF e
  <2> QED
    BY <1>1, <2>1 DEF Joins
<1>3. m - 1 \in Nat /\ m - 1 \notin Lacking
  BY <1>1, <1>2
<1>4. PICK f : Joins(f, seqs, m - 1)
  BY <1>3
<1> DEFINE g == [i \in 1..m |-> IF i < m THEN f[i] ELSE IF m = 1 THEN seqs[1] ELSE f[m-1] \o seqs[m]]
<1>5. \A i \in 1..m : g[i] = IF i = 1 THEN seqs[i] ELSE g[i-1] \o seqs[i]
  <2> TAKE i \in 1..m
  <2>0. m \in Nat
    BY <1>1
  <2>1. CASE i = m
    BY <2>0, <2>1
  <2>2. CASE i < m
    <3>1. i \in 1..(m-1)
      BY <2>0, <2>2
    <3>2. f[i] = IF i = 1 THEN seqs[i] ELSE f[i-1] \o seqs[i]
      BY <1>4, <3>1, Zenon DEF Joins
    <3> QED
      BY <2>0, <2>2, <3>1, <3>2
  <2> QED
    BY <2>0, <2>1, <2>2
<1>6. g = [i \in 1..m |-> g[i]]
  OBVIOUS
<1> HIDE DEF g
<1>7. Joins(g, seqs, m)
  BY <1>5, <1>6 DEF Joins
<1> QED
  BY <1>1, <1>7

\* Joins of sequences that agree agree.
LEMMA JoinsAgree ==
    ASSUME NEW seqs, NEW others, NEW n \in Nat, NEW m \in Nat, n <= m,
           \A i \in 1..n : seqs[i] = others[i],
           NEW f, NEW g, Joins(f, seqs, n), Joins(g, others, m)
    PROVE  \A i \in 1..n : f[i] = g[i]
<1> DEFINE Unlike == {i \in 1..n : f[i] # g[i]}
<1> SUFFICES ASSUME Unlike # {} PROVE FALSE
  OBVIOUS
<1>0. Unlike \subseteq Nat
  OBVIOUS
<1> HIDE DEF Unlike
<1>1. PICK i \in Unlike : \A x \in Unlike : i <= x
  BY <1>0, LeastIsIn
<1> USE DEF Unlike
<1>2. /\ i \in 1..n /\ i \in 1..m /\ f[i] # g[i]
  BY <1>1
<1>3. f[i] = IF i = 1 THEN seqs[i] ELSE f[i-1] \o seqs[i]
  BY <1>2, Zenon DEF Joins
<1>4. g[i] = IF i = 1 THEN others[i] ELSE g[i-1] \o others[i]
  BY <1>2, Zenon DEF Joins
<1>5. i # 1
  BY <1>2, <1>3, <1>4
<1>6. i - 1 \in 1..n /\ i - 1 \notin Unlike
  BY <1>1, <1>2, <1>5
<1> QED
  BY <1>2, <1>3, <1>4, <1>5, <1>6

\* What FlattenSeq computes.
LEMMA FlattenIsJoin ==
    ASSUME NEW seqs, Len(seqs) \in Nat \ {0}
    PROVE  \E f : Joins(f, seqs, Len(seqs)) /\ FlattenSeq(seqs) = f[Len(seqs)]
<1> DEFINE f == CHOOSE f : Joins(f, seqs, Len(seqs))
<1>1. Joins(f, seqs, Len(seqs))
  BY JoinsExist
<1>2. FlattenSeq(seqs) = f[Len(seqs)]
  BY DEF FlattenSeq, Joins
<1> QED
  BY <1>1, <1>2

\* A sum over one track.
LEMMA SumOfOne ==
    ASSUME NEW fun, DOMAIN fun = {1}, fun[1] \in Nat
    PROVE  SumFunction(fun) = fun[1]
<1> DEFINE Folds(h) == h = [s \in SUBSET {1} |-> IF s = {} THEN 0 ELSE fun[CHOOSE x \in s : TRUE] + h[s \ {CHOOSE x \in s : TRUE}]]
           h == CHOOSE h : Folds(h)
           w == [s \in SUBSET {1} |-> IF s = {} THEN 0 ELSE fun[1]]
<1>1. Folds(w)
  <2>1. ASSUME NEW s \in SUBSET {1}
        PROVE  w[s] = IF s = {} THEN 0 ELSE fun[CHOOSE x \in s : TRUE] + w[s \ {CHOOSE x \in s : TRUE}]
    <3>1. CASE s = {}
      BY <3>1
    <3>2. CASE s # {}
      <4> DEFINE x == CHOOSE x \in s : TRUE
      <4>1. x \in s
        BY <3>2
      <4> HIDE DEF x
      <4>2. x = 1 /\ s \ {x} = {}
        BY <4>1
      <4>3. w[s] = fun[1] /\ w[{}] = 0
        BY <3>2
      <4> HIDE DEF w
      <4>4. fun[x] = fun[1] /\ w[s \ {x}] = 0
        BY <4>2, <4>3
      <4>5. w[s] = fun[x] + w[s \ {x}]
        BY <4>3, <4>4
      <4> QED
        BY <3>2, <4>5 DEF x
    <3> QED
      BY <3>1, <3>2
  <2>2. w = [s \in SUBSET {1} |-> w[s]]
    OBVIOUS
  <2> HIDE DEF w
  <2> QED
    BY <2>1, <2>2
<1>2. Folds(h)
  BY <1>1
<1>3. SumFunction(fun) = h[{1}]
  BY DEF SumFunction, SumFunctionOnSet, FoldFunctionOnSet, MapThenFoldSet
<1>4. h = [s \in SUBSET {1} |-> IF s = {} THEN 0 ELSE fun[CHOOSE x \in s : TRUE] + h[s \ {CHOOSE x \in s : TRUE}]]
  BY <1>2
<1> HIDE DEF h
<1>5. h[{}] = 0
  BY <1>4
<1>6. h[{1}] = fun[1]
  BY <1>4, <1>5
<1> QED
  BY <1>3, <1>6

\* A sum over two tracks.
LEMMA SumOfTwo ==
    ASSUME NEW fun, DOMAIN fun = {1, 2}, fun[1] \in Nat, fun[2] \in Nat
    PROVE  SumFunction(fun) = fun[1] + fun[2]
<1> DEFINE Folds(h) == h = [s \in SUBSET {1, 2} |-> IF s = {} THEN 0 ELSE fun[CHOOSE x \in s : TRUE] + h[s \ {CHOOSE x \in s : TRUE}]]
           h == CHOOSE h : Folds(h)
           w == [s \in SUBSET {1, 2} |-> (IF 1 \in s THEN fun[1] ELSE 0) + (IF 2 \in s THEN fun[2] ELSE 0)]
<1>1. Folds(w)
  <2>1. ASSUME NEW s \in SUBSET {1, 2}
        PROVE  w[s] = IF s = {} THEN 0 ELSE fun[CHOOSE x \in s : TRUE] + w[s \ {CHOOSE x \in s : TRUE}]
    <3>1. CASE s = {}
      BY <3>1
    <3>2. CASE s # {}
      <4> DEFINE x == CHOOSE x \in s : TRUE
                 rest == s \ {x}
      <4>1. x \in s
        BY <3>2
      <4> HIDE DEF x
      <4>2. rest \in SUBSET {1, 2} /\ s \in SUBSET {1, 2}
        OBVIOUS
      <4>3. /\ 1 \in rest <=> (1 \in s /\ x # 1)
            /\ 2 \in rest <=> (2 \in s /\ x # 2)
            /\ x = 1 \/ x = 2
        BY <4>1
      <4> HIDE DEF rest
      <4>4. w[s] = (IF 1 \in s THEN fun[1] ELSE 0) + (IF 2 \in s THEN fun[2] ELSE 0)
            /\ w[rest] = (IF 1 \in rest THEN fun[1] ELSE 0) + (IF 2 \in rest THEN fun[2] ELSE 0)
        BY <4>2
      <4>5. w[s] = fun[x] + w[rest]
        BY <4>1, <4>3, <4>4
      <4> QED
        BY <3>2, <4>5 DEF rest, x
    <3> QED
      BY <3>1, <3>2
  <2>2. w = [s \in SUBSET {1, 2} |-> w[s]]
    OBVIOUS
  <2> HIDE DEF w
  <2> QED
    BY <2>1, <2>2
<1>2. Folds(h)
  BY <1>1
<1>3. SumFunction(fun) = h[{1, 2}]
  BY DEF SumFunction, SumFunctionOnSet, FoldFunctionOnSet, MapThenFoldSet
<1>4. h = [s \in SUBSET {1, 2} |-> IF s = {} THEN 0 ELSE fun[CHOOSE x \in s : TRUE] + h[s \ {CHOOSE x \in s : TRUE}]]
  BY <1>2
<1> HIDE DEF h
<1>5. h[{}] = 0
  BY <1>4
<1>6. h[{1}] = fun[1] /\ h[{2}] = fun[2]
  BY <1>4, <1>5
<1>7. h[{1, 2}] = fun[1] + fun[2]
  <2> DEFINE x == CHOOSE x \in {1, 2} : TRUE
  <2>1. h[{1, 2}] = fun[x] + h[{1, 2} \ {x}]
    BY <1>4
  <2>2. x \in {1, 2}
    OBVIOUS
  <2>3. {1, 2} \ {1} = {2} /\ {1, 2} \ {2} = {1}
    OBVIOUS
  <2> HIDE DEF x
  <2>4. x = 1 => h[{1, 2}] = fun[1] + h[{2}]
    BY <2>1, <2>3
  <2>5. x = 2 => h[{1, 2}] = fun[2] + h[{1}]
    BY <2>1, <2>3
  <2>6. fun[2] + fun[1] = fun[1] + fun[2]
    OBVIOUS
  <2> QED
    BY <1>6, <2>2, <2>4, <2>5, <2>6
<1> QED
  BY <1>3, <1>7

\* One sequence more is joined after the others.
LEMMA FlattenAdds ==
    ASSUME NEW seqs, NEW others, NEW n \in Nat \ {0}, Len(seqs) = n, Len(others) = n + 1,
           \A i \in 1..n : seqs[i] = others[i]
    PROVE  FlattenSeq(others) = FlattenSeq(seqs) \o others[n + 1]
<1>1. PICK f : Joins(f, seqs, n) /\ FlattenSeq(seqs) = f[n]
  BY FlattenIsJoin
<1>2. PICK g : Joins(g, others, n + 1) /\ FlattenSeq(others) = g[n + 1]
  BY FlattenIsJoin
<1>3. f[n] = g[n]
  BY <1>1, <1>2, JoinsAgree
<1>4. g[n + 1] = g[n] \o others[n + 1]
  <2>1. n + 1 \in 1..(n + 1) /\ n + 1 # 1 /\ (n + 1) - 1 = n
    OBVIOUS
  <2>2. g[n + 1] = IF n + 1 = 1 THEN others[n + 1] ELSE g[(n + 1) - 1] \o others[n + 1]
    BY <1>2, <2>1, Zenon DEF Joins
  <2> QED
    BY <2>1, <2>2
<1> QED
  BY <1>1, <1>2, <1>3, <1>4

\* A single sequence is what it joins.
LEMMA FlattenOne ==
    ASSUME NEW seqs, Len(seqs) = 1
    PROVE  FlattenSeq(seqs) = seqs[1]
<1>0. Len(seqs) \in Nat \ {0}
  OBVIOUS
<1>1. PICK f : Joins(f, seqs, Len(seqs)) /\ FlattenSeq(seqs) = f[Len(seqs)]
  BY <1>0, FlattenIsJoin
<1> QED
  BY <1>1 DEF Joins

---------------------------------------------------------------------------
(* Whole segments. *)

\* The bytes of segment s of track t, as version v has it.
Segment(v, t, s) == [i \in 1..Segments[v][t][s] |-> <<v, t, s>>]

\* Some number of the same byte.
LEMMA SameBytes ==
    ASSUME NEW S, NEW b \in S, NEW n \in Nat
    PROVE  [i \in 1..n |-> b] \in Seq(S) /\ Len([i \in 1..n |-> b]) = n
  OBVIOUS

\* They are a sequence of bytes.
LEMMA SegmentIsBytes ==
    ASSUME NEW v \in Versions, NEW t \in Tracks(v), NEW s \in 1..Len(Segments[v][t])
    PROVE  /\ Segments[v][t][s] \in Nat
           /\ Segment(v, t, s) \in Seq(Bytes)
           /\ Len(Segment(v, t, s)) = Segments[v][t][s]
<1>1. Segments[v] \in Seq(Seq(Nat))
  BY PresentationAssumption
<1>2. Segments[v][t] \in Seq(Nat)
  BY <1>1, ElementOfSeq DEF Tracks
<1>3. Segments[v][t][s] \in Nat /\ Len(Segments[v][t]) \in Nat
  <2> DEFINE lengths == Segments[v][t]
  <2>1. lengths \in Seq(Nat) /\ s \in 1..Len(lengths)
    BY <1>2
  <2> HIDE DEF lengths
  <2>2. lengths[s] \in Nat
    BY ONLY <2>1, ElementOfSeq
  <2>3. Len(lengths) \in Nat
    BY ONLY <2>1, LenProperties
  <2> QED
    BY <2>2, <2>3 DEF lengths
<1>4. t \in Nat /\ s \in Nat
  BY <1>1, <1>3, LenProperties DEF Tracks
<1>5. <<v, t, s>> \in Bytes
  BY <1>4 DEF Bytes
<1> DEFINE n == Segments[v][t][s]
           b == <<v, t, s>>
<1> HIDE DEF n, b
<1>6. [i \in 1..n |-> b] \in Seq(Bytes) /\ Len([i \in 1..n |-> b]) = n
  <2>1. n \in Nat /\ b \in Bytes
    BY <1>3, <1>5 DEF n, b
  <2> QED
    BY <2>1, SameBytes
<1> QED
  BY <1>3, <1>6, Zenon DEF Segment, n, b

\* Of no segments there are no bytes.
LEMMA NoSegments ==
    ASSUME NEW print, NEW t
    PROVE  WholeSegments(print, t, 0) = {<<>>}
<1>1. \A versions : FlattenSeq([s \in 1..0 |-> [i \in 1..Segments[versions[s]][t][s] |-> <<versions[s], t, s>>]]) = <<>>
  BY DEF FlattenSeq
<1>2. \E versions : versions \in [1..0 -> {v \in Versions : Fingerprint[v] = print}]
  <2>1. [i \in 1..0 |-> 0] \in [1..0 -> {v \in Versions : Fingerprint[v] = print}]
    OBVIOUS
  <2> QED
    BY <2>1
<1> QED
  BY <1>1, <1>2 DEF WholeSegments

\* One more segment, as any version with the fingerprint has it.
LEMMA SegmentAdded ==
    ASSUME NEW print, NEW v \in Versions, Fingerprint[v] = print, NEW t \in Tracks(v),
           NEW k \in Nat, k < Len(Segments[v][t]),
           NEW data \in WholeSegments(print, t, k)
    PROVE  data \o Segment(v, t, k + 1) \in WholeSegments(print, t, k + 1)
<1> DEFINE Alike == {x \in Versions : Fingerprint[x] = print}
           Pieces(versions, n) == [s \in 1..n |-> [i \in 1..Segments[versions[s]][t][s] |-> <<versions[s], t, s>>]]
<1>1. PICK versions \in [1..k -> Alike] : data = FlattenSeq(Pieces(versions, k))
  BY DEF WholeSegments
<1> DEFINE more == [s \in 1..(k + 1) |-> IF s = k + 1 THEN v ELSE versions[s]]
<1>2. more \in [1..(k + 1) -> Alike]
  OBVIOUS
<1> DEFINE first == Pieces(versions, k)
           all == Pieces(more, k + 1)
<1>3. FlattenSeq(all) \in WholeSegments(print, t, k + 1)
  <2>1. WholeSegments(print, t, k + 1) = {FlattenSeq(Pieces(x, k + 1)) : x \in [1..(k + 1) -> Alike]}
    BY Zenon DEF WholeSegments
  <2> HIDE DEF Pieces, more, Alike
  <2> QED
    BY <1>2, <2>1
<1>4. all[k + 1] = Segment(v, t, k + 1)
  BY DEF Segment
<1>5. Len(first) = k /\ Len(all) = k + 1
  OBVIOUS
<1>6. \A s \in 1..k : first[s] = all[s]
  <2> TAKE s \in 1..k
  <2>1. more[s] = versions[s] /\ s \in 1..(k + 1)
    OBVIOUS
  <2>2. first[s] = [i \in 1..Segments[versions[s]][t][s] |-> <<versions[s], t, s>>]
    OBVIOUS
  <2> HIDE DEF more
  <2>3. all[s] = [i \in 1..Segments[more[s]][t][s] |-> <<more[s], t, s>>]
    BY <2>1
  <2> HIDE DEF first, all
  <2> QED
    BY <2>1, <2>2, <2>3
<1>9. data = FlattenSeq(first)
  BY <1>1
<1> HIDE DEF first, all
<1>7. CASE k = 0
  <2>1. data = <<>>
    BY <1>7, NoSegments
  <2>2. FlattenSeq(all) = Segment(v, t, k + 1)
    BY <1>4, <1>5, <1>7, FlattenOne
  <2>3. Segment(v, t, k + 1) \in Seq(Bytes)
    BY SegmentIsBytes
  <2> QED
    BY <1>3, <2>1, <2>2, <2>3, ConcatEmptySeq
<1>8. CASE k # 0
  <2>0. k \in Nat \ {0}
    BY <1>8
  <2>1. FlattenSeq(all) = FlattenSeq(first) \o all[k + 1]
    BY <1>5, <1>6, <2>0, FlattenAdds
  <2> QED
    BY <1>3, <1>4, <1>9, <2>1
<1> QED
  BY <1>7, <1>8

\* The tracks of a presentation, each whole, joined.
LEMMA Joined ==
    ASSUME NEW v \in Versions, NEW f, f = [t \in Tracks(v) |-> f[t]],
           \A t \in Tracks(v) : f[t] \in WholeSegments(Fingerprint[v], t, Len(Segments[v][t]))
    PROVE  FlattenSeq([t \in Tracks(v) |-> f[t]]) \in WholePresentations(v)
<1> DEFINE Wholes(t) == WholeSegments(Fingerprint[v], t, Len(Segments[v][t]))
           All == UNION {Wholes(t) : t \in Tracks(v)}
           Picked == {g \in [Tracks(v) -> All] : \A t \in Tracks(v) : g[t] \in Wholes(t)}
<1>1. WholePresentations(v) = {FlattenSeq([t \in Tracks(v) |-> g[t]]) : g \in Picked}
  BY Zenon DEF WholePresentations
<1>2. \A t \in Tracks(v) : f[t] \in Wholes(t)
  OBVIOUS
<1> HIDE DEF Wholes
<1>3. f \in Picked
  BY <1>2
<1> HIDE DEF Picked
<1> QED
  BY <1>1, <1>3

\* A presentation of one track.
LEMMA PresentationOfOne ==
    ASSUME NEW v \in Versions, Len(Segments[v]) = 1,
           NEW data \in WholeSegments(Fingerprint[v], 1, Len(Segments[v][1]))
    PROVE  data \in WholePresentations(v)
<1> DEFINE f == [t \in Tracks(v) |-> data]
           joined == [t \in Tracks(v) |-> f[t]]
<1>1. Tracks(v) = {1} /\ Tracks(v) = 1..1
  BY DEF Tracks
<1>2. \A t \in Tracks(v) : f[t] \in WholeSegments(Fingerprint[v], t, Len(Segments[v][t]))
  BY <1>1
<1>3. FlattenSeq(joined) \in WholePresentations(v)
  BY <1>2, Joined
<1>4. Len(joined) = 1 /\ joined[1] = data
  BY <1>1
<1> QED
  BY <1>3, <1>4, FlattenOne

\* A presentation of two tracks.
LEMMA PresentationOfTwo ==
    ASSUME NEW v \in Versions, Len(Segments[v]) = 2,
           NEW video \in WholeSegments(Fingerprint[v], 1, Len(Segments[v][1])),
           NEW audio \in WholeSegments(Fingerprint[v], 2, Len(Segments[v][2]))
    PROVE  video \o audio \in WholePresentations(v)
<1> DEFINE f == [t \in Tracks(v) |-> IF t = 1 THEN video ELSE audio]
           joined == [t \in Tracks(v) |-> f[t]]
           first == [t \in 1..1 |-> video]
<1>1. Tracks(v) = {1, 2} /\ Tracks(v) = 1..2
  BY DEF Tracks
<1>2. \A t \in Tracks(v) : f[t] \in WholeSegments(Fingerprint[v], t, Len(Segments[v][t]))
  BY <1>1
<1>3. FlattenSeq(joined) \in WholePresentations(v)
  BY <1>2, Joined
<1>4. Len(joined) = 2 /\ joined[1] = video /\ joined[2] = audio
  BY <1>1
<1>5. Len(first) = 1 /\ first[1] = video
  OBVIOUS
<1> HIDE DEF joined, first
<1>6. FlattenSeq(joined) = FlattenSeq(first) \o joined[1 + 1]
  <2>1. Len(joined) = 1 + 1 /\ 1 \in Nat \ {0} /\ \A i \in 1..1 : first[i] = joined[i]
    BY <1>4, <1>5
  <2> QED
    BY ONLY <1>5, <2>1, FlattenAdds
<1> QED
  BY <1>3, <1>4, <1>5, <1>6, FlattenOne

---------------------------------------------------------------------------
(* Files. *)

\* Sequences with the same first elements have the same prefix.
LEMMA SamePrefix ==
    ASSUME NEW S, NEW s \in Seq(S), NEW u \in Seq(S), NEW d \in Nat,
           d <= Len(s), d <= Len(u), \A i \in 1..d : s[i] = u[i]
    PROVE  SubSeq(s, 1, d) = SubSeq(u, 1, d)
<1>1. SubSeq(s, 1, d) \in Seq(S) /\ Len(SubSeq(s, 1, d)) = d
      /\ \A i \in 1..d : SubSeq(s, 1, d)[i] = s[i]
  BY SubSeqProperties
<1>2. SubSeq(u, 1, d) \in Seq(S) /\ Len(SubSeq(u, 1, d)) = d
      /\ \A i \in 1..d : SubSeq(u, 1, d)[i] = u[i]
  BY SubSeqProperties
<1>3. \A i \in 1..d : SubSeq(s, 1, d)[i] = SubSeq(u, 1, d)[i]
  BY <1>1, <1>2
<1> QED
  BY ONLY <1>1, <1>2, <1>3, SeqEqual

\* What a prefix is.
LEMMA PrefixIs ==
    ASSUME NEW S, NEW s \in Seq(S), NEW d \in Nat, d <= Len(s)
    PROVE  /\ SubSeq(s, 1, d) \in Seq(S)
           /\ Len(SubSeq(s, 1, d)) = d
           /\ \A i \in 1..d : SubSeq(s, 1, d)[i] = s[i]
  BY SubSeqProperties

\* What there is to say of a file.
LEMMA FileHas ==
    ASSUME NEW f, f # NoFile, IsFile(f)
    PROVE  /\ f = File(f.data, f.synced)
           /\ f \in Files
           /\ f.data \in Seq(Bytes) /\ Len(f.data) \in Nat
           /\ f.synced \in Nat /\ f.synced <= Len(f.data)
<1>1. f \in Files /\ f.synced <= Len(f.data)
  BY DEF IsFile
<1>2. f = File(f.data, f.synced) /\ f.data \in Seq(Bytes) /\ f.synced \in Nat
  BY <1>1 DEF Files, File
<1> QED
  BY <1>1, <1>2, LenProperties

\* A file of some bytes.
LEMMA FileIs ==
    ASSUME NEW data \in Seq(Bytes), NEW n \in Nat, n <= Len(data)
    PROVE  /\ File(data, n) # NoFile /\ IsFile(File(data, n)) /\ File(data, n) \in Files
           /\ File(data, n).data = data /\ File(data, n).synced = n
  BY DEF File, NoFile, IsFile, Files

\* The first bytes of a file stay, and are on the platter.
Keeps(f, g, d) ==
  /\ d <= g.synced
  /\ SubSeq(g.data, 1, d) = SubSeq(f.data, 1, d)

\* No bytes at all are always there.
LEMMA KeepsNone ==
    ASSUME NEW f, NEW g, g # NoFile, IsFile(g)
    PROVE  0 <= g.synced /\ SubSeq(g.data, 1, 0) = <<>>
<1>1. g.data \in Seq(Bytes) /\ g.synced \in Nat
  BY FileHas
<1>2. SubSeq(g.data, 1, 0) = <<>>
  BY SubSeqEmpty
<1> QED
  BY <1>1, <1>2

\* A file cut to some length.
LEMMA TruncatedIs ==
    ASSUME NEW f, f # NoFile, IsFile(f), NEW n \in Nat, n <= Len(f.data)
    PROVE  /\ Truncated(f, n) # NoFile /\ IsFile(Truncated(f, n)) /\ Truncated(f, n) \in Files
           /\ Truncated(f, n).data = SubSeq(f.data, 1, n)
           /\ Len(Truncated(f, n).data) = n
           /\ Truncated(f, n).synced = n
           /\ \A d \in 0..n : Keeps(f, Truncated(f, n), d)
<1> DEFINE data == SubSeq(f.data, 1, n)
<1>0. f.data \in Seq(Bytes) /\ Len(f.data) \in Nat
  BY FileHas
<1>1. data \in Seq(Bytes) /\ Len(data) = n /\ \A i \in 1..n : data[i] = f.data[i]
  BY <1>0, PrefixIs
<1>2. Truncated(f, n) = File(data, n)
  BY DEF Truncated
<1> HIDE DEF data
<1>3. /\ File(data, n) # NoFile /\ IsFile(File(data, n)) /\ File(data, n) \in Files
      /\ File(data, n).data = data /\ File(data, n).synced = n
  BY <1>1, FileIs
<1>4. \A d \in 0..n : SubSeq(data, 1, d) = SubSeq(f.data, 1, d)
  <2> TAKE d \in 0..n
  <2>1. d \in Nat /\ d <= Len(data) /\ d <= Len(f.data) /\ \A i \in 1..d : data[i] = f.data[i]
    BY <1>0, <1>1
  <2> QED
    BY <1>0, <1>1, <2>1, SamePrefix
<1>5. \A d \in 0..n : Keeps(f, Truncated(f, n), d)
  BY <1>2, <1>3, <1>4 DEF Keeps
<1> QED
  BY <1>1, <1>2, <1>3, <1>5 DEF data

\* A file with a byte more.
LEMMA AppendedIs ==
    ASSUME NEW f, f # NoFile, IsFile(f), NEW b \in Bytes
    PROVE  LET g == [f EXCEPT !.data = Append(@, b)] IN
           /\ g # NoFile /\ IsFile(g) /\ g \in Files
           /\ g.data = Append(f.data, b) /\ Len(g.data) = Len(f.data) + 1 /\ g.synced = f.synced
           /\ g.data[Len(f.data) + 1] = b
           /\ \A i \in 1..Len(f.data) : g.data[i] = f.data[i]
           /\ \A d \in Nat : d <= Len(f.data) => SubSeq(g.data, 1, d) = SubSeq(f.data, 1, d)
<1> DEFINE g == [f EXCEPT !.data = Append(@, b)]
           data == Append(f.data, b)
<1>0. /\ f = File(f.data, f.synced) /\ f.data \in Seq(Bytes) /\ Len(f.data) \in Nat
      /\ f.synced \in Nat /\ f.synced <= Len(f.data)
  BY FileHas
<1>1. data \in Seq(Bytes) /\ Len(data) = Len(f.data) + 1 /\ data[Len(f.data) + 1] = b
      /\ \A i \in 1..Len(f.data) : data[i] = f.data[i]
  BY <1>0, AppendProperties
<1> HIDE DEF data
<1>2. g = File(data, f.synced)
  <2>1. [File(f.data, f.synced) EXCEPT !.data = data] = File(data, f.synced)
    BY DEF File
  <2> QED
    BY <1>0, <2>1 DEF data
<1> HIDE DEF g
<1>3. f.synced <= Len(data)
  BY <1>0, <1>1
<1>4. /\ g # NoFile /\ IsFile(g) /\ g \in Files
      /\ g.data = data /\ g.synced = f.synced
  BY <1>0, <1>1, <1>2, <1>3, FileIs
<1>5. \A d \in Nat : d <= Len(f.data) => SubSeq(data, 1, d) = SubSeq(f.data, 1, d)
  <2> TAKE d \in Nat
  <2> SUFFICES ASSUME d <= Len(f.data) PROVE SubSeq(data, 1, d) = SubSeq(f.data, 1, d)
    OBVIOUS
  <2>1. d <= Len(data) /\ \A i \in 1..d : data[i] = f.data[i]
    BY <1>0, <1>1
  <2> QED
    BY <1>0, <1>1, <2>1, SamePrefix
<1>6. /\ g # NoFile /\ IsFile(g) /\ g \in Files
      /\ g.data = Append(f.data, b) /\ Len(g.data) = Len(f.data) + 1 /\ g.synced = f.synced
      /\ g.data[Len(f.data) + 1] = b
      /\ \A i \in 1..Len(f.data) : g.data[i] = f.data[i]
      /\ \A d \in Nat : d <= Len(f.data) => SubSeq(g.data, 1, d) = SubSeq(f.data, 1, d)
  BY <1>1, <1>4, <1>5 DEF data
<1> QED
  BY <1>6, Zenon DEF g

\* A file all of which reaches the platter.
LEMMA SyncedIs ==
    ASSUME NEW f, f # NoFile, IsFile(f)
    PROVE  LET g == [f EXCEPT !.synced = Len(f.data)] IN
           /\ g # NoFile /\ IsFile(g) /\ g \in Files
           /\ g.data = f.data /\ g.synced = Len(f.data)
<1> DEFINE g == [f EXCEPT !.synced = Len(f.data)]
<1>0. /\ f = File(f.data, f.synced) /\ f.data \in Seq(Bytes) /\ Len(f.data) \in Nat
  BY FileHas
<1>2. g = File(f.data, Len(f.data))
  <2>1. \A n : [File(f.data, f.synced) EXCEPT !.synced = n] = File(f.data, n)
    BY DEF File
  <2> QED
    BY <1>0, <2>1
<1> HIDE DEF g
<1>4. /\ g # NoFile /\ IsFile(g) /\ g \in Files
      /\ g.data = f.data /\ g.synced = Len(f.data)
  BY <1>0, <1>2, FileIs
<1> QED
  BY <1>4, Zenon DEF g

\* What a loss of power leaves: the bytes on the platter, and a file that is all
\* on the platter as it is.
LEMMA Survives ==
    ASSUME NEW f, f # NoFile, IsFile(f), NEW g \in Survivors(f)
    PROVE  /\ g # NoFile /\ IsFile(g) /\ g \in Files
           /\ \A d \in Nat : d <= f.synced => Keeps(f, g, d)
           /\ f.synced = Len(f.data) => g = f
<1>1. /\ f = File(f.data, f.synced) /\ f.data \in Seq(Bytes) /\ Len(f.data) \in Nat
      /\ f.synced \in Nat /\ f.synced <= Len(f.data) /\ f \in Files
  BY FileHas
<1>2. CASE g = File(f.data, Len(f.data))
  <2>1. /\ g # NoFile /\ IsFile(g) /\ g \in Files
        /\ g.data = f.data /\ g.synced = Len(f.data)
    BY <1>1, <1>2, FileIs
  <2> QED
    BY <1>1, <1>2, <2>1 DEF Keeps
<1>3. CASE g # File(f.data, Len(f.data))
  <2>1. PICK n \in 0..(Len(f.data) - f.synced) :
          g = File(SubSeq(f.data, 1, f.synced) \o [i \in 1..n |-> Garbage], f.synced + n)
    BY <1>3 DEF Survivors
  <2> DEFINE kept == SubSeq(f.data, 1, f.synced)
             lost == [i \in 1..n |-> Garbage]
             data == kept \o lost
  <2>2. kept \in Seq(Bytes) /\ Len(kept) = f.synced
        /\ \A i \in 1..f.synced : kept[i] = f.data[i]
    BY <1>1, PrefixIs
  <2>3. n \in Nat /\ lost \in Seq(Bytes) /\ Len(lost) = n
    BY <1>1, SameBytes DEF Bytes
  <2> HIDE DEF kept, lost
  <2>4. /\ data \in Seq(Bytes)
        /\ Len(data) = f.synced + n
        /\ \A i \in 1..f.synced : data[i] = f.data[i]
    <3>1. /\ kept \o lost \in Seq(Bytes)
          /\ Len(kept \o lost) = Len(kept) + Len(lost)
          /\ \A i \in 1..(Len(kept) + Len(lost)) :
               (kept \o lost)[i] = IF i <= Len(kept) THEN kept[i] ELSE lost[i - Len(kept)]
      BY ONLY <2>2, <2>3, ConcatProperties, Zenon
    <3> QED
      BY ONLY <1>1, <2>2, <2>3, <3>1
  <2>5. g = File(data, f.synced + n)
    BY <2>1 DEF kept, lost
  <2> HIDE DEF data
  <2>6. f.synced + n \in Nat /\ f.synced + n <= Len(data)
    BY <1>1, <2>3, <2>4
  <2>7. /\ g # NoFile /\ IsFile(g) /\ g \in Files
        /\ g.data = data /\ g.synced = f.synced + n
    BY <2>4, <2>5, <2>6, FileIs
  <2>8. \A d \in Nat : d <= f.synced => Keeps(f, g, d)
    <3> TAKE d \in Nat
    <3> SUFFICES ASSUME d <= f.synced PROVE Keeps(f, g, d)
      OBVIOUS
    <3>1. d <= g.synced /\ d <= Len(data) /\ d <= Len(f.data) /\ \A i \in 1..d : data[i] = f.data[i]
      BY <1>1, <2>3, <2>4, <2>7
    <3>2. SubSeq(data, 1, d) = SubSeq(f.data, 1, d)
      BY <1>1, <2>4, <3>1, SamePrefix
    <3> QED
      BY <2>7, <3>1, <3>2 DEF Keeps
  <2>9. f.synced = Len(f.data) => g = f
    <3> SUFFICES ASSUME f.synced = Len(f.data) PROVE g = f
      OBVIOUS
    <3>1. n = 0
      BY <1>1
    <3>2. Len(data) = Len(f.data) /\ f.synced + n = f.synced
      BY <1>1, <2>4, <3>1
    <3>3. data = f.data
      BY <1>1, <2>4, <3>2, SeqEqual
    <3> QED
      BY <1>1, <2>5, <3>2, <3>3
  <2> QED
    BY <2>7, <2>8, <2>9
<1> QED
  BY <1>2, <1>3

\* No file comes back.
LEMMA NothingSurvives == Survivors(NoFile) = {NoFile}
  BY DEF Survivors

---------------------------------------------------------------------------
(* Plans and checkpoints. *)

\* The tracks of a presentation and their files.
LEMMA TracksAre ==
    ASSUME NEW v \in Versions
    PROVE  /\ Len(Segments[v]) \in {1, 2}
           /\ Tracks(v) = 1..Len(Segments[v]) /\ Tracks(v) \subseteq {1, 2} /\ 1 \in Tracks(v)
           /\ Len(Segments[v]) = 2 <=> 2 \in Tracks(v)
           /\ \A t \in Tracks(v) : /\ Len(Segments[v][t]) \in Nat
                                   /\ Path(Len(Segments[v]), t) \in Staging
           /\ \A t, u \in Tracks(v) :
                Path(Len(Segments[v]), t) = Path(Len(Segments[v]), u) => t = u
           /\ \A t \in Tracks(v) : Path(Len(Segments[v]), t) = "part" <=> Len(Segments[v]) = 1
<1>1. Segments[v] \in Seq(Seq(Nat)) /\ Len(Segments[v]) \in {1, 2}
  BY PresentationAssumption
<1>2. \A t \in Tracks(v) : Segments[v][t] \in Seq(Nat)
  BY <1>1, ElementOfSeq DEF Tracks
<1>3. \A t \in Tracks(v) : Len(Segments[v][t]) \in Nat
  BY <1>2, LenProperties
<1>4. Tracks(v) = 1..Len(Segments[v])
  BY DEF Tracks
<1>5. Len(Segments[v]) = 1 => Tracks(v) = {1}
  BY <1>4
<1>6. Len(Segments[v]) = 2 => Tracks(v) = {1, 2}
  BY <1>4
<1>7. CASE Len(Segments[v]) = 1
  <2>1. Path(Len(Segments[v]), 1) = "part"
    BY <1>7 DEF Path
  <2> QED
    BY <1>3, <1>4, <1>5, <1>7, <2>1 DEF Staging
<1>8. CASE Len(Segments[v]) = 2
  <2>1. Path(Len(Segments[v]), 1) = "video" /\ Path(Len(Segments[v]), 2) = "audio"
    BY <1>8 DEF Path
  <2> QED
    BY <1>3, <1>4, <1>6, <1>8, <2>1 DEF Staging
<1> QED
  BY <1>1, <1>7, <1>8

\* Plans with one fingerprint have the same shape.
LEMMA ShapesAgree ==
    ASSUME NEW v \in Versions, NEW w \in Versions, Fingerprint[v] = Fingerprint[w]
    PROVE  /\ Len(Segments[v]) = Len(Segments[w]) /\ Tracks(v) = Tracks(w)
           /\ \A t \in Tracks(v) : Len(Segments[v][t]) = Len(Segments[w][t])
  BY PresentationAssumption DEF Tracks

\* What a checkpoint that fits a plan is.
LEMMA FitsHas ==
    ASSUME NEW v \in Versions, SavedFits(v)
    PROVE  /\ saved # NoState /\ saved.print = Fingerprint[v]
           /\ saved = State(Fingerprint[v], saved.tracks)
           /\ saved.tracks \in Seq(Checkpoints)
           /\ Len(saved.tracks) = Len(Segments[v])
           /\ DOMAIN saved.tracks = Tracks(v)
           /\ \A t \in Tracks(v) : /\ saved.tracks[t] \in Checkpoints
                                   /\ saved.tracks[t].next \in Nat
                                   /\ saved.tracks[t].durable \in Nat
<1>1. /\ saved = State(Fingerprint[v], saved.tracks)
      /\ saved.tracks \in Seq(Checkpoints)
      /\ Len(saved.tracks) = Len(Segments[v])
  BY DEF SavedFits
<1>2. saved # NoState /\ saved.print = Fingerprint[v]
  BY <1>1 DEF State, NoState
<1>3. DOMAIN saved.tracks = Tracks(v)
  BY <1>1, LenProperties DEF Tracks
<1>4. \A t \in Tracks(v) : saved.tracks[t] \in Checkpoints
  BY <1>1, ElementOfSeq DEF Tracks
<1>5. \A c \in Checkpoints : c.next \in Nat /\ c.durable \in Nat
  BY DEF Checkpoints
<1> QED
  BY <1>1, <1>2, <1>3, <1>4, <1>5

\* A checkpoint fits every plan of its fingerprint.
LEMMA FitsAlike ==
    ASSUME NEW v \in Versions, NEW w \in Versions, Fingerprint[v] = Fingerprint[w], SavedFits(v)
    PROVE  SavedFits(w)
<1>1. \A t \in Tracks(w) : TrackKept(w, t)
  <2> TAKE t \in Tracks(w)
  <2>1. TrackKept(v, t)
    BY ShapesAgree DEF SavedFits
  <2>2. Len(Segments[v]) = Len(Segments[w]) /\ Len(Segments[v][t]) = Len(Segments[w][t])
    BY ShapesAgree
  <2> QED
    BY <2>1, <2>2 DEF TrackKept
<1>2. Len(Segments[v]) = Len(Segments[w]) /\ Len(Segments[v][1]) = Len(Segments[w][1])
  BY ShapesAgree, TracksAre
<1> QED
  BY <1>1, <1>2 DEF SavedFits

\* The saved checkpoint, when it is of the plan of the attempt.
LEMMA FitsPlan ==
    ASSUME SavedKept, saved # NoState, NEW w \in Versions, saved.print = Fingerprint[w]
    PROVE  SavedFits(w)
<1>1. PICK v \in Versions : SavedFits(v)
  BY DEF SavedKept
<1> QED
  BY <1>1, FitsHas, FitsAlike

\* A track is as it was saved when the first bytes of its file are.
TrackStays(v, t) ==
  LET p == Path(Len(Segments[v]), t) IN
  staging'[p] # NoFile =>
    \/ staging[p] # NoFile /\ Keeps(staging[p], staging'[p], saved.tracks[t].durable)
    \/ saved.tracks[t].durable = 0 /\ IsFile(staging'[p])

\* A checkpoint fits as long as its tracks stay.
LEMMA SavedStays ==
    ASSUME NEW v \in Versions, SavedFits(v), UNCHANGED saved,
           \A t \in Tracks(v) : TrackStays(v, t)
    PROVE  SavedFits(v)'
<1>1. \A t \in Tracks(v) : TrackKept(v, t)'
  <2> TAKE t \in Tracks(v)
  <2> DEFINE p == Path(Len(Segments[v]), t)
             track == saved.tracks[t]
  <2>1. /\ track.next <= Len(Segments[v][t])
        /\ track.next = 0 => track.durable = 0
        /\ track.durable = 0 => <<>> \in WholeSegments(Fingerprint[v], t, track.next)
        /\ staging[p] # NoFile =>
             /\ track.durable <= staging[p].synced
             /\ SubSeq(staging[p].data, 1, track.durable) \in
                  WholeSegments(Fingerprint[v], t, track.next)
    BY Zenon DEF SavedFits, TrackKept
  <2>2. /\ staging'[p] # NoFile =>
             \/ staging[p] # NoFile /\ Keeps(staging[p], staging'[p], track.durable)
             \/ track.durable = 0 /\ IsFile(staging'[p])
    BY Zenon DEF TrackStays
  <2> HIDE DEF p, track
  <2>3. staging'[p] # NoFile =>
          /\ track.durable <= staging'[p].synced
          /\ SubSeq(staging'[p].data, 1, track.durable) \in
               WholeSegments(Fingerprint[v], t, track.next)
    <3> SUFFICES ASSUME staging'[p] # NoFile
                 PROVE  /\ track.durable <= staging'[p].synced
                        /\ SubSeq(staging'[p].data, 1, track.durable) \in
                             WholeSegments(Fingerprint[v], t, track.next)
      OBVIOUS
    <3>1. CASE staging[p] # NoFile /\ Keeps(staging[p], staging'[p], track.durable)
      BY <2>1, <3>1 DEF Keeps
    <3>2. CASE track.durable = 0 /\ IsFile(staging'[p])
      BY <2>1, <3>2, KeepsNone
    <3> QED
      BY <2>2, <3>1, <3>2
  <2> QED
    BY <2>1, <2>3, Zenon DEF TrackKept, p, track
<1> QED
  BY <1>1 DEF SavedFits

\* What is on the platter of a file stays.
Preserved(p) ==
  staging'[p] # NoFile =>
    staging[p] # NoFile /\ \A d \in Nat : d <= staging[p].synced => Keeps(staging[p], staging'[p], d)

\* No more is saved than is on the platter.
LEMMA SavedPreserved ==
    ASSUME NEW v \in Versions, SavedFits(v), UNCHANGED saved, \A p \in Staging : Preserved(p)
    PROVE  SavedFits(v)'
<1>1. \A t \in Tracks(v) : TrackStays(v, t)
  <2> TAKE t \in Tracks(v)
  <2> DEFINE p == Path(Len(Segments[v]), t)
  <2>1. p \in Staging /\ saved.tracks[t].durable \in Nat
    BY TracksAre, FitsHas
  <2>2. staging[p] # NoFile => saved.tracks[t].durable <= staging[p].synced
    BY Zenon DEF SavedFits, TrackKept
  <2>3. Preserved(p)
    BY <2>1
  <2> HIDE DEF p
  <2>4. staging'[p] # NoFile =>
          staging[p] # NoFile /\ Keeps(staging[p], staging'[p], saved.tracks[t].durable)
    BY <2>1, <2>2, <2>3 DEF Preserved
  <2> QED
    BY <2>4, Zenon DEF TrackStays, p
<1> QED
  BY <1>1, SavedStays

\* A file that is the same is preserved.
LEMMA SameIsPreserved ==
    ASSUME NEW p, staging'[p] = staging[p]
    PROVE  Preserved(p)
  BY DEF Preserved, Keeps

\* The checkpoint is none of the files of an attempt in memory.
LEMMA SavedKeptStays ==
    ASSUME SavedKept, UNCHANGED saved, \A p \in Staging : Preserved(p)
    PROVE  SavedKept'
<1>1. CASE saved = NoState
  BY <1>1 DEF SavedKept
<1>2. CASE \E v \in Versions : SavedFits(v)
  <2>1. PICK v \in Versions : SavedFits(v)
    BY <1>2
  <2>2. SavedFits(v)'
    BY <2>1, SavedPreserved
  <2> QED
    BY <2>2 DEF SavedKept
<1> QED
  BY <1>1, <1>2 DEF SavedKept

---------------------------------------------------------------------------
(* The names of files. *)

\* A staging file is written, under all of its names.
LEMMA StageKeeps ==
    ASSUME FilesKept, NEW path \in Staging, NEW file \in Files, file # NoFile, IsFile(file),
           Stage(path, file)
    PROVE  /\ FilesKept'
           /\ staging'[path] = file /\ linked' = linked
           /\ \A p \in Staging : p # path => staging'[p] = staging[p]
<1>1. /\ staging' = [staging EXCEPT ![path] = file] /\ linked' = linked
      /\ output' = IF path = "part" THEN [n \in Names |-> IF n \in linked THEN file ELSE output[n]]
                                    ELSE output
  BY DEF Stage
<1>2. /\ staging' \in [Staging -> Files \cup {NoFile}]
      /\ staging'[path] = file
      /\ \A p \in Staging : p # path => staging'[p] = staging[p]
  BY <1>1 DEF FilesKept
<1>3. output' \in [Names -> Files \cup {NoFile}]
  BY <1>1 DEF FilesKept
<1>4. \A p \in Staging : IsFile(staging'[p])
  BY <1>2 DEF FilesKept
<1>5. \A n \in Names : output'[n] = IF path = "part" /\ n \in linked THEN file ELSE output[n]
  BY <1>1
<1>6. \A n \in Names : IsFile(output'[n])
  BY <1>5 DEF FilesKept
<1>7. \A n \in linked' : output'[n] = staging'["part"] /\ staging'["part"] # NoFile
  BY <1>1, <1>2, <1>5 DEF FilesKept, Staging
<1>8. linked' \subseteq Names
  BY <1>1 DEF FilesKept
<1> QED
  BY <1>1, <1>2, <1>3, <1>4, <1>6, <1>7, <1>8 DEF FilesKept

\* Some staging files are removed.
LEMMA UnstageKeeps ==
    ASSUME FilesKept, NEW paths, Unstage(paths)
    PROVE  /\ FilesKept'
           /\ UNCHANGED output
           /\ "part" \in paths => linked' = {}
           /\ "part" \notin paths => linked' = linked
           /\ \A p \in Staging : staging'[p] = IF p \in paths THEN NoFile ELSE staging[p]
           /\ \A p \in Staging : Preserved(p)
<1>1. /\ staging' = [p \in Staging |-> IF p \in paths THEN NoFile ELSE staging[p]]
      /\ linked' = IF "part" \in paths THEN {} ELSE linked
      /\ output' = output
  BY DEF Unstage
<1>2. \A p \in Staging : staging'[p] = IF p \in paths THEN NoFile ELSE staging[p]
  BY <1>1
<1>3. staging' \in [Staging -> Files \cup {NoFile}]
  BY <1>1 DEF FilesKept
<1>4. \A p \in Staging : IsFile(staging'[p])
  BY <1>2 DEF FilesKept, IsFile
<1>5. \A n \in linked' : output'[n] = staging'["part"] /\ staging'["part"] # NoFile
  BY <1>1, <1>2 DEF FilesKept, Staging
<1>6. FilesKept'
  BY <1>1, <1>3, <1>4, <1>5 DEF FilesKept
<1>7. \A p \in Staging : Preserved(p)
  BY <1>2, SameIsPreserved DEF Preserved
<1> QED
  BY <1>1, <1>2, <1>6, <1>7

---------------------------------------------------------------------------
(* Steps that leave the files and the checkpoint alone. *)

\* Files and a checkpoint that do not change.
LEMMA StillKeeps ==
    ASSUME FilesKept, SavedKept, UNCHANGED <<files, saved>>
    PROVE  /\ FilesKept' /\ SavedKept'
           /\ \A v \in Versions : SavedFits(v) => SavedFits(v)'
<1>1. FilesKept'
  BY DEF FilesKept, files
<1>2. \A p \in Staging : Preserved(p)
  BY SameIsPreserved DEF files
<1>3. SavedKept'
  BY <1>2, SavedKeptStays
<1>4. \A v \in Versions : SavedFits(v) => SavedFits(v)'
  BY <1>2, SavedPreserved
<1> QED
  BY <1>1, <1>3, <1>4

\* Of the record at most the total changes.
SameJob ==
  /\ DOMAIN job' = DOMAIN job
  /\ job'.status = job.status /\ job'.policy = job.policy /\ job'.name = job.name

\* The total of the record changes.
LEMMA TotalChanges ==
    ASSUME JobKept, NEW total, job' = [job EXCEPT !.total = total]
    PROVE  SameJob
<1>1. DOMAIN job' = DOMAIN job
  BY Zenon
<1> QED
  BY <1>1 DEF JobKept, SameJob

\* A running record stays one.
LEMMA SameJobKeeps ==
    ASSUME JobKept, SameJob, Running, Running', UNCHANGED linked
    PROVE  JobKept'
  BY DEF JobKept, SameJob

\* An attempt comes to its end.
LEMMA EndsPlaces ==
    ASSUME Kept, Running, SameJob, UNCHANGED <<remote, files, attempt, stop>>,
           SavedKept', TracksKept',
           NEW status \in {"paused", "cancelled", "retryable", "failed"}, Ends(status)
    PROVE  Kept'
<1>1. pc' = "record" /\ after' = status /\ Running'
  BY DEF Ends, Running
<1>2. FilesKept' /\ remote' \in Versions
  BY DEF Kept, FilesKept, files
<1>3. JobKept'
  BY <1>1, SameJobKeeps DEF Kept, files
<1>4. AttemptKept'
  BY <1>1 DEF Kept, AttemptKept
<1>5. PlaceKept'
  BY <1>1 DEF Kept, PlaceKept
<1>6. OutputKept'
  BY <1>1 DEF OutputKept, Published
<1> QED
  BY <1>2, <1>3, <1>4, <1>5, <1>6 DEF Kept

\* An attempt comes to its end, and nothing changes but its place.
LEMMA EndsKeeps ==
    ASSUME Kept, Running, SameJob, UNCHANGED <<remote, files, saved, attempt, stop>>,
           NEW status \in {"paused", "cancelled", "retryable", "failed"}, Ends(status),
           saved = NoState => status = "cancelled" \/ pc \notin {"stopped", "discard", "stuck", "record"}
    PROVE  Kept'
<1>1. SavedKept'
  BY StillKeeps DEF Kept
<1>2. pc' = "record" /\ after' = status
  BY DEF Ends
<1>3. TracksKept'
  BY <1>2 DEF Kept, TracksKept, TracksLeft, Running, files
<1> QED
  BY <1>1, <1>3, EndsPlaces

\* An attempt is given up without a word.
LEMMA StuckKeeps ==
    ASSUME Kept, Running, UNCHANGED <<remote, files, saved, job, attempt, stop>>, Stuck
    PROVE  Kept'
<1>1. pc' = "stuck" /\ after' = after /\ Running'
  BY DEF Stuck, Running
<1>2. FilesKept' /\ SavedKept' /\ remote' \in Versions
  BY StillKeeps DEF Kept
<1>3. JobKept'
  BY <1>1 DEF Kept, JobKept, files
<1>4. AttemptKept'
  BY <1>1 DEF Kept, AttemptKept
<1>5. TracksKept'
  BY <1>1 DEF Kept, TracksKept, TracksLeft, Running, files
<1>6. PlaceKept'
  BY <1>1 DEF Kept, PlaceKept
<1>7. OutputKept'
  BY <1>1 DEF OutputKept, Published, Running
<1> QED
  BY <1>2, <1>3, <1>4, <1>5, <1>6, <1>7 DEF Kept

\* Steps that fail an attempt where it is (executor.rs:370-448, 842-850, 1025-1054).
LEMMA FailsInPlaceKeeps ==
    ASSUME Kept, NEW status \in {"retryable", "failed"},
           \/ PlanFails(status) \/ OpenFails(status) \/ SegmentFails(status)
           \/ CheckpointFails(status) \/ MuxFails(status) \/ PublishFails(status)
           \/ OpenRefused \/ PublishRefused
    PROVE  Kept'
<1>1. UNCHANGED <<remote, files, saved, job, attempt, stop>> /\ (Ends(status) \/ Ends("failed"))
  BY DEF PlanFails, OpenFails, SegmentFails, CheckpointFails, MuxFails, PublishFails,
         OpenRefused, PublishRefused
<1>2. pc \in {"planned", "open", "segment", "truncate", "sync", "save", "mux", "muxing", "publish"}
  BY DEF PlanFails, OpenFails, SegmentFails, CheckpointFails, MuxFails, PublishFails,
         OpenRefused, PublishRefused
<1>3. Running /\ SameJob
  BY <1>1, <1>2 DEF Running, SameJob
<1> QED
  BY <1>1, <1>2, <1>3, EndsKeeps

\* A stop of an attempt that has nothing to save any more.
LEMMA StopInPlaceKeeps == Kept /\ (StopPreparing \/ ReportStop) => Kept'
<1> SUFFICES ASSUME Kept, StopPreparing \/ ReportStop PROVE Kept'
  OBVIOUS
<1>1. /\ UNCHANGED <<remote, files, saved, job, attempt, stop>>
      /\ pc \in {"planned", "stopped"} /\ Stopped
  BY DEF StopPreparing, ReportStop
<1>2. Running /\ SameJob
  BY <1>1 DEF Running, SameJob
<1>3. stop = "pause" => Ends("paused")
  BY <1>1 DEF Stopped
<1>4. stop # "pause" => Ends("cancelled")
  BY <1>1 DEF Stopped
<1>5. pc = "stopped" /\ saved = NoState => stop = "cancel"
  BY DEF Kept, PlaceKept
<1>6. CASE stop = "pause"
  BY <1>1, <1>2, <1>3, <1>5, <1>6, EndsKeeps
<1>7. CASE stop # "pause"
  BY <1>1, <1>2, <1>4, <1>7, EndsKeeps
<1> QED
  BY <1>6, <1>7

\* More was reported than was announced (manager.rs:374-400).
LEMMA DropOverrunKeeps == Kept /\ DropOverrun => Kept'
  BY StuckKeeps DEF DropOverrun, Running

\* A plan is made of what the server has now (executor.rs:264).
LEMMA PlanKeeps == Kept /\ Plan => Kept'
<1> SUFFICES ASSUME Kept, Plan PROVE Kept'
  OBVIOUS
<1>1. /\ pc = "idle" /\ job.status = "queued" /\ job' = [job EXCEPT !.status = "active"]
      /\ pc' = "planned" /\ UNCHANGED <<remote, files, saved, after, stop>>
  BY DEF Plan, Goto
<1>2. PICK total : attempt' = Attempt(remote, total)
  BY DEF Plan
<1>3. Running' /\ ~Running
  BY <1>1 DEF Running
<1>4. FilesKept' /\ SavedKept' /\ remote' \in Versions
  BY <1>1, StillKeeps DEF Kept
<1>5. JobKept'
  <2>1. DOMAIN job' = DOMAIN job
    BY <1>1, Zenon
  <2>2. job'.status = "active" /\ job'.policy = job.policy /\ job'.name = job.name
    BY <1>1 DEF Kept, JobKept
  <2> QED
    BY <1>1, <1>3, <2>1, <2>2 DEF Kept, JobKept, Statuses, files
<1>6. /\ attempt'.plan = remote /\ attempt'.track = 1 /\ attempt'.base = 0
      /\ attempt'.next = 0 /\ attempt'.written = 0
      /\ DOMAIN attempt' = {"kind", "plan", "total", "track", "base", "next", "written",
                            "reported", "body"}
  BY <1>2 DEF Attempt
<1>7. AttemptKept'
  BY <1>3, <1>6, TracksAre DEF Kept, AttemptKept
<1>8. TracksKept'
  BY <1>1 DEF Kept, TracksKept, TracksLeft, Running, files
<1>9. PlaceKept'
  BY <1>1, <1>6 DEF Kept, PlaceKept
<1>10. OutputKept'
  BY <1>1, <1>3 DEF OutputKept, Published
<1> QED
  BY <1>4, <1>5, <1>7, <1>8, <1>9, <1>10 DEF Kept

\* A checkpoint is found or begun (executor.rs:306-345).
LEMMA OpenStateKeeps == Kept /\ OpenState => Kept'
<1> SUFFICES ASSUME Kept, OpenState PROVE Kept'
  OBVIOUS
<1> DEFINE p == attempt.plan
           fresh == State(Fingerprint[p], [t \in Tracks(p) |-> Start])
<1>1. /\ pc = "planned" /\ UNCHANGED <<remote, files, job, attempt, stop>>
      /\ saved' = IF saved # NoState THEN saved ELSE fresh
      /\ IF Mismatch \/ SizeRefused THEN Ends("failed") ELSE pc' = "prepared" /\ UNCHANGED after
  BY DEF OpenState, Goto
<1>2. Running /\ SameJob /\ p \in Versions /\ attempt.track = 1 /\ attempt.base = 0
  BY <1>1 DEF Running, SameJob, Kept, AttemptKept, PlaceKept
<1>3. ASSUME saved = NoState
      PROVE  SavedKept' /\ TracksKept' /\ (~Mismatch => SavedFits(p)')
  <2> DEFINE tracks == [t \in Tracks(p) |-> Start]
  <2>1. saved' = State(Fingerprint[p], tracks) /\ saved' # NoState
    BY <1>1, <1>3 DEF State, NoState
  <2>2. Tracks(p) = 1..Len(Segments[p]) /\ Len(Segments[p]) \in Nat /\ Start \in Checkpoints
    BY <1>2, TracksAre DEF Start, Checkpoints
  <2>3. tracks \in Seq(Checkpoints) /\ Len(tracks) = Len(Segments[p])
    <3> HIDE DEF p
    <3>1. tracks = [t \in 1..Len(Segments[p]) |-> Start]
      BY <2>2
    <3> QED
      BY <2>2, <3>1, SameBytes
  <2>4. \A t \in Tracks(p) : tracks[t] = Start
    OBVIOUS
  <2>5. saved'.tracks = tracks
    BY <2>1 DEF State
  <2> HIDE DEF tracks
  <2>6. \A t \in Tracks(p) : TrackKept(p, t)'
    <3> TAKE t \in Tracks(p)
    <3> DEFINE f == staging'[Path(Len(Segments[p]), t)]
    <3>1. saved'.tracks[t].next = 0 /\ saved'.tracks[t].durable = 0
      BY <2>4, <2>5 DEF Start
    <3>2. Path(Len(Segments[p]), t) \in Staging /\ Len(Segments[p][t]) \in Nat
      BY <1>2, TracksAre
    <3>3. IsFile(f)
      BY <1>1, <3>2 DEF Kept, FilesKept, files
    <3> HIDE DEF f
    <3>4. f # NoFile => 0 <= f.synced /\ SubSeq(f.data, 1, 0) = <<>>
      BY <3>3, KeepsNone
    <3>5. <<>> \in WholeSegments(Fingerprint[p], t, 0)
      BY NoSegments
    <3>6. 0 <= Len(Segments[p][t])
      BY <3>2
    <3>7. f # NoFile => 0 <= f.synced /\ SubSeq(f.data, 1, 0) \in WholeSegments(Fingerprint[p], t, 0)
      BY <3>4, <3>5
    <3> QED
      BY <1>1, <3>1, <3>5, <3>6, <3>7 DEF TrackKept, f
  <2>7. Len(Segments[p]) = 2 => saved'.tracks[2].next = 0
    BY <1>2, <2>4, <2>5, TracksAre DEF Start
  <2>8. SavedFits(p)'
    BY <1>1, <2>1, <2>3, <2>5, <2>6, <2>7 DEF SavedFits
  <2>9. staging["video"] = NoFile /\ staging["audio"] = NoFile
    BY <1>1, <1>3 DEF Kept, TracksKept, TracksLeft, Running
  <2>10. TracksKept'
    BY <1>1, <2>9 DEF TracksKept, files
  <2>11. SavedKept'
    BY <1>1, <1>2, <2>8 DEF SavedKept
  <2> QED
    BY <2>8, <2>10, <2>11
<1>4. ASSUME saved # NoState
      PROVE  SavedKept' /\ TracksKept' /\ (~Mismatch => SavedFits(p)')
  <2>1. saved' = saved
    BY <1>1, <1>4
  <2>2. SavedKept' /\ \A v \in Versions : SavedFits(v) => SavedFits(v)'
    BY <1>1, <2>1, StillKeeps DEF Kept
  <2>3. TracksKept'
    BY <1>1, <1>4, <2>1 DEF Kept, TracksKept, files
  <2>4. ~Mismatch => SavedFits(p)
    BY <1>2, <1>4, FitsPlan DEF Mismatch, Kept
  <2>5. SavedFits(p) => SavedFits(p)'
    <3> SUFFICES ASSUME SavedFits(p) PROVE SavedFits(p)'
      OBVIOUS
    <3>1. attempt' = attempt
      BY <1>1
    <3>2. \A v \in Versions : v = attempt.plan => SavedFits(v)'
      BY <2>2
    <3>3. attempt.plan \in Versions
      BY <1>2
    <3> QED
      BY ONLY <3>1, <3>2, <3>3 DEF SavedFits, TrackKept, p
  <2> QED
    BY <2>2, <2>3, <2>4, <2>5
<1>5. SavedKept' /\ TracksKept' /\ (~Mismatch => SavedFits(p)')
  BY <1>1, <1>3, <1>4
<1>6. CASE Mismatch \/ SizeRefused
  BY <1>1, <1>2, <1>5, <1>6, EndsPlaces
<1>7. CASE ~(Mismatch \/ SizeRefused)
  <2>1. pc' = "prepared" /\ UNCHANGED after /\ Running'
    BY <1>1, <1>7 DEF Running
  <2>2. FilesKept' /\ remote' \in Versions /\ JobKept' /\ AttemptKept'
    BY <1>1, <1>2, <2>1, SameJobKeeps DEF Kept, FilesKept, files, AttemptKept
  <2>3. SavedFits(attempt.plan)'
    BY <1>1, <1>5, <1>7 DEF SavedFits, TrackKept
  <2>4. PlaceKept'
    BY <1>1, <1>2, <2>1, <2>3 DEF Kept, PlaceKept
  <2>5. OutputKept'
    BY <2>1 DEF OutputKept, Published, Running
  <2> QED
    BY <1>5, <2>2, <2>4, <2>5 DEF Kept
<1> QED
  BY <1>6, <1>7

\* The transfer begins (manager.rs:325-350).
LEMMA CommitDownloadingKeeps == Kept /\ CommitDownloading => Kept'
<1> SUFFICES ASSUME Kept, CommitDownloading PROVE Kept'
  OBVIOUS
<1>1. pc = "prepared" /\ UNCHANGED <<remote, files, saved, attempt, stop>> /\ Running
  BY DEF CommitDownloading, Running
<1>2. /\ attempt.track = 1 /\ attempt.base = 0 /\ SavedFits(attempt.plan)
      /\ attempt.plan \in Versions
  BY <1>1 DEF Kept, PlaceKept, AttemptKept
<1>3. saved # NoState
  BY <1>2, FitsHas
<1>4. CASE attempt.total.bytes # NoTotal /\ StartingBytes(saved) > attempt.total.bytes
  BY <1>1, <1>4, StuckKeeps DEF CommitDownloading
<1>5. CASE ~(attempt.total.bytes # NoTotal /\ StartingBytes(saved) > attempt.total.bytes)
  <2>1. /\ job' = [job EXCEPT !.total = attempt.total.bytes]
        /\ IF stop # "none" THEN Stopped ELSE pc' = "open" /\ UNCHANGED after
    BY <1>5 DEF CommitDownloading, Goto
  <2>2. SameJob
    BY <2>1, TotalChanges DEF Kept
  <2>3. CASE stop = "pause"
    BY <1>1, <1>3, <2>1, <2>2, <2>3, EndsKeeps DEF Stopped
  <2>4. CASE stop = "cancel"
    BY <1>1, <1>3, <2>1, <2>2, <2>4, EndsKeeps DEF Stopped
  <2>5. CASE stop = "none"
    <3>1. pc' = "open" /\ UNCHANGED after /\ Running'
      BY <2>1, <2>5 DEF Running
    <3>2. FilesKept' /\ SavedKept' /\ \A v \in Versions : SavedFits(v) => SavedFits(v)'
      BY <1>1, StillKeeps DEF Kept
    <3>3. JobKept' /\ AttemptKept' /\ remote' \in Versions
      BY <1>1, <2>2, <3>1, SameJobKeeps DEF Kept, AttemptKept, files
    <3>4. TracksKept'
      BY <1>1, <3>1 DEF Kept, TracksKept, TracksLeft, Running, files
    <3>5. SavedFits(attempt.plan)'
      BY <1>1, <1>2, <3>2 DEF SavedFits, TrackKept
    <3>6. OnTrack'
      BY <1>1, <1>2, <3>5 DEF OnTrack
    <3>7. PlaceKept'
      BY <1>1, <3>1, <3>6 DEF Kept, PlaceKept
    <3>8. OutputKept'
      BY <3>1 DEF OutputKept, Published, Running
    <3> QED
      BY <3>2, <3>3, <3>4, <3>7, <3>8 DEF Kept
  <2>6. stop \in {"none", "pause", "cancel"}
    BY DEF Kept, PlaceKept
  <2> QED
    BY <2>3, <2>4, <2>5, <2>6
<1> QED
  BY <1>4, <1>5

---------------------------------------------------------------------------
(* Steps of an attempt on a track. *)

\* What holds of an attempt on a track, of its position and its file.
LEMMA TrackHas ==
    ASSUME Kept, Running, SavedFits(attempt.plan)
    PROVE  /\ attempt.plan \in Versions /\ attempt.track \in Tracks(attempt.plan)
           /\ attempt.track \in {1, 2} /\ Planned \in Nat
           /\ Here = Path(Len(Segments[attempt.plan]), attempt.track) /\ Here \in Staging
           /\ Saved = saved.tracks[attempt.track]
           /\ Saved.next \in Nat /\ Saved.durable \in Nat
           /\ attempt.base \in Nat /\ attempt.next \in Nat /\ attempt.written \in Nat
           /\ IsFile(staging[Here])
<1>1. /\ attempt.plan \in Versions /\ attempt.track \in Tracks(attempt.plan)
      /\ attempt.base \in Nat /\ attempt.next \in Nat /\ attempt.written \in Nat
  BY DEF Kept, AttemptKept
<1>2. /\ attempt.track \in {1, 2} /\ Planned \in Nat
      /\ Here = Path(Len(Segments[attempt.plan]), attempt.track) /\ Here \in Staging
  BY <1>1, TracksAre DEF Planned, Here
<1>3. Saved.next \in Nat /\ Saved.durable \in Nat
  BY <1>1, FitsHas DEF Saved
<1>4. IsFile(staging[Here])
  BY <1>2 DEF Kept, FilesKept
<1> QED
  BY <1>1, <1>2, <1>3, <1>4 DEF Saved

\* The attempt at another position of the same track.
SameTrack ==
  /\ DOMAIN attempt' = DOMAIN attempt
  /\ attempt'.plan = attempt.plan /\ attempt'.track = attempt.track
  /\ attempt'.base = attempt.base
  /\ attempt'.next \in Nat /\ attempt'.written \in Nat

\* A step on a track that writes no file and saves nothing.
LEMMA OnTrackStays ==
    ASSUME Kept, OnTrack, Running, SameTrack, UNCHANGED <<remote, files, saved, job>>,
           pc' \in {"segment", "body", "truncate", "sync", "save"}
    PROVE  /\ remote' \in Versions /\ FilesKept' /\ SavedKept' /\ JobKept' /\ AttemptKept'
           /\ TracksKept' /\ OutputKept' /\ OnTrack'
           /\ Here' = Here /\ staging'[Here'] = staging[Here] /\ Planned' = Planned /\ Saved' = Saved
<1>1. Running' /\ SameJob
  BY DEF Running, SameJob
<1>2. FilesKept' /\ SavedKept' /\ \A v \in Versions : SavedFits(v) => SavedFits(v)'
  BY StillKeeps DEF Kept
<1>3. JobKept' /\ remote' \in Versions
  BY <1>1, SameJobKeeps DEF Kept, files
<1>4. AttemptKept' /\ attempt.plan \in Versions
  BY <1>1 DEF Kept, AttemptKept, SameTrack
<1>5. SavedFits(attempt.plan) /\ saved # NoState
  BY <1>4, FitsHas DEF OnTrack
<1>6. TracksKept'
  BY <1>5 DEF Kept, TracksKept, files
<1>7. OutputKept'
  BY DEF OutputKept, Published, Running
<1>8. SavedFits(attempt.plan)'
  BY <1>2, <1>4, <1>5 DEF SavedFits, TrackKept, SameTrack
<1>9. OnTrack'
  BY <1>8 DEF OnTrack, SameTrack, Fetched, files
<1>10. Here' = Here /\ staging'[Here'] = staging[Here] /\ Planned' = Planned /\ Saved' = Saved
  BY DEF Here, Planned, Saved, SameTrack, files
<1> QED
  BY <1>2, <1>3, <1>4, <1>6, <1>7, <1>9, <1>10

\* A step that does not change the attempt does not change its track.
LEMMA SameAttempt ==
    ASSUME Kept, Running, UNCHANGED attempt
    PROVE  SameTrack
  BY DEF Kept, AttemptKept, SameTrack

\* A checkpoint at the end of a track or before a stop (executor.rs:822-835, 919-930).
LEMMA CheckpointKeeps == Kept /\ (StopBetweenSegments \/ EndOfTrack) => Kept'
<1> SUFFICES ASSUME Kept, StopBetweenSegments \/ EndOfTrack PROVE Kept'
  OBVIOUS
<1>1. /\ pc = "segment" /\ pc' = "sync" /\ UNCHANGED <<remote, files, saved, job, attempt, stop>>
      /\ \/ attempt.next < Planned /\ stop # "none" /\ after' = "stopped"
         \/ attempt.next = Planned /\ after' = "tracked"
  BY DEF StopBetweenSegments, EndOfTrack, Checkpoint
<1>2. Running /\ OnTrack /\ AtBoundary /\ SameTrack
  BY <1>1, SameAttempt DEF Running, Kept, PlaceKept
<1>3. /\ remote' \in Versions /\ FilesKept' /\ SavedKept' /\ JobKept' /\ AttemptKept'
      /\ TracksKept' /\ OutputKept' /\ OnTrack'
      /\ Here' = Here /\ staging'[Here'] = staging[Here] /\ Planned' = Planned /\ Saved' = Saved
  BY <1>1, <1>2, OnTrackStays
<1>4. AtBoundary'
  BY <1>1, <1>2, <1>3 DEF AtBoundary
<1>5. Leads'
  BY <1>1, <1>3 DEF Leads
<1>6. PlaceKept'
  BY <1>1, <1>3, <1>4, <1>5 DEF Kept, PlaceKept
<1> QED
  BY <1>3, <1>6 DEF Kept

\* A segment is asked for (executor.rs:837-850).
LEMMA OpenSegmentKeeps == Kept /\ OpenSegment => Kept'
<1> SUFFICES ASSUME Kept, OpenSegment PROVE Kept'
  OBVIOUS
<1> DEFINE version == IF Fingerprint[remote] = Fingerprint[attempt.plan] THEN remote ELSE attempt.plan
           body == [kind |-> "body", version |-> version, start |-> attempt.written,
                    left |-> Segments[version][attempt.track][attempt.next + 1]]
<1>1. /\ pc = "segment" /\ pc' = "body" /\ UNCHANGED <<remote, files, saved, job, after, stop>>
      /\ attempt.next < Planned /\ attempt' = [attempt EXCEPT !.body = body]
  BY DEF OpenSegment, Goto
<1>2. Running /\ OnTrack /\ AtBoundary
  BY <1>1 DEF Running, Kept, PlaceKept
<1>3. /\ attempt.plan \in Versions /\ attempt.track \in Tracks(attempt.plan) /\ Planned \in Nat
      /\ attempt.next \in Nat /\ attempt.written \in Nat /\ IsFile(staging[Here])
  BY <1>2, TrackHas DEF OnTrack
<1>4. DOMAIN attempt' = DOMAIN attempt
  BY <1>1, Zenon
<1>5. /\ attempt'.body = body /\ attempt'.next = attempt.next /\ attempt'.written = attempt.written
      /\ attempt'.plan = attempt.plan /\ attempt'.track = attempt.track
      /\ attempt'.base = attempt.base
  <2> HIDE DEF body
  <2> QED
    BY <1>1, <1>2 DEF Kept, AttemptKept
<1>6. SameTrack
  BY <1>3, <1>4, <1>5 DEF SameTrack
<1>7. /\ remote' \in Versions /\ FilesKept' /\ SavedKept' /\ JobKept' /\ AttemptKept'
      /\ TracksKept' /\ OutputKept' /\ OnTrack'
      /\ Here' = Here /\ staging'[Here'] = staging[Here] /\ Planned' = Planned /\ Saved' = Saved
  BY <1>1, <1>2, <1>6, OnTrackStays
<1>8. version \in Versions /\ Fingerprint[version] = Fingerprint[attempt.plan]
  BY <1>3 DEF Kept
<1>9. Segments[version][attempt.track][attempt.next + 1] \in Nat
  <2>1. attempt.track \in Tracks(version) /\ Planned = Len(Segments[version][attempt.track])
    BY <1>3, <1>8, ShapesAgree DEF Planned
  <2>2. attempt.next + 1 \in 1..Len(Segments[version][attempt.track])
    BY <1>1, <1>3, <2>1
  <2> HIDE DEF version
  <2> QED
    BY <1>8, <2>1, <2>2, SegmentIsBytes
<1> HIDE DEF version
<1>10. /\ body.version = version /\ body.start = attempt.written
       /\ body.left = Segments[version][attempt.track][attempt.next + 1]
       /\ DOMAIN body = {"kind", "version", "start", "left"}
  OBVIOUS
<1> HIDE DEF body
<1> DEFINE data == staging[Here].data
<1>11. /\ data \in Seq(Bytes) /\ Len(data) = attempt.written
       /\ data \in WholeSegments(Fingerprint[attempt.plan], attempt.track, attempt.next)
       /\ Saved.next <= attempt.next /\ Saved.durable <= attempt.written
       /\ staging[Here] # NoFile
  BY <1>2, <1>3, FileHas DEF AtBoundary
<1>12. SubSeq(data, 1, attempt.written) = data
  <2> HIDE DEF data
  <2> QED
    BY <1>11, SubSeqFull
<1>13. InSegment'
  <2>1. attempt'.body.start = attempt.written
    BY <1>5, <1>10
  <2>2. Fingerprint[attempt'.plan] = Fingerprint[attempt.plan]
    BY <1>5
  <2>3. /\ staging'[Here'] # NoFile
        /\ attempt'.next < Planned'
        /\ Saved'.next <= attempt'.next /\ Saved'.durable <= attempt.written
        /\ attempt.written <= Len(staging'[Here'].data)
    BY <1>1, <1>3, <1>5, <1>7, <1>11
  <2>4. SubSeq(staging'[Here'].data, 1, attempt.written) \in
          WholeSegments(Fingerprint[attempt'.plan], attempt'.track, attempt'.next)
    BY <1>5, <1>7, <1>11, <1>12
  <2> QED
    BY <1>3, <2>1, <2>3, <2>4 DEF InSegment
<1>14. InBody'
  <2>1. (attempt'.body.start + 1)..attempt'.written = {}
    BY <1>3, <1>5, <1>10
  <2> QED
    BY <1>3, <1>5, <1>7, <1>8, <1>9, <1>10, <1>11, <2>1 DEF InBody
<1>15. PlaceKept'
  BY <1>1, <1>7, <1>13, <1>14 DEF Kept, PlaceKept
<1> QED
  BY <1>7, <1>15 DEF Kept

\* A segment that is not to be finished (executor.rs:855-888).
LEMMA AbandonKeeps ==
    ASSUME Kept, NEW status \in {"retryable", "failed"}, NoticeStop \/ BodyFails(status)
    PROVE  Kept'
<1>1. /\ pc = "body" /\ pc' = "truncate" /\ UNCHANGED <<remote, files, saved, job, attempt, stop>>
      /\ \/ stop # "none" /\ after' = "stopped"
         \/ after' = status
  BY DEF NoticeStop, BodyFails, Abandon
<1>2. Running /\ OnTrack /\ InSegment /\ SameTrack
  BY <1>1, SameAttempt DEF Running, Kept, PlaceKept
<1>3. /\ remote' \in Versions /\ FilesKept' /\ SavedKept' /\ JobKept' /\ AttemptKept'
      /\ TracksKept' /\ OutputKept' /\ OnTrack'
      /\ Here' = Here /\ staging'[Here'] = staging[Here] /\ Planned' = Planned /\ Saved' = Saved
  BY <1>1, <1>2, OnTrackStays
<1>4. InSegment'
  BY <1>1, <1>2, <1>3 DEF InSegment
<1>5. Leads' /\ after' \in {"stopped", "retryable", "failed"}
  BY <1>1, <1>2, <1>3 DEF Leads, InSegment
<1>6. PlaceKept'
  BY <1>1, <1>3, <1>4, <1>5 DEF Kept, PlaceKept
<1> QED
  BY <1>3, <1>6 DEF Kept

\* A segment whose body has ended is whole.
LEMMA SegmentEnds ==
    ASSUME NEW v \in Versions, NEW t \in Tracks(v), NEW print, Fingerprint[v] = print,
           NEW k \in Nat, k < Len(Segments[v][t]),
           NEW data \in Seq(Bytes), NEW start \in Nat, start <= Len(data),
           SubSeq(data, 1, start) \in WholeSegments(print, t, k),
           Len(data) = start + Segments[v][t][k + 1],
           \A i \in (start + 1)..Len(data) : data[i] = <<v, t, k + 1>>
    PROVE  data \in WholeSegments(print, t, k + 1)
<1> DEFINE whole == SubSeq(data, 1, start)
           last == Segment(v, t, k + 1)
           n == Segments[v][t][k + 1]
<1>0. k + 1 \in 1..Len(Segments[v][t])
  BY TracksAre
<1>1. n \in Nat /\ last \in Seq(Bytes) /\ Len(last) = n
  BY <1>0, SegmentIsBytes
<1>2. whole \in Seq(Bytes) /\ Len(whole) = start /\ \A i \in 1..start : whole[i] = data[i]
  BY PrefixIs
<1>3. \A i \in 1..n : last[i] = <<v, t, k + 1>>
  BY DEF Segment
<1>4. whole \o last \in WholeSegments(print, t, k + 1)
  BY SegmentAdded
<1>5. Len(data) = start + n
  OBVIOUS
<1> HIDE DEF whole, last, n
<1>6. /\ whole \o last \in Seq(Bytes)
      /\ Len(whole \o last) = Len(whole) + Len(last)
      /\ \A i \in 1..(Len(whole) + Len(last)) :
           (whole \o last)[i] = IF i <= Len(whole) THEN whole[i] ELSE last[i - Len(whole)]
  BY ONLY <1>1, <1>2, ConcatProperties, Zenon
<1>7. Len(whole \o last) = Len(data)
  BY <1>1, <1>2, <1>5, <1>6
<1>8. \A i \in 1..Len(data) : (whole \o last)[i] = data[i]
  <2> TAKE i \in 1..Len(data)
  <2>0. i \in Nat /\ i >= 1 /\ i <= start + n /\ i \in 1..(Len(whole) + Len(last))
    BY <1>1, <1>2, <1>5
  <2>1. CASE i <= start
    <3>1. i \in 1..start
      BY <2>0, <2>1
    <3> QED
      BY <1>2, <1>6, <2>0, <2>1, <3>1
  <2>2. CASE ~(i <= start)
    <3>1. i \in (start + 1)..Len(data) /\ i - start \in 1..n
      BY <1>1, <1>5, <2>0, <2>2
    <3>2. data[i] = <<v, t, k + 1>> /\ last[i - start] = <<v, t, k + 1>>
      BY <1>3, <3>1
    <3> QED
      BY <1>2, <1>6, <2>0, <2>2, <3>2
  <2> QED
    BY <2>1, <2>2
<1>9. whole \o last = data
  BY <1>6, <1>7, <1>8, SeqEqual
<1> QED
  BY <1>4, <1>9

\* A body ends where the server says it does (executor.rs:889-916).
LEMMA EndOfSegmentKeeps == Kept /\ EndOfSegment => Kept'
<1> SUFFICES ASSUME Kept, EndOfSegment PROVE Kept'
  OBVIOUS
<1> DEFINE data == staging[Here].data
           version == attempt.body.version
           start == attempt.body.start
<1>1. /\ pc = "body" /\ attempt.body.left = 0 /\ UNCHANGED <<remote, files, saved, job, stop>>
      /\ attempt' = [attempt EXCEPT !.next = @ + 1, !.body = NoBody]
      /\ \/ pc' = "sync" /\ after' = "segment"
         \/ pc' = "segment" /\ UNCHANGED after
  BY DEF EndOfSegment, Checkpoint, Goto
<1>2. Running /\ OnTrack /\ InSegment /\ InBody
  BY <1>1 DEF Running, Kept, PlaceKept
<1>3. /\ attempt.plan \in Versions /\ attempt.track \in Tracks(attempt.plan) /\ Planned \in Nat
      /\ attempt.next \in Nat /\ attempt.written \in Nat /\ IsFile(staging[Here])
      /\ Saved.next \in Nat /\ Saved.durable \in Nat
  BY <1>2, TrackHas DEF OnTrack
<1>4. DOMAIN attempt' = DOMAIN attempt
  BY <1>1, Zenon
<1>5. /\ attempt'.next = attempt.next + 1 /\ attempt'.written = attempt.written
      /\ attempt'.plan = attempt.plan /\ attempt'.track = attempt.track
      /\ attempt'.base = attempt.base
  BY <1>1, <1>2 DEF Kept, AttemptKept
<1>6. SameTrack
  BY <1>3, <1>4, <1>5 DEF SameTrack
<1>7. /\ remote' \in Versions /\ FilesKept' /\ SavedKept' /\ JobKept' /\ AttemptKept'
      /\ TracksKept' /\ OutputKept' /\ OnTrack'
      /\ Here' = Here /\ staging'[Here'] = staging[Here] /\ Planned' = Planned /\ Saved' = Saved
  BY <1>1, <1>2, <1>6, OnTrackStays
<1>8. /\ staging[Here] # NoFile /\ data \in Seq(Bytes) /\ Len(data) \in Nat
  BY <1>2, <1>3, FileHas DEF InSegment
<1>9. /\ version \in Versions /\ Fingerprint[version] = Fingerprint[attempt.plan]
      /\ start \in Nat /\ start <= Len(data) /\ attempt.next < Planned
      /\ SubSeq(data, 1, start) \in
           WholeSegments(Fingerprint[attempt.plan], attempt.track, attempt.next)
      /\ Saved.next <= attempt.next /\ Saved.durable <= start
  BY <1>2 DEF InSegment, InBody
<1>10. attempt.track \in Tracks(version) /\ Planned = Len(Segments[version][attempt.track])
  BY <1>3, <1>9, ShapesAgree DEF Planned
<1>11. Segments[version][attempt.track][attempt.next + 1] \in Nat
  <2>0. attempt.next < Planned
    BY <1>9
  <2> HIDE DEF version
  <2>1. attempt.next + 1 \in 1..Len(Segments[version][attempt.track])
    BY ONLY <1>3, <1>10, <2>0
  <2> QED
    BY <1>9, <1>10, <2>1, SegmentIsBytes
<1>12. attempt.written = Len(data)
       /\ Len(data) = start + Segments[version][attempt.track][attempt.next + 1]
  BY <1>1, <1>2, <1>3, <1>8, <1>9, <1>11 DEF InBody
<1>13. \A i \in (start + 1)..Len(data) : data[i] = <<version, attempt.track, attempt.next + 1>>
  BY <1>2, <1>12 DEF InBody, Byte
<1> HIDE DEF data, version, start
<1>14. data \in WholeSegments(Fingerprint[attempt.plan], attempt.track, attempt.next + 1)
  BY <1>3, <1>8, <1>9, <1>10, <1>12, <1>13, SegmentEnds
<1>15. AtBoundary'
  <2>1. /\ attempt'.next <= Planned /\ Saved.next <= attempt'.next
        /\ Saved.durable <= attempt'.written
    BY <1>3, <1>5, <1>8, <1>9, <1>12
  <2> QED
    BY <1>5, <1>7, <1>8, <1>12, <1>14, <2>1 DEF AtBoundary, data
<1>16. pc' = "sync" => Leads'
  BY <1>1 DEF Leads
<1>17. PlaceKept'
  BY <1>1, <1>7, <1>15, <1>16 DEF Kept, PlaceKept
<1> QED
  BY <1>7, <1>17 DEF Kept

\* A step on a track that writes its file, and keeps what is saved of it.
LEMMA OnTrackWrites ==
    ASSUME Kept, OnTrack, Running, SameTrack, UNCHANGED <<remote, saved, job>>,
           NEW file \in Files, file # NoFile, IsFile(file), Stage(Here, file),
           \/ staging[Here] # NoFile /\ Keeps(staging[Here], file, Saved.durable)
           \/ Saved.durable = 0,
           pc' \in {"segment", "body", "truncate", "sync", "save"}
    PROVE  /\ remote' \in Versions /\ FilesKept' /\ SavedKept' /\ JobKept' /\ AttemptKept'
           /\ TracksKept' /\ OutputKept' /\ OnTrack'
           /\ Here' = Here /\ staging'[Here'] = file /\ Planned' = Planned /\ Saved' = Saved
<1> DEFINE p == attempt.plan
<1>1. /\ p \in Versions /\ attempt.track \in Tracks(p) /\ attempt.track \in {1, 2}
      /\ Here = Path(Len(Segments[p]), attempt.track) /\ Here \in Staging
      /\ Saved = saved.tracks[attempt.track] /\ SavedFits(p)
  BY TrackHas DEF OnTrack
<1>2. /\ FilesKept'
      /\ staging'[Here] = file /\ linked' = linked
      /\ \A q \in Staging : q # Here => staging'[q] = staging[q]
  BY <1>1, StageKeeps DEF Kept
<1>3. \A t \in Tracks(p) : TrackStays(p, t)
  <2> TAKE t \in Tracks(p)
  <2> DEFINE q == Path(Len(Segments[p]), t)
  <2>1. CASE t = attempt.track
    <3>1. /\ staging'[q] = file /\ q = Here /\ saved.tracks[t].durable = Saved.durable
      BY <1>1, <1>2, <2>1
    <3> HIDE DEF q
    <3>2. \/ staging[q] # NoFile /\ Keeps(staging[q], staging'[q], saved.tracks[t].durable)
          \/ saved.tracks[t].durable = 0 /\ IsFile(staging'[q])
      BY <3>1
    <3> QED
      BY <3>2, Zenon DEF TrackStays, q
  <2>2. CASE t # attempt.track
    <3>1. q # Here /\ q \in Staging
      BY <1>1, <2>2, TracksAre
    <3>2. Preserved(q) /\ staging'[q] = staging[q]
      BY <1>2, <3>1, SameIsPreserved
    <3>3. staging[q] # NoFile => saved.tracks[t].durable <= staging[q].synced
      BY <1>1, Zenon DEF SavedFits, TrackKept
    <3>4. saved.tracks[t].durable \in Nat
      BY <1>1, FitsHas
    <3> HIDE DEF q
    <3>5. staging'[q] # NoFile =>
            staging[q] # NoFile /\ Keeps(staging[q], staging'[q], saved.tracks[t].durable)
      BY <3>2, <3>3, <3>4 DEF Preserved
    <3> QED
      BY <3>5, Zenon DEF TrackStays, q
  <2> QED
    BY <2>1, <2>2
<1>4. SavedFits(p)' /\ SavedKept'
  <2>1. \A t \in Tracks(attempt.plan) : TrackStays(attempt.plan, t)
    BY <1>3
  <2>2. \A v \in Versions : v = attempt.plan => SavedFits(v)'
    BY <1>1, <2>1, SavedStays
  <2>3. SavedFits(p)'
    BY <1>1, <2>2 DEF SavedFits, TrackKept, SameTrack
  <2>4. SavedKept'
    BY <1>1, <2>2 DEF SavedKept
  <2> QED
    BY <2>3, <2>4
<1>5. Running' /\ SameJob
  BY DEF Running, SameJob
<1>6. JobKept' /\ remote' \in Versions
  BY <1>2, <1>5, SameJobKeeps DEF Kept
<1>7. AttemptKept'
  BY <1>5 DEF Kept, AttemptKept, SameTrack
<1>8. TracksKept'
  <2>1. saved # NoState /\ Len(saved.tracks) = Len(Segments[p])
    BY <1>1, FitsHas
  <2>2. CASE Len(Segments[p]) = 2
    BY <2>1, <2>2 DEF TracksKept
  <2>3. CASE Len(Segments[p]) # 2
    <3>1. Here = "part"
      BY <1>1, <2>3, TracksAre
    <3>2. staging["video"] = NoFile /\ staging["audio"] = NoFile
      BY <2>1, <2>3 DEF Kept, TracksKept
    <3> QED
      BY <1>2, <3>1, <3>2 DEF TracksKept, Staging
  <2> QED
    BY <2>2, <2>3
<1>9. OutputKept'
  BY DEF OutputKept, Published, Running
<1>11. Here' = Here /\ staging'[Here'] = file /\ Planned' = Planned /\ Saved' = Saved
  BY <1>2 DEF Here, Planned, Saved, SameTrack
<1>12. attempt.track = 2 => Fetched(1)'
  <2> SUFFICES ASSUME attempt.track = 2 PROVE Fetched(1)'
    OBVIOUS
  <2>1. Path(Len(Segments[p]), 1) # Here /\ Path(Len(Segments[p]), 1) \in Staging
    BY <1>1, TracksAre
  <2>2. Fetched(1)
    BY DEF OnTrack
  <2>3. staging'[Path(Len(Segments[p]), 1)] = staging[Path(Len(Segments[p]), 1)]
    BY <1>2, <2>1
  <2> QED
    BY <2>2, <2>3 DEF Fetched, SameTrack
<1>13. OnTrack'
  BY <1>4, <1>12 DEF OnTrack, SameTrack
<1> QED
  BY <1>2, <1>4, <1>6, <1>7, <1>8, <1>9, <1>11, <1>13

\* The file of a track is opened at its checkpoint (executor.rs:951-1006).
LEMMA OpenTrackKeeps == Kept /\ OpenTrack => Kept'
<1> SUFFICES ASSUME Kept, OpenTrack PROVE Kept'
  OBVIOUS
<1> DEFINE file == staging[Here]
           d == Saved.durable
<1>1. /\ pc = "open" /\ pc' = "segment" /\ UNCHANGED <<remote, saved, job, after, stop>>
      /\ attempt' = [attempt EXCEPT !.next = Saved.next, !.written = d]
      /\ \/ file = NoFile /\ d = 0 /\ Stage(Here, File(<<>>, 0))
         \/ file # NoFile /\ Len(file.data) > d /\ Stage(Here, Truncated(file, d))
         \/ file # NoFile /\ Len(file.data) = d /\ UNCHANGED files
  BY DEF OpenTrack, Goto
<1>2. Running /\ OnTrack
  BY <1>1 DEF Running, Kept, PlaceKept
<1>3. /\ attempt.plan \in Versions /\ attempt.track \in Tracks(attempt.plan) /\ Planned \in Nat
      /\ Here = Path(Len(Segments[attempt.plan]), attempt.track)
      /\ Saved = saved.tracks[attempt.track]
      /\ Saved.next \in Nat /\ d \in Nat /\ IsFile(file)
  BY <1>2, TrackHas DEF OnTrack
<1>4. DOMAIN attempt' = DOMAIN attempt
  BY <1>1, Zenon
<1>5. /\ attempt'.next = Saved.next /\ attempt'.written = d
      /\ attempt'.plan = attempt.plan /\ attempt'.track = attempt.track
      /\ attempt'.base = attempt.base
  BY <1>1, <1>2 DEF Kept, AttemptKept
<1>6. SameTrack
  BY <1>3, <1>4, <1>5 DEF SameTrack
<1>7. TrackKept(attempt.plan, attempt.track)
  BY <1>2, <1>3 DEF OnTrack, SavedFits
<1> DEFINE wholes == WholeSegments(Fingerprint[attempt.plan], attempt.track, Saved.next)
<1>8. /\ Saved.next <= Planned
      /\ d = 0 => <<>> \in wholes
      /\ file # NoFile => d <= file.synced /\ SubSeq(file.data, 1, d) \in wholes
  BY <1>3, <1>7, Zenon DEF TrackKept, Planned
<1> SUFFICES ASSUME NEW now, staging'[Here'] = now, now # NoFile,
                    Len(now.data) = d, now.data \in wholes,
                    /\ remote' \in Versions /\ FilesKept' /\ SavedKept' /\ JobKept' /\ AttemptKept'
                    /\ TracksKept' /\ OutputKept' /\ OnTrack'
                    /\ Here' = Here /\ Planned' = Planned /\ Saved' = Saved
             PROVE  Kept'
  <2>1. CASE file = NoFile /\ d = 0 /\ Stage(Here, File(<<>>, 0))
    <3>1. /\ File(<<>>, 0) # NoFile /\ IsFile(File(<<>>, 0)) /\ File(<<>>, 0) \in Files
          /\ File(<<>>, 0).data = <<>> /\ Len(<<>>) = 0
      <4>1. <<>> \in Seq(Bytes) /\ Len(<<>>) = 0 /\ 0 <= Len(<<>>) /\ 0 \in Nat
        BY EmptySeq
      <4> QED
        BY ONLY <4>1, FileIs
    <3>2. /\ remote' \in Versions /\ FilesKept' /\ SavedKept' /\ JobKept' /\ AttemptKept'
          /\ TracksKept' /\ OutputKept' /\ OnTrack'
          /\ Here' = Here /\ staging'[Here'] = File(<<>>, 0) /\ Planned' = Planned /\ Saved' = Saved
      BY <1>1, <1>2, <1>6, <2>1, <3>1, OnTrackWrites
    <3> QED
      BY <1>8, <2>1, <3>1, <3>2
  <2>2. CASE file # NoFile /\ Len(file.data) > d /\ Stage(Here, Truncated(file, d))
    <3>1. d <= Len(file.data)
      BY <1>3, <2>2, FileHas
    <3>2. /\ Truncated(file, d) # NoFile /\ IsFile(Truncated(file, d)) /\ Truncated(file, d) \in Files
          /\ Truncated(file, d).data = SubSeq(file.data, 1, d)
          /\ Len(Truncated(file, d).data) = d
          /\ Keeps(file, Truncated(file, d), d)
      <4>1. file # NoFile /\ IsFile(file) /\ d \in Nat /\ d <= Len(file.data) /\ d \in 0..d
        BY <1>3, <2>2, <3>1
      <4> HIDE DEF file, d
      <4> QED
        BY ONLY <4>1, TruncatedIs
    <3>3. /\ remote' \in Versions /\ FilesKept' /\ SavedKept' /\ JobKept' /\ AttemptKept'
          /\ TracksKept' /\ OutputKept' /\ OnTrack'
          /\ Here' = Here /\ staging'[Here'] = Truncated(file, d) /\ Planned' = Planned
          /\ Saved' = Saved
      BY <1>1, <1>2, <1>6, <2>2, <3>2, OnTrackWrites
    <3> QED
      BY <1>8, <2>2, <3>2, <3>3
  <2>3. CASE file # NoFile /\ Len(file.data) = d /\ UNCHANGED files
    <3>1. SubSeq(file.data, 1, d) = file.data
      BY <1>3, <2>3, FileHas, SubSeqFull
    <3>2. /\ remote' \in Versions /\ FilesKept' /\ SavedKept' /\ JobKept' /\ AttemptKept'
          /\ TracksKept' /\ OutputKept' /\ OnTrack'
          /\ Here' = Here /\ staging'[Here'] = file /\ Planned' = Planned /\ Saved' = Saved
      BY <1>1, <1>2, <1>6, <2>3, OnTrackStays
    <3> QED
      BY <1>8, <2>3, <3>1, <3>2
  <2> QED
    BY <1>1, <2>1, <2>2, <2>3
<1>9. AtBoundary'
  <2>1. Saved'.next <= attempt'.next /\ Saved'.durable <= attempt'.written
        /\ attempt'.next <= Planned'
    BY <1>3, <1>5, <1>8
  <2> QED
    BY <1>5, <2>1 DEF AtBoundary
<1>10. PlaceKept'
  BY <1>1, <1>9 DEF Kept, PlaceKept
<1> QED
  BY <1>10 DEF Kept

\* Bytes of the segment arrive (executor.rs:853-895).
LEMMA ReceiveKeeps == Kept /\ Receive => Kept'
<1> SUFFICES ASSUME Kept, Receive PROVE Kept'
  OBVIOUS
<1> DEFINE file == staging[Here]
           now == [file EXCEPT !.data = Append(@, Byte)]
<1>1. /\ pc = "body" /\ stop = "none" /\ attempt.body.left > 0
      /\ UNCHANGED <<remote, saved, job, pc, after, stop>>
      /\ Stage(Here, now)
      /\ attempt' = [attempt EXCEPT !.written = @ + 1, !.reported = Written + 1, !.body.left = @ - 1]
  BY DEF Receive, Appended
<1>2. Running /\ OnTrack /\ InSegment /\ InBody
  BY <1>1 DEF Running, Kept, PlaceKept
<1>3. /\ attempt.plan \in Versions /\ attempt.track \in Tracks(attempt.plan) /\ Planned \in Nat
      /\ attempt.next \in Nat /\ attempt.written \in Nat /\ IsFile(file)
      /\ attempt.track \in {1, 2} /\ Saved.next \in Nat /\ Saved.durable \in Nat
  BY <1>2, TrackHas DEF OnTrack
<1>4. DOMAIN attempt' = DOMAIN attempt /\ DOMAIN attempt'.body = DOMAIN attempt.body
  <2>1. DOMAIN attempt' = DOMAIN attempt
    BY <1>1, Zenon
  <2>2. attempt'.body = [attempt.body EXCEPT !.left = @ - 1]
    BY <1>1, <1>2 DEF Kept, AttemptKept
  <2> QED
    BY <2>1, <2>2, Zenon
<1>5. /\ attempt'.next = attempt.next /\ attempt'.written = attempt.written + 1
      /\ attempt'.plan = attempt.plan /\ attempt'.track = attempt.track
      /\ attempt'.base = attempt.base
      /\ attempt'.body.version = attempt.body.version /\ attempt'.body.start = attempt.body.start
      /\ attempt'.body.left = attempt.body.left - 1
  BY <1>1, <1>2 DEF Kept, AttemptKept, InBody
<1>6. SameTrack
  BY <1>3, <1>4, <1>5 DEF SameTrack
<1>7. /\ file # NoFile /\ file.data \in Seq(Bytes) /\ Len(file.data) \in Nat
      /\ file.synced \in Nat /\ file.synced <= Len(file.data)
  BY <1>2, <1>3, FileHas DEF InSegment
<1>8. Byte \in Bytes
  BY <1>2, <1>3 DEF Byte, Bytes, InBody
<1>9. /\ now # NoFile /\ IsFile(now) /\ now \in Files
      /\ now.data = Append(file.data, Byte) /\ Len(now.data) = Len(file.data) + 1
      /\ now.synced = file.synced /\ now.data[Len(file.data) + 1] = Byte
      /\ \A i \in 1..Len(file.data) : now.data[i] = file.data[i]
      /\ \A d \in Nat : d <= Len(file.data) => SubSeq(now.data, 1, d) = SubSeq(file.data, 1, d)
  <2>1. file # NoFile /\ IsFile(file) /\ Byte \in Bytes
    BY <1>3, <1>7, <1>8
  <2> HIDE DEF file
  <2> QED
    BY ONLY <2>1, AppendedIs
<1> HIDE DEF now
<1>10. Saved.durable <= file.synced
  <2>1. TrackKept(attempt.plan, attempt.track)
    BY <1>2, <1>3 DEF OnTrack, SavedFits
  <2> QED
    BY <1>7, <2>1 DEF TrackKept, Here, Saved
<1>11. Keeps(file, now, Saved.durable)
  <2>1. Saved.durable <= Len(file.data)
    BY <1>3, <1>7, <1>10
  <2> QED
    BY <1>3, <1>9, <1>10, <2>1 DEF Keeps
<1>12. /\ remote' \in Versions /\ FilesKept' /\ SavedKept' /\ JobKept' /\ AttemptKept'
       /\ TracksKept' /\ OutputKept' /\ OnTrack'
       /\ Here' = Here /\ staging'[Here'] = now /\ Planned' = Planned /\ Saved' = Saved
  BY <1>1, <1>2, <1>6, <1>7, <1>9, <1>11, OnTrackWrites
<1> HIDE DEF file
<1>13. /\ attempt.next < Planned
       /\ Saved.next <= attempt.next /\ Saved.durable <= attempt.body.start
       /\ attempt.body.start \in Nat /\ attempt.body.start <= Len(file.data)
       /\ SubSeq(file.data, 1, attempt.body.start) \in
            WholeSegments(Fingerprint[attempt.plan], attempt.track, attempt.next)
  BY <1>2 DEF InSegment, file
<1>14. InSegment'
  <2>1. SubSeq(now.data, 1, attempt.body.start) = SubSeq(file.data, 1, attempt.body.start)
    BY <1>9, <1>13
  <2>2. attempt.body.start <= Len(now.data)
    BY <1>7, <1>9, <1>13
  <2> QED
    BY <1>5, <1>9, <1>12, <1>13, <2>1, <2>2 DEF InSegment
<1>15. InBody'
  <2> DEFINE size == Segments[attempt.body.version][attempt.track][attempt.next + 1]
  <2>1. /\ DOMAIN attempt.body = {"kind", "version", "start", "left"}
        /\ attempt.body.version \in Versions
        /\ Fingerprint[attempt.body.version] = Fingerprint[attempt.plan]
        /\ attempt.body.left \in Nat
        /\ attempt.written = Len(file.data)
        /\ attempt.written + attempt.body.left = attempt.body.start + size
        /\ \A i \in (attempt.body.start + 1)..attempt.written : file.data[i] = Byte
    BY <1>2 DEF InBody, file
  <2> HIDE DEF size
  <2>2. (attempt.written + 1) + (attempt.body.left - 1) = attempt.body.start + size
        /\ attempt.body.left - 1 \in Nat /\ attempt.written + 1 = Len(now.data)
    <3>1. attempt.body.left > 0
      BY <1>1
    <3>2. Len(now.data) = Len(file.data) + 1
      BY <1>9
    <3>3. attempt.written \in Nat /\ attempt.body.left \in Nat
      BY <1>3, <2>1
    <3>4. attempt.body.left - 1 \in Nat
      BY ONLY <3>1, <3>3
    <3>5. (attempt.written + 1) + (attempt.body.left - 1) = attempt.written + attempt.body.left
      BY ONLY <3>3
    <3> QED
      BY <2>1, <3>2, <3>4, <3>5
  <2>3. Byte' = Byte
    BY <1>5 DEF Byte
  <2>4. \A i \in (attempt.body.start + 1)..(attempt.written + 1) : now.data[i] = Byte
    <3> TAKE i \in (attempt.body.start + 1)..(attempt.written + 1)
    <3>1. CASE i = attempt.written + 1
      BY <1>9, <2>1, <3>1
    <3>2. CASE i # attempt.written + 1
      <4>1. \A start, written \in Nat :
              i \in (start + 1)..(written + 1) /\ i # written + 1 =>
                i \in (start + 1)..written /\ i \in 1..written
        OBVIOUS
      <4>2. attempt.body.start \in Nat /\ attempt.written \in Nat /\ attempt.written = Len(file.data)
        BY <1>3, <1>13, <2>1
      <4>3. i \in (attempt.body.start + 1)..attempt.written /\ i \in 1..Len(file.data)
        BY <3>2, <4>1, <4>2
      <4> QED
        BY <1>9, <2>1, <4>3
    <3> QED
      BY <3>1, <3>2
  <2> QED
    BY <1>4, <1>5, <1>12, <2>1, <2>2, <2>3, <2>4 DEF InBody, size
<1>16. PlaceKept'
  BY <1>1, <1>12, <1>14, <1>15 DEF Kept, PlaceKept
<1> QED
  BY <1>12, <1>16 DEF Kept

\* A chunk is written in part, or not at all (executor.rs:875-888).
LEMMA WriteFailsKeeps ==
    ASSUME Kept, NEW status \in {"retryable", "failed"}, WriteFails(status)
    PROVE  Kept'
<1> DEFINE file == staging[Here]
           now == [file EXCEPT !.data = Append(@, Byte)]
<1>1. /\ pc = "body" /\ pc' = "truncate" /\ after' = status
      /\ UNCHANGED <<remote, saved, job, attempt, stop>>
      /\ Stage(Here, now) \/ UNCHANGED files
  BY DEF WriteFails, Appended, Abandon
<1>2. Running /\ OnTrack /\ InSegment /\ InBody /\ SameTrack
  BY <1>1, SameAttempt DEF Running, Kept, PlaceKept
<1>3. CASE UNCHANGED files
  <2>1. /\ remote' \in Versions /\ FilesKept' /\ SavedKept' /\ JobKept' /\ AttemptKept'
        /\ TracksKept' /\ OutputKept' /\ OnTrack'
        /\ Here' = Here /\ staging'[Here'] = staging[Here] /\ Planned' = Planned /\ Saved' = Saved
    BY <1>1, <1>2, <1>3, OnTrackStays
  <2>2. InSegment'
    BY <1>1, <1>2, <2>1 DEF InSegment
  <2>3. PlaceKept'
    BY <1>1, <2>1, <2>2 DEF Kept, PlaceKept, Leads
  <2> QED
    BY <2>1, <2>3 DEF Kept
<1>4. CASE Stage(Here, now)
  <2>1. /\ attempt.plan \in Versions /\ attempt.track \in Tracks(attempt.plan) /\ Planned \in Nat
        /\ attempt.next \in Nat /\ attempt.written \in Nat /\ IsFile(file)
        /\ attempt.track \in {1, 2} /\ Saved.next \in Nat /\ Saved.durable \in Nat
    BY <1>2, TrackHas DEF OnTrack
  <2>2. /\ file # NoFile /\ file.data \in Seq(Bytes) /\ Len(file.data) \in Nat
        /\ file.synced \in Nat /\ file.synced <= Len(file.data)
    BY <1>2, <2>1, FileHas DEF InSegment
  <2>3. Byte \in Bytes
    BY <1>2, <2>1 DEF Byte, Bytes, InBody
  <2>4. /\ now # NoFile /\ IsFile(now) /\ now \in Files
        /\ Len(now.data) = Len(file.data) + 1 /\ now.synced = file.synced
        /\ \A d \in Nat : d <= Len(file.data) => SubSeq(now.data, 1, d) = SubSeq(file.data, 1, d)
    <3> HIDE DEF file
    <3> QED
      BY <2>1, <2>2, <2>3, AppendedIs
  <2> HIDE DEF now
  <2>5. Saved.durable <= file.synced
    <3>1. TrackKept(attempt.plan, attempt.track)
      BY <1>2, <2>1 DEF OnTrack, SavedFits
    <3> QED
      BY <2>2, <3>1 DEF TrackKept, Here, Saved
  <2>6. Keeps(file, now, Saved.durable)
    <3>1. Saved.durable <= Len(file.data)
      BY <2>1, <2>2, <2>5
    <3> QED
      BY <2>1, <2>4, <2>5, <3>1 DEF Keeps
  <2>7. /\ remote' \in Versions /\ FilesKept' /\ SavedKept' /\ JobKept' /\ AttemptKept'
        /\ TracksKept' /\ OutputKept' /\ OnTrack'
        /\ Here' = Here /\ staging'[Here'] = now /\ Planned' = Planned /\ Saved' = Saved
    BY <1>1, <1>2, <1>4, <2>2, <2>4, <2>6, OnTrackWrites
  <2> HIDE DEF file
  <2>8. /\ attempt.next < Planned
        /\ Saved.next <= attempt.next /\ Saved.durable <= attempt.body.start
        /\ attempt.body.start \in Nat /\ attempt.body.start <= Len(file.data)
        /\ SubSeq(file.data, 1, attempt.body.start) \in
             WholeSegments(Fingerprint[attempt.plan], attempt.track, attempt.next)
    BY <1>2 DEF InSegment, file
  <2>9. InSegment'
    <3>1. SubSeq(now.data, 1, attempt.body.start) = SubSeq(file.data, 1, attempt.body.start)
      BY <2>4, <2>8
    <3>2. attempt.body.start <= Len(now.data)
      BY <2>2, <2>4, <2>8
    <3> QED
      BY <1>1, <2>4, <2>7, <2>8, <3>1, <3>2 DEF InSegment
  <2>10. PlaceKept'
    BY <1>1, <2>7, <2>9 DEF Kept, PlaceKept, Leads
  <2> QED
    BY <2>7, <2>10 DEF Kept
<1> QED
  BY <1>1, <1>3, <1>4

\* The part of a segment is cut off (executor.rs:1008-1014).
LEMMA TruncateKeeps == Kept /\ Truncate => Kept'
<1> SUFFICES ASSUME Kept, Truncate PROVE Kept'
  OBVIOUS
<1> DEFINE file == staging[Here]
           start == attempt.body.start
           now == Truncated(file, start)
<1>1. /\ pc = "truncate" /\ pc' = "sync" /\ UNCHANGED <<remote, saved, job, after, stop>>
      /\ Stage(Here, now)
      /\ attempt' = [attempt EXCEPT !.written = start, !.body = NoBody]
  BY DEF Truncate, Goto
<1>2. Running /\ OnTrack /\ InSegment /\ Leads
  BY <1>1 DEF Running, Kept, PlaceKept
<1>3. /\ attempt.plan \in Versions /\ attempt.track \in Tracks(attempt.plan) /\ Planned \in Nat
      /\ attempt.next \in Nat /\ IsFile(file)
      /\ Saved.next \in Nat /\ Saved.durable \in Nat
  BY <1>2, TrackHas DEF OnTrack
<1>4. /\ file # NoFile /\ attempt.next < Planned
      /\ Saved.next <= attempt.next /\ Saved.durable <= start
      /\ start \in Nat /\ start <= Len(file.data)
      /\ SubSeq(file.data, 1, start) \in
           WholeSegments(Fingerprint[attempt.plan], attempt.track, attempt.next)
  BY <1>2 DEF InSegment
<1>5. DOMAIN attempt' = DOMAIN attempt
  BY <1>1, Zenon
<1>6. /\ attempt'.next = attempt.next /\ attempt'.written = start
      /\ attempt'.plan = attempt.plan /\ attempt'.track = attempt.track
      /\ attempt'.base = attempt.base
  BY <1>1, <1>2 DEF Kept, AttemptKept
<1>7. SameTrack
  BY <1>3, <1>4, <1>5, <1>6 DEF SameTrack
<1> HIDE DEF file, start
<1>8. /\ now # NoFile /\ IsFile(now) /\ now \in Files
      /\ now.data = SubSeq(file.data, 1, start) /\ Len(now.data) = start /\ now.synced = start
      /\ \A d \in 0..start : Keeps(file, now, d)
  BY <1>3, <1>4, TruncatedIs
<1> HIDE DEF now
<1>9. Keeps(file, now, Saved.durable)
  BY <1>3, <1>4, <1>8
<1>10. /\ remote' \in Versions /\ FilesKept' /\ SavedKept' /\ JobKept' /\ AttemptKept'
       /\ TracksKept' /\ OutputKept' /\ OnTrack'
       /\ Here' = Here /\ staging'[Here'] = now /\ Planned' = Planned /\ Saved' = Saved
  BY <1>1, <1>2, <1>4, <1>7, <1>8, <1>9, OnTrackWrites DEF file
<1>11. AtBoundary'
  <2>1. attempt.next <= Planned
    BY <1>3, <1>4
  <2> QED
    BY <1>4, <1>6, <1>8, <1>10, <2>1 DEF AtBoundary
<1>12. Leads'
  BY <1>1, <1>2, <1>6, <1>10 DEF Leads
<1>13. PlaceKept'
  BY <1>1, <1>10, <1>11, <1>12 DEF Kept, PlaceKept
<1> QED
  BY <1>10, <1>13 DEF Kept

\* The file reaches the platter before the database (executor.rs:1016-1028).
LEMMA SyncKeeps == Kept /\ Sync => Kept'
<1> SUFFICES ASSUME Kept, Sync PROVE Kept'
  OBVIOUS
<1> DEFINE file == staging[Here]
           now == [file EXCEPT !.synced = Len(file.data)]
<1>1. /\ pc = "sync" /\ pc' = "save" /\ UNCHANGED <<remote, saved, job, attempt, after, stop>>
      /\ Stage(Here, now)
  BY DEF Sync, Goto
<1>2. Running /\ OnTrack /\ AtBoundary /\ Leads /\ SameTrack
  BY <1>1, SameAttempt DEF Running, Kept, PlaceKept
<1>3. /\ attempt.plan \in Versions /\ attempt.track \in Tracks(attempt.plan)
      /\ IsFile(file) /\ Saved.durable \in Nat
  BY <1>2, TrackHas DEF OnTrack
<1>4. file # NoFile /\ attempt.written = Len(file.data) /\ Saved.durable <= attempt.written
  BY <1>2 DEF AtBoundary
<1> HIDE DEF file
<1>5. /\ now # NoFile /\ IsFile(now) /\ now \in Files
      /\ now.data = file.data /\ now.synced = Len(file.data)
  BY <1>3, <1>4, SyncedIs
<1> HIDE DEF now
<1>6. Keeps(file, now, Saved.durable)
  BY <1>4, <1>5 DEF Keeps
<1>7. /\ remote' \in Versions /\ FilesKept' /\ SavedKept' /\ JobKept' /\ AttemptKept'
      /\ TracksKept' /\ OutputKept' /\ OnTrack'
      /\ Here' = Here /\ staging'[Here'] = now /\ Planned' = Planned /\ Saved' = Saved
  BY <1>1, <1>2, <1>4, <1>5, <1>6, OnTrackWrites DEF file
<1>8. AtBoundary'
  BY <1>1, <1>2, <1>5, <1>7 DEF AtBoundary, file
<1>9. Leads'
  BY <1>1, <1>2, <1>7 DEF Leads
<1>10. staging'[Here'].synced = attempt'.written
  BY <1>1, <1>4, <1>5, <1>7
<1>11. PlaceKept'
  BY <1>1, <1>7, <1>8, <1>9, <1>10 DEF Kept, PlaceKept
<1> QED
  BY <1>7, <1>11 DEF Kept

\* The checkpoint of a track is moved to the position of the attempt.
Moved(c) == saved' = [saved EXCEPT !.tracks[attempt.track] = c]

\* What is saved then fits the plan.
LEMMA MovedFits ==
    ASSUME Kept, Running, OnTrack, AtBoundary, staging[Here].synced = attempt.written,
           UNCHANGED files,
           Moved([next |-> attempt.next, durable |-> attempt.written])
    PROVE  /\ \A v \in Versions : v = attempt.plan => SavedFits(v)'
           /\ SavedKept' /\ TracksKept'
           /\ saved' # NoState /\ DOMAIN saved'.tracks = Tracks(attempt.plan)
           /\ Len(saved'.tracks) = Len(Segments[attempt.plan])
           /\ saved'.tracks[attempt.track].next = attempt.next
           /\ saved'.tracks[attempt.track].durable = attempt.written
           /\ \A t \in Tracks(attempt.plan) : t # attempt.track => saved'.tracks[t] = saved.tracks[t]
<1> DEFINE p == attempt.plan
           k == attempt.track
           c == [next |-> attempt.next, durable |-> attempt.written]
           tracks == [saved.tracks EXCEPT ![k] = c]
           file == staging[Here]
<1>1. /\ p \in Versions /\ k \in Tracks(p) /\ k \in {1, 2} /\ Planned \in Nat
      /\ Here = Path(Len(Segments[p]), k)
      /\ Saved = saved.tracks[k] /\ Saved.next \in Nat
      /\ attempt.next \in Nat /\ attempt.written \in Nat /\ IsFile(file)
      /\ SavedFits(p)
  BY TrackHas DEF OnTrack
<1>2. /\ file # NoFile /\ attempt.next <= Planned /\ Saved.next <= attempt.next
      /\ attempt.written = Len(file.data)
      /\ file.data \in WholeSegments(Fingerprint[p], k, attempt.next)
  BY DEF AtBoundary
<1>3. file.data \in Seq(Bytes) /\ Len(file.data) \in Nat
  BY <1>1, <1>2, FileHas
<1>4. /\ saved = State(Fingerprint[p], saved.tracks) /\ saved.tracks \in Seq(Checkpoints)
      /\ Len(saved.tracks) = Len(Segments[p]) /\ DOMAIN saved.tracks = Tracks(p)
  BY <1>1, FitsHas
<1>5. c \in Checkpoints /\ c.next = attempt.next /\ c.durable = attempt.written
  BY <1>1 DEF Checkpoints
<1>6. saved' = State(Fingerprint[p], tracks)
  <2>1. saved' = [saved EXCEPT !.tracks = tracks]
    BY DEF Moved
  <2> HIDE DEF tracks, p
  <2>2. [State(Fingerprint[p], saved.tracks) EXCEPT !.tracks = tracks] = State(Fingerprint[p], tracks)
    BY DEF State
  <2> QED
    BY <1>4, <2>1, <2>2
<1> HIDE DEF c
<1>7. /\ tracks \in Seq(Checkpoints) /\ Len(tracks) = Len(saved.tracks)
      /\ \A t \in 1..Len(saved.tracks) : tracks[t] = IF t = k THEN c ELSE saved.tracks[t]
  <2>1. k \in 1..Len(saved.tracks)
    BY <1>1, <1>4 DEF Tracks
  <2> HIDE DEF k
  <2> QED
    BY ONLY <1>4, <1>5, <2>1, ExceptSeq
<1> HIDE DEF tracks
<1>8. saved'.tracks = tracks /\ saved' # NoState
  BY <1>6 DEF State, NoState
<1>9. \A t \in Tracks(p) : tracks[t] = IF t = k THEN c ELSE saved.tracks[t]
  BY <1>4, <1>7 DEF Tracks
<1>10. DOMAIN tracks = Tracks(p)
  BY <1>4, <1>7, LenProperties DEF Tracks
<1>11. /\ attempt.next <= Len(Segments[p][k])
       /\ attempt.next = 0 => attempt.written = 0
       /\ attempt.written = 0 => <<>> \in WholeSegments(Fingerprint[p], k, attempt.next)
       /\ attempt.written <= file.synced
       /\ SubSeq(file.data, 1, attempt.written) \in WholeSegments(Fingerprint[p], k, attempt.next)
  <2>1. attempt.next <= Len(Segments[p][k])
    BY <1>2 DEF Planned
  <2>2. attempt.next = 0 => attempt.written = 0
    <3> SUFFICES ASSUME attempt.next = 0 PROVE attempt.written = 0
      OBVIOUS
    <3>1. file.data = <<>>
      BY <1>2, NoSegments
    <3> QED
      BY <1>2, <3>1, EmptySeq
  <2>3. attempt.written = 0 => <<>> \in WholeSegments(Fingerprint[p], k, attempt.next)
    <3> SUFFICES ASSUME attempt.written = 0
                 PROVE  <<>> \in WholeSegments(Fingerprint[p], k, attempt.next)
      OBVIOUS
    <3>1. file.data = <<>>
      BY <1>2, <1>3, EmptySeq
    <3> QED
      BY <1>2, <3>1
  <2>4. attempt.written <= file.synced
    BY <1>1
  <2>5. SubSeq(file.data, 1, attempt.written) = file.data
    BY <1>2, <1>3, SubSeqFull
  <2> QED
    BY <1>2, <2>1, <2>2, <2>3, <2>4, <2>5
<1>12. \A v, t : v = p /\ t = k => TrackKept(v, t)'
  <2>1. saved'.tracks[k].next = attempt.next /\ saved'.tracks[k].durable = attempt.written
    BY <1>1, <1>5, <1>8, <1>9
  <2> HIDE DEF file
  <2>2. staging'[Path(Len(Segments[p]), k)] = file
    BY <1>1 DEF file, files
  <2> SUFFICES ASSUME NEW v, NEW t, v = p, t = k PROVE TrackKept(v, t)'
    OBVIOUS
  <2>3. saved'.tracks[t].next = attempt.next /\ saved'.tracks[t].durable = attempt.written
        /\ staging'[Path(Len(Segments[v]), t)] = file
    BY <2>1, <2>2
  <2>4. /\ attempt.next <= Len(Segments[v][t])
        /\ attempt.next = 0 => attempt.written = 0
        /\ attempt.written = 0 => <<>> \in WholeSegments(Fingerprint[v], t, attempt.next)
        /\ attempt.written <= file.synced
        /\ SubSeq(file.data, 1, attempt.written) \in WholeSegments(Fingerprint[v], t, attempt.next)
    BY <1>11
  <2> QED
    BY <2>3, <2>4 DEF TrackKept
<1>13. \A v, t : v = p /\ t \in Tracks(p) /\ t # k => TrackKept(v, t)'
  <2> SUFFICES ASSUME NEW v, NEW t, v = p, t \in Tracks(p), t # k PROVE TrackKept(v, t)'
    OBVIOUS
  <2>1. TrackKept(v, t)
    BY <1>1 DEF SavedFits
  <2>2. saved'.tracks[t] = saved.tracks[t]
    BY <1>8, <1>9
  <2>3. staging' = staging
    BY DEF files
  <2> QED
    BY <2>1, <2>2, <2>3 DEF TrackKept
<1>14. Len(Segments[p]) = 2 /\ tracks[2].next > 0 => tracks[1].next = Len(Segments[p][1])
  <2> SUFFICES ASSUME Len(Segments[p]) = 2, tracks[2].next > 0
               PROVE  tracks[1].next = Len(Segments[p][1])
    OBVIOUS
  <2>0. 1 \in Tracks(p) /\ 2 \in Tracks(p)
    BY <1>1, TracksAre
  <2>1. CASE k = 1
    <3>1. saved.tracks[2].next > 0
      BY <1>9, <2>0, <2>1
    <3>2. saved.tracks[1].next = Len(Segments[p][1])
      BY <1>1, <3>1 DEF SavedFits
    <3>3. Planned = Len(Segments[p][1]) /\ Saved.next = Planned
      BY <1>1, <2>1, <3>2 DEF Planned
    <3>4. attempt.next = Planned
      BY <1>1, <1>2, <3>3
    <3> QED
      BY <1>5, <1>9, <2>0, <2>1, <3>3, <3>4
  <2>2. CASE k = 2
    <3>1. Fetched(1)
      BY <2>2 DEF OnTrack
    <3>2. saved.tracks[1].next = Len(Segments[p][1])
      BY <3>1 DEF Fetched
    <3> QED
      BY <1>9, <2>0, <2>2, <3>2
  <2> QED
    BY <1>1, <2>1, <2>2
<1>15. \A v \in Versions : v = p => SavedFits(v)'
  <2> SUFFICES ASSUME NEW v \in Versions, v = p PROVE SavedFits(v)'
    OBVIOUS
  <2>1. \A t \in Tracks(v) : TrackKept(v, t)'
    BY <1>12, <1>13
  <2>2. saved' = State(Fingerprint[v], saved'.tracks)
    BY <1>6, <1>8
  <2>3. saved'.tracks \in Seq(Checkpoints) /\ Len(saved'.tracks) = Len(Segments[v])
    BY <1>4, <1>7, <1>8
  <2>4. Len(Segments[v]) = 2 /\ saved'.tracks[2].next > 0 =>
          saved'.tracks[1].next = Len(Segments[v][1])
    BY <1>8, <1>14
  <2> HIDE DEF p
  <2> QED
    BY <2>1, <2>2, <2>3, <2>4 DEF SavedFits
<1>16. SavedKept'
  BY <1>1, <1>15 DEF SavedKept
<1>17. TracksKept'
  <2>1. saved # NoState /\ Len(saved'.tracks) = Len(saved.tracks) /\ saved' # NoState
    BY <1>1, <1>7, <1>8, FitsHas
  <2> QED
    BY <2>1 DEF Kept, TracksKept, files
<1> QED
  BY <1>1, <1>4, <1>5, <1>7, <1>8, <1>9, <1>10, <1>15, <1>16, <1>17

\* What an attempt has fetched by the end of a checkpoint is what is saved.
LEMMA SavedIsFetched ==
    ASSUME NEW v \in Versions, NEW state, NEW k \in Tracks(v), NEW base \in Nat, NEW written \in Nat,
           DOMAIN state.tracks = Tracks(v),
           \A t \in Tracks(v) : state.tracks[t].durable \in Nat,
           state.tracks[k].durable = written,
           k = 1 => base = 0 /\ \A t \in Tracks(v) : t # 1 => state.tracks[t].durable = 0,
           k = 2 => base = state.tracks[1].durable
    PROVE  base + written = StartingBytes(state)
<1> DEFINE fun == [t \in DOMAIN state.tracks |-> state.tracks[t].durable]
<1>0. StartingBytes(state) = SumFunction(fun)
  BY DEF StartingBytes
<1>1. DOMAIN fun = Tracks(v) /\ \A t \in Tracks(v) : fun[t] = state.tracks[t].durable
  OBVIOUS
<1> HIDE DEF fun
<1>2. CASE Tracks(v) = {1}
  <2>1. fun[1] \in Nat /\ fun[1] = written /\ base = 0
    BY <1>1, <1>2
  <2>2. SumFunction(fun) = fun[1]
    BY <1>1, <1>2, <2>1, SumOfOne
  <2> QED
    BY <1>0, <2>1, <2>2
<1>3. CASE Tracks(v) = {1, 2}
  <2>1. fun[1] \in Nat /\ fun[2] \in Nat
    BY <1>1, <1>3
  <2>2. SumFunction(fun) = fun[1] + fun[2]
    BY <1>1, <1>3, <2>1, SumOfTwo
  <2>3. fun[1] + fun[2] = base + written
    <3>1. CASE k = 1
      <4>1. fun[1] = written /\ fun[2] = 0 /\ base = 0
        BY <1>1, <1>3, <3>1
      <4> QED
        BY <4>1
    <3>2. CASE k = 2
      <4>1. fun[2] = written /\ base = fun[1]
        BY <1>1, <1>3, <3>2
      <4> QED
        BY <4>1
    <3> QED
      BY <1>3, <3>1, <3>2
  <2> QED
    BY <1>0, <2>2, <2>3
<1>4. Tracks(v) = {1} \/ Tracks(v) = {1, 2}
  BY TracksAre
<1> QED
  BY <1>2, <1>3, <1>4

\* What a checkpoint is made of, and where it leads (stream_resume.rs:149-232,
\* executor.rs:670-775).
LEMMA SaveCheckpointKeeps == Kept /\ SaveCheckpoint => Kept'
<1> SUFFICES ASSUME Kept, SaveCheckpoint PROVE Kept'
  OBVIOUS
<1> DEFINE p == attempt.plan
           k == attempt.track
           file == staging[Here]
<1>1. /\ pc = "save" /\ UNCHANGED <<remote, files, job, stop>> /\ CheckpointDone
      /\ Moved([next |-> attempt.next, durable |-> attempt.written])
  BY DEF SaveCheckpoint, Moved
<1>2. Running /\ OnTrack /\ AtBoundary /\ Leads /\ file.synced = attempt.written
  BY <1>1 DEF Running, Kept, PlaceKept
<1>3. /\ p \in Versions /\ k \in Tracks(p) /\ k \in {1, 2} /\ Planned \in Nat
      /\ Here = Path(Len(Segments[p]), k) /\ Here \in Staging
      /\ Saved = saved.tracks[k] /\ Saved.next \in Nat
      /\ attempt.base \in Nat /\ attempt.next \in Nat /\ attempt.written \in Nat /\ IsFile(file)
      /\ SavedFits(p)
  BY <1>2, TrackHas DEF OnTrack
<1>4. /\ file # NoFile /\ attempt.next <= Planned /\ Saved.next <= attempt.next
      /\ attempt.written = Len(file.data)
      /\ file.data \in WholeSegments(Fingerprint[p], k, attempt.next)
  BY <1>2 DEF AtBoundary
<1>5. /\ \A v \in Versions : v = attempt.plan => SavedFits(v)'
      /\ SavedKept' /\ TracksKept'
      /\ saved' # NoState /\ DOMAIN saved'.tracks = Tracks(attempt.plan)
      /\ Len(saved'.tracks) = Len(Segments[attempt.plan])
      /\ saved'.tracks[attempt.track].next = attempt.next
      /\ saved'.tracks[attempt.track].durable = attempt.written
      /\ \A t \in Tracks(attempt.plan) : t # attempt.track => saved'.tracks[t] = saved.tracks[t]
  BY <1>1, <1>2, MovedFits
<1>6. remote' \in Versions /\ FilesKept' /\ SameJob
  BY <1>1 DEF Kept, FilesKept, files, SameJob
<1>7. ASSUME UNCHANGED attempt PROVE SavedFits(attempt.plan)'
  BY <1>3, <1>5, <1>7 DEF SavedFits, TrackKept
<1>8. k = 2 => saved'.tracks[1] = saved.tracks[1]
  BY <1>3, <1>5, TracksAre
<1>9. ASSUME Running', attempt' = attempt, pc' # "record", pc' \notin {"unlink", "clear", "discard"},
             PlaceKept'
      PROVE  Kept'
  <2>1. JobKept' /\ AttemptKept'
    BY <1>1, <1>2, <1>6, <1>9, SameJobKeeps DEF Kept, AttemptKept, files
  <2>2. OutputKept'
    BY <1>9 DEF OutputKept, Published
  <2> QED
    BY <1>5, <1>6, <1>9, <2>1, <2>2 DEF Kept
<1>10. CASE after = "segment" /\ pc' = "segment" /\ UNCHANGED <<attempt, after>>
  <2>1. OnTrack'
    BY <1>1, <1>2, <1>7, <1>8, <1>10 DEF OnTrack, Fetched, files
  <2>2. Here' = Here /\ Planned' = Planned /\ staging' = staging
    BY <1>1, <1>10 DEF Here, Planned, files
  <2>3. Saved'.next = attempt.next /\ Saved'.durable = attempt.written
    BY <1>5, <1>10 DEF Saved
  <2>4. AtBoundary'
    BY <1>3, <1>4, <1>10, <2>2, <2>3 DEF AtBoundary
  <2>5. PlaceKept'
    BY <1>1, <1>10, <2>1, <2>4 DEF Kept, PlaceKept
  <2> QED
    BY <1>9, <1>10, <2>5 DEF Running
<1>11. CASE after = "tracked" /\ TrackDone /\ UNCHANGED after
  <2>1. attempt.next = Planned
    BY <1>2, <1>11 DEF Leads
  <2>2. CASE k < Len(Segments[p])
    <3>1. /\ attempt' = [attempt EXCEPT !.track = @ + 1, !.base = Written, !.next = 0, !.written = 0]
          /\ pc' = "open"
      BY <1>11, <2>2 DEF TrackDone, Goto
    <3>2. k = 1 /\ Len(Segments[p]) = 2 /\ Tracks(p) = 1..Len(Segments[p])
      <4>1. Len(Segments[p]) \in {1, 2} /\ Tracks(p) = 1..Len(Segments[p])
        BY <1>3, TracksAre
      <4>2. \A x \in {1, 2}, count \in {1, 2} : x < count => x = 1 /\ count = 2
        OBVIOUS
      <4>3. k \in {1, 2}
        BY <1>3
      <4> HIDE DEF p, k
      <4> QED
        BY <2>2, <4>1, <4>2, <4>3
    <3>3. DOMAIN attempt' = DOMAIN attempt
      BY <3>1, Zenon
    <3>4. attempt.base = 0 /\ Written = attempt.written
      BY <1>2, <1>3, <3>2 DEF OnTrack, Written
    <3>5. /\ attempt'.plan = p /\ attempt'.track = 2 /\ attempt'.base = attempt.written
          /\ attempt'.next = 0 /\ attempt'.written = 0
      BY <1>2, <3>1, <3>2, <3>4 DEF Kept, AttemptKept
    <3>6. Running'
      BY <3>1 DEF Running
    <3>7. AttemptKept'
      BY <1>2, <1>3, <3>2, <3>3, <3>5, <3>6 DEF Kept, AttemptKept
    <3>8. JobKept'
      BY <1>1, <1>2, <1>6, <3>6, SameJobKeeps DEF Kept, files
    <3>9. OutputKept'
      BY <3>1 DEF OutputKept, Published, Running
    <3>10. SavedFits(attempt.plan)'
      BY <1>3, <1>5, <3>5 DEF SavedFits, TrackKept
    <3>11. Fetched(1)'
      <4>1. staging'[Path(Len(Segments[p]), 1)] = file
        BY <1>1, <1>3, <3>2 DEF files
      <4>2. Planned = Len(Segments[p][1])
        BY <3>2 DEF Planned
      <4> HIDE DEF file
      <4> QED
        BY <1>4, <1>5, <2>1, <3>2, <3>5, <4>1, <4>2 DEF Fetched
    <3>12. OnTrack'
      BY <1>5, <3>2, <3>5, <3>10, <3>11 DEF OnTrack
    <3>13. PlaceKept'
      BY <1>1, <3>1, <3>12 DEF Kept, PlaceKept
    <3> QED
      BY <1>5, <1>6, <3>7, <3>8, <3>9, <3>13 DEF Kept
  <2>3. CASE ~(k < Len(Segments[p])) /\ Len(Segments[p]) = 1
    <3>1. pc' = "staged" /\ UNCHANGED attempt
      BY <1>11, <2>3 DEF TrackDone, Goto
    <3>2. k = 1 /\ Here = "part"
      BY <1>3, <2>3, TracksAre
    <3>3. Planned = Len(Segments[p][1])
      BY <3>2 DEF Planned
    <3>4. file.data \in WholePresentations(p)
      BY <1>3, <1>4, <2>1, <2>3, <3>2, <3>3, PresentationOfOne
    <3>5. WholeFile(staging'["part"])
      BY <1>1, <1>2, <1>3, <1>4, <3>2, <3>4 DEF WholeFile, files
    <3>6. PlaceKept'
      BY <1>1, <3>1, <3>5 DEF Kept, PlaceKept
    <3> QED
      BY <1>9, <3>1, <3>6 DEF Running
  <2>4. CASE ~(k < Len(Segments[p])) /\ Len(Segments[p]) = 2
    <3>1. pc' = "mux" /\ UNCHANGED attempt
      BY <1>11, <2>4 DEF TrackDone, Goto
    <3>2. k = 2
      BY <1>3, <2>4
    <3>3. Planned = Len(Segments[p][2])
      BY <3>2 DEF Planned
    <3>4. Fetched(1)'
      BY <1>1, <1>2, <1>8, <3>1, <3>2 DEF OnTrack, Fetched, files
    <3>5. Fetched(2)'
      <4>1. staging'[Path(Len(Segments[p]), 2)] = file
        BY <1>1, <1>3, <3>2 DEF files
      <4> HIDE DEF file
      <4> QED
        BY <1>4, <1>5, <2>1, <3>1, <3>2, <3>3, <4>1 DEF Fetched
    <3>6. PlaceKept'
      BY <1>1, <1>7, <2>4, <3>1, <3>4, <3>5 DEF Kept, PlaceKept
    <3> QED
      BY <1>9, <3>1, <3>6 DEF Running
  <2> QED
    BY <1>3, <2>2, <2>3, <2>4, TracksAre
<1>12. CASE after = "stopped" /\ pc' = (IF stop = "cancel" THEN "remove" ELSE "stopped")
            /\ UNCHANGED <<attempt, after>>
  <2>1. attempt.next < Planned /\ stop # "none"
    BY <1>2, <1>12 DEF Leads
  <2>2. CASE stop = "cancel"
    <3>1. pc' = "remove"
      BY <1>12, <2>2
    <3>2. PlaceKept'
      BY <1>1, <2>2, <3>1 DEF Kept, PlaceKept
    <3> QED
      BY <1>9, <1>12, <3>1, <3>2 DEF Running
  <2>3. CASE stop # "cancel"
    <3>1. pc' = "stopped"
      BY <1>12, <2>3
    <3>2. k = 1 => \A t \in Tracks(p) : t # 1 => saved'.tracks[t].durable = 0 /\ saved'.tracks[t] = saved.tracks[t]
      <4> SUFFICES ASSUME k = 1, NEW t \in Tracks(p), t # 1
                   PROVE  saved'.tracks[t].durable = 0 /\ saved'.tracks[t] = saved.tracks[t]
        OBVIOUS
      <4>1. t = 2 /\ Len(Segments[p]) = 2
        BY <1>3, TracksAre
      <4>2. Planned = Len(Segments[p][1]) /\ Saved = saved.tracks[1]
        BY <1>3 DEF Planned
      <4>3. saved.tracks[1].next # Len(Segments[p][1])
        BY <1>3, <1>4, <2>1, <4>2
      <4>4. ~(saved.tracks[2].next > 0)
        BY <1>3, <4>1, <4>3 DEF SavedFits
      <4>5. saved.tracks[2].next \in Nat
        BY <1>3, <4>1, FitsHas
      <4>6. saved.tracks[2].next = 0
        BY <4>4, <4>5
      <4>7. TrackKept(p, t)
        BY <1>3 DEF SavedFits
      <4>8. saved.tracks[t].durable = 0
        BY <4>1, <4>6, <4>7 DEF TrackKept
      <4> QED
        BY <1>5, <4>8
    <3>3. \A t \in Tracks(p) : saved'.tracks[t].durable \in Nat
      BY <1>3, <1>5, FitsHas
    <3>4. k = 2 => attempt.base = saved'.tracks[1].durable
      BY <1>2, <1>8 DEF OnTrack
    <3>5. k = 1 => attempt.base = 0
      BY <1>2 DEF OnTrack
    <3>6. attempt.base + attempt.written = StartingBytes(saved')
      BY <1>3, <1>5, <3>2, <3>3, <3>4, <3>5, SavedIsFetched
    <3>7. ASSUME NEW t \in Tracks(p)
          PROVE  Covers(staging'[Path(Len(Segments[p]), t)], saved'.tracks[t].durable)
      <4> DEFINE f == staging[Path(Len(Segments[p]), t)]
      <4>1. Path(Len(Segments[p]), t) \in Staging
        BY <1>3, TracksAre
      <4>2. IsFile(f)
        BY <4>1 DEF Kept, FilesKept
      <4>3. CASE t = k
        BY <1>1, <1>3, <1>4, <1>5, <4>3, FileHas DEF Covers, files
      <4>4. CASE t # k /\ k = 1
        <5>1. saved'.tracks[t].durable = 0
          BY <3>2, <4>4
        <5>2. f # NoFile => Len(f.data) >= 0
          BY <4>2, FileHas
        <5> QED
          BY <1>1, <5>1, <5>2 DEF Covers, files
      <4>5. CASE t # k /\ k = 2
        <5>1. t = 1
          BY <1>3, <4>5, TracksAre
        <5>2. f # NoFile /\ saved'.tracks[1].durable = Len(f.data)
          BY <1>2, <1>8, <4>5, <5>1 DEF OnTrack, Fetched
        <5>3. Len(f.data) \in Nat
          BY <4>2, <5>2, FileHas
        <5> QED
          BY <1>1, <5>1, <5>2, <5>3 DEF Covers, files
      <4> QED
        BY <1>3, <4>3, <4>4, <4>5
    <3>8. PausedWhereSaved'
      <4>1. Written' = StartingBytes(saved')
        BY <1>12, <3>6 DEF Written
      <4>2. \A t \in DOMAIN saved'.tracks :
              Covers(staging'[Path(Len(saved'.tracks), t)], saved'.tracks[t].durable)
        BY <1>5, <3>7
      <4>3. StartingBytes(saved)' = StartingBytes(saved')
        BY DEF StartingBytes
      <4> QED
        BY <4>1, <4>2, <4>3 DEF PausedWhereSaved
    <3>9. PlaceKept'
      BY <1>1, <1>5, <2>1, <3>1, <3>8 DEF Kept, PlaceKept
    <3> QED
      BY <1>9, <1>12, <3>1, <3>9 DEF Running
  <2> QED
    BY <2>2, <2>3
<1>13. CASE after \in Statuses /\ Ends(after) /\ UNCHANGED attempt
  <2>1. after \in {"paused", "cancelled", "retryable", "failed"}
    BY <1>2, <1>13 DEF Leads, Statuses
  <2> QED
    BY <1>1, <1>2, <1>5, <1>6, <1>13, <2>1, EndsPlaces
<1> QED
  BY <1>1, <1>10, <1>11, <1>12, <1>13 DEF CheckpointDone, Goto

---------------------------------------------------------------------------
(* Steps beside the attempt. *)

\* A stop is asked for, or the server has another version; the attempt stays where
\* it is (download_cancellation.rs:39, executor.rs:264).
LEMMA AsideKeeps ==
    ASSUME Kept, UNCHANGED <<files, saved, job, pc, attempt, after>>, remote' \in Versions,
           \/ stop' = stop
           \/ pc \notin {"idle", "record", "stuck", "wipe", "reset"} /\ stop # "cancel"
              /\ stop' \in {"pause", "cancel"} /\ stop' # stop
    PROVE  Kept'
<1>1. FilesKept' /\ SavedKept' /\ \A v \in Versions : SavedFits(v) => SavedFits(v)'
  BY StillKeeps DEF Kept
<1>2. JobKept' /\ AttemptKept' /\ TracksKept' /\ OutputKept'
  BY DEF Kept, JobKept, AttemptKept, TracksKept, TracksLeft, OutputKept, Published, Running, files
<1>3. Running => attempt.plan \in Versions
  BY DEF Kept, AttemptKept
<1>4. Running /\ SavedFits(attempt.plan) => SavedFits(attempt.plan)'
  BY <1>1, <1>3 DEF SavedFits, TrackKept
<1>5. \A t : Fetched(t) => Fetched(t)'
  BY DEF Fetched, files
<1>6. Running /\ OnTrack => OnTrack'
  BY <1>4, <1>5 DEF OnTrack
<1>7. Here' = Here /\ Planned' = Planned /\ Saved' = Saved /\ staging' = staging /\ Byte' = Byte
  BY DEF Here, Planned, Saved, Byte, files
<1>8. (AtBoundary => AtBoundary') /\ (InSegment => InSegment') /\ (InBody => InBody')
  BY <1>7 DEF AtBoundary, InSegment, InBody
<1>9. Leads => Leads'
  BY <1>7 DEF Leads
<1>10. pc = "stopped" => stop' # "none" /\ (saved' = NoState => stop' = "cancel") /\ PausedWhereSaved'
  <2> SUFFICES ASSUME pc = "stopped"
               PROVE  stop' # "none" /\ (saved' = NoState => stop' = "cancel") /\ PausedWhereSaved'
    OBVIOUS
  <2>1. stop # "none" /\ (saved = NoState => stop = "cancel") /\ PausedWhereSaved
    BY DEF Kept, PlaceKept
  <2>2. CASE stop' = stop
    BY <2>1, <2>2 DEF PausedWhereSaved, Written, StartingBytes, Covers, files
  <2>3. CASE stop' # stop
    <3>1. stop' = "cancel" /\ saved # NoState
      BY <2>1, <2>3 DEF Kept, PlaceKept
    <3> QED
      BY <3>1 DEF PausedWhereSaved
  <2> QED
    BY <2>2, <2>3
<1>11. PlaceKept'
  BY <1>4, <1>5, <1>6, <1>7, <1>8, <1>9, <1>10 DEF Kept, PlaceKept, Running
<1> QED
  BY <1>1, <1>2, <1>11 DEF Kept

\* A stop is asked for, once or in place of another.
LEMMA RequestStopKeeps ==
    ASSUME Kept, NEW kind \in {"pause", "cancel"}, RequestStop(kind)
    PROVE  Kept'
<1>1. /\ UNCHANGED <<files, saved, job, pc, attempt, after>> /\ remote' \in Versions
      /\ pc \notin {"idle", "record", "stuck", "wipe", "reset"} /\ stop # "cancel"
      /\ stop' \in {"pause", "cancel"} /\ stop' # stop
  BY DEF RequestStop, Kept
<1> QED
  BY <1>1, AsideKeeps

\* The server changes what it has.
LEMMA RemoteChangesKeeps == Kept /\ RemoteChanges => Kept'
<1> SUFFICES ASSUME Kept, RemoteChanges PROVE Kept'
  OBVIOUS
<1>1. /\ UNCHANGED <<files, saved, job, pc, attempt, after>> /\ remote' \in Versions
      /\ stop' = stop
  BY DEF RemoteChanges
<1> QED
  BY <1>1, AsideKeeps

---------------------------------------------------------------------------
(* The clean-up of a cancelled attempt, muxing and publication. *)

\* The record of an attempt that goes on, with no names more.
LEMMA JobStays ==
    ASSUME Kept, Running, Running', UNCHANGED <<remote, job, attempt>>, linked' \subseteq linked
    PROVE  JobKept' /\ AttemptKept' /\ remote' \in Versions
  BY DEF Kept, JobKept, AttemptKept

\* Staging files are removed and the attempt goes on: the checkpoint stays what
\* it was, and no track file appears.
LEMMA RemovalStays ==
    ASSUME Kept, NEW paths, Unstage(paths), UNCHANGED saved
    PROVE  /\ FilesKept' /\ SavedKept' /\ output' = output /\ linked' \subseteq linked
           /\ \A p \in Staging : staging[p] = NoFile => staging'[p] = NoFile
           /\ "part" \notin paths => linked' = linked
<1>1. /\ FilesKept' /\ output' = output /\ linked' \subseteq linked
      /\ \A p \in Staging : staging[p] = NoFile => staging'[p] = NoFile
      /\ \A p \in Staging : Preserved(p)
      /\ "part" \notin paths => linked' = linked
  BY UnstageKeeps DEF Kept
<1>2. SavedKept'
  BY <1>1, SavedKeptStays DEF Kept
<1> QED
  BY <1>1, <1>2

\* The staging of a cancelled attempt is removed (executor.rs:1073-1076).
LEMMA CleanUpRemoveKeeps == Kept /\ CleanUpRemove => Kept'
<1> SUFFICES ASSUME Kept, CleanUpRemove PROVE Kept'
  OBVIOUS
<1>1. /\ pc = "remove" /\ pc' = "forget" /\ UNCHANGED <<remote, saved, job, attempt, after, stop>>
      /\ Running /\ Running'
  BY DEF CleanUpRemove, Goto, Running
<1>2. PICK paths : Unstage(paths)
  BY DEF CleanUpRemove
<1>3. /\ FilesKept' /\ SavedKept' /\ linked' \subseteq linked
      /\ \A p \in Staging : staging[p] = NoFile => staging'[p] = NoFile
  BY <1>1, <1>2, RemovalStays
<1>4. JobKept' /\ AttemptKept' /\ remote' \in Versions
  BY <1>1, <1>3, JobStays
<1>5. TracksKept'
  BY <1>1, <1>3 DEF Kept, TracksKept, TracksLeft, Running, Staging
<1>6. PlaceKept'
  BY <1>1 DEF Kept, PlaceKept
<1>7. OutputKept'
  BY <1>1 DEF OutputKept, Published, Running
<1> QED
  BY <1>3, <1>4, <1>5, <1>6, <1>7 DEF Kept

\* Its checkpoint is removed (executor.rs:1078-1080).
LEMMA CleanUpForgetKeeps == Kept /\ CleanUpForget => Kept'
<1> SUFFICES ASSUME Kept, CleanUpForget PROVE Kept'
  OBVIOUS
<1>1. /\ pc = "forget" /\ pc' = "stopped" /\ UNCHANGED <<remote, files, job, attempt, after, stop>>
      /\ saved' = NoState \/ saved' = saved
      /\ Running /\ Running' /\ stop = "cancel"
  BY DEF CleanUpForget, Goto, Running, Kept, PlaceKept
<1>2. FilesKept'
  BY <1>1 DEF Kept, FilesKept, files
<1>3. SavedKept'
  <2>1. CASE saved' = NoState
    BY <2>1 DEF SavedKept
  <2>2. CASE saved' = saved
    BY <1>1, <2>2, StillKeeps DEF Kept
  <2> QED
    BY <1>1, <2>1, <2>2
<1>4. JobKept' /\ AttemptKept' /\ remote' \in Versions
  BY <1>1, JobStays DEF files
<1>5. TracksKept'
  BY <1>1 DEF Kept, TracksKept, TracksLeft, Running, files
<1>6. PausedWhereSaved'
  BY <1>1 DEF PausedWhereSaved
<1>7. PlaceKept'
  BY <1>1, <1>6 DEF Kept, PlaceKept
<1>8. OutputKept'
  BY <1>1 DEF OutputKept, Published, Running
<1> QED
  BY <1>2, <1>3, <1>4, <1>5, <1>7, <1>8 DEF Kept

\* A step that writes no file of a track keeps its checkpoint.
LEMMA SavedOfTracks ==
    ASSUME NEW v \in Versions, SavedFits(v), UNCHANGED saved,
           \A t \in Tracks(v) :
             staging'[Path(Len(Segments[v]), t)] = staging[Path(Len(Segments[v]), t)]
    PROVE  SavedFits(v)'
<1>1. \A t \in Tracks(v) : TrackKept(v, t)'
  <2> TAKE t \in Tracks(v)
  <2>1. TrackKept(v, t)
    BY DEF SavedFits
  <2>2. staging'[Path(Len(Segments[v]), t)] = staging[Path(Len(Segments[v]), t)]
    OBVIOUS
  <2> QED
    BY <2>1, <2>2 DEF TrackKept
<1> QED
  BY <1>1 DEF SavedFits

\* The partial file of two fetched tracks is written (mux.rs:1185-1216).
LEMMA MuxStays ==
    ASSUME Kept, pc \in {"mux", "muxing"}, Running', NEW file \in Files, file # NoFile, IsFile(file),
           Stage("part", file), UNCHANGED <<remote, saved, job, attempt, after, stop>>
    PROVE  /\ FilesKept' /\ SavedKept' /\ JobKept' /\ AttemptKept' /\ remote' \in Versions
           /\ TracksKept' /\ staging'["part"] = file
           /\ SavedFits(attempt.plan)' /\ Fetched(1)' /\ Fetched(2)'
           /\ Len(Segments[attempt.plan]) = 2
<1> DEFINE p == attempt.plan
<1>1. /\ Running /\ p \in Versions /\ SavedFits(p) /\ Len(Segments[p]) = 2
      /\ Fetched(1) /\ Fetched(2)
  BY DEF Running, Kept, AttemptKept, PlaceKept
<1>2. /\ FilesKept' /\ staging'["part"] = file /\ linked' = linked
      /\ \A q \in Staging : q # "part" => staging'[q] = staging[q]
  <2>1. "part" \in Staging
    BY DEF Staging
  <2> QED
    BY <2>1, StageKeeps DEF Kept
<1>3. \A t \in Tracks(p) : staging'[Path(Len(Segments[p]), t)] = staging[Path(Len(Segments[p]), t)]
  <2>1. \A t \in Tracks(p) : Path(Len(Segments[p]), t) \in Staging
    BY <1>1, TracksAre
  <2>2. \A t \in Tracks(p) : Path(Len(Segments[p]), t) = "part" <=> Len(Segments[p]) = 1
    BY <1>1, TracksAre
  <2> TAKE t \in Tracks(p)
  <2>3. Path(Len(Segments[p]), t) # "part"
    BY <1>1, <2>2
  <2> QED
    BY <1>2, <2>1, <2>3
<1>4. \A v \in Versions : v = p => SavedFits(v)'
  BY <1>1, <1>3, SavedOfTracks
<1>5. SavedKept'
  BY <1>1, <1>4 DEF SavedKept
<1>6. SavedFits(attempt.plan)'
  BY <1>1, <1>4 DEF SavedFits, TrackKept
<1>7. JobKept' /\ AttemptKept' /\ remote' \in Versions
  BY <1>1, <1>2, JobStays
<1>8. TracksKept'
  BY <1>1, FitsHas DEF TracksKept
<1>9. 1 \in Tracks(p) /\ 2 \in Tracks(p)
  BY <1>1, TracksAre
<1>10. Fetched(1)' /\ Fetched(2)'
  BY <1>1, <1>3, <1>9 DEF Fetched
<1> QED
  BY <1>1, <1>2, <1>5, <1>6, <1>7, <1>8, <1>10

\* The partial file is created anew.
LEMMA MuxCreateKeeps == Kept /\ MuxCreate => Kept'
<1> SUFFICES ASSUME Kept, MuxCreate PROVE Kept'
  OBVIOUS
<1>1. /\ pc = "mux" /\ pc' = "muxing" /\ UNCHANGED <<remote, saved, job, attempt, after, stop>>
      /\ Stage("part", File(<<>>, 0)) /\ Running'
  BY DEF MuxCreate, Goto, Running
<1>2. File(<<>>, 0) \in Files /\ File(<<>>, 0) # NoFile /\ IsFile(File(<<>>, 0))
  <2>1. <<>> \in Seq(Bytes) /\ 0 <= Len(<<>>)
    OBVIOUS
  <2> QED
    BY <2>1, FileIs
<1>3. /\ FilesKept' /\ SavedKept' /\ JobKept' /\ AttemptKept' /\ remote' \in Versions
      /\ TracksKept'
      /\ SavedFits(attempt.plan)' /\ Fetched(1)' /\ Fetched(2)'
      /\ Len(Segments[attempt.plan]) = 2
  BY <1>1, <1>2, MuxStays
<1>4. PlaceKept'
  BY <1>1, <1>3 DEF Kept, PlaceKept
<1>5. OutputKept'
  BY <1>1 DEF OutputKept, Published, Running
<1> QED
  BY <1>3, <1>4, <1>5 DEF Kept

\* A fetched track is all of its segments.
LEMMA FetchedIsWhole ==
    ASSUME Kept, Running, SavedFits(attempt.plan), NEW t \in Tracks(attempt.plan), Fetched(t)
    PROVE  LET file == staging[Path(Len(Segments[attempt.plan]), t)] IN
           /\ file.data \in Seq(Bytes)
           /\ file.data \in WholeSegments(Fingerprint[attempt.plan], t,
                                          Len(Segments[attempt.plan][t]))
<1> DEFINE p == attempt.plan
           file == staging[Path(Len(Segments[p]), t)]
<1>1. p \in Versions /\ Path(Len(Segments[p]), t) \in Staging
  BY TracksAre DEF Kept, AttemptKept
<1>2. IsFile(file)
  BY <1>1 DEF Kept, FilesKept
<1>3. /\ file # NoFile /\ saved.tracks[t].next = Len(Segments[p][t])
      /\ saved.tracks[t].durable = Len(file.data)
  BY DEF Fetched
<1>4. SubSeq(file.data, 1, saved.tracks[t].durable) \in
        WholeSegments(Fingerprint[p], t, saved.tracks[t].next)
  BY <1>3 DEF SavedFits, TrackKept
<1> HIDE DEF file
<1>5. file.data \in Seq(Bytes)
  BY <1>2, <1>3, FileHas
<1>6. SubSeq(file.data, 1, Len(file.data)) = file.data
  BY <1>5, SubSeqFull
<1>7. file.data \in WholeSegments(Fingerprint[p], t, Len(Segments[p][t]))
  BY <1>3, <1>4, <1>6
<1> QED
  BY <1>5, <1>7 DEF file

\* It gets the samples of both tracks.
LEMMA MuxWriteKeeps == Kept /\ MuxWrite => Kept'
<1> SUFFICES ASSUME Kept, MuxWrite PROVE Kept'
  OBVIOUS
<1> DEFINE p == attempt.plan
           video == staging["video"].data
           audio == staging["audio"].data
           both == video \o audio
<1>1. /\ pc = "muxing" /\ pc' = "staged" /\ UNCHANGED <<remote, saved, job, attempt, after, stop>>
      /\ Stage("part", File(both, Len(both))) /\ Running /\ Running'
  BY DEF MuxWrite, Goto, Running, Muxed
<1>2. /\ p \in Versions /\ SavedFits(p) /\ Len(Segments[p]) = 2
      /\ Fetched(1) /\ Fetched(2)
  BY <1>1 DEF Kept, AttemptKept, PlaceKept
<1>3. /\ 1 \in Tracks(p) /\ Path(Len(Segments[p]), 1) = "video"
      /\ 2 \in Tracks(p) /\ Path(Len(Segments[p]), 2) = "audio"
  BY <1>2, TracksAre DEF Path
<1>4. video \in Seq(Bytes) /\ video \in WholeSegments(Fingerprint[p], 1, Len(Segments[p][1]))
  <2>1. LET file == staging[Path(Len(Segments[p]), 1)] IN
        /\ file.data \in Seq(Bytes)
        /\ file.data \in WholeSegments(Fingerprint[p], 1, Len(Segments[p][1]))
    BY <1>1, <1>2, <1>3, FetchedIsWhole
  <2> QED
    BY <1>3, <2>1
<1>5. audio \in Seq(Bytes) /\ audio \in WholeSegments(Fingerprint[p], 2, Len(Segments[p][2]))
  <2>1. LET file == staging[Path(Len(Segments[p]), 2)] IN
        /\ file.data \in Seq(Bytes)
        /\ file.data \in WholeSegments(Fingerprint[p], 2, Len(Segments[p][2]))
    BY <1>1, <1>2, <1>3, FetchedIsWhole
  <2> QED
    BY <1>3, <2>1
<1> HIDE DEF video, audio
<1>6. both \in WholePresentations(p)
  BY <1>2, <1>4, <1>5, PresentationOfTwo
<1>7. both \in Seq(Bytes) /\ Len(both) \in Nat
  BY <1>4, <1>5, ConcatProperties, LenProperties
<1> HIDE DEF both
<1>8. /\ File(both, Len(both)) # NoFile /\ IsFile(File(both, Len(both)))
      /\ File(both, Len(both)) \in Files
      /\ File(both, Len(both)).data = both /\ File(both, Len(both)).synced = Len(both)
  BY <1>7, FileIs
<1>9. /\ FilesKept' /\ SavedKept' /\ JobKept' /\ AttemptKept' /\ remote' \in Versions
      /\ TracksKept' /\ staging'["part"] = File(both, Len(both))
  BY <1>1, <1>8, MuxStays
<1>10. WholeFile(staging'["part"])
  BY <1>2, <1>6, <1>8, <1>9 DEF WholeFile
<1>11. PlaceKept'
  BY <1>1, <1>10 DEF Kept, PlaceKept
<1>12. OutputKept'
  BY <1>1 DEF OutputKept, Published, Running
<1> QED
  BY <1>9, <1>11, <1>12 DEF Kept

\* The result is looked at before it is published (manager.rs:437-478).
LEMMA CommitFinalizingKeeps == Kept /\ CommitFinalizing => Kept'
<1> SUFFICES ASSUME Kept, CommitFinalizing PROVE Kept'
  OBVIOUS
<1>1. pc = "staged" /\ UNCHANGED <<remote, files, saved, attempt, stop>> /\ Running
  BY DEF CommitFinalizing, Running
<1>2. \/ Stuck /\ UNCHANGED job
      \/ stop # "none" /\ Stopped /\ UNCHANGED job
      \/ /\ pc' = "publish" /\ UNCHANGED after
         /\ job' = [job EXCEPT !.total = IF attempt.total.estimated THEN Written ELSE @]
  BY DEF CommitFinalizing, Goto
<1>3. CASE Stuck /\ UNCHANGED job
  BY <1>1, <1>3, StuckKeeps
<1>4. CASE stop # "none" /\ Stopped /\ UNCHANGED job
  <2>1. SameJob
    BY <1>4 DEF SameJob
  <2>2. CASE stop = "pause"
    BY <1>1, <1>4, <2>1, <2>2, EndsKeeps DEF Stopped
  <2>3. CASE stop # "pause"
    BY <1>1, <1>4, <2>1, <2>3, EndsKeeps DEF Stopped
  <2> QED
    BY <2>2, <2>3
<1>5. CASE /\ pc' = "publish" /\ UNCHANGED after
           /\ job' = [job EXCEPT !.total = IF attempt.total.estimated THEN Written ELSE @]
  <2>1. Running'
    BY <1>5 DEF Running
  <2>2. SameJob
    <3>1. \E total : job' = [job EXCEPT !.total = total]
      BY <1>5
    <3> QED
      BY <3>1, TotalChanges DEF Kept
  <2>3. FilesKept' /\ SavedKept'
    BY <1>1, StillKeeps DEF Kept
  <2>4. JobKept' /\ AttemptKept' /\ remote' \in Versions
    BY <1>1, <2>1, <2>2, SameJobKeeps DEF Kept, AttemptKept, files
  <2>5. TracksKept'
    BY <1>1 DEF Kept, TracksKept, TracksLeft, Running, files
  <2>6. WholeFile(staging'["part"])
    BY <1>1 DEF Kept, PlaceKept, files
  <2>7. PlaceKept'
    BY <1>1, <1>5, <2>6 DEF Kept, PlaceKept
  <2>8. OutputKept'
    BY <1>5, <2>1 DEF OutputKept, Published
  <2> QED
    BY <2>3, <2>4, <2>5, <2>7, <2>8 DEF Kept
<1> QED
  BY <1>2, <1>3, <1>4, <1>5

\* What is to be published is whole.
LEMMA PublishedIsWhole ==
    ASSUME Kept, pc = "publish"
    PROVE  /\ Running /\ WholeFile(staging["part"]) /\ staging["part"] # NoFile
           /\ staging["part"] \in Files /\ IsFile(staging["part"])
<1>1. Running /\ WholeFile(staging["part"]) /\ staging["part"] # NoFile
  BY DEF Running, Kept, PlaceKept, WholeFile
<1>2. staging["part"] \in Files /\ IsFile(staging["part"])
  BY <1>1 DEF Kept, FilesKept, Staging
<1> QED
  BY <1>1, <1>2

\* A rename replaces what is there (finalize.rs:146-158).
LEMMA PublishByRenameKeeps == Kept /\ PublishByRename => Kept'
<1> SUFFICES ASSUME Kept, PublishByRename PROVE Kept'
  OBVIOUS
<1> DEFINE file == staging["part"]
<1>1. /\ pc = "publish" /\ job.policy = "overwrite" /\ pc' = "clear"
      /\ output' = [output EXCEPT ![0] = file]
      /\ staging' = [staging EXCEPT !["part"] = NoFile]
      /\ UNCHANGED <<remote, linked, saved, job, attempt, after, stop>>
      /\ Running'
  BY DEF PublishByRename, Goto, Running
<1>2. /\ Running /\ WholeFile(file) /\ file # NoFile /\ file \in Files /\ IsFile(file)
  BY <1>1, PublishedIsWhole
<1>3. linked = {} /\ job.name = 0 /\ 0 \in Names
  BY <1>1 DEF Kept, JobKept
<1> HIDE DEF file
<1>4. /\ staging' \in [Staging -> Files \cup {NoFile}]
      /\ staging'["part"] = NoFile
      /\ \A p \in Staging : p # "part" => staging'[p] = staging[p]
  BY <1>1 DEF Kept, FilesKept, Staging
<1>5. /\ output' \in [Names -> Files \cup {NoFile}]
      /\ output'[0] = file
      /\ \A n \in Names : n # 0 => output'[n] = output[n]
  BY <1>1, <1>2, <1>3 DEF Kept, FilesKept
<1>6. FilesKept'
  <2>1. \A p \in Staging : IsFile(staging'[p])
    BY <1>4 DEF Kept, FilesKept, IsFile
  <2>2. \A n \in Names : IsFile(output'[n])
    BY <1>2, <1>5 DEF Kept, FilesKept
  <2> QED
    BY <1>1, <1>3, <1>4, <1>5, <2>1, <2>2 DEF FilesKept
<1>7. \A p \in Staging : Preserved(p)
  <2> TAKE p \in Staging
  <2>1. CASE p = "part"
    BY <1>4, <2>1 DEF Preserved
  <2>2. CASE p # "part"
    BY <1>4, <2>2, SameIsPreserved
  <2> QED
    BY <2>1, <2>2
<1>8. SavedKept'
  BY <1>1, <1>7, SavedKeptStays DEF Kept
<1>9. JobKept' /\ AttemptKept' /\ remote' \in Versions
  BY <1>1, <1>2, JobStays
<1>10. TracksKept'
  BY <1>1, <1>4 DEF Kept, TracksKept, TracksLeft, Running, Staging
<1>11. PlaceKept'
  BY <1>1 DEF Kept, PlaceKept
<1>12. OutputKept'
  BY <1>1, <1>2, <1>3, <1>5 DEF OutputKept
<1> QED
  BY <1>6, <1>8, <1>9, <1>10, <1>11, <1>12 DEF Kept

\* A link takes a name that is free (finalize.rs:166-193).
LEMMA PublishByLinkKeeps == Kept /\ PublishByLink => Kept'
<1> SUFFICES ASSUME Kept, PublishByLink PROVE Kept'
  OBVIOUS
<1> DEFINE file == staging["part"]
<1>1. /\ pc = "publish" /\ job.policy # "overwrite" /\ pc' = "unlink"
      /\ UNCHANGED <<remote, staging, saved, attempt, after, stop>>
      /\ Running'
  BY DEF PublishByLink, Goto, Running
<1>2. PICK name \in Names :
        /\ output' = [output EXCEPT ![name] = file]
        /\ linked' = linked \cup {name}
        /\ job' = [job EXCEPT !.name = name]
  BY DEF PublishByLink
<1>3. /\ Running /\ WholeFile(file) /\ file # NoFile /\ file \in Files /\ IsFile(file)
  BY <1>1, PublishedIsWhole
<1>4. file = staging'["part"] /\ staging' = staging
  BY <1>1
<1> HIDE DEF file
<1>5. /\ output' \in [Names -> Files \cup {NoFile}]
      /\ output'[name] = file
      /\ \A n \in Names : n # name => output'[n] = output[n]
  BY <1>2, <1>3 DEF Kept, FilesKept
<1>6. FilesKept'
  <2>1. \A n \in Names : IsFile(output'[n])
    BY <1>3, <1>5 DEF Kept, FilesKept
  <2>2. linked' \subseteq Names
    BY <1>2 DEF Kept, FilesKept
  <2>3. \A n \in linked' : output'[n] = staging'["part"] /\ staging'["part"] # NoFile
    <3> TAKE n \in linked'
    <3>1. CASE n = name
      BY <1>3, <1>4, <1>5, <3>1
    <3>2. CASE n # name
      <4>1. n \in linked /\ n \in Names
        BY <1>2, <2>2, <3>2
      <4>2. output[n] = staging["part"] /\ staging["part"] # NoFile
        BY <4>1 DEF Kept, FilesKept
      <4> QED
        BY <1>4, <1>5, <3>2, <4>1, <4>2
    <3> QED
      BY <3>1, <3>2
  <2>4. /\ staging' \in [Staging -> Files \cup {NoFile}]
        /\ \A p \in Staging : IsFile(staging'[p])
    BY <1>4 DEF Kept, FilesKept
  <2> QED
    BY <1>5, <2>1, <2>2, <2>3, <2>4 DEF FilesKept
<1>7. \A p \in Staging : Preserved(p)
  BY <1>4, SameIsPreserved
<1>8. SavedKept'
  BY <1>1, <1>7, SavedKeptStays DEF Kept
<1>9. JobKept' /\ job'.name = name
  <2>1. DOMAIN job' = DOMAIN job
    BY <1>2, Zenon
  <2>2. job'.status = job.status /\ job'.policy = job.policy /\ job'.name = name
    BY <1>2 DEF Kept, JobKept
  <2> QED
    BY <1>1, <1>3, <2>1, <2>2 DEF Kept, JobKept
<1>10. AttemptKept' /\ remote' \in Versions
  BY <1>1, <1>3 DEF Kept, AttemptKept
<1>11. TracksKept'
  BY <1>1, <1>4 DEF Kept, TracksKept, TracksLeft, Running
<1>12. PlaceKept'
  BY <1>1, <1>9, <1>2 DEF Kept, PlaceKept, JobKept
<1>13. OutputKept'
  BY <1>3, <1>5, <1>9 DEF OutputKept
<1> QED
  BY <1>6, <1>8, <1>9, <1>10, <1>11, <1>12, <1>13 DEF Kept

\* The staging name goes (finalize.rs:174-184).
LEMMA UnlinkKeeps == Kept /\ Unlink => Kept'
<1> SUFFICES ASSUME Kept, Unlink PROVE Kept'
  OBVIOUS
<1>1. /\ pc = "unlink" /\ pc' = "clear" /\ UNCHANGED <<remote, saved, job, attempt, after, stop>>
      /\ Running /\ Running'
  BY DEF Unlink, Goto, Running
<1>2. PICK paths : Unstage(paths)
  BY DEF Unlink
<1>3. /\ FilesKept' /\ SavedKept' /\ output' = output /\ linked' \subseteq linked
      /\ \A p \in Staging : staging[p] = NoFile => staging'[p] = NoFile
  BY <1>1, <1>2, RemovalStays
<1>4. JobKept' /\ AttemptKept' /\ remote' \in Versions
  BY <1>1, <1>3, JobStays
<1>5. TracksKept'
  BY <1>1, <1>3 DEF Kept, TracksKept, TracksLeft, Running, Staging
<1>6. PlaceKept'
  BY <1>1 DEF Kept, PlaceKept
<1>7. OutputKept'
  BY <1>1, <1>3 DEF Kept, OutputKept, Published
<1> QED
  BY <1>3, <1>4, <1>5, <1>6, <1>7 DEF Kept

\* The checkpoint goes (executor.rs:1142-1144).
LEMMA ClearStateKeeps == Kept /\ ClearState => Kept'
<1> SUFFICES ASSUME Kept, ClearState PROVE Kept'
  OBVIOUS
<1>1. /\ pc = "clear" /\ pc' = "discard" /\ UNCHANGED <<remote, files, job, attempt, after, stop>>
      /\ saved' = NoState \/ saved' = saved
      /\ Running /\ Running'
  BY DEF ClearState, Goto, Running
<1>2. FilesKept'
  BY <1>1 DEF Kept, FilesKept, files
<1>3. SavedKept'
  <2>1. CASE saved' = NoState
    BY <2>1 DEF SavedKept
  <2>2. CASE saved' = saved
    BY <1>1, <2>2, StillKeeps DEF Kept
  <2> QED
    BY <1>1, <2>1, <2>2
<1>4. JobKept' /\ AttemptKept' /\ remote' \in Versions
  BY <1>1, JobStays DEF files
<1>5. TracksKept'
  BY <1>1 DEF Kept, TracksKept, TracksLeft, Running, files
<1>6. PlaceKept'
  BY <1>1 DEF Kept, PlaceKept
<1>7. OutputKept'
  BY <1>1 DEF Kept, OutputKept, Published, files
<1> QED
  BY <1>2, <1>3, <1>4, <1>5, <1>6, <1>7 DEF Kept

\* The track files go (executor.rs:1145-1147).
LEMMA DiscardTracksKeeps == Kept /\ DiscardTracks => Kept'
<1> SUFFICES ASSUME Kept, DiscardTracks PROVE Kept'
  OBVIOUS
<1>1. /\ pc = "discard" /\ pc' = "record" /\ after' = "completed"
      /\ UNCHANGED <<remote, saved, job, attempt, stop>>
      /\ Running /\ Running'
  BY DEF DiscardTracks, Ends, Running
<1>2. PICK paths : Unstage(paths)
  BY DEF DiscardTracks
<1>3. /\ FilesKept' /\ SavedKept' /\ output' = output /\ linked' \subseteq linked
      /\ \A p \in Staging : staging[p] = NoFile => staging'[p] = NoFile
  BY <1>1, <1>2, RemovalStays
<1>4. JobKept' /\ AttemptKept' /\ remote' \in Versions
  BY <1>1, <1>3, JobStays
<1>5. TracksKept'
  BY <1>1, <1>3 DEF Kept, TracksKept, TracksLeft, Running, Staging
<1>6. PlaceKept'
  BY <1>1 DEF Kept, PlaceKept
<1>7. OutputKept'
  BY <1>1, <1>3 DEF Kept, OutputKept, Published
<1> QED
  BY <1>3, <1>4, <1>5, <1>6, <1>7 DEF Kept

---------------------------------------------------------------------------
(* The end of an attempt, commands and restarts. *)

\* The end of an attempt is recorded (manager.rs:910-931).
LEMMA RecordKeeps == Kept /\ Record => Kept'
<1> SUFFICES ASSUME Kept, Record PROVE Kept'
  OBVIOUS
<1>1. /\ pc = "record" /\ pc' = "idle" /\ attempt' = NoAttempt /\ stop' = "none"
      /\ UNCHANGED <<remote, files, saved>> /\ Running /\ ~Running'
  BY DEF Record, AttemptEnds, Goto, Running
<1>2. PICK total : job' = [job EXCEPT !.status = after, !.total = total]
  <2>1. job' = [job EXCEPT !.status = after,
                  !.total = IF attempt.total.estimated
                               /\ @ < (IF after \in {"paused", "cancelled"} THEN Written
                                                                            ELSE attempt.reported)
                              THEN IF after \in {"paused", "cancelled"} THEN Written
                                                                        ELSE attempt.reported
                              ELSE @]
    BY DEF Record
  <2> QED
    BY <2>1
<1>3. after \in {"paused", "cancelled", "retryable", "failed", "completed"}
  BY <1>1 DEF Kept, PlaceKept
<1>4. DOMAIN job' = DOMAIN job
  BY <1>2, Zenon
<1>5. job'.status = after /\ job'.policy = job.policy /\ job'.name = job.name
  BY <1>2 DEF Kept, JobKept
<1>6. FilesKept' /\ SavedKept' /\ remote' \in Versions
  BY <1>1, StillKeeps DEF Kept
<1>7. JobKept'
  BY <1>1, <1>3, <1>4, <1>5 DEF Kept, JobKept, Statuses, files
<1>8. AttemptKept'
  BY <1>1 DEF AttemptKept
<1>9. TracksKept'
  BY <1>1, <1>5 DEF Kept, TracksKept, TracksLeft, files
<1>10. PlaceKept'
  BY <1>1 DEF PlaceKept
<1>11. OutputKept'
  BY <1>1, <1>5 DEF Kept, OutputKept, Published, files
<1> QED
  BY <1>6, <1>7, <1>8, <1>9, <1>10, <1>11 DEF Kept

\* A command on a record no attempt runs for (manager.rs:149-200).
LEMMA WhenIdleKeeps ==
    ASSUME Kept, NEW from, NEW to \in {"paused", "cancelled", "queued"}, WhenIdle(from, to),
           saved # NoState \/ from \subseteq {"queued", "paused", "retryable"}
    PROVE  Kept'
<1>1. /\ pc = "idle" /\ job.status \in from /\ job' = [job EXCEPT !.status = to]
      /\ UNCHANGED <<remote, files, saved, pc, attempt, after, stop>>
  BY DEF WhenIdle
<1>2. ~Running /\ ~Running'
  BY <1>1 DEF Running
<1>3. DOMAIN job' = DOMAIN job
  BY <1>1, Zenon
<1>4. job'.status = to /\ job'.policy = job.policy /\ job'.name = job.name
  BY <1>1 DEF Kept, JobKept
<1>5. FilesKept' /\ SavedKept' /\ remote' \in Versions
  BY <1>1, StillKeeps DEF Kept
<1>6. JobKept'
  BY <1>1, <1>2, <1>3, <1>4 DEF Kept, JobKept, Statuses, files
<1>7. AttemptKept'
  BY <1>1, <1>2 DEF Kept, AttemptKept
<1>8. TracksKept'
  BY <1>1 DEF Kept, TracksKept, TracksLeft, files
<1>9. PlaceKept'
  BY <1>1 DEF Kept, PlaceKept
<1>10. OutputKept'
  BY <1>1, <1>2, <1>4 DEF OutputKept, Published
<1> QED
  BY <1>5, <1>6, <1>7, <1>8, <1>9, <1>10 DEF Kept

\* Pausing, cancelling, trying again and resuming (manager.rs:149-200, lib.rs:238-285).
LEMMA CommandsKeep == Kept /\ (Pause \/ Cancel \/ Retry \/ Resume) => Kept'
<1> SUFFICES ASSUME Kept, Pause \/ Cancel \/ Retry \/ Resume PROVE Kept'
  OBVIOUS
<1>1. CASE Pause
  BY <1>1, WhenIdleKeeps DEF Pause
<1>2. CASE Cancel
  BY <1>2, WhenIdleKeeps DEF Cancel
<1>3. CASE Retry
  BY <1>3, WhenIdleKeeps DEF Retry
<1>4. CASE Resume
  BY <1>4, WhenIdleKeeps DEF Resume, CanResume
<1> QED
  BY <1>1, <1>2, <1>3, <1>4

\* A restart removes what there may be (executor.rs:142-172).
LEMMA RestartRemoveKeeps == Kept /\ RestartRemove => Kept'
<1> SUFFICES ASSUME Kept, RestartRemove PROVE Kept'
  OBVIOUS
<1> DEFINE paths == {"part"} \cup IF saved = NoState \/ Len(saved.tracks) > 1
                                    THEN {"video", "audio"} ELSE {}
<1>1. /\ pc = "idle" /\ pc' = "wipe" /\ UNCHANGED <<remote, saved, job, attempt, after, stop>>
      /\ Unstage(paths) /\ ~Running /\ ~Running'
  BY DEF RestartRemove, Goto, Running
<1>2. "part" \in paths
  OBVIOUS
<1>3. /\ FilesKept' /\ output' = output /\ linked' = {}
      /\ \A p \in Staging : staging'[p] = IF p \in paths THEN NoFile ELSE staging[p]
      /\ \A p \in Staging : Preserved(p)
  <2> HIDE DEF paths
  <2> QED
    BY <1>1, <1>2, UnstageKeeps DEF Kept
<1>4. SavedKept'
  BY <1>1, <1>3, SavedKeptStays DEF Kept
<1>5. \A p \in Staging : staging'[p] = NoFile
  <2>1. CASE saved = NoState \/ Len(saved.tracks) > 1
    BY <1>3, <2>1 DEF Staging
  <2>2. CASE ~(saved = NoState \/ Len(saved.tracks) > 1)
    <3>1. Len(saved.tracks) # 2
      <4> SUFFICES ASSUME Len(saved.tracks) = 2 PROVE FALSE
        OBVIOUS
      <4>1. Len(saved.tracks) > 1
        OBVIOUS
      <4> QED
        BY <2>2, <4>1
    <3>2. staging["video"] = NoFile /\ staging["audio"] = NoFile
      BY <2>2, <3>1 DEF Kept, TracksKept
    <3> QED
      BY <1>3, <3>2 DEF Staging
  <2> QED
    BY <2>1, <2>2
<1>6. JobKept' /\ AttemptKept' /\ remote' \in Versions
  BY <1>1, <1>3 DEF Kept, JobKept, AttemptKept
<1>7. TracksKept'
  BY <1>5 DEF TracksKept, Staging
<1>8. PlaceKept'
  BY <1>1, <1>5 DEF Kept, PlaceKept
<1>9. OutputKept'
  BY <1>1, <1>3 DEF Kept, OutputKept, Published
<1> QED
  BY <1>3, <1>4, <1>6, <1>7, <1>8, <1>9 DEF Kept

\* Or fails in the middle of it.
LEMMA RestartRemoveFailsKeeps == Kept /\ RestartRemoveFails => Kept'
<1> SUFFICES ASSUME Kept, RestartRemoveFails PROVE Kept'
  OBVIOUS
<1>1. /\ pc = "idle" /\ UNCHANGED <<remote, saved, job, pc, attempt, after, stop>>
      /\ ~Running /\ ~Running'
  BY DEF RestartRemoveFails, Running
<1>2. PICK paths : Unstage(paths)
  BY DEF RestartRemoveFails
<1>3. /\ FilesKept' /\ SavedKept' /\ output' = output /\ linked' \subseteq linked
      /\ \A p \in Staging : staging[p] = NoFile => staging'[p] = NoFile
  BY <1>1, <1>2, RemovalStays
<1>4. JobKept' /\ AttemptKept' /\ remote' \in Versions
  BY <1>1, <1>3 DEF Kept, JobKept, AttemptKept
<1>5. TracksKept'
  BY <1>1, <1>3 DEF Kept, TracksKept, TracksLeft, Staging
<1>6. PlaceKept'
  BY <1>1 DEF Kept, PlaceKept
<1>7. OutputKept'
  BY <1>1, <1>3 DEF Kept, OutputKept, Published
<1> QED
  BY <1>3, <1>4, <1>5, <1>6, <1>7 DEF Kept

\* The checkpoint is forgotten, then the record is as new (executor.rs:174-180,
\* lib.rs:289-327), or the restart fails between these.
LEMMA RestartKeeps == Kept /\ (RestartForget \/ RestartReset \/ RestartFails) => Kept'
<1> SUFFICES ASSUME Kept, RestartForget \/ RestartReset \/ RestartFails PROVE Kept'
  OBVIOUS
<1>1. /\ pc \in {"wipe", "reset"} /\ pc' \in {"reset", "idle"}
      /\ UNCHANGED <<remote, files, attempt, after, stop>>
      /\ ~Running /\ ~Running'
  BY DEF RestartForget, RestartReset, RestartFails, Goto, Running
<1>2. /\ saved' = saved \/ saved' = NoState
      /\ pc' = "reset" => saved' = NoState
      /\ job' = job \/ job' = [job EXCEPT !.status = "queued", !.total = NoTotal]
  BY DEF RestartForget, RestartReset, RestartFails, Goto
<1>3. \A p \in Staging : staging'[p] = NoFile
  BY <1>1 DEF Kept, PlaceKept, files
<1>4. DOMAIN job' = DOMAIN job
  BY <1>2, Zenon
<1>5. /\ job'.policy = job.policy /\ job'.name = job.name
      /\ job'.status = job.status \/ job'.status = "queued"
  BY <1>2 DEF Kept, JobKept
<1>6. FilesKept' /\ remote' \in Versions
  BY <1>1 DEF Kept, FilesKept, files
<1>7. SavedKept'
  <2>1. CASE saved' = NoState
    BY <2>1 DEF SavedKept
  <2>2. CASE saved' = saved
    BY <1>1, <2>2, StillKeeps DEF Kept
  <2> QED
    BY <1>2, <2>1, <2>2
<1>8. JobKept' /\ AttemptKept'
  BY <1>1, <1>4, <1>5 DEF Kept, JobKept, AttemptKept, Statuses, files
<1>9. TracksKept'
  BY <1>3 DEF TracksKept, Staging
<1>10. PlaceKept'
  BY <1>1, <1>2, <1>3 DEF Kept, PlaceKept
<1>11. OutputKept'
  BY <1>1, <1>5 DEF Kept, OutputKept, Published, files
<1> QED
  BY <1>6, <1>7, <1>8, <1>9, <1>10, <1>11 DEF Kept

---------------------------------------------------------------------------
(* The end of the process. *)

\* A process ends, and of the files what was on the platter is left
\* (manager.rs:62-95).
LEMMA ProcessEndsKeeps ==
    ASSUME Kept, ProcessEnds, FilesKept', \A p \in Staging : Preserved(p),
           \A n \in Names : WholeFile(output[n]) => WholeFile(output'[n])
    PROVE  Kept'
<1>1. /\ pc' = "idle" /\ attempt' = NoAttempt /\ stop' = "none"
      /\ UNCHANGED <<remote, linked, saved>> /\ ~Running'
  BY DEF ProcessEnds, AttemptEnds, Goto, Running
<1>2. /\ DOMAIN job' = DOMAIN job
      /\ job'.policy = job.policy /\ job'.name = job.name
      /\ job'.status = IF Running THEN "interrupted" ELSE job.status
  <2>1. CASE job.status = "active"
    <3>1. job' = [job EXCEPT !.status = "interrupted"] /\ Running
      BY <2>1 DEF ProcessEnds, Kept, JobKept
    <3>2. DOMAIN job' = DOMAIN job
      BY <3>1, Zenon
    <3> QED
      BY <3>1, <3>2 DEF Kept, JobKept
  <2>2. CASE job.status # "active"
    <3>1. job' = job /\ ~Running
      BY <2>2 DEF ProcessEnds, Kept, JobKept
    <3> QED
      BY <3>1
  <2> QED
    BY <2>1, <2>2
<1>3. SavedKept'
  BY <1>1, SavedKeptStays DEF Kept
<1>4. JobKept'
  BY <1>1, <1>2 DEF Kept, JobKept, Statuses
<1>5. AttemptKept' /\ PlaceKept' /\ remote' \in Versions
  BY <1>1 DEF Kept, AttemptKept, PlaceKept
<1>6. \A p \in Staging : staging[p] = NoFile => staging'[p] = NoFile
  BY DEF Preserved
<1>7. TracksKept'
  <2>1. CASE saved = NoState /\ TracksLeft
    <3>1. Running => job'.status = "interrupted"
      BY <1>2
    <3>2. ~Running => job'.status = job.status /\ job.status \in {"cancelled", "interrupted", "completed"}
      BY <1>2, <2>1 DEF TracksLeft, Running
    <3> QED
      BY <1>1, <2>1, <3>1, <3>2 DEF TracksKept, TracksLeft
  <2>2. CASE saved # NoState /\ Len(saved.tracks) = 2
    BY <1>1, <2>2 DEF TracksKept
  <2>3. CASE staging["video"] = NoFile /\ staging["audio"] = NoFile
    BY <1>6, <2>3 DEF TracksKept, Staging
  <2> QED
    BY <2>1, <2>2, <2>3 DEF Kept, TracksKept
<1>8. OutputKept'
  <2>1. job.name \in Names
    BY DEF Kept, JobKept
  <2>2. Published' => Published
    BY <1>1, <1>2 DEF Published
  <2> QED
    BY <1>2, <2>1, <2>2 DEF Kept, OutputKept
<1> QED
  BY <1>3, <1>4, <1>5, <1>7, <1>8 DEF Kept

\* The files outlive the process.
LEMMA ProcessExitKeeps == Kept /\ ProcessExit => Kept'
<1> SUFFICES ASSUME Kept, ProcessExit PROVE Kept'
  OBVIOUS
<1>1. ProcessEnds /\ UNCHANGED <<staging, output, linked>>
  BY DEF ProcessExit, ProcessEnds
<1>2. FilesKept'
  BY <1>1 DEF Kept, FilesKept
<1>3. \A p \in Staging : Preserved(p)
  BY <1>1, SameIsPreserved
<1>4. \A n \in Names : WholeFile(output[n]) => WholeFile(output'[n])
  BY <1>1
<1> QED
  BY <1>1, <1>2, <1>3, <1>4, ProcessEndsKeeps

\* The power goes: a file that was not synced may be cut, or hold garbage.
LEMMA PowerLossKeeps == Kept /\ PowerLoss => Kept'
<1> SUFFICES ASSUME Kept, PowerLoss PROVE Kept'
  OBVIOUS
<1>1. PICK part \in Survivors(staging["part"]), video \in Survivors(staging["video"]),
           audio \in Survivors(staging["audio"]) :
        /\ staging' = [part |-> part, video |-> video, audio |-> audio]
        /\ output' = [n \in Names |-> IF n \in linked THEN part ELSE output[n]]
  BY DEF PowerLoss
<1>2. ProcessEnds /\ UNCHANGED linked
  BY DEF PowerLoss, ProcessEnds
<1>3. /\ staging'["part"] = part /\ staging'["video"] = video /\ staging'["audio"] = audio
      /\ DOMAIN staging' = Staging
  BY <1>1 DEF Staging
<1>4. \A p \in Staging : staging'[p] \in Survivors(staging[p])
  BY <1>3 DEF Staging
<1>5. \A p \in Staging : /\ staging'[p] \in Files \cup {NoFile} /\ IsFile(staging'[p])
                         /\ Preserved(p)
                         /\ staging[p] # NoFile => staging'[p] # NoFile
                         /\ staging[p] # NoFile /\ staging[p].synced = Len(staging[p].data) =>
                              staging'[p] = staging[p]
  <2> TAKE p \in Staging
  <2>1. staging'[p] \in Survivors(staging[p]) /\ IsFile(staging[p])
    BY <1>4 DEF Kept, FilesKept
  <2>2. CASE staging[p] = NoFile
    BY <2>1, <2>2, NothingSurvives DEF IsFile, Preserved
  <2>3. CASE staging[p] # NoFile
    <3>1. /\ staging'[p] # NoFile /\ IsFile(staging'[p]) /\ staging'[p] \in Files
          /\ \A d \in Nat : d <= staging[p].synced => Keeps(staging[p], staging'[p], d)
          /\ staging[p].synced = Len(staging[p].data) => staging'[p] = staging[p]
      BY <2>1, <2>3, Survives
    <3> QED
      BY <2>3, <3>1 DEF Preserved
  <2> QED
    BY <2>2, <2>3
<1>6. staging' \in [Staging -> Files \cup {NoFile}]
  <2>1. staging' = [p \in Staging |-> staging'[p]]
    BY <1>1, <1>3 DEF Staging
  <2> QED
    BY <1>5, <2>1
<1>7. \A n \in Names : output'[n] = IF n \in linked THEN staging'["part"] ELSE output[n]
  BY <1>1, <1>3
<1>8. FilesKept'
  <2>1. output' \in [Names -> Files \cup {NoFile}]
    <3>1. \A n \in Names : output'[n] \in Files \cup {NoFile}
      BY <1>5, <1>7 DEF Kept, FilesKept, Staging
    <3>2. output' = [n \in Names |-> output'[n]]
      BY <1>1
    <3> QED
      BY <3>1, <3>2
  <2>2. \A n \in Names : IsFile(output'[n])
    BY <1>5, <1>7 DEF Kept, FilesKept, Staging
  <2>3. \A n \in linked' : output'[n] = staging'["part"] /\ staging'["part"] # NoFile
    BY <1>2, <1>5, <1>7 DEF Kept, FilesKept, Staging
  <2>4. linked' \subseteq Names
    BY <1>2 DEF Kept, FilesKept
  <2> QED
    BY <1>5, <1>6, <2>1, <2>2, <2>3, <2>4 DEF FilesKept
<1>9. \A n \in Names : WholeFile(output[n]) => WholeFile(output'[n])
  <2> TAKE n \in Names
  <2> SUFFICES ASSUME WholeFile(output[n]) PROVE WholeFile(output'[n])
    OBVIOUS
  <2>1. CASE n \in linked
    <3>1. output[n] = staging["part"] /\ staging["part"] # NoFile
      BY <2>1 DEF Kept, FilesKept
    <3>2. staging["part"].synced = Len(staging["part"].data)
      BY <3>1 DEF WholeFile
    <3>3. output'[n] = output[n]
      BY <1>5, <1>7, <2>1, <3>1, <3>2 DEF Staging
    <3> QED
      BY <3>3
  <2>2. CASE n \notin linked
    <3>1. output'[n] = output[n]
      BY <1>7, <2>2
    <3> QED
      BY <3>1
  <2> QED
    BY <2>1, <2>2
<1>10. \A p \in Staging : Preserved(p)
  BY <1>5
<1> QED
  BY <1>2, <1>8, <1>9, <1>10, ProcessEndsKeeps

---------------------------------------------------------------------------
(* The invariant. *)

\* At first there is nothing, but perhaps a file of someone else.
LEMMA InitKept == Init => Kept
<1> SUFFICES ASSUME Init PROVE Kept
  OBVIOUS
<1>1. /\ remote \in Versions /\ linked = {} /\ saved = NoState /\ pc = "idle"
      /\ attempt = NoAttempt /\ stop = "none" /\ staging = [p \in Staging |-> NoFile]
      /\ job \in [status: {"queued"}, total: {NoTotal}, policy: Policies, name: {0}]
  BY DEF Init
<1>2. ~Running
  BY <1>1 DEF Running
<1>3. \A p \in Staging : staging[p] = NoFile
  BY <1>1
<1>4. Foreign \in Files /\ IsFile(Foreign)
  <2>1. <<Garbage>> \in Seq(Bytes) /\ 1 <= Len(<<Garbage>>)
    BY DEF Bytes
  <2> QED
    BY <2>1, FileIs DEF Foreign
<1>5. PICK taken \in 0..1 : output = [n \in Names |-> IF n < taken THEN Foreign ELSE NoFile]
  BY DEF Init
<1>6. FilesKept
  <2>1. \A n \in Names : output[n] = Foreign \/ output[n] = NoFile
    BY <1>5
  <2>2. output \in [Names -> Files \cup {NoFile}]
    BY <1>4, <1>5
  <2>3. \A n \in Names : IsFile(output[n])
    BY <1>4, <2>1 DEF IsFile
  <2>4. staging \in [Staging -> Files \cup {NoFile}] /\ \A p \in Staging : IsFile(staging[p])
    BY <1>1, <1>3 DEF IsFile
  <2> QED
    BY <1>1, <2>2, <2>3, <2>4 DEF FilesKept
<1>7. JobKept
  <2>1. 0 \in Names
    BY PresentationAssumption DEF Names
  <2> QED
    BY <1>1, <1>2, <2>1 DEF JobKept, Statuses
<1>8. AttemptKept /\ SavedKept
  BY <1>1, <1>2 DEF AttemptKept, SavedKept
<1>9. TracksKept
  BY <1>3 DEF TracksKept, Staging
<1>10. PlaceKept
  BY <1>1 DEF PlaceKept
<1>11. OutputKept
  BY <1>1, <1>2 DEF OutputKept, Published
<1> QED
  BY <1>1, <1>6, <1>7, <1>8, <1>9, <1>10, <1>11 DEF Kept

\* A step that changes nothing.
LEMMA StutterKeeps == Kept /\ UNCHANGED vars => Kept'
<1> SUFFICES ASSUME Kept, UNCHANGED vars PROVE Kept'
  OBVIOUS
<1>1. /\ UNCHANGED <<files, saved, job, pc, attempt, after>> /\ remote' \in Versions
      /\ stop' = stop
  BY DEF vars, Kept
<1> QED
  BY <1>1, AsideKeeps

\* What an attempt does once begun, short of reading the network.
LEMMA ProceedsKeeps == Kept /\ Proceeds => Kept'
<1> SUFFICES ASSUME Kept, Proceeds PROVE Kept'
  OBVIOUS
<1>1. CASE StopPreparing \/ ReportStop
  BY <1>1, StopInPlaceKeeps
<1>2. CASE OpenState \/ CommitDownloading
  BY <1>2, OpenStateKeeps, CommitDownloadingKeeps
<1>3. CASE OpenTrack
  BY <1>3, OpenTrackKeeps
<1>4. CASE OpenRefused \/ PublishRefused
  BY <1>4, FailsInPlaceKeeps
<1>5. CASE StopBetweenSegments \/ EndOfTrack
  BY <1>5, CheckpointKeeps
<1>6. CASE NoticeStop
  BY <1>6, AbandonKeeps
<1>7. CASE Truncate \/ Sync \/ SaveCheckpoint
  BY <1>7, TruncateKeeps, SyncKeeps, SaveCheckpointKeeps
<1>8. CASE CleanUpRemove \/ CleanUpForget
  BY <1>8, CleanUpRemoveKeeps, CleanUpForgetKeeps
<1>9. CASE MuxCreate \/ MuxWrite
  BY <1>9, MuxCreateKeeps, MuxWriteKeeps
<1>10. CASE CommitFinalizing \/ PublishByRename \/ PublishByLink
  BY <1>10, CommitFinalizingKeeps, PublishByRenameKeeps, PublishByLinkKeeps
<1>11. CASE Unlink \/ ClearState \/ DiscardTracks
  BY <1>11, UnlinkKeeps, ClearStateKeeps, DiscardTracksKeeps
<1>12. CASE Record \/ DropOverrun
  BY <1>12, RecordKeeps, DropOverrunKeeps
<1> QED
  BY <1>1, <1>2, <1>3, <1>4, <1>5, <1>6, <1>7, <1>8, <1>9, <1>10, <1>11, <1>12 DEF Proceeds

\* What fails it.
LEMMA FailsKeeps ==
    ASSUME Kept, NEW status \in {"retryable", "failed"}, Fails(status)
    PROVE  Kept'
<1>1. CASE \/ PlanFails(status) \/ OpenFails(status) \/ SegmentFails(status)
           \/ CheckpointFails(status) \/ MuxFails(status) \/ PublishFails(status)
  BY <1>1, FailsInPlaceKeeps
<1>2. CASE BodyFails(status)
  BY <1>2, AbandonKeeps
<1>3. CASE WriteFails(status)
  BY <1>3, WriteFailsKeeps
<1> QED
  BY <1>1, <1>2, <1>3 DEF Fails

\* Every step keeps the invariant.
LEMMA NextKept == Kept /\ [Next]_vars => Kept'
<1> SUFFICES ASSUME Kept, [Next]_vars PROVE Kept'
  OBVIOUS
<1>1. CASE Plan \/ Proceeds
  BY <1>1, PlanKeeps, ProceedsKeeps
<1>2. CASE OpenSegment \/ Receive \/ EndOfSegment
  BY <1>2, OpenSegmentKeeps, ReceiveKeeps, EndOfSegmentKeeps
<1>3. CASE \E status \in {"retryable", "failed"} : Fails(status)
  BY <1>3, FailsKeeps
<1>4. CASE \E kind \in {"pause", "cancel"} : RequestStop(kind)
  BY <1>4, RequestStopKeeps
<1>5. CASE Pause \/ Cancel \/ Retry \/ Resume
  BY <1>5, CommandsKeep
<1>6. CASE Restarts
  BY <1>6, RestartRemoveKeeps, RestartRemoveFailsKeeps, RestartKeeps DEF Restarts
<1>7. CASE RemoteChanges \/ ProcessExit \/ PowerLoss
  BY <1>7, RemoteChangesKeeps, ProcessExitKeeps, PowerLossKeeps
<1>8. CASE UNCHANGED vars
  BY <1>8, StutterKeeps
<1> QED
  BY <1>1, <1>2, <1>3, <1>4, <1>5, <1>6, <1>7, <1>8 DEF Next

\* In every state an attempt, its staging files and its checkpoint fit together,
\* and between attempts what is left of them does.
THEOREM StreamInvariance == Spec => []Kept
<1>1. Init => Kept
  BY InitKept
<1>2. Kept /\ [Next]_vars => Kept'
  BY NextKept
<1> QED
  BY <1>1, <1>2, PTL DEF Spec

---------------------------------------------------------------------------
(* What follows from it. *)

\* A checkpoint counts whole segments that are on the platter.
LEMMA KeptCheckpoint == Kept => CheckpointIsWholeSegments
<1> SUFFICES ASSUME Kept, saved # NoState, NEW t \in DOMAIN saved.tracks,
                    staging[Path(Len(saved.tracks), t)] # NoFile
             PROVE  LET file == staging[Path(Len(saved.tracks), t)] IN
                    /\ saved.tracks[t].durable <= file.synced
                    /\ SubSeq(file.data, 1, saved.tracks[t].durable) \in
                         WholeSegments(saved.print, t, saved.tracks[t].next)
  BY DEF CheckpointIsWholeSegments
<1>1. PICK v \in Versions : SavedFits(v)
  BY DEF Kept, SavedKept
<1>2. /\ saved.print = Fingerprint[v] /\ Len(saved.tracks) = Len(Segments[v])
      /\ DOMAIN saved.tracks = Tracks(v)
  BY <1>1, FitsHas
<1>3. TrackKept(v, t)
  BY <1>1, <1>2 DEF SavedFits
<1> QED
  BY <1>2, <1>3 DEF TrackKept

\* The second track is begun when the first is whole.
LEMMA KeptOrder == Kept => TracksInOrder
<1> SUFFICES ASSUME Kept, saved # NoState, Len(saved.tracks) = 2, saved.tracks[2].next > 0
             PROVE  \E v \in Versions : /\ Fingerprint[v] = saved.print
                                        /\ saved.tracks[1].next = Len(Segments[v][1])
  BY DEF TracksInOrder
<1>1. PICK v \in Versions : SavedFits(v)
  BY DEF Kept, SavedKept
<1>2. saved.print = Fingerprint[v] /\ Len(saved.tracks) = Len(Segments[v])
  BY <1>1, FitsHas
<1> QED
  BY <1>1, <1>2 DEF SavedFits

\* The parts of the invariant that are the properties.
LEMMA KeptImplies == Kept => AttemptsStartSafely /\ CompletedIsWhole
<1> SUFFICES ASSUME Kept PROVE AttemptsStartSafely /\ CompletedIsWhole
  OBVIOUS
<1>1. CheckpointIsWholeSegments /\ TracksInOrder
  BY KeptCheckpoint, KeptOrder
<1>2. PausedWhereSaved
  BY DEF Kept, PlaceKept, PausedWhereSaved
<1>3. RestartLeavesNothing
  BY DEF Kept, PlaceKept, RestartLeavesNothing
<1>4. CompletedIsWhole
  <2> SUFFICES ASSUME job.status = "completed"
               PROVE  LET file == output[job.name] IN
                      /\ \E v \in Versions : file.data \in WholePresentations(v)
                      /\ file.synced = Len(file.data)
    BY DEF CompletedIsWhole
  <2>1. ~Running
    BY DEF Kept, JobKept
  <2>2. WholeFile(output[job.name])
    BY <2>1 DEF Kept, OutputKept, Published
  <2> QED
    BY <2>2 DEF WholeFile
<1> QED
  BY <1>1, <1>2, <1>3, <1>4 DEF AttemptsStartSafely

\* Every variable keeps its type.
LEMMA KeptTypes == Kept => TypeOK
<1> SUFFICES ASSUME Kept PROVE TypeOK
  OBVIOUS
<1>1. \A f : IsFile(f) => FileType(f)
  <2> TAKE f
  <2>1. CASE f = NoFile
    BY <2>1 DEF FileType
  <2>2. CASE f # NoFile
    <3> SUFFICES ASSUME IsFile(f) PROVE FileType(f)
      OBVIOUS
    <3>1. Len(f.data) \in Nat /\ f.synced \in Nat /\ f.synced <= Len(f.data)
      BY <2>2, FileHas
    <3>2. f.synced \in 0..Len(f.data)
      BY <3>1
    <3> QED
      BY <3>2 DEF FileType
  <2> QED
    BY <2>1, <2>2
<1>2. saved = NoState \/ Len(saved.tracks) \in 1..2
  <2> SUFFICES ASSUME saved # NoState PROVE Len(saved.tracks) \in 1..2
    OBVIOUS
  <2>1. PICK v \in Versions : SavedFits(v)
    BY DEF Kept, SavedKept
  <2>2. Len(saved.tracks) = Len(Segments[v])
    BY <2>1, FitsHas
  <2> QED
    BY <2>2, PresentationAssumption
<1>3. attempt = NoAttempt \/ attempt.track \in Tracks(attempt.plan)
  BY DEF Kept, AttemptKept
<1>4. \A n \in linked : output[n] = staging["part"]
  BY DEF Kept, FilesKept
<1>5. (\A p \in Staging : FileType(staging[p])) /\ (\A n \in Names : FileType(output[n]))
  BY <1>1 DEF Kept, FilesKept
<1> QED
  BY <1>2, <1>3, <1>4, <1>5 DEF TypeOK, Kept, JobKept, PlaceKept

\* Every variable keeps its type, and of a file at most what was written is synced.
THEOREM StreamTypes == Spec => []TypeOK
<1>1. Kept => TypeOK
  BY KeptTypes
<1> QED
  BY <1>1, StreamInvariance, PTL

\* What an attempt finds of the earlier ones is whole segments, in their order and
\* on the platter; a pause is reported at the bytes the next attempt starts from;
\* and a restart from zero finds nothing (executor.rs:142-180, 312-345, 670-775).
THEOREM AttemptsBuildOnWholeSegments == Spec => []AttemptsStartSafely
<1>1. Kept => AttemptsStartSafely
  BY KeptImplies
<1> QED
  BY <1>1, StreamInvariance, PTL

\* A completed download is every segment of every track of a presentation, once and
\* in order, whatever happened to the attempts that fetched them, and no loss of
\* power takes a byte of it (executor.rs:1132-1147, finalize.rs:146-193).
THEOREM CompletedHoldsTheWhole == Spec => []CompletedIsWhole
<1>1. Kept => CompletedIsWhole
  BY KeptImplies
<1> QED
  BY <1>1, StreamInvariance, PTL
=============================================================================
