----------------------------- MODULE CaptureProofs -----------------------------
(***************************************************************************)
(* Theorems about Capture, for any number of connections, reports and       *)
(* captures and channels of any size: the quality picker shows the capture  *)
(* the user last asked for, every reply is to the question its connection   *)
(* asked, and a browser download finds the capture reported for it.         *)
(*                                                                         *)
(* A connection waits with one question at a time, and the question is in   *)
(* one place: a channel, an event in the daemon's hand, or the reply.  What *)
(* it carries on its way, a candidate that is perhaps no longer listed, is  *)
(* known by the identifier it was given, which is never given again.        *)
(***************************************************************************)
EXTENDS Capture, SequenceTheorems, WellFoundedInduction, TLAPS

\* A sequence, of whatever its elements are.
IsSeq(q) == q \in Seq(ToSet(q))

-----------------------------------------------------------------------------
(* The picker. *)

\* An inspection that is as late as the last command was asked for by it.
Timely(i) ==
    /\ i.sequence \in Nat
    /\ i.sequence <= sequence
    /\ i.sequence = sequence => i.id = wanted

Picker ==
    /\ sequence \in Nat
    /\ IsSeq(inspected)
    /\ \A i \in inspections \cup ToSet(inspected) : Timely(i)
    /\ TracksAreWanted

-----------------------------------------------------------------------------
(* The questions and their answers. *)

Fields == [id : Nat, url : {r.url : r \in AllReports}, page : {r.page : r \in AllReports},
           kind : {r.kind : r \in AllReports}, variants : {r.variants : r \in AllReports}]

\* A candidate as it was recorded, under an identifier that is its own.
Known(c, owners) ==
    /\ c \in Fields
    /\ c.id \in 1 .. Len(owners)
    /\ owners[c.id].url = c.url /\ owners[c.id].page = c.page
    /\ \E r \in AllReports : r.url = c.url /\ r.variants = c.variants

Recording ==
    /\ IsSeq(minted) /\ IsSeq(catalog) /\ IsSeq(jobs)
    /\ \A c \in ToSet(catalog) : Known(c, minted)
    /\ \A j \in DOMAIN jobs : jobs[j] = [url |-> jobs[j].url, active |-> jobs[j].active]

\* What a connection has of a message that reports something.
Reading(k) ==
    /\ k.msg.type \in {"candidate", "browser", "source"}
    /\ IsSeq(k.msg.reports) /\ ToSet(k.msg.reports) \subseteq AllReports
    /\ IsSeq(k.todo) /\ IsSeq(k.ids)
    /\ Len(k.ids) + Len(k.todo) + (IF k.phase = "submitted" THEN 1 ELSE 0) = Len(k.msg.reports)
    /\ \A n \in 1 .. Len(k.todo) :
         k.todo[n] = k.msg.reports[Len(k.msg.reports) - Len(k.todo) + n]
    /\ k.phase = "submit" => k.todo # <<>>

Whole(k) == k = [phase |-> k.phase, gone |-> k.gone, msg |-> k.msg, todo |-> k.todo,
                 ids |-> k.ids, offer |-> k.offer]

Conversing(k) ==
    /\ Whole(k)
    /\ k.phase \in {"closed", "greeting", "ready"} => k.ids = <<>>
    /\ k.phase \in {"submit", "submitted"} => Reading(k)
    /\ k.phase \in {"ask", "asked"} => k.msg.type \in {"browser", "download", "list", "status"}

Conversations ==
    /\ DOMAIN conn = Connections /\ DOMAIN reply = Connections
    /\ \A c \in Connections : Conversing(conn[c])

\* A question on its way is the one its connection waits with.
Submitted(s) ==
    /\ s.conn \in Connections
    /\ conn[s.conn].phase = "submitted" /\ reply[s.conn] = Nobody
    /\ s.report \in AllReports
    /\ s.report.url = conn[s.conn].msg.reports[Len(conn[s.conn].ids) + 1].url

Asked(q) ==
    /\ q.conn \in Connections
    /\ conn[q.conn].phase = "asked" /\ reply[q.conn] = Nobody
    /\ q.request = Request(q.conn)

\* The candidate an event carries is one its request is about.
About(request, c) ==
    IF request.type = "download" /\ request.capture # 0
    THEN c.id = request.capture ELSE c.page = request.page

Forwarded(e) ==
    /\ Asked(e)
    /\ e.request.type # "status" =>
         Known(e.candidate, minted) /\ About(e.request, e.candidate)

\* A connection has one question, and it is in one place.
Distinct(q) == \A m, n \in DOMAIN q : q[m].conn = q[n].conn => m = n

OnTheirWay ==
    /\ IsSeq(submissions) /\ Distinct(submissions)
    /\ IsSeq(requests) /\ Distinct(requests)
    /\ IsSeq(events) /\ Distinct(events)
    /\ \A s \in ToSet(submissions) : Submitted(s)
    /\ \A q \in ToSet(requests) : Asked(q)
    /\ \A e \in ToSet(events) : Forwarded(e)
    /\ \A q \in ToSet(requests), e \in ToSet(events) : q.conn # e.conn
    /\ daemon.phase = "formats" =>
         /\ Forwarded(daemon.event) /\ daemon.event.request.type = "list"
         /\ \A q \in ToSet(requests) \cup ToSet(events) : q.conn # daemon.event.conn

\* A reply is sound: it names what there is.
Sound(c, a) ==
    /\ a.type \in {"unavailable", "id", "formats", "status", "queued"}
    /\ a.type = "id" => a.id \in Ids
    /\ a.type = "formats" => a.capture \in Ids
    /\ a.type = "queued" => /\ a.job \in DOMAIN jobs
                            /\ Request(c).capture \in Ids \cup {0}
    /\ Answers(c, a)

Replies ==
    \A c \in Connections : reply[c] # Nobody =>
        /\ conn[c].phase \in {"submitted", "asked"}
        /\ Sound(c, reply[c])

CInv == Recording /\ Conversations /\ OnTheirWay /\ Replies

-----------------------------------------------------------------------------
(* Queues. *)

\* One more element at the end.
LEMMA AppendQueue ==
    ASSUME NEW q, IsSeq(q), NEW x
    PROVE  /\ IsSeq(Append(q, x))
           /\ ToSet(Append(q, x)) = ToSet(q) \cup {x}
           /\ Len(Append(q, x)) = Len(q) + 1
           /\ DOMAIN Append(q, x) = 1 .. (Len(q) + 1)
           /\ \A n \in 1 .. Len(q) : Append(q, x)[n] = q[n]
           /\ Append(q, x)[Len(q) + 1] = x
<1> DEFINE S == ToSet(q) \cup {x}
<1>1. q \in Seq(S) /\ x \in S /\ Len(q) \in Nat /\ DOMAIN q = 1 .. Len(q)
  BY SeqMonotonic, LenProperties DEF IsSeq
<1> DEFINE r == Append(q, x)
<1>2. /\ r \in Seq(S) /\ Len(r) = Len(q) + 1
      /\ \A n \in 1 .. Len(q) : r[n] = q[n]
      /\ r[Len(q) + 1] = x
  BY <1>1, AppendProperties
<1> HIDE DEF r
<1>3. DOMAIN r = 1 .. (Len(q) + 1)
  BY <1>2, LenProperties
<1>4. ToSet(r) = ToSet(q) \cup {x}
  BY <1>1, <1>2, <1>3 DEF ToSet
<1> QED
  BY <1>2, <1>3, <1>4 DEF IsSeq, r

\* The first element is taken, and in a queue of distinct connections no other
\* element is of its connection.
LEMMA TailQueue ==
    ASSUME NEW q, IsSeq(q), q # <<>>
    PROVE  /\ IsSeq(Tail(q))
           /\ Head(q) \in ToSet(q) /\ Head(q) = q[1] /\ Len(q) >= 1
           /\ ToSet(Tail(q)) \subseteq ToSet(q)
           /\ Len(Tail(q)) = Len(q) - 1
           /\ \A n \in 1 .. Len(Tail(q)) : Tail(q)[n] = q[n + 1]
           /\ Distinct(q) => /\ Distinct(Tail(q))
                             /\ \A x \in ToSet(Tail(q)) : x.conn # Head(q).conn
<1> DEFINE t == Tail(q)
<1>1. /\ t \in Seq(ToSet(q)) /\ Len(t) = Len(q) - 1
      /\ \A n \in 1 .. Len(t) : t[n] = q[n + 1]
      /\ Head(q) = q[1] /\ Len(q) >= 1 /\ Len(q) \in Nat /\ DOMAIN q = 1 .. Len(q)
  BY HeadTailProperties, LenProperties, EmptySeq DEF IsSeq
<1> HIDE DEF t
<1>2. DOMAIN t = 1 .. Len(t)
  BY <1>1, LenProperties
<1>3. \A n \in 1 .. Len(t) : n + 1 \in DOMAIN q /\ n + 1 # 1
  BY <1>1
<1>4. ToSet(t) \subseteq ToSet(q) /\ Head(q) \in ToSet(q)
  <2>1. \A n \in DOMAIN q : q[n] \in ToSet(q)
    BY DEF ToSet
  <2>2. \A n \in DOMAIN t : t[n] \in ToSet(q)
    BY <1>1, <1>2, <1>3, <2>1
  <2>3. ToSet(t) \subseteq ToSet(q)
    BY <2>2 DEF ToSet
  <2>4. 1 \in DOMAIN q
    BY <1>1
  <2> QED
    BY <1>1, <2>1, <2>3, <2>4
<1>5. t \in Seq(ToSet(t))
  <2>1. \A n \in 1 .. Len(t) : t[n] \in ToSet(t)
    BY <1>2 DEF ToSet
  <2> QED
    BY <1>1, <1>2, <2>1, IsASeq, LenProperties
<1>6. ASSUME Distinct(q)
      PROVE  Distinct(t) /\ \A x \in ToSet(t) : x.conn # Head(q).conn
  <2>1. ASSUME NEW m \in DOMAIN t, NEW n \in DOMAIN t, t[m].conn = t[n].conn PROVE m = n
    <3>1. m \in 1 .. Len(t) /\ n \in 1 .. Len(t) /\ m \in Int /\ n \in Int
      BY <1>1, <1>2, <2>1
    <3>2. q[m + 1].conn = q[n + 1].conn
      BY <1>1, <2>1, <3>1
    <3>3. m + 1 = n + 1
      BY <1>3, <1>6, <3>1, <3>2 DEF Distinct
    <3> QED
      BY <3>1, <3>3
  <2>2. ASSUME NEW n \in DOMAIN t PROVE t[n].conn # Head(q).conn
    BY <1>1, <1>2, <1>3, <1>6, <2>2 DEF Distinct
  <2>3. \A x \in ToSet(t) : x.conn # Head(q).conn
    BY <2>2 DEF ToSet
  <2> QED
    BY <2>1, <2>3 DEF Distinct
<1> QED
  BY <1>1, <1>4, <1>5, <1>6 DEF IsSeq, t

\* A queue to which the question of another connection is added.
LEMMA AppendDistinct ==
    ASSUME NEW q, IsSeq(q), Distinct(q), NEW x, \A y \in ToSet(q) : y.conn # x.conn
    PROVE  Distinct(Append(q, x))
<1>1. DOMAIN q = 1 .. Len(q) /\ Len(q) \in Nat
  BY LenProperties DEF IsSeq
<1> DEFINE r == Append(q, x)
<1>2. /\ DOMAIN r = 1 .. (Len(q) + 1) /\ r[Len(q) + 1] = x
      /\ \A n \in 1 .. Len(q) : r[n] = q[n]
  BY AppendQueue
<1>3. \A n \in 1 .. Len(q) : q[n].conn # x.conn
  BY <1>1 DEF ToSet
<1> HIDE DEF r
<1>4. ASSUME NEW m \in DOMAIN r, NEW n \in DOMAIN r, r[m].conn = r[n].conn PROVE m = n
  BY <1>1, <1>2, <1>3, <1>4 DEF Distinct
<1>5. Distinct(r)
  BY <1>4 DEF Distinct
<1> QED
  BY <1>5 DEF r

-----------------------------------------------------------------------------
(* The picker shows what is wanted. *)

\* What is as late as the last command after a command that asks for nothing.
LEMMA Outdated ==
    ASSUME Picker, sequence' = sequence + 1, UNCHANGED <<inspections, inspected>>,
           tracks' # 0 => tracks' = wanted'
    PROVE  Picker'
<1>1. \A i \in inspections \cup ToSet(inspected) :
        i.sequence \in Nat /\ i.sequence < sequence + 1
  BY DEF Picker, Timely
<1> QED
  BY <1>1 DEF Picker, Timely, TracksAreWanted

\* What leaves the picker and its inspections alone.
LEMMA PickerStays == Picker /\ UNCHANGED desk => Picker'
  BY DEF Picker, Timely, TracksAreWanted, desk

\* The commands about captures (lib.rs:356-409, 465-489, 573-585).
LEMMA PickerNext == Picker /\ [Next]_vars => Picker'
<1> SUFFICES ASSUME Picker, [Next]_vars PROVE Picker'
  OBVIOUS
<1>1. CASE Client
  <2>1. ASSUME NEW c, Accept(c) PROVE UNCHANGED desk
    BY <2>1 DEF Accept
  <2>2. ASSUME NEW c, NEW good, Greet(c, good) PROVE UNCHANGED desk
    BY <2>2 DEF Greet
  <2>3. ASSUME NEW c, Leave(c) PROVE UNCHANGED desk
    BY <2>3 DEF Leave
  <2>4. ASSUME NEW c, NEW msg, Receive(c, msg) PROVE UNCHANGED desk
    BY <2>4 DEF Receive
  <2>5. UNCHANGED desk
    BY <1>1, <2>1, <2>2, <2>3, <2>4, Zenon DEF Client
  <2> QED
    BY <2>5, PickerStays
<1>2. ASSUME NEW c \in Connections, Converse(c) PROVE Picker'
  BY <1>2, PickerStays DEF Converse, Submit, AfterSubmit, Ask, AfterAsk
<1>3. CASE Listener
  BY <1>3, PickerStays DEF Listener, RecordReport, Publish, ForwardRequest, ApplyCommand
<1>4. CASE HandleDownload
  <2>1. UNCHANGED desk \/ Supersede
    BY <1>4 DEF HandleDownload, NewJob
  <2> QED
    BY <2>1, PickerStays, Outdated DEF Supersede
<1>5. CASE HandleStatus \/ HandleFormats
  BY <1>5, PickerStays DEF HandleStatus, HandleFormats
<1>6. CASE HandleInspected
  <2>1. /\ inspected # <<>> /\ inspected' = Tail(inspected)
        /\ UNCHANGED <<sequence, inspections, wanted>>
        /\ tracks' = tracks \/ (Head(inspected).sequence = sequence /\ tracks' = Head(inspected).id)
    BY <1>6 DEF HandleInspected
  <2>2. /\ IsSeq(inspected') /\ Head(inspected) \in ToSet(inspected)
        /\ ToSet(inspected') \subseteq ToSet(inspected)
    BY <2>1, TailQueue DEF Picker
  <2>3. TracksAreWanted'
    BY <2>1, <2>2 DEF Picker, Timely, TracksAreWanted
  <2> QED
    BY <2>1, <2>2, <2>3 DEF Picker, Timely
<1>7. ASSUME NEW ok \in BOOLEAN, ManifestRead(ok) PROVE Picker'
  BY <1>7, PickerStays DEF ManifestRead
<1>8. CASE Dismissed
  BY <1>8, Outdated DEF Dismissed, Picker, TracksAreWanted
<1>9. ASSUME NEW id \in Ids, InspectCapture(id) PROVE Picker'
  <2>1. /\ sequence' = sequence + 1 /\ wanted' = id /\ UNCHANGED inspected
        /\ \/ tracks' = id /\ UNCHANGED inspections
           \/ tracks' = 0 /\ inspections' = inspections \cup {[sequence |-> sequence + 1, id |-> id]}
    BY <1>9 DEF InspectCapture
  <2>2. CASE UNCHANGED inspections
    BY <2>1, <2>2, Outdated
  <2>3. CASE tracks' = 0 /\ inspections' = inspections \cup {[sequence |-> sequence + 1, id |-> id]}
    <3>1. \A i \in inspections \cup ToSet(inspected) :
            i.sequence \in Nat /\ i.sequence < sequence + 1
      BY DEF Picker, Timely
    <3>2. \A i \in inspections' \cup ToSet(inspected') : Timely(i)'
      BY <2>1, <2>3, <3>1 DEF Picker, Timely
    <3> QED
      BY <2>1, <2>3, <3>2 DEF Picker, TracksAreWanted
  <2> QED
    BY <2>1, <2>2, <2>3
<1>10. ASSUME NEW id \in Ids, DownloadCapture(id) PROVE Picker'
  BY <1>10, Outdated DEF DownloadCapture, NewJob, Supersede
<1>11. ASSUME NEW id, Dismiss(id) PROVE Picker'
  BY <1>11, PickerStays DEF Dismiss
<1>12. ASSUME NEW i \in inspections, InspectionDone(i) PROVE Picker'
  <2>1. /\ inspections' = inspections \ {i} /\ inspected' = Append(inspected, i)
        /\ UNCHANGED <<tracks, sequence, wanted>>
    BY <1>12 DEF InspectionDone
  <2>2. IsSeq(inspected') /\ ToSet(inspected') = ToSet(inspected) \cup {i}
    BY <2>1, AppendQueue DEF Picker
  <2> QED
    BY <2>1, <2>2 DEF Picker, Timely, TracksAreWanted
<1>13. ASSUME NEW j, JobStep(j) PROVE Picker'
  BY <1>13, PickerStays DEF JobStep
<1>14. CASE UNCHANGED vars
  BY <1>14, PickerStays DEF vars
<1> QED
  BY <1>1, <1>2, <1>3, <1>4, <1>5, <1>6, <1>7, <1>8, <1>9, <1>10, <1>11, <1>12, <1>13, <1>14
  DEF Next, HandleEvent, DaemonAwait, Desktop

\* The qualities that are shown are those of the capture the user last asked to
\* inspect, however late an inspection answers (lib.rs:573-585).
THEOREM PickerShowsTheWanted == Spec => []TracksAreWanted
<1>1. Init => Picker
  BY EmptySeq DEF Init, Picker, IsSeq, Timely, TracksAreWanted, ToSet
<1>2. Picker => TracksAreWanted
  BY DEF Picker
<1> QED
  BY <1>1, <1>2, PickerNext, PTL DEF Spec

-----------------------------------------------------------------------------
(* What a step that touches some connections has to show. *)

\* Identifiers and downloads are only added to.
Grows ==
    /\ Ids \subseteq Ids' /\ \A i \in Ids : minted'[i] = minted[i]
    /\ DOMAIN jobs \subseteq DOMAIN jobs'
    /\ \A j \in DOMAIN jobs : jobs'[j].url = jobs[j].url

\* The connection still waits with the same question.
Asks(c) ==
    /\ conn'[c].phase = conn[c].phase
    /\ conn'[c].msg = conn[c].msg
    /\ conn'[c].ids = conn[c].ids

\* What was known of a candidate still is.
LEMMA KnownStays ==
    ASSUME NEW c, Known(c, minted), Grows
    PROVE  Known(c, minted)'
<1>1. c.id \in Ids /\ Ids' = 1 .. Len(minted') /\ minted'[c.id] = minted[c.id]
  BY DEF Known, Grows, Ids
<1> QED
  BY <1>1 DEF Known, Grows, Ids

\* A reply stays sound as long as its connection does not move on.
LEMMA SoundStays ==
    ASSUME NEW c \in Connections, NEW a, Sound(c, a), Asks(c), Grows
    PROVE  Sound(c, a)'
<1>1. (Request(c))' = Request(c)
  BY DEF Request, Asks
<1>2. a.type \in {"unavailable", "id", "formats", "status", "queued"}
  BY DEF Sound
<1>3. CASE a.type \in {"unavailable", "status"}
  BY <1>3 DEF Sound, Answers, Asks
<1>4. CASE a.type = "id"
  BY <1>4 DEF Sound, Answers, Owner, Grows, Asks
<1>5. CASE a.type = "formats"
  BY <1>5 DEF Sound, Answers, Owner, Grows, Asks
<1>6. CASE a.type = "queued"
  <2> DEFINE request == Request(c)
             about == IF request.capture # 0 THEN {request.capture}
                      ELSE {i \in Ids : minted[i].page = request.page}
             later == IF request.capture # 0 THEN {request.capture}
                      ELSE {i \in Ids' : minted'[i].page = request.page}
  <2>1. a.job \in DOMAIN jobs /\ request.capture \in Ids \cup {0}
    BY <1>6 DEF Sound
  <2>2. PICK i \in about, r \in AllReports :
          r.url = minted[i].url /\ jobs[a.job].url \in {r.url} \cup ToSet(r.variants)
    BY <1>6 DEF Sound, Answers, Owner
  <2>3. i \in Ids
    BY <2>1
  <2>4. i \in later /\ r.url = minted'[i].url
    BY <2>2, <2>3 DEF Grows
  <2>5. a.job \in DOMAIN jobs' /\ jobs'[a.job].url = jobs[a.job].url
        /\ request.capture \in Ids' \cup {0}
    BY <2>1 DEF Grows
  <2>6. \E n \in later, s \in AllReports :
          s.url = minted'[n].url /\ jobs'[a.job].url \in {s.url} \cup ToSet(s.variants)
    BY <2>2, <2>4, <2>5
  <2>7. Answers(c, a)'
    BY <1>1, <1>6, <2>6 DEF Answers, Owner
  <2> QED
    BY <1>1, <1>6, <2>5, <2>7 DEF Sound
<1> QED
  BY <1>2, <1>3, <1>4, <1>5, <1>6

\* Questions of connections that are not touched stay as they are.
LEMMA QuestionStays ==
    ASSUME NEW q, q.conn \in Connections => Asks(q.conn) /\ reply'[q.conn] = reply[q.conn],
           Grows
    PROVE  /\ Submitted(q) => Submitted(q)'
           /\ Asked(q) => Asked(q)'
           /\ Forwarded(q) => Forwarded(q)'
<1>1. Submitted(q) => Submitted(q)'
  BY DEF Submitted, Asks
<1>2. Asked(q) => Asked(q)'
  BY DEF Asked, Request, Asks
<1>3. Known(q.candidate, minted) => Known(q.candidate, minted)'
  BY KnownStays
<1> QED
  BY <1>1, <1>2, <1>3 DEF Forwarded, About

\* Only the connections of C are touched.
LEMMA StepOf ==
    ASSUME CInv, Grows, Recording', NEW C,
           DOMAIN conn' = Connections, DOMAIN reply' = Connections,
           \A d \in Connections : d \notin C => Asks(d) /\ reply'[d] = reply[d],
           \A d \in Connections : Conversing(conn'[d]),
           \A c \in C : c \in Connections /\ reply'[c] # Nobody =>
             conn'[c].phase \in {"submitted", "asked"} /\ Sound(c, reply[c])',
           IsSeq(submissions)', Distinct(submissions)', IsSeq(requests)', Distinct(requests)',
           IsSeq(events)', Distinct(events)',
           \A s \in ToSet(submissions') : (s \in ToSet(submissions) /\ s.conn \notin C) \/ Submitted(s)',
           \A q \in ToSet(requests') : (q \in ToSet(requests) /\ q.conn \notin C) \/ Asked(q)',
           \A e \in ToSet(events') : (e \in ToSet(events) /\ e.conn \notin C) \/ Forwarded(e)',
           \A q \in ToSet(requests'), e \in ToSet(events') : q.conn # e.conn,
           daemon'.phase = "formats" =>
             /\ \/ daemon' = daemon /\ daemon.event.conn \notin C
                \/ Forwarded(daemon.event)' /\ daemon'.event.request.type = "list"
             /\ \A q \in ToSet(requests') \cup ToSet(events') : q.conn # daemon'.event.conn
    PROVE  CInv'
<1>1. Conversations'
  BY DEF Conversations
<1>2. Replies'
  <2> SUFFICES ASSUME NEW d \in Connections, reply'[d] # Nobody
               PROVE  conn'[d].phase \in {"submitted", "asked"} /\ Sound(d, reply[d])'
    BY DEF Replies
  <2>1. CASE d \in C
    BY <2>1
  <2>2. CASE d \notin C
    <3>1. Asks(d) /\ reply'[d] = reply[d]
      BY <2>2
    <3>2. PICK a : a = reply[d]
      OBVIOUS
    <3>3. conn[d].phase \in {"submitted", "asked"} /\ Sound(d, a)
      BY <3>1, <3>2 DEF CInv, Replies
    <3>4. Sound(d, a)'
      BY <3>1, <3>3, SoundStays
    <3>5. (Sound(d, reply[d]))'
      BY <3>1, <3>2, <3>4
    <3> QED
      BY <3>1, <3>3, <3>5 DEF Asks
  <2> QED
    BY <2>1, <2>2
<1>3. OnTheirWay'
  <2>1. \A s \in ToSet(submissions') : Submitted(s)'
    <3> SUFFICES ASSUME NEW s \in ToSet(submissions'), s \in ToSet(submissions), s.conn \notin C
                 PROVE  Submitted(s)'
      OBVIOUS
    <3>1. PICK t : t = s
      OBVIOUS
    <3>2. Submitted(t)
      BY <3>1 DEF CInv, OnTheirWay
    <3>3. Submitted(t)'
      BY <3>1, <3>2, QuestionStays
    <3> QED
      BY <3>1, <3>3
  <2>2. \A q \in ToSet(requests') : Asked(q)'
    <3> SUFFICES ASSUME NEW q \in ToSet(requests'), q \in ToSet(requests), q.conn \notin C
                 PROVE  Asked(q)'
      OBVIOUS
    <3>1. Asked(q)
      BY DEF CInv, OnTheirWay
    <3> QED
      BY <3>1, QuestionStays
  <2>3. \A e \in ToSet(events') : Forwarded(e)'
    <3> SUFFICES ASSUME NEW e \in ToSet(events'), e \in ToSet(events), e.conn \notin C
                 PROVE  Forwarded(e)'
      OBVIOUS
    <3>1. Forwarded(e)
      BY DEF CInv, OnTheirWay
    <3> QED
      BY <3>1, QuestionStays
  <2>4. daemon'.phase = "formats" =>
          (Forwarded(daemon.event))' /\ daemon'.event.request.type = "list"
    <3> SUFFICES ASSUME daemon'.phase = "formats", daemon' = daemon, daemon.event.conn \notin C
                 PROVE  (Forwarded(daemon.event))' /\ daemon'.event.request.type = "list"
      OBVIOUS
    <3>1. PICK e : e = daemon.event
      OBVIOUS
    <3>2. Forwarded(e) /\ e.request.type = "list"
      BY <3>1 DEF CInv, OnTheirWay
    <3>3. Forwarded(e)'
      BY <3>1, <3>2, QuestionStays
    <3> QED
      BY <3>1, <3>2, <3>3
  <2> QED
    BY <2>1, <2>2, <2>3, <2>4 DEF OnTheirWay
<1> QED
  BY <1>1, <1>2, <1>3 DEF CInv

\* What leaves the record alone.
LEMMA RecordStays ==
    ASSUME Recording, UNCHANGED <<catalog, minted, jobs>>
    PROVE  Recording' /\ Grows
<1>1. Recording'
  BY DEF Recording, Known
<1> QED
  BY <1>1 DEF Grows, Ids

\* A connection that waits for nothing, or whose reply has come, has no question
\* on its way.
LEMMA NoQuestion ==
    ASSUME CInv, NEW c \in Connections,
           conn[c].phase \notin {"submitted", "asked"} \/ reply[c] # Nobody
    PROVE  /\ \A q \in ToSet(submissions) \cup ToSet(requests) \cup ToSet(events) : q.conn # c
           /\ daemon.phase = "formats" => daemon.event.conn # c
  BY DEF CInv, OnTheirWay, Submitted, Asked, Forwarded

\* A step of a connection that has no question on its way, and asks none.
LEMMA StepOfConnection ==
    ASSUME CInv, NEW c \in Connections, NEW k, Conversing(k),
           conn[c].phase \notin {"submitted", "asked"} \/ reply[c] # Nobody,
           conn' = [conn EXCEPT ![c] = k],
           \/ reply' = reply /\ conn[c].phase \notin {"submitted", "asked"}
           \/ reply' = [reply EXCEPT ![c] = Nobody],
           UNCHANGED <<catalog, minted, jobs, submissions, requests, events, daemon>>
    PROVE  CInv'
<1>1. Recording' /\ Grows
  BY RecordStays DEF CInv
<1>2. /\ DOMAIN conn' = Connections /\ DOMAIN reply' = Connections
      /\ conn'[c] = k /\ reply'[c] = Nobody
      /\ \A d \in Connections : d # c => conn'[d] = conn[d] /\ reply'[d] = reply[d]
  BY DEF CInv, Conversations, Replies
<1>3. \A d \in Connections : d \notin {c} => Asks(d) /\ reply'[d] = reply[d]
  BY <1>2 DEF Asks
<1>4. \A d \in Connections : Conversing(conn'[d])
  BY <1>2 DEF CInv, Conversations
<1>5. /\ \A q \in ToSet(submissions) \cup ToSet(requests) \cup ToSet(events) : q.conn # c
      /\ daemon.phase = "formats" => daemon.event.conn # c
  BY NoQuestion
<1>6. OnTheirWay
  BY DEF CInv
<1>7. /\ IsSeq(submissions)' /\ Distinct(submissions)' /\ IsSeq(requests)' /\ Distinct(requests)'
      /\ IsSeq(events)' /\ Distinct(events)'
      /\ \A q \in ToSet(requests'), e \in ToSet(events') : q.conn # e.conn
      /\ daemon'.phase = "formats" =>
           /\ daemon' = daemon /\ daemon.event.conn \notin {c}
           /\ \A q \in ToSet(requests') \cup ToSet(events') : q.conn # daemon'.event.conn
  BY <1>5, <1>6 DEF OnTheirWay
<1>8. /\ \A s \in ToSet(submissions') : s \in ToSet(submissions) /\ s.conn \notin {c}
      /\ \A q \in ToSet(requests') : q \in ToSet(requests) /\ q.conn \notin {c}
      /\ \A e \in ToSet(events') : e \in ToSet(events) /\ e.conn \notin {c}
  BY <1>5
<1>9. \A d \in {c} : d \in Connections /\ reply'[d] # Nobody =>
        conn'[d].phase \in {"submitted", "asked"} /\ Sound(d, reply[d])'
  BY <1>2
<1> DEFINE C == {c}
<1> HIDE DEF C
<1> QED
  BY <1>1, <1>2, <1>3, <1>4, <1>7, <1>8, <1>9, StepOf DEF C

-----------------------------------------------------------------------------
(* The connections. *)

\* What a connection has of nothing, or of its next message.
LEMMA IdleConverses == Conversing(Idle)
  BY DEF Idle, Conversing, Whole

\* A connection whose client went.
LEMMA Gone ==
    ASSUME NEW k, Whole(k), NEW l, l = [k EXCEPT !.gone = TRUE]
    PROVE  Whole(l) /\ l.phase = k.phase /\ l.msg = k.msg /\ l.todo = k.todo /\ l.ids = k.ids
  BY DEF Whole

\* A connection that has its answer reads its next message (server.rs:235-364).
LEMMA AfterConverses ==
    ASSUME NEW k, Conversing(k), NEW answer
    PROVE  Conversing(After(k, answer))
  BY IdleConverses DEF Conversing, Whole, After

\* A connection opens or ends (server.rs:132-233).
LEMMA OpeningKeeps ==
    ASSUME CInv, NEW c \in Connections, Accept(c) \/ (\E good \in BOOLEAN : Greet(c, good))
    PROVE  CInv'
<1>1. PICK phase \in {"greeting", "ready", "closed"} :
        /\ conn[c].phase \in {"closed", "greeting"}
        /\ conn' = [conn EXCEPT ![c].phase = phase]
        /\ reply' = reply
        /\ UNCHANGED <<catalog, minted, jobs, submissions, requests, events, daemon>>
  BY DEF Accept, Greet, listener
<1>2. DOMAIN conn = Connections /\ Conversing(conn[c])
  BY DEF CInv, Conversations
<1> DEFINE k == [conn[c] EXCEPT !.phase = phase]
<1>3. conn' = [conn EXCEPT ![c] = k]
  BY <1>1
<1>4. Conversing(k)
  BY <1>1, <1>2 DEF Conversing, Whole
<1> QED
  BY <1>1, <1>3, <1>4, StepOfConnection

\* The client goes away, perhaps while its question is on its way.
LEMMA LeaveKeeps ==
    ASSUME CInv, NEW c \in Connections, Leave(c)
    PROVE  CInv'
<1>1. /\ conn[c].phase \notin {"closed", "greeting"}
      /\ reply' = reply
      /\ UNCHANGED <<catalog, minted, jobs, submissions, requests, events, daemon>>
      /\ conn' = [conn EXCEPT ![c] = IF conn[c].phase = "ready" THEN Idle
                                    ELSE [conn[c] EXCEPT !.gone = TRUE]]
  BY DEF Leave, listener
<1>2. CASE conn[c].phase = "ready"
  BY <1>1, <1>2, IdleConverses, StepOfConnection
<1>3. CASE conn[c].phase # "ready"
  <2>1. /\ DOMAIN conn = Connections /\ DOMAIN reply = Connections
        /\ \A d \in Connections : Conversing(conn[d])
    BY DEF CInv, Conversations
  <2>2. PICK was : was = conn[c]
    OBVIOUS
  <2>3. PICK k : k = [was EXCEPT !.gone = TRUE]
    OBVIOUS
  <2>4. Conversing(was)
    BY <2>1, <2>2
  <2>5. Whole(k) /\ k.phase = was.phase /\ k.msg = was.msg /\ k.todo = was.todo /\ k.ids = was.ids
    BY <2>3, <2>4, Gone DEF Conversing
  <2>6. Reading(was) => Reading(k)
    BY <2>5 DEF Reading
  <2>7. Conversing(k)
    BY <2>4, <2>5, <2>6 DEF Conversing
  <2>8. conn' = [conn EXCEPT ![c] = k]
    BY <1>1, <1>3, <2>2, <2>3
  <2>9. DOMAIN conn' = Connections
        /\ \A d \in Connections : Asks(d) /\ Conversing(conn'[d])
    BY <2>1, <2>2, <2>5, <2>7, <2>8 DEF Asks
  <2>10. Recording' /\ Grows
    BY <1>1, RecordStays DEF CInv
  <2>11. OnTheirWay
    BY DEF CInv
  <2>12. /\ IsSeq(submissions)' /\ Distinct(submissions)' /\ IsSeq(requests)' /\ Distinct(requests)'
         /\ IsSeq(events)' /\ Distinct(events)'
         /\ \A q \in ToSet(requests'), e \in ToSet(events') : q.conn # e.conn
         /\ daemon'.phase = "formats" =>
              /\ daemon' = daemon
              /\ \A q \in ToSet(requests') \cup ToSet(events') : q.conn # daemon'.event.conn
    BY <1>1, <2>11 DEF OnTheirWay
  <2> DEFINE C == {}
  <2>13. \A s : s \notin C
    OBVIOUS
  <2> HIDE DEF C
  <2> QED
    BY <1>1, <2>1, <2>9, <2>10, <2>12, <2>13, StepOf
<1> QED
  BY <1>2, <1>3

\* The client sends its next message (server.rs:235-300).
LEMMA ReceiveKeeps ==
    ASSUME CInv, NEW c \in Connections, NEW msg \in Messages(c), Receive(c, msg)
    PROVE  CInv'
<1>1. /\ DOMAIN conn = Connections /\ Conversing(conn[c]) /\ conn[c].phase = "ready"
      /\ conn[c].ids = <<>>
  BY DEF CInv, Conversations, Receive, Conversing
<1>2. PICK was : was = conn[c] /\ Conversing(was) /\ was.ids = <<>>
  BY <1>1
<1>0. Whole(was)
  BY <1>2 DEF Conversing
<1>3. PICK submit : submit = [was EXCEPT !.phase = "submit", !.msg = msg, !.todo = msg.reports]
  OBVIOUS
<1>4. PICK ask : ask = [was EXCEPT !.phase = "ask", !.msg = msg]
  OBVIOUS
<1>5. /\ reply' = reply
      /\ UNCHANGED <<catalog, minted, jobs, submissions, requests, events, daemon>>
      /\ \/ conn' = [conn EXCEPT ![c] = was]
         \/ msg.type \in {"candidate", "browser", "source"} /\ conn' = [conn EXCEPT ![c] = submit]
         \/ /\ msg.type \notin {"candidate", "browser", "source", "malformed"}
            /\ conn' = [conn EXCEPT ![c] = ask]
  BY <1>2, <1>3, <1>4 DEF Receive, listener
<1>6. ASSUME msg.type \in {"candidate", "browser", "source"}
      PROVE  IsSeq(msg.reports) /\ ToSet(msg.reports) \subseteq AllReports /\ msg.reports # <<>>
  <2>1. CASE \E r \in Reports : msg.reports = <<r>>
    <3>1. PICK r \in Reports : msg.reports = <<r>>
      BY <2>1
    <3>2. ToSet(<<r>>) = {r} /\ <<r>> \in Seq({r}) /\ <<r>> # <<>>
      BY DEF ToSet
    <3> QED
      BY <3>1, <3>2 DEF IsSeq, AllReports
  <2>2. CASE msg.reports \in Documents
    BY <2>2, CaptureAssumption DEF IsSeq, AllReports
  <2> QED
    BY <1>6, <2>1, <2>2 DEF Messages
<1>7. ASSUME msg.type \in {"candidate", "browser", "source"}
      PROVE  Conversing(submit)
  <2>1. Len(msg.reports) \in Nat /\ Len(<<>>) = 0 /\ IsSeq(<<>>)
    BY <1>6, <1>7, LenProperties, EmptySeq DEF IsSeq
  <2>2. /\ submit.phase = "submit" /\ submit.msg = msg /\ submit.todo = msg.reports
        /\ submit.ids = <<>> /\ Whole(submit)
    BY ONLY <1>0, <1>2, <1>3 DEF Whole
  <2>3. \A n \in 1 .. Len(msg.reports) :
          Len(msg.reports) - Len(msg.reports) + n = n
    BY <2>1
  <2>4. Reading(submit)
    BY <1>6, <1>7, <2>1, <2>2, <2>3 DEF Reading
  <2> QED
    BY <2>2, <2>4 DEF Conversing
<1>8. ASSUME msg.type \notin {"candidate", "browser", "source", "malformed"}
      PROVE  Conversing(ask)
  <2>1. msg.type \in {"browser", "download", "list", "status"}
    BY <1>8 DEF Messages
  <2>2. ask.phase = "ask" /\ ask.msg = msg /\ Whole(ask)
    BY ONLY <1>0, <1>4 DEF Whole
  <2> QED
    BY <2>1, <2>2 DEF Conversing
<1>9. conn[c].phase \notin {"submitted", "asked"}
  BY <1>1
<1> QED
  BY <1>2, <1>5, <1>7, <1>8, <1>9, StepOfConnection

\* A report goes to the listener when there is room for it (server.rs:300-340).
LEMMA SubmitKeeps ==
    ASSUME CInv, NEW c \in Connections, Submit(c)
    PROVE  CInv'
<1>1. /\ DOMAIN conn = Connections /\ DOMAIN reply = Connections
      /\ \A d \in Connections : Conversing(conn[d])
      /\ conn[c].phase = "submit" /\ reply[c] = Nobody
  BY DEF CInv, Conversations, Replies, Submit
<1>2. PICK was : was = conn[c] /\ Conversing(was) /\ Whole(was) /\ Reading(was)
  BY <1>1 DEF Conversing
<1>3. PICK k : k = [was EXCEPT !.phase = "submitted", !.todo = Tail(was.todo)]
  OBVIOUS
<1>4. /\ conn' = [conn EXCEPT ![c] = k] /\ reply' = reply
      /\ submissions' = Append(submissions, [conn |-> c, report |-> Head(was.todo)])
      /\ UNCHANGED <<catalog, minted, jobs, requests, events, daemon>>
  BY <1>1, <1>2, <1>3 DEF Submit, listener
<1>5. /\ Whole(k) /\ k.phase = "submitted" /\ k.todo = Tail(was.todo) /\ k.ids = was.ids
      /\ k.msg = was.msg
  BY ONLY <1>2, <1>3 DEF Whole
<1>6. /\ IsSeq(was.todo) /\ was.todo # <<>> /\ IsSeq(was.ids) /\ was.phase = "submit"
      /\ IsSeq(was.msg.reports) /\ ToSet(was.msg.reports) \subseteq AllReports
      /\ Len(was.ids) + Len(was.todo) + 0 = Len(was.msg.reports)
      /\ \A n \in 1 .. Len(was.todo) :
           was.todo[n] = was.msg.reports[Len(was.msg.reports) - Len(was.todo) + n]
  BY <1>1, <1>2 DEF Reading
<1>22. /\ Len(was.ids) \in Nat /\ Len(was.todo) \in Nat /\ Len(was.msg.reports) \in Nat
       /\ DOMAIN was.msg.reports = 1 .. Len(was.msg.reports)
  BY <1>6, LenProperties DEF IsSeq
<1>23. PICK Had \in Nat, Left \in Nat, All \in Nat :
         Had = Len(was.ids) /\ Left = Len(was.todo) /\ All = Len(was.msg.reports)
  BY <1>22
<1>25. Had + Left + 0 = All
  BY <1>6, <1>23
<1>26. Had + Left = All
  BY ONLY <1>25
<1>7. /\ IsSeq(k.todo) /\ Len(k.todo) = Len(was.todo) - 1 /\ Len(was.todo) >= 1
      /\ Head(was.todo) = was.todo[1]
      /\ \A n \in 1 .. Len(k.todo) : k.todo[n] = was.todo[n + 1]
  BY <1>5, <1>6, TailQueue
<1>24. Len(k.todo) = Left - 1 /\ Left >= 1
  BY <1>7, <1>23
<1>8. Conversing(k)
  <2>1. ASSUME NEW n \in 1 .. Len(k.todo)
        PROVE  k.todo[n] = was.msg.reports[Len(was.msg.reports) - Len(k.todo) + n]
    <3>1. n \in Nat /\ n + 1 \in 1 .. Left /\ All - Left + (n + 1) = All - Len(k.todo) + n
      BY <1>24, <1>26
    <3> QED
      BY <1>6, <1>7, <1>23, <3>1
  <2>2. Had + Len(k.todo) + 1 = All
    BY <1>24, <1>26
  <2>3. Reading(k)
    BY <1>2, <1>5, <1>7, <1>23, <2>1, <2>2 DEF Reading
  <2> QED
    BY <1>5, <2>3 DEF Conversing
<1>9. /\ Head(was.todo) = was.msg.reports[Len(was.ids) + 1]
      /\ Head(was.todo) \in AllReports
  <2>1. All - Left + 1 = Had + 1 /\ 1 \in 1 .. Left /\ Had + 1 \in 1 .. All
    BY <1>24, <1>26
  <2>2. Head(was.todo) = was.msg.reports[Len(was.ids) + 1]
    BY <1>6, <1>7, <1>23, <2>1
  <2> QED
    BY <1>6, <1>22, <1>23, <2>1, <2>2 DEF ToSet
<1>10. /\ DOMAIN conn' = Connections /\ DOMAIN reply' = Connections
       /\ conn'[c] = k /\ reply'[c] = Nobody
       /\ \A d \in Connections : d # c => conn'[d] = conn[d] /\ reply'[d] = reply[d]
       /\ \A d \in Connections : Conversing(conn'[d])
  BY <1>1, <1>4, <1>8
<1>11. Recording' /\ Grows
  BY <1>4, RecordStays DEF CInv
<1>12. /\ \A q \in ToSet(submissions) \cup ToSet(requests) \cup ToSet(events) : q.conn # c
       /\ daemon.phase = "formats" => daemon.event.conn # c
  BY <1>1, NoQuestion
<1>13. OnTheirWay
  BY DEF CInv
<1>14. PICK s : s = [conn |-> c, report |-> Head(was.todo)]
  OBVIOUS
<1>15. s.conn = c /\ s.report = Head(was.todo)
  BY <1>14
<1>16. (Submitted(s))'
  BY <1>5, <1>9, <1>10, <1>15 DEF Submitted
<1>17. /\ IsSeq(submissions)' /\ Distinct(submissions)'
       /\ ToSet(submissions') = ToSet(submissions) \cup {s}
  BY <1>4, <1>12, <1>13, <1>14, <1>15, AppendQueue, AppendDistinct DEF OnTheirWay
<1>18. \A x \in ToSet(submissions') :
         (x \in ToSet(submissions) /\ x.conn \notin {c}) \/ Submitted(x)'
  BY <1>12, <1>16, <1>17
<1>19. /\ IsSeq(requests)' /\ Distinct(requests)' /\ IsSeq(events)' /\ Distinct(events)'
       /\ \A q \in ToSet(requests'), e \in ToSet(events') : q.conn # e.conn
       /\ daemon'.phase = "formats" =>
            /\ daemon' = daemon /\ daemon.event.conn \notin {c}
            /\ \A q \in ToSet(requests') \cup ToSet(events') : q.conn # daemon'.event.conn
       /\ \A q \in ToSet(requests') : q \in ToSet(requests) /\ q.conn \notin {c}
       /\ \A e \in ToSet(events') : e \in ToSet(events) /\ e.conn \notin {c}
  BY <1>4, <1>12, <1>13 DEF OnTheirWay
<1>20. \A d \in Connections : d \notin {c} => Asks(d) /\ reply'[d] = reply[d]
  BY <1>10 DEF Asks
<1>21. \A d \in {c} : d \in Connections /\ reply'[d] # Nobody =>
         conn'[d].phase \in {"submitted", "asked"} /\ Sound(d, reply[d])'
  BY <1>10
<1> DEFINE C == {c}
<1> HIDE DEF C
<1> QED
  BY <1>10, <1>11, <1>17, <1>18, <1>19, <1>20, <1>21, StepOf DEF C

\* A question goes to the listener when there is room for it (server.rs:553-606).
LEMMA AskKeeps ==
    ASSUME CInv, NEW c \in Connections, Ask(c)
    PROVE  CInv'
<1>1. /\ DOMAIN conn = Connections /\ DOMAIN reply = Connections
      /\ \A d \in Connections : Conversing(conn[d])
      /\ conn[c].phase = "ask" /\ reply[c] = Nobody
  BY DEF CInv, Conversations, Replies, Ask
<1>2. PICK was : was = conn[c] /\ Conversing(was) /\ Whole(was)
  BY <1>1 DEF Conversing
<1>3. PICK k : k = [was EXCEPT !.phase = "asked"]
  OBVIOUS
<1>4. /\ conn' = [conn EXCEPT ![c] = k] /\ reply' = reply
      /\ requests' = Append(requests, [conn |-> c, request |-> Request(c)])
      /\ UNCHANGED <<catalog, minted, jobs, submissions, events, daemon>>
  BY <1>1, <1>2, <1>3 DEF Ask, listener
<1>5. Whole(k) /\ k.phase = "asked" /\ k.msg = was.msg /\ k.ids = was.ids
  BY ONLY <1>2, <1>3 DEF Whole
<1>6. Conversing(k)
  BY <1>1, <1>2, <1>5 DEF Conversing
<1>7. /\ DOMAIN conn' = Connections /\ DOMAIN reply' = Connections
      /\ conn'[c] = k /\ reply'[c] = Nobody
      /\ \A d \in Connections : d # c => conn'[d] = conn[d] /\ reply'[d] = reply[d]
      /\ \A d \in Connections : Conversing(conn'[d])
  BY <1>1, <1>4, <1>6
<1>8. Recording' /\ Grows
  BY <1>4, RecordStays DEF CInv
<1>9. /\ \A q \in ToSet(submissions) \cup ToSet(requests) \cup ToSet(events) : q.conn # c
      /\ daemon.phase = "formats" => daemon.event.conn # c
  BY <1>1, NoQuestion
<1>10. OnTheirWay
  BY DEF CInv
<1>11. PICK q : q = [conn |-> c, request |-> Request(c)]
  OBVIOUS
<1>12. q.conn = c /\ q.request = Request(c)
  BY <1>11
<1>13. (Request(c))' = Request(c)
  BY <1>2, <1>5, <1>7 DEF Request
<1>14. (Asked(q))'
  BY <1>5, <1>7, <1>12, <1>13 DEF Asked
<1>15. /\ IsSeq(requests)' /\ Distinct(requests)'
       /\ ToSet(requests') = ToSet(requests) \cup {q}
  BY <1>4, <1>9, <1>10, <1>11, <1>12, AppendQueue, AppendDistinct DEF OnTheirWay
<1>16. \A x \in ToSet(requests') : (x \in ToSet(requests) /\ x.conn \notin {c}) \/ Asked(x)'
  BY <1>9, <1>14, <1>15
<1>17. /\ IsSeq(submissions)' /\ Distinct(submissions)' /\ IsSeq(events)' /\ Distinct(events)'
       /\ \A x \in ToSet(submissions') : x \in ToSet(submissions) /\ x.conn \notin {c}
       /\ \A e \in ToSet(events') : e \in ToSet(events) /\ e.conn \notin {c}
       /\ daemon'.phase = "formats" => daemon' = daemon /\ daemon.event.conn \notin {c}
  BY <1>4, <1>9, <1>10 DEF OnTheirWay
<1>18. \A x \in ToSet(requests'), e \in ToSet(events') : x.conn # e.conn
  BY <1>4, <1>9, <1>10, <1>12, <1>15 DEF OnTheirWay
<1>19. daemon'.phase = "formats" =>
         \A x \in ToSet(requests') \cup ToSet(events') : x.conn # daemon'.event.conn
  BY <1>4, <1>9, <1>10, <1>12, <1>15 DEF OnTheirWay
<1>20. \A d \in Connections : d \notin {c} => Asks(d) /\ reply'[d] = reply[d]
  BY <1>7 DEF Asks
<1>21. \A d \in {c} : d \in Connections /\ reply'[d] # Nobody =>
         conn'[d].phase \in {"submitted", "asked"} /\ Sound(d, reply[d])'
  BY <1>7
<1> DEFINE C == {c}
<1> HIDE DEF C
<1> QED
  BY <1>7, <1>8, <1>15, <1>16, <1>17, <1>18, <1>19, <1>20, <1>21, StepOf DEF C

\* The identifier arrives: the next report, the download of a browser download,
\* or the answer (server.rs:300-345).
LEMMA AfterSubmitKeeps ==
    ASSUME CInv, NEW c \in Connections, AfterSubmit(c)
    PROVE  CInv'
<1>1. /\ DOMAIN conn = Connections /\ Conversing(conn[c])
      /\ conn[c].phase = "submitted" /\ reply[c] # Nobody
  BY DEF CInv, Conversations, AfterSubmit
<1>2. PICK was : was = conn[c] /\ Conversing(was) /\ Whole(was) /\ Reading(was)
  BY <1>1 DEF Conversing
<1>3. PICK ids : ids = Append(was.ids, reply[c].id)
  OBVIOUS
<1>4. PICK more : more = [was EXCEPT !.phase = "submit", !.ids = ids]
  OBVIOUS
<1>5. PICK ask : ask = [was EXCEPT !.phase = "ask", !.ids = ids]
  OBVIOUS
<1>6. PICK done : done = After(was, [type |-> "recorded", ids |-> ids])
  OBVIOUS
<1>7. /\ reply' = [reply EXCEPT ![c] = Nobody]
      /\ UNCHANGED <<catalog, minted, jobs, submissions, requests, events, daemon>>
      /\ \/ was.todo # <<>> /\ conn' = [conn EXCEPT ![c] = more]
         \/ was.msg.type = "browser" /\ conn' = [conn EXCEPT ![c] = ask]
         \/ conn' = [conn EXCEPT ![c] = done]
  <2>1. Respond(c, [type |-> "recorded", ids |-> ids]) =>
          conn' = [conn EXCEPT ![c] = After(conn[c], [type |-> "recorded", ids |-> ids])]
    BY DEF Respond
  <2> QED
    BY <1>1, <1>2, <1>3, <1>4, <1>5, <1>6, <2>1 DEF AfterSubmit, listener
<1>8. Conversing(done)
  BY <1>2, <1>6, AfterConverses
<1>9. ASSUME was.msg.type = "browser" PROVE Conversing(ask)
  <2>1. Whole(ask) /\ ask.phase = "ask" /\ ask.msg = was.msg
    BY ONLY <1>2, <1>5 DEF Whole
  <2> QED
    BY <1>9, <2>1 DEF Conversing
<1>10. ASSUME was.todo # <<>> PROVE Conversing(more)
  <2>1. /\ Whole(more) /\ more.phase = "submit" /\ more.msg = was.msg /\ more.todo = was.todo
        /\ more.ids = ids
    BY ONLY <1>2, <1>4 DEF Whole
  <2>2. was.phase = "submitted" /\ IsSeq(was.ids)
    BY <1>1, <1>2 DEF Reading
  <2>3. IsSeq(ids) /\ Len(ids) = Len(was.ids) + 1
    BY <1>3, <2>2, AppendQueue
  <2>4. Len(was.ids) \in Nat /\ Len(was.todo) \in Nat
    BY <1>2, LenProperties DEF Reading, IsSeq
  <2>5. Len(was.ids) + Len(was.todo) + 1 = Len(was.msg.reports)
    BY <1>2, <2>2 DEF Reading
  <2>7. Len(ids) + Len(was.todo) + 0 = Len(was.msg.reports)
    <3>1. PICK i \in Nat, t \in Nat : i = Len(was.ids) /\ t = Len(was.todo)
      BY <2>4
    <3>2. i + t + 1 = (i + 1) + t + 0
      OBVIOUS
    <3> QED
      BY <2>3, <2>5, <3>1, <3>2
  <2>6. Reading(more)
    BY <1>2, <1>10, <2>1, <2>3, <2>7 DEF Reading
  <2> QED
    BY <2>1, <2>6 DEF Conversing
<1> QED
  BY <1>1, <1>7, <1>8, <1>9, <1>10, StepOfConnection

\* The answer arrives (server.rs:345-364).
LEMMA AfterAskKeeps ==
    ASSUME CInv, NEW c \in Connections, AfterAsk(c)
    PROVE  CInv'
<1>1. /\ DOMAIN conn = Connections /\ Conversing(conn[c]) /\ reply[c] # Nobody
  BY DEF CInv, Conversations, AfterAsk
<1>2. PICK was, a : was = conn[c] /\ a = reply[c] /\ Conversing(was)
  BY <1>1
<1>3. PICK done : done = After(was, a)
  OBVIOUS
<1>4. /\ reply' = [reply EXCEPT ![c] = Nobody]
      /\ UNCHANGED <<catalog, minted, jobs, submissions, requests, events, daemon>>
      /\ conn' = [conn EXCEPT ![c] = done]
  <2>1. Respond(c, a) => conn' = [conn EXCEPT ![c] = After(conn[c], a)]
    BY DEF Respond
  <2> QED
    BY <1>1, <1>2, <1>3, <2>1 DEF AfterAsk, listener
<1>5. Conversing(done)
  BY <1>2, <1>3, AfterConverses
<1> QED
  BY <1>1, <1>4, <1>5, StepOfConnection

-----------------------------------------------------------------------------
(* The listener. *)

\* A sequence is one of its own elements.
LEMMA OfItsElements ==
    ASSUME NEW S, NEW t \in Seq(S)
    PROVE  IsSeq(t) /\ ToSet(t) \subseteq S
<1>1. /\ Len(t) \in Nat /\ DOMAIN t = 1 .. Len(t) /\ \A i \in 1 .. Len(t) : t[i] \in S
      /\ t = [i \in 1 .. Len(t) |-> t[i]]
  BY LenProperties, ElementOfSeq
<1>2. \A i \in 1 .. Len(t) : t[i] \in ToSet(t)
  BY <1>1 DEF ToSet
<1>3. [i \in 1 .. Len(t) |-> t[i]] \in Seq(ToSet(t))
  BY <1>1, <1>2, IsASeq
<1> QED
  BY <1>1, <1>3 DEF IsSeq, ToSet

\* A part of a sequence.
LEMMA PartOf ==
    ASSUME NEW list, IsSeq(list), NEW m \in Nat \ {0}, NEW n \in 0 .. Len(list)
    PROVE  SubSeq(list, m, n) \in Seq(ToSet(list))
<1>1. Len(list) \in Nat /\ DOMAIN list = 1 .. Len(list)
  BY LenProperties DEF IsSeq
<1>2. \A i \in m .. n : list[i] \in ToSet(list)
  BY <1>1 DEF ToSet
<1>3. m \in Int /\ n \in Int
  BY <1>1
<1> QED
  BY <1>2, <1>3, SubSeqProperties

\* The longest list a catalog keeps is the beginning of the one it is given.
LEMMA TruncateKeeps ==
    ASSUME NEW list, IsSeq(list)
    PROVE  IsSeq(Truncate(list)) /\ ToSet(Truncate(list)) \subseteq ToSet(list)
<1>1. (IF Len(list) > Capacity THEN Capacity ELSE Len(list)) \in 0 .. Len(list)
  BY LenProperties, CaptureAssumption DEF IsSeq
<1>2. Truncate(list) \in Seq(ToSet(list))
  BY <1>1, PartOf DEF Truncate
<1> QED
  BY <1>2, OfItsElements

\* A list without one of its candidates (Catalog::remove, candidate.rs:351-356).
LEMMA WithoutKeeps ==
    ASSUME NEW list, IsSeq(list), NEW id
    PROVE  IsSeq(Without(list, id)) /\ ToSet(Without(list, id)) \subseteq ToSet(list)
<1>1. Len(list) \in Nat /\ DOMAIN list = 1 .. Len(list)
  BY LenProperties DEF IsSeq
<1>2. CASE Listed(list, id)
  <2>1. \E i \in DOMAIN list : list[i].id = id
    BY <1>2 DEF Listed, ToSet
  <2>2. PICK i \in 1 .. Len(list) : Without(list, id) = RemoveAt(list, i)
    BY <1>1, <1>2, <2>1 DEF Without
  <2>3. i - 1 \in 0 .. Len(list) /\ i + 1 \in Nat \ {0} /\ 1 \in Nat \ {0} /\ Len(list) \in 0 .. Len(list)
    BY <1>1
  <2>4. /\ SubSeq(list, 1, i - 1) \in Seq(ToSet(list))
        /\ SubSeq(list, i + 1, Len(list)) \in Seq(ToSet(list))
    BY <2>3, PartOf
  <2>5. Without(list, id) \in Seq(ToSet(list))
    BY <2>2, <2>4, ConcatProperties DEF RemoveAt
  <2> QED
    BY <2>5, OfItsElements
<1>3. CASE ~Listed(list, id)
  BY <1>3 DEF Without
<1> QED
  BY <1>2, <1>3

\* A new candidate in front.
LEMMA InFront ==
    ASSUME NEW list, IsSeq(list), NEW x
    PROVE  IsSeq(<<x>> \o list) /\ ToSet(<<x>> \o list) = {x} \cup ToSet(list)
<1> DEFINE S == {x} \cup ToSet(list)
           t == <<x>> \o list
<1>1. list \in Seq(S) /\ <<x>> \in Seq(S) /\ Len(<<x>>) = 1
      /\ Len(list) \in Nat /\ DOMAIN list = 1 .. Len(list)
  BY SeqMonotonic, LenProperties DEF IsSeq
<1>2. /\ t \in Seq(S) /\ Len(t) = 1 + Len(list)
      /\ \A i \in 1 .. Len(t) : t[i] = IF i <= 1 THEN <<x>>[i] ELSE list[i - 1]
  BY <1>1, ConcatProperties
<1> HIDE DEF t
<1>3. DOMAIN t = 1 .. (1 + Len(list))
  BY <1>2, LenProperties
<1>4. t[1] = x /\ \A i \in 1 .. Len(list) : t[i + 1] = list[i]
  <2>1. 1 \in 1 .. (1 + Len(list)) /\ <<x>>[1] = x
    BY <1>1
  <2>2. t[1] = x
    BY <1>1, <1>2, <2>1
  <2>3. ASSUME NEW i \in 1 .. Len(list) PROVE t[i + 1] = list[i]
    <3>1. i + 1 \in 1 .. (1 + Len(list)) /\ ~(i + 1 <= 1) /\ (i + 1) - 1 = i
      BY <1>1
    <3> QED
      BY <1>2, <3>1
  <2> QED
    BY <2>2, <2>3
<1>5. ToSet(t) = S
  <2>1. ToSet(t) \subseteq S
    BY <1>2, <1>3, LenProperties, ElementOfSeq DEF ToSet
  <2>2. x \in ToSet(t)
    BY <1>1, <1>3, <1>4 DEF ToSet
  <2>3. ASSUME NEW y \in ToSet(list) PROVE y \in ToSet(t)
    <3>1. PICK i \in 1 .. Len(list) : y = list[i]
      BY <1>1 DEF ToSet
    <3>2. i + 1 \in 1 .. (1 + Len(list))
      BY <1>1
    <3> QED
      BY <1>3, <1>4, <3>1, <3>2 DEF ToSet
  <2> QED
    BY <2>1, <2>2, <2>3
<1> QED
  BY <1>2, <1>5 DEF IsSeq, t

\* What a report makes of the record (Catalog::record, candidate.rs:210-300).
LEMMA ReportIsRecorded ==
    ASSUME Recording, NEW report \in AllReports,
           catalog' = Recorded(report).catalog, minted' = Recorded(report).minted, jobs' = jobs
    PROVE  /\ Recording' /\ Grows
           /\ Recorded(report).id \in 1 .. Len(minted')
           /\ minted'[Recorded(report).id].url = report.url
<1>1. /\ IsSeq(minted) /\ IsSeq(catalog) /\ Len(minted) \in Nat
      /\ Len(catalog) \in Nat /\ DOMAIN catalog = 1 .. Len(catalog)
  BY LenProperties DEF Recording, IsSeq
<1>2. CASE report.url \in Urls(catalog)
  <2>1. /\ catalog' = [i \in DOMAIN catalog |-> Merge(catalog[i], report)]
        /\ minted' = minted
        /\ Recorded(report).id = (CHOOSE c \in ToSet(catalog) : c.url = report.url).id
    BY <1>2 DEF Recorded
  <2>2. PICK c \in ToSet(catalog) : c.url = report.url /\ Recorded(report).id = c.id
    <3>1. \E c \in ToSet(catalog) : c.url = report.url
      BY <1>2 DEF Urls
    <3> QED
      BY <2>1, <3>1
  <2>3. Recorded(report).id \in 1 .. Len(minted') /\ minted'[Recorded(report).id].url = report.url
    BY <2>1, <2>2 DEF Recording, Known
  <2>4. ASSUME NEW i \in DOMAIN catalog PROVE Known(catalog'[i], minted')
    <3>1. Known(catalog[i], minted)
      BY DEF Recording, ToSet
    <3>2. catalog'[i] = Merge(catalog[i], report)
      BY <2>1
    <3>3. CASE catalog[i].url = report.url /\ report.variants # <<>>
      <4>1. PICK c0 : c0 = catalog[i] /\ Known(c0, minted)
        BY <3>1
      <4>2. PICK c1 : c1 = [c0 EXCEPT !.variants = report.variants]
        OBVIOUS
      <4>3. /\ c1 \in Fields /\ c1.id = c0.id /\ c1.url = c0.url /\ c1.page = c0.page
            /\ c1.variants = report.variants
        BY <4>1, <4>2 DEF Known, Fields
      <4>4. Known(c1, minted)
        BY <3>3, <4>1, <4>3 DEF Known
      <4>5. catalog'[i] = c1
        BY <3>2, <3>3, <4>1, <4>2 DEF Merge
      <4> QED
        BY <2>1, <4>4, <4>5
    <3>4. CASE ~(catalog[i].url = report.url /\ report.variants # <<>>)
      BY <2>1, <3>1, <3>2, <3>4 DEF Merge
    <3> QED
      BY <3>3, <3>4
  <2>5. DOMAIN catalog' = DOMAIN catalog
    BY <2>1
  <2>6. IsSeq(catalog')
    <3>1. \A i \in 1 .. Len(catalog) : catalog'[i] \in ToSet(catalog')
      BY <1>1, <2>5 DEF ToSet
    <3>2. catalog' = [i \in 1 .. Len(catalog) |-> catalog'[i]]
      BY <1>1, <2>1
    <3> QED
      BY <1>1, <3>1, <3>2, IsASeq DEF IsSeq
  <2>7. \A d \in ToSet(catalog') : Known(d, minted')
    BY <2>4, <2>5 DEF ToSet
  <2>8. Recording'
    BY <2>1, <2>6, <2>7 DEF Recording
  <2>9. Grows
    BY <2>1 DEF Grows, Ids
  <2> QED
    BY <2>3, <2>8, <2>9
<1>3. CASE report.url \notin Urls(catalog)
  <2> DEFINE new == NewCandidate(report)
             mark == [url |-> report.url, page |-> report.page]
  <2>1. /\ catalog' = Truncate(<<new>> \o catalog)
        /\ minted' = Append(minted, mark)
        /\ Recorded(report).id = Len(minted) + 1
    BY <1>3 DEF Recorded
  <2>2. /\ IsSeq(minted') /\ Len(minted') = Len(minted) + 1
        /\ \A n \in 1 .. Len(minted) : minted'[n] = minted[n]
        /\ minted'[Len(minted) + 1] = mark
    BY <1>1, <2>1, AppendQueue
  <2>3. Grows
    BY <1>1, <2>2 DEF Grows, Ids
  <2>4. Known(new, minted')
    <3>1. new \in Fields
      BY <1>1 DEF NewCandidate, Fields
    <3>2. /\ new.id = Len(minted) + 1 /\ new.url = report.url /\ new.page = report.page
          /\ new.variants = report.variants
      BY DEF NewCandidate
    <3>3. Len(minted) + 1 \in 1 .. Len(minted')
      BY <1>1, <2>2
    <3> HIDE DEF new
    <3> QED
      BY <2>2, <3>1, <3>2, <3>3 DEF Known
  <2>5. \A c \in ToSet(catalog) : Known(c, minted')
    <3>1. \A c \in ToSet(catalog) : Known(c, minted)
      BY DEF Recording
    <3> QED
      BY <1>1, <2>2, <3>1 DEF Known
  <2>6. IsSeq(catalog') /\ ToSet(catalog') \subseteq {new} \cup ToSet(catalog)
    <3> HIDE DEF new
    <3>1. IsSeq(<<new>> \o catalog) /\ ToSet(<<new>> \o catalog) = {new} \cup ToSet(catalog)
      BY <1>1, InFront
    <3> QED
      BY <2>1, <3>1, TruncateKeeps
  <2>7. Recording'
    BY <2>2, <2>4, <2>5, <2>6 DEF Recording
  <2>8. Len(minted) + 1 \in 1 .. Len(minted') /\ minted'[Len(minted) + 1].url = report.url
    BY <1>1, <2>2
  <2> QED
    BY <2>1, <2>3, <2>7, <2>8
<1> QED
  BY <1>2, <1>3

\* What is left of the questions on their way when the first of one queue is
\* taken: no other is of its connection.
Fewer ==
    /\ IsSeq(submissions)' /\ Distinct(submissions)' /\ ToSet(submissions') \subseteq ToSet(submissions)
    /\ IsSeq(requests)' /\ Distinct(requests)' /\ ToSet(requests') \subseteq ToSet(requests)
    /\ IsSeq(events)' /\ Distinct(events)' /\ ToSet(events') \subseteq ToSet(events)
    /\ daemon' = daemon \/ daemon'.phase # "formats"

\* A question is answered, and it was in one place.
LEMMA StepOfReply ==
    ASSUME CInv, Grows, Recording', NEW c \in Connections, NEW a,
           conn' = conn, conn[c].phase \in {"submitted", "asked"},
           reply' = [reply EXCEPT ![c] = a], Sound(c, a)', Fewer,
           \A q \in ToSet(submissions') \cup ToSet(requests') \cup ToSet(events') : q.conn # c,
           daemon'.phase = "formats" => daemon'.event.conn # c
    PROVE  CInv'
<1>1. OnTheirWay /\ DOMAIN conn = Connections /\ DOMAIN reply = Connections
      /\ \A d \in Connections : Conversing(conn[d])
  BY DEF CInv, Conversations
<1>2. reply'[c] = a /\ DOMAIN reply' = Connections
      /\ \A d \in Connections : d # c => reply'[d] = reply[d]
  BY <1>1
<1>3. /\ DOMAIN conn' = Connections
      /\ \A d \in Connections : Conversing(conn'[d])
      /\ \A d \in Connections : d \notin {c} => Asks(d) /\ reply'[d] = reply[d]
  BY <1>1, <1>2 DEF Asks
<1>4. \A d \in {c} : d \in Connections /\ reply'[d] # Nobody =>
        conn'[d].phase \in {"submitted", "asked"} /\ Sound(d, reply[d])'
  <2>1. (Sound(c, reply[c]))'
    BY <1>2
  <2> QED
    BY <2>1
<1>5. /\ \A x \in ToSet(submissions') : x \in ToSet(submissions) /\ x.conn \notin {c}
      /\ \A x \in ToSet(requests') : x \in ToSet(requests) /\ x.conn \notin {c}
      /\ \A x \in ToSet(events') : x \in ToSet(events) /\ x.conn \notin {c}
  BY DEF Fewer
<1>6. \A x \in ToSet(requests'), e \in ToSet(events') : x.conn # e.conn
  BY <1>1, <1>5 DEF OnTheirWay
<1>7. daemon'.phase = "formats" =>
        /\ daemon' = daemon /\ daemon.event.conn \notin {c}
        /\ \A x \in ToSet(requests') \cup ToSet(events') : x.conn # daemon'.event.conn
  BY <1>1, <1>5 DEF OnTheirWay, Fewer
<1>8. /\ IsSeq(submissions)' /\ Distinct(submissions)' /\ IsSeq(requests)' /\ Distinct(requests)'
      /\ IsSeq(events)' /\ Distinct(events)'
  BY DEF Fewer
<1> DEFINE C == {c}
<1> HIDE DEF C
<1> QED
  BY <1>2, <1>3, <1>4, <1>5, <1>6, <1>7, <1>8, StepOf DEF C

\* Nobody asks, answers or goes on.
LEMMA StepOfNobody ==
    ASSUME CInv, Grows, Recording', UNCHANGED <<conn, reply, submissions, requests, events>>,
           daemon' = daemon \/ daemon'.phase # "formats"
    PROVE  CInv'
<1>1. OnTheirWay /\ Conversations
  BY DEF CInv
<1>2. /\ DOMAIN conn' = Connections /\ DOMAIN reply' = Connections
      /\ \A d \in Connections : Asks(d) /\ reply'[d] = reply[d] /\ Conversing(conn'[d])
  BY <1>1 DEF Asks, Conversations
<1>3. /\ IsSeq(submissions)' /\ Distinct(submissions)' /\ IsSeq(requests)' /\ Distinct(requests)'
      /\ IsSeq(events)' /\ Distinct(events)'
      /\ \A q \in ToSet(requests'), e \in ToSet(events') : q.conn # e.conn
      /\ daemon'.phase = "formats" =>
           /\ daemon' = daemon
           /\ \A q \in ToSet(requests') \cup ToSet(events') : q.conn # daemon'.event.conn
  BY <1>1 DEF OnTheirWay
<1> DEFINE C == {}
<1>4. \A s : s \notin C
  OBVIOUS
<1> HIDE DEF C
<1> QED
  BY <1>2, <1>3, <1>4, StepOf

\* The listener records a report and answers with its identifier
\* (server.rs:609-628).
LEMMA RecordReportKeeps ==
    ASSUME CInv, RecordReport
    PROVE  CInv'
<1>1. PICK s : s = Head(submissions)
  OBVIOUS
<1>2. /\ submissions # <<>> /\ submissions' = Tail(submissions)
      /\ UNCHANGED <<requests, events, conn, daemon, jobs>>
      /\ catalog' = Recorded(s.report).catalog /\ minted' = Recorded(s.report).minted
      /\ reply' = [reply EXCEPT ![s.conn] = [type |-> "id", id |-> Recorded(s.report).id]]
  BY <1>1 DEF RecordReport
<1>3. OnTheirWay /\ Recording
  BY DEF CInv
<1>4. /\ s \in ToSet(submissions) /\ IsSeq(submissions') /\ Distinct(submissions')
      /\ ToSet(submissions') \subseteq ToSet(submissions)
      /\ \A x \in ToSet(submissions') : x.conn # s.conn
  BY <1>1, <1>2, <1>3, TailQueue DEF OnTheirWay
<1>5. Submitted(s)
  BY <1>3, <1>4 DEF OnTheirWay
<1>6. PICK id : id = Recorded(s.report).id
  OBVIOUS
<1>7. Recording' /\ Grows /\ id \in 1 .. Len(minted') /\ minted'[id].url = s.report.url
  BY <1>2, <1>3, <1>5, <1>6, ReportIsRecorded DEF Submitted
<1>8. PICK a : a = [type |-> "id", id |-> id]
  OBVIOUS
<1>9. a.type = "id" /\ a.id = id
  BY <1>8
<1>10. Sound(s.conn, a)'
  BY <1>2, <1>5, <1>7, <1>9 DEF Sound, Answers, Owner, Ids, Submitted
<1>11. Fewer
  BY <1>2, <1>3, <1>4 DEF Fewer, OnTheirWay
<1>12. /\ \A q \in ToSet(requests') \cup ToSet(events') : q.conn # s.conn
       /\ daemon'.phase = "formats" => daemon'.event.conn # s.conn
  BY <1>2, <1>3, <1>5 DEF OnTheirWay, Submitted, Asked, Forwarded
<1> QED
  BY <1>2, <1>4, <1>5, <1>6, <1>7, <1>8, <1>10, <1>11, <1>12, StepOfReply DEF Submitted

\* The listener publishes, and applies the commands of the desktop.
LEMMA PublishKeeps ==
    ASSUME CInv, Publish \/ ApplyCommand
    PROVE  CInv'
<1>1. CASE Publish
  <2>1. UNCHANGED <<catalog, minted, jobs, conn, reply, submissions, requests, events, daemon>>
    BY <1>1 DEF Publish
  <2> QED
    BY <2>1, RecordStays, StepOfNobody DEF CInv
<1>2. CASE ApplyCommand
  <2>1. /\ UNCHANGED <<minted, jobs, conn, reply, submissions, requests, events, daemon>>
        /\ catalog' = <<>> \/ catalog' = Without(catalog, Head(commands))
    BY <1>2 DEF ApplyCommand
  <2>2. Recording
    BY DEF CInv
  <2>3. IsSeq(<<>>) /\ ToSet(<<>>) = {}
    BY EmptySeq DEF IsSeq, ToSet
  <2>4. IsSeq(catalog') /\ ToSet(catalog') \subseteq ToSet(catalog)
    BY <2>1, <2>2, <2>3, WithoutKeeps DEF Recording
  <2>5. Recording' /\ Grows
    BY <2>1, <2>2, <2>4 DEF Recording, Grows, Ids
  <2> QED
    BY <2>1, <2>5, StepOfNobody
<1> QED
  BY <1>1, <1>2

\* Whoever waits with a question may be told that there is nothing.
LEMMA UnavailableIsSound ==
    ASSUME CInv, NEW q, Asked(q), UNCHANGED conn, NEW a, a.type = "unavailable"
    PROVE  Sound(q.conn, a)'
<1>1. conn[q.conn].msg.type \in {"browser", "download", "list", "status"}
  BY DEF CInv, Conversations, Conversing, Asked
<1> QED
  BY <1>1 DEF Sound, Answers

\* A request goes to the daemon as an event.
LEMMA EventKeeps ==
    ASSUME CInv, NEW q, requests # <<>>, q = Head(requests), requests' = Tail(requests),
           NEW e, e.conn = q.conn, e.request = q.request, Asked(q) => Forwarded(e),
           events' = Append(events, e),
           UNCHANGED <<catalog, minted, jobs, submissions, conn, reply, daemon>>
    PROVE  CInv'
<1>1. OnTheirWay /\ Conversations /\ Recording
  BY DEF CInv
<1>2. /\ q \in ToSet(requests) /\ IsSeq(requests') /\ Distinct(requests')
      /\ ToSet(requests') \subseteq ToSet(requests)
      /\ \A x \in ToSet(requests') : x.conn # q.conn
  BY <1>1, TailQueue DEF OnTheirWay
<1>3. Forwarded(e)
  BY <1>1, <1>2 DEF OnTheirWay
<1>4. \A x \in ToSet(events) : x.conn # e.conn
  BY <1>1, <1>2 DEF OnTheirWay
<1>5. /\ IsSeq(events') /\ Distinct(events') /\ ToSet(events') = ToSet(events) \cup {e}
  BY <1>1, <1>4, AppendQueue, AppendDistinct DEF OnTheirWay
<1>6. Recording' /\ Grows
  BY <1>1, RecordStays
<1>7. \A d \in Connections : Asks(d) /\ reply'[d] = reply[d]
  BY DEF Asks
<1>8. Forwarded(e)'
  BY <1>3, <1>6, <1>7, QuestionStays
<1>9. /\ DOMAIN conn' = Connections /\ DOMAIN reply' = Connections
      /\ \A d \in Connections : Conversing(conn'[d])
  BY <1>1 DEF Conversations
<1>10. \A x \in ToSet(requests'), y \in ToSet(events') : x.conn # y.conn
  BY <1>1, <1>2, <1>5 DEF OnTheirWay
<1>11. daemon'.phase = "formats" =>
         /\ daemon' = daemon
         /\ \A x \in ToSet(requests') \cup ToSet(events') : x.conn # daemon'.event.conn
  BY <1>1, <1>2, <1>5 DEF OnTheirWay
<1>12. IsSeq(submissions)' /\ Distinct(submissions)'
  BY <1>1 DEF OnTheirWay
<1> DEFINE C == {}
<1>13. \A s : s \notin C
  OBVIOUS
<1> HIDE DEF C
<1> QED
  BY <1>2, <1>5, <1>6, <1>7, <1>8, <1>9, <1>10, <1>11, <1>12, <1>13, StepOf

\* The listener forwards a request with the candidate it is about, or says that
\* there is none (server.rs:630-718).
LEMMA ForwardRequestKeeps ==
    ASSUME CInv, ForwardRequest
    PROVE  CInv'
<1>1. PICK q : q = Head(requests)
  OBVIOUS
<1>2. PICK plain, full :
        /\ plain = [conn |-> q.conn, request |-> q.request]
        /\ full = [conn |-> q.conn, request |-> q.request,
                   candidate |-> CHOOSE c \in Meant(q.request) : TRUE]
  OBVIOUS
<1>3. PICK a : a = [type |-> "unavailable"]
  OBVIOUS
<1>4. /\ requests # <<>> /\ requests' = Tail(requests)
      /\ UNCHANGED <<catalog, minted, jobs, submissions, conn, daemon>>
      /\ \/ q.request.type = "status" /\ events' = Append(events, plain) /\ reply' = reply
         \/ reply' = [reply EXCEPT ![q.conn] = a] /\ events' = events
         \/ /\ Meant(q.request) # {}
            /\ events' = Append(events, full) /\ reply' = reply
  BY <1>1, <1>2, <1>3 DEF ForwardRequest, listener
<1>5. OnTheirWay /\ Recording
  BY DEF CInv
<1>6. /\ q \in ToSet(requests) /\ IsSeq(requests') /\ Distinct(requests')
      /\ ToSet(requests') \subseteq ToSet(requests)
      /\ \A x \in ToSet(requests') : x.conn # q.conn
  BY <1>1, <1>4, <1>5, TailQueue DEF OnTheirWay
<1>7. Asked(q)
  BY <1>5, <1>6 DEF OnTheirWay
<1>8. CASE q.request.type = "status" /\ events' = Append(events, plain) /\ reply' = reply
  <2>1. plain.conn = q.conn /\ plain.request = q.request
    BY <1>2
  <2>2. Forwarded(plain)
    BY <1>7, <1>8, <2>1 DEF Forwarded, Asked
  <2> QED
    BY <1>1, <1>4, <1>8, <2>1, <2>2, EventKeeps
<1>9. CASE reply' = [reply EXCEPT ![q.conn] = a] /\ events' = events
  <2>1. Recording' /\ Grows
    BY <1>4, <1>5, RecordStays
  <2>2. Sound(q.conn, a)'
    BY <1>3, <1>4, <1>7, UnavailableIsSound
  <2>3. Fewer
    BY <1>4, <1>5, <1>6, <1>9 DEF Fewer, OnTheirWay
  <2>4. /\ \A x \in ToSet(submissions') \cup ToSet(requests') \cup ToSet(events') : x.conn # q.conn
        /\ daemon'.phase = "formats" => daemon'.event.conn # q.conn
    BY <1>4, <1>5, <1>6, <1>7, <1>9 DEF OnTheirWay, Submitted, Asked
  <2> QED
    BY <1>4, <1>7, <1>9, <2>1, <2>2, <2>3, <2>4, StepOfReply DEF Asked
<1>10. CASE Meant(q.request) # {} /\ events' = Append(events, full) /\ reply' = reply
  <2>1. full.conn = q.conn /\ full.request = q.request /\ full.candidate \in Meant(q.request)
    BY <1>2, <1>10
  <2>2. full.candidate \in ToSet(catalog) /\ About(q.request, full.candidate)
    BY <2>1 DEF Meant, OnPage, About
  <2>3. Forwarded(full)
    BY <1>5, <1>7, <2>1, <2>2 DEF Forwarded, Asked, Recording
  <2> QED
    BY <1>1, <1>4, <1>10, <2>1, <2>3, EventKeeps
<1> QED
  BY <1>4, <1>8, <1>9, <1>10

-----------------------------------------------------------------------------
(* The daemon. *)

\* A download that is there or is created now is of the capture that was meant.
LEMMA QueuedIsSound ==
    ASSUME NEW e, Forwarded(e), e.request.type = "download", UNCHANGED conn, Grows,
           Choosable(e.candidate, e.request.format),
           NEW job \in DOMAIN jobs', jobs'[job].url = ChosenUrl(e.candidate, e.request.format),
           NEW a, a = [type |-> "queued", job |-> job]
    PROVE  Sound(e.conn, a)'
<1>1. PICK c, request : c = e.candidate /\ request = e.request
  OBVIOUS
<1>2. /\ request = Request(e.conn) /\ Known(c, minted) /\ About(request, c)
      /\ request.type = "download"
  BY <1>1 DEF Forwarded, Asked
<1>3. Known(c, minted')
  BY <1>2, KnownStays DEF Known, Grows, Ids
<1>4. PICK r \in AllReports : r.url = c.url /\ r.variants = c.variants
  BY <1>2 DEF Known
<1>5. jobs'[job].url \in {r.url} \cup ToSet(r.variants)
  <2>1. DOMAIN r.variants = 1 .. Len(r.variants) /\ Len(r.variants) \in Nat
    BY CaptureAssumption, LenProperties
  <2>2. request.format \in 0 .. Len(r.variants)
    BY <1>1, <1>4 DEF Choosable
  <2>3. CASE request.format = 0
    BY <1>1, <1>4, <2>3 DEF ChosenUrl
  <2>4. CASE request.format # 0
    <3>1. request.format \in 1 .. Len(r.variants)
      BY <2>1, <2>2, <2>4
    <3>2. jobs'[job].url = r.variants[request.format]
      BY <1>1, <1>4, <2>4 DEF ChosenUrl
    <3> QED
      BY <2>1, <3>1, <3>2 DEF ToSet
  <2> QED
    BY <2>3, <2>4
<1>6. (Request(e.conn))' = request
  BY <1>2 DEF Request
<1>7. /\ c.id \in Ids' /\ r.url = minted'[c.id].url
      /\ request.capture # 0 => c.id = request.capture
      /\ request.capture = 0 => minted'[c.id].page = request.page
  BY <1>2, <1>3, <1>4 DEF Known, Ids, About
<1> DEFINE about == IF request.capture # 0 THEN {request.capture}
                    ELSE {i \in Ids' : minted'[i].page = request.page}
<1>8. c.id \in about
  BY <1>7
<1> HIDE DEF about
<1>9. \E i \in about, s \in AllReports :
        s.url = minted'[i].url /\ jobs'[job].url \in {s.url} \cup ToSet(s.variants)
  BY <1>5, <1>7, <1>8
<1>10. a.type = "queued" /\ a.job = job
  OBVIOUS
<1>11. Answers(e.conn, a)'
  BY <1>6, <1>9, <1>10 DEF Answers, Owner, about
<1>12. request.capture \in Ids' \cup {0}
  BY <1>7
<1> QED
  BY <1>6, <1>10, <1>11, <1>12 DEF Sound

\* The daemon answers the event it handles.
LEMMA AnswerKeeps ==
    ASSUME CInv, Grows, Recording', NEW e, events # <<>>, e = Head(events), NEW a,
           Forwarded(e) => Sound(e.conn, a)', Answer(e.conn, a),
           UNCHANGED <<conn, submissions, requests, daemon>>
    PROVE  CInv'
<1>1. OnTheirWay
  BY DEF CInv
<1>2. events' = Tail(events) /\ reply' = [reply EXCEPT ![e.conn] = a]
  BY DEF Answer
<1>3. /\ e \in ToSet(events) /\ IsSeq(events') /\ Distinct(events')
      /\ ToSet(events') \subseteq ToSet(events)
      /\ \A x \in ToSet(events') : x.conn # e.conn
  BY <1>1, <1>2, TailQueue DEF OnTheirWay
<1>4. Forwarded(e) /\ Asked(e)
  BY <1>1, <1>3 DEF OnTheirWay, Forwarded
<1>5. Fewer
  BY <1>1, <1>3 DEF Fewer, OnTheirWay
<1>6. /\ \A x \in ToSet(submissions') \cup ToSet(requests') \cup ToSet(events') : x.conn # e.conn
      /\ daemon'.phase = "formats" => daemon'.event.conn # e.conn
  BY <1>1, <1>3, <1>4 DEF OnTheirWay, Submitted, Asked
<1> QED
  BY <1>2, <1>4, <1>5, <1>6, StepOfReply DEF Asked

\* The least of some numbers is one of them.
LEMMA LeastIsIn ==
    ASSUME NEW S, S \subseteq Nat, S # {}
    PROVE  Min(S) \in S
<1> DEFINE R == {ss \in Nat \X Nat : ss[1] < ss[2]}
<1>1. IsWellFoundedOn(R, Nat)
  BY ONLY NatLessThanWellFounded DEF OpToRel
<1>2. \A x, y \in S : ~(<<y, x>> \in R) => x <= y
  <2> TAKE x \in S, y \in S
  <2>1. x \in Nat /\ y \in Nat
    OBVIOUS
  <2> QED
    BY <2>1
<1> HIDE DEF R
<1>3. \E x \in S : \A y \in S : ~(<<y, x>> \in R)
  BY ONLY <1>1, WFMin, S \subseteq Nat, S # {}, Zenon
<1>4. \E x \in S : \A y \in S : x <= y
  BY ONLY <1>2, <1>3
<1> QED
  BY <1>4 DEF Min

\* A download is added.
LEMMA JobAdded ==
    ASSUME Recording, UNCHANGED <<catalog, minted>>,
           NEW job, job = [url |-> job.url, active |-> job.active], jobs' = Append(jobs, job)
    PROVE  /\ Recording' /\ Grows
           /\ Len(jobs) + 1 \in DOMAIN jobs' /\ jobs'[Len(jobs) + 1] = job
<1>1. /\ IsSeq(jobs') /\ DOMAIN jobs' = 1 .. (Len(jobs) + 1) /\ jobs'[Len(jobs) + 1] = job
      /\ \A n \in 1 .. Len(jobs) : jobs'[n] = jobs[n]
      /\ DOMAIN jobs = 1 .. Len(jobs) /\ Len(jobs) \in Nat
  BY AppendQueue, LenProperties DEF Recording, IsSeq
<1>2. \A j \in DOMAIN jobs' : j = Len(jobs) + 1 \/ j \in DOMAIN jobs
  BY <1>1
<1>3. \A j \in DOMAIN jobs : j \in DOMAIN jobs' /\ jobs'[j] = jobs[j]
  BY <1>1
<1>4. \A j \in DOMAIN jobs' : jobs'[j] = [url |-> jobs'[j].url, active |-> jobs'[j].active]
  BY <1>1, <1>2, <1>3 DEF Recording
<1>5. Recording'
  BY <1>1, <1>4 DEF Recording, Known
<1>6. Grows
  BY <1>3 DEF Grows, Ids
<1> QED
  BY <1>1, <1>5, <1>6

\* A download moves on.
LEMMA JobMoved ==
    ASSUME Recording, UNCHANGED <<catalog, minted>>, NEW j \in DOMAIN jobs, JobStep(j)
    PROVE  Recording' /\ Grows
<1>1. PICK was, job : was = jobs[j] /\ job = [was EXCEPT !.active = ~@]
  OBVIOUS
<1>2. was = [url |-> was.url, active |-> was.active]
  BY <1>1 DEF Recording
<1>3. job = [url |-> job.url, active |-> job.active] /\ job.url = was.url
  BY ONLY <1>1, <1>2
<1>4. jobs' = [jobs EXCEPT ![j] = job]
  BY <1>1 DEF JobStep
<1>5. DOMAIN jobs = 1 .. Len(jobs) /\ Len(jobs) \in Nat /\ jobs \in Seq(ToSet(jobs))
  BY LenProperties DEF Recording, IsSeq
<1> DEFINE S == ToSet(jobs) \cup {job}
<1>6. jobs \in Seq(S) /\ job \in S /\ j \in 1 .. Len(jobs)
  BY <1>5, SeqMonotonic
<1>7. jobs' \in Seq(S)
  <2> HIDE DEF S
  <2> QED
    BY <1>4, <1>6, ExceptSeq
<1>8. IsSeq(jobs')
  BY <1>7, OfItsElements
<1>9. DOMAIN jobs' = DOMAIN jobs
      /\ \A n \in DOMAIN jobs : jobs'[n] = IF n = j THEN job ELSE jobs[n]
  BY <1>4
<1>10. \A n \in DOMAIN jobs' : jobs'[n] = [url |-> jobs'[n].url, active |-> jobs'[n].active]
                               /\ jobs'[n].url = jobs[n].url
  BY <1>1, <1>3, <1>9 DEF Recording
<1>11. Recording'
  BY <1>8, <1>10 DEF Recording, Known
<1> QED
  BY <1>9, <1>10, <1>11 DEF Grows, Ids

\* A browser's download is the one that is active, a new one, or refused
\* (lib.rs:823-880).
LEMMA HandleDownloadKeeps ==
    ASSUME CInv, HandleDownload
    PROVE  CInv'
<1>1. PICK e : e = Head(events)
  OBVIOUS
<1>2. PICK url : url = ChosenUrl(e.candidate, e.request.format)
  OBVIOUS
<1>3. PICK old, new, none, job :
        /\ old = [type |-> "queued", job |-> Min(AlreadyActive(url))]
        /\ new = [type |-> "queued", job |-> Len(jobs) + 1]
        /\ none = [type |-> "unavailable"]
        /\ job = [url |-> url, active |-> TRUE]
  OBVIOUS
<1>4. /\ events # <<>> /\ e.request.type = "download"
      /\ UNCHANGED <<catalog, minted, conn, submissions, requests, daemon>>
      /\ \/ /\ Choosable(e.candidate, e.request.format) /\ AlreadyActive(url) # {}
            /\ Answer(e.conn, old) /\ jobs' = jobs
         \/ /\ Choosable(e.candidate, e.request.format)
            /\ Answer(e.conn, new) /\ jobs' = Append(jobs, job)
         \/ \E refusal \in {none, Declined} : Answer(e.conn, refusal) /\ jobs' = jobs
  BY <1>1, <1>2, <1>3 DEF HandleDownload, Event, NewJob, listener
<1>5. Recording /\ DOMAIN jobs = 1 .. Len(jobs) /\ Len(jobs) \in Nat
  BY LenProperties DEF CInv, Recording, IsSeq
<1>6. CASE /\ Choosable(e.candidate, e.request.format) /\ AlreadyActive(url) # {}
           /\ Answer(e.conn, old) /\ jobs' = jobs
  <2>1. Recording' /\ Grows
    <3>1. UNCHANGED <<catalog, minted, jobs>>
      BY <1>4, <1>6
    <3> QED
      BY ONLY <1>5, <3>1, RecordStays
  <2>2. PICK j : j = Min(AlreadyActive(url))
    OBVIOUS
  <2>3. j \in AlreadyActive(url)
    <3>1. AlreadyActive(url) \subseteq Nat
      BY <1>5 DEF AlreadyActive
    <3> QED
      BY <1>6, <2>2, <3>1, LeastIsIn
  <2>4. j \in DOMAIN jobs' /\ jobs'[j].url = url
    BY <1>6, <2>3 DEF AlreadyActive
  <2>5. Forwarded(e) => Sound(e.conn, old)'
    BY <1>2, <1>3, <1>4, <1>6, <2>1, <2>2, <2>4, QueuedIsSound
  <2> QED
    BY <1>1, <1>4, <1>6, <2>1, <2>5, AnswerKeeps
<1>7. CASE /\ Choosable(e.candidate, e.request.format)
           /\ Answer(e.conn, new) /\ jobs' = Append(jobs, job)
  <2>1. job = [url |-> job.url, active |-> job.active] /\ job.url = url
    BY <1>3
  <2>2. /\ Recording' /\ Grows
        /\ Len(jobs) + 1 \in DOMAIN jobs' /\ jobs'[Len(jobs) + 1] = job
    BY <1>4, <1>5, <1>7, <2>1, JobAdded
  <2>3. Forwarded(e) => Sound(e.conn, new)'
    BY <1>2, <1>3, <1>4, <1>7, <2>1, <2>2, QueuedIsSound
  <2> QED
    BY <1>1, <1>4, <1>7, <2>2, <2>3, AnswerKeeps
<1>8. ASSUME NEW refusal \in {none, Declined}, Answer(e.conn, refusal), jobs' = jobs
      PROVE  CInv'
  <2>1. Recording' /\ Grows
    BY <1>4, <1>5, <1>8, RecordStays
  <2>2. refusal.type = "unavailable"
    <3>1. none.type = "unavailable"
      BY <1>3
    <3>2. Declined.type = "unavailable"
      BY DEF Declined
    <3> QED
      BY <1>8, <3>1, <3>2
  <2>3. Forwarded(e) => Sound(e.conn, refusal)'
    BY <1>4, <2>2, UnavailableIsSound DEF Forwarded
  <2> QED
    BY <1>1, <1>4, <1>8, <2>1, <2>3, AnswerKeeps
<1> QED
  BY <1>4, <1>6, <1>7, <1>8

\* What a browser asks of a download is what is told (lib.rs:881-916).
LEMMA HandleStatusKeeps ==
    ASSUME CInv, HandleStatus
    PROVE  CInv'
<1>1. PICK e : e = Head(events)
  OBVIOUS
<1>2. PICK there, none : there = [type |-> "status", job |-> e.request.job]
                         /\ none = [type |-> "unavailable"]
  OBVIOUS
<1>3. /\ events # <<>> /\ e.request.type = "status"
      /\ UNCHANGED <<catalog, minted, jobs, conn, submissions, requests, daemon>>
      /\ Answer(e.conn, there) \/ Answer(e.conn, none)
  BY <1>1, <1>2 DEF HandleStatus, Event, listener
<1>4. Recording' /\ Grows
  BY <1>3, RecordStays DEF CInv
<1>5. none.type = "unavailable" /\ there.type = "status" /\ there.job = e.request.job
  BY <1>2
<1>6. Forwarded(e) => Sound(e.conn, none)'
  BY <1>3, <1>5, UnavailableIsSound DEF Forwarded
<1>7. ASSUME Forwarded(e) PROVE Sound(e.conn, there)'
  <2>1. conn[e.conn].msg.type = "status" /\ e.request = conn[e.conn].msg
    <3>1. e.request = Request(e.conn)
      BY <1>7 DEF Forwarded, Asked
    <3>2. CASE conn[e.conn].msg.type = "browser"
      BY <1>3, <3>1, <3>2 DEF Request
    <3>3. CASE conn[e.conn].msg.type # "browser"
      BY <1>3, <3>1, <3>3 DEF Request
    <3> QED
      BY <3>2, <3>3
  <2> QED
    BY <1>3, <1>5, <2>1 DEF Sound, Answers
<1> QED
  BY <1>1, <1>3, <1>4, <1>6, <1>7, AnswerKeeps

\* The formats are of a capture on the page that was asked about.
LEMMA FormatsAreSound ==
    ASSUME NEW e, Forwarded(e), e.request.type = "list", UNCHANGED <<conn, minted, jobs>>,
           NEW a, a.type = "formats", a.capture = e.candidate.id
    PROVE  Sound(e.conn, a)'
<1>1. conn[e.conn].msg.type = "list" /\ e.request = conn[e.conn].msg
  <2>1. e.request = Request(e.conn)
    BY DEF Forwarded, Asked
  <2>2. CASE conn[e.conn].msg.type = "browser"
    BY <2>1, <2>2 DEF Request
  <2>3. CASE conn[e.conn].msg.type # "browser"
    BY <2>1, <2>3 DEF Request
  <2> QED
    BY <2>2, <2>3
<1>2. /\ e.candidate.id \in 1 .. Len(minted) /\ e.candidate.page = e.request.page
      /\ minted[e.candidate.id].page = e.candidate.page
  BY DEF Forwarded, Known, About
<1> QED
  BY <1>1, <1>2 DEF Sound, Answers, Owner, Ids

\* The formats of a file are told at once, and those of a stream when its
\* manifest is read (lib.rs:823-880).
LEMMA HandleFormatsKeeps ==
    ASSUME CInv, HandleFormats
    PROVE  CInv'
<1>1. PICK e : e = Head(events)
  OBVIOUS
<1>2. PICK a, reading :
        /\ a = [type |-> "formats", capture |-> e.candidate.id, variants |-> e.candidate.variants]
        /\ reading = [phase |-> "formats", event |-> e]
  OBVIOUS
<1>3. /\ events # <<>> /\ e.request.type = "list"
      /\ UNCHANGED <<catalog, minted, jobs, conn, submissions, requests>>
      /\ \/ daemon' = reading /\ events' = Tail(events) /\ reply' = reply
         \/ Answer(e.conn, a) /\ daemon' = daemon
  BY <1>1, <1>2 DEF HandleFormats, Event, listener
<1>4. Recording' /\ Grows
  BY <1>3, RecordStays DEF CInv
<1>5. CASE Answer(e.conn, a) /\ daemon' = daemon
  <2>1. a.type = "formats" /\ a.capture = e.candidate.id
    BY <1>2
  <2>2. Forwarded(e) => Sound(e.conn, a)'
    BY <1>3, <2>1, FormatsAreSound
  <2> QED
    BY <1>1, <1>3, <1>4, <1>5, <2>2, AnswerKeeps
<1>6. CASE daemon' = reading /\ events' = Tail(events) /\ reply' = reply
  <2>1. OnTheirWay /\ Conversations
    BY DEF CInv
  <2>2. /\ e \in ToSet(events) /\ IsSeq(events') /\ Distinct(events')
        /\ ToSet(events') \subseteq ToSet(events)
        /\ \A x \in ToSet(events') : x.conn # e.conn
    BY <1>1, <1>3, <1>6, <2>1, TailQueue DEF OnTheirWay
  <2>3. Forwarded(e)
    BY <2>1, <2>2 DEF OnTheirWay
  <2>4. /\ DOMAIN conn' = Connections /\ DOMAIN reply' = Connections
        /\ \A d \in Connections : Asks(d) /\ reply'[d] = reply[d] /\ Conversing(conn'[d])
    BY <1>3, <1>6, <2>1 DEF Asks, Conversations
  <2>5. Forwarded(e)'
    BY <1>4, <2>3, <2>4, QuestionStays
  <2>6. reading.phase = "formats" /\ reading.event = e
    BY <1>2
  <2>7. (Forwarded(daemon.event))' /\ daemon'.event.request.type = "list"
    BY <1>3, <1>6, <2>5, <2>6
  <2>8. \A x \in ToSet(requests') \cup ToSet(events') : x.conn # daemon'.event.conn
    BY <1>3, <1>6, <2>1, <2>2, <2>6 DEF OnTheirWay
  <2>9. /\ IsSeq(submissions)' /\ Distinct(submissions)' /\ IsSeq(requests)' /\ Distinct(requests)'
        /\ IsSeq(events)' /\ Distinct(events)'
        /\ \A x \in ToSet(requests'), y \in ToSet(events') : x.conn # y.conn
        /\ ToSet(submissions') = ToSet(submissions) /\ ToSet(requests') = ToSet(requests)
    BY <1>3, <2>1, <2>2 DEF OnTheirWay
  <2> DEFINE C == {}
  <2>10. \A s : s \notin C
    OBVIOUS
  <2> HIDE DEF C
  <2> QED
    BY <1>4, <2>2, <2>4, <2>7, <2>8, <2>9, <2>10, StepOf
<1> QED
  BY <1>3, <1>5, <1>6

\* The manifest is read, and the connection that waits is answered.
LEMMA ManifestReadKeeps ==
    ASSUME CInv, NEW ok \in BOOLEAN, ManifestRead(ok)
    PROVE  CInv'
<1>1. PICK e : e = daemon.event
  OBVIOUS
<1>2. PICK full, none :
        /\ full = [type |-> "formats", capture |-> e.candidate.id, variants |-> <<>>]
        /\ none = [type |-> "unavailable"]
  OBVIOUS
<1>3. /\ daemon.phase = "formats" /\ daemon'.phase = "select"
      /\ UNCHANGED <<catalog, minted, jobs, conn, submissions, requests, events>>
      /\ reply' = [reply EXCEPT ![e.conn] = full] \/ reply' = [reply EXCEPT ![e.conn] = none]
  BY <1>1, <1>2 DEF ManifestRead, listener
<1>4. Recording' /\ Grows
  BY <1>3, RecordStays DEF CInv
<1>5. OnTheirWay
  BY DEF CInv
<1>6. /\ Forwarded(e) /\ Asked(e) /\ e.request.type = "list"
      /\ \A q \in ToSet(requests) \cup ToSet(events) : q.conn # e.conn
  BY <1>1, <1>3, <1>5 DEF OnTheirWay, Forwarded
<1>7. full.type = "formats" /\ full.capture = e.candidate.id /\ none.type = "unavailable"
  BY <1>2
<1>8. Sound(e.conn, full)' /\ Sound(e.conn, none)'
  BY <1>3, <1>6, <1>7, FormatsAreSound, UnavailableIsSound
<1>9. Fewer
  BY <1>3, <1>5 DEF Fewer, OnTheirWay
<1>10. \A q \in ToSet(submissions') \cup ToSet(requests') \cup ToSet(events') : q.conn # e.conn
  BY <1>3, <1>5, <1>6 DEF OnTheirWay, Submitted, Asked
<1> QED
  BY <1>3, <1>4, <1>6, <1>8, <1>9, <1>10, StepOfReply DEF Asked

\* The commands of the desktop, and the inspections.
LEMMA DesktopKeeps ==
    ASSUME CInv,
           Desktop \/ Dismissed \/ HandleInspected \/ (\E i \in inspections : InspectionDone(i))
    PROVE  CInv'
<1> DEFINE quiet == /\ UNCHANGED <<catalog, minted, conn, reply, submissions, requests, events>>
                    /\ daemon' = daemon \/ daemon'.phase # "formats"
<1>1. ASSUME NEW id, InspectCapture(id) PROVE quiet /\ jobs' = jobs
  BY <1>1 DEF InspectCapture, listener
<1>2. ASSUME NEW id, Dismiss(id) PROVE quiet /\ jobs' = jobs
  BY <1>2 DEF Dismiss, listener
<1>3. ASSUME Dismissed PROVE quiet /\ jobs' = jobs
  BY <1>3 DEF Dismissed, listener
<1>4. ASSUME HandleInspected PROVE quiet /\ jobs' = jobs
  BY <1>4 DEF HandleInspected, listener
<1>5. ASSUME NEW i, InspectionDone(i) PROVE quiet /\ jobs' = jobs
  BY <1>5 DEF InspectionDone, listener
<1>6. ASSUME NEW id, DownloadCapture(id)
      PROVE  quiet /\ Recording' /\ Grows
  <2>1. PICK job : job = [url |-> CandidateIn(view, id).url, active |-> TRUE]
    OBVIOUS
  <2>2. quiet /\ jobs' = Append(jobs, job)
    BY <1>6, <2>1 DEF DownloadCapture, NewJob, listener
  <2>3. job = [url |-> job.url, active |-> job.active]
    BY <2>1
  <2> QED
    BY <2>2, <2>3, JobAdded DEF CInv
<1>7. quiet /\ jobs' = jobs => Recording' /\ Grows
  BY RecordStays DEF CInv
<1>8. quiet /\ Recording' /\ Grows
  <2> HIDE DEF quiet
  <2> QED
    BY <1>1, <1>2, <1>3, <1>4, <1>5, <1>6, <1>7, Zenon DEF Desktop
<1> QED
  BY <1>8, StepOfNobody

-----------------------------------------------------------------------------
(* Every step. *)

\* The initial states have the invariant.
LEMMA CaptureInit == Init => CInv
<1> SUFFICES ASSUME Init PROVE CInv
  OBVIOUS
<1>1. IsSeq(<<>>) /\ ToSet(<<>>) = {} /\ DOMAIN <<>> = {} /\ Distinct(<<>>)
  BY EmptySeq DEF IsSeq, ToSet, Distinct
<1>2. Recording
  BY <1>1 DEF Init, Recording
<1>3. Conversations
  BY IdleConverses DEF Init, Conversations
<1>4. OnTheirWay
  BY <1>1 DEF Init, OnTheirWay
<1>5. Replies
  BY DEF Init, Replies
<1> QED
  BY <1>2, <1>3, <1>4, <1>5 DEF CInv

\* Every step of a connection, the listener, the daemon or the user keeps it.
LEMMA CaptureNext == CInv /\ [Next]_vars => CInv'
<1> SUFFICES ASSUME CInv, [Next]_vars PROVE CInv'
  OBVIOUS
<1>1. CASE Client
  BY <1>1, OpeningKeeps, LeaveKeeps, ReceiveKeeps, Zenon DEF Client
<1>2. CASE \E c \in Connections : Converse(c)
  BY <1>2, SubmitKeeps, AfterSubmitKeeps, AskKeeps, AfterAskKeeps, Zenon DEF Converse
<1>3. CASE Listener
  BY <1>3, RecordReportKeeps, PublishKeeps, ForwardRequestKeeps DEF Listener
<1>4. CASE HandleEvent
  BY <1>4, HandleDownloadKeeps, HandleStatusKeeps, HandleFormatsKeeps DEF HandleEvent
<1>5. CASE HandleInspected \/ Desktop \/ \E i \in inspections : InspectionDone(i)
  BY <1>5, DesktopKeeps
<1>6. CASE DaemonAwait
  BY <1>6, DesktopKeeps, ManifestReadKeeps, Zenon DEF DaemonAwait
<1>7. ASSUME NEW j \in DOMAIN jobs, JobStep(j) PROVE CInv'
  <2>1. /\ UNCHANGED <<catalog, minted, conn, reply, submissions, requests, events>>
        /\ daemon' = daemon
    BY <1>7 DEF JobStep, listener
  <2>2. Recording' /\ Grows
    BY <1>7, <2>1, JobMoved DEF CInv
  <2> QED
    BY <2>1, <2>2, StepOfNobody
<1>8. CASE UNCHANGED vars
  <2>1. UNCHANGED <<catalog, minted, jobs, conn, reply, submissions, requests, events, daemon>>
    BY <1>8 DEF vars, listener
  <2> QED
    BY <2>1, RecordStays, StepOfNobody DEF CInv
<1> QED
  BY <1>1, <1>2, <1>3, <1>4, <1>5, <1>6, <1>7, <1>8 DEF Next

\* A question is in one place while its connection waits, and what it carries is
\* known by an identifier of its own: the inductive invariant of the channel.
THEOREM CaptureInvariance == Spec => []CInv
  BY CaptureInit, CaptureNext, PTL DEF Spec

\* Every reply is to the question its connection asked, whichever tasks it went
\* through and whatever became of the capture meanwhile (server.rs:553-718,
\* lib.rs:823-916).
THEOREM RepliesAreToTheirQuestions == Spec => []AnswersTheQuestion
<1>1. CInv => AnswersTheQuestion
  BY DEF CInv, Replies, Sound, AnswersTheQuestion
<1> QED
  BY <1>1, CaptureInvariance, PTL
-----------------------------------------------------------------------------
(* A browser download finds the capture it reported. *)

\* The candidates of requests the daemon has not answered yet.
Carried == {e.candidate : e \in {f \in ToSet(events) : f.request.type # "status"}}

\* Whatever names a candidate agrees about its kind, and a candidate that is on
\* its way to the daemon and still in the catalog is published.
Agreeing ==
    \A c, d \in ToSet(catalog) \cup ToSet(view) \cup Carried : c.id = d.id => c.kind = d.kind

Published ==
    /\ ~publishing => view = catalog
    /\ \A c \in ToSet(view) : Known(c, minted)
    /\ Agreeing
    /\ \A c \in Carried : Listed(catalog, c.id) => Listed(view, c.id)

\* The listener alone changes the catalog, and forwards what is in it.
LEMMA PublishedStays ==
    ASSUME Published, UNCHANGED <<catalog, minted, publishing, view>>,
           ToSet(events') \subseteq ToSet(events)
    PROVE  Published'
<1>1. Carried' \subseteq Carried
  BY DEF Carried
<1> QED
  BY <1>1 DEF Published, Agreeing, Listed, Known

\* What is on its way is known.
LEMMA CarriedAreKnown ==
    ASSUME CInv
    PROVE  \A c \in Carried : Known(c, minted)
BY DEF CInv, OnTheirWay, Carried, Forwarded

\* A report adds a candidate under a new identifier, and changes the kind of
\* none (Catalog::record, candidate.rs:267-327).
LEMMA ReportKeepsKinds ==
    ASSUME Recording, NEW report, NEW d \in ToSet(Recorded(report).catalog)
    PROVE  \/ \E c \in ToSet(catalog) : c.id = d.id /\ c.kind = d.kind
           \/ d.id = Len(minted) + 1 /\ d.kind = report.kind
<1>1. IsSeq(catalog)
  BY DEF Recording
<1>2. CASE report.url \in Urls(catalog)
  <2>1. Recorded(report).catalog = [i \in DOMAIN catalog |-> Merge(catalog[i], report)]
    BY <1>2 DEF Recorded
  <2>2. PICK i \in DOMAIN catalog : d = Merge(catalog[i], report)
    BY <2>1 DEF ToSet
  <2>3. catalog[i] \in ToSet(catalog) /\ catalog[i] \in Fields
    BY DEF Recording, Known, ToSet
  <2>4. PICK c : c = catalog[i] /\ c \in Fields /\ c \in ToSet(catalog)
    BY <2>3
  <2>5. d.id = c.id /\ d.kind = c.kind
    <3>1. CASE c.url = report.url /\ report.variants # <<>>
      <4>1. d = [c EXCEPT !.variants = report.variants]
        BY <2>2, <2>4, <3>1 DEF Merge
      <4> QED
        BY <2>4, <4>1 DEF Fields
    <3>2. CASE ~(c.url = report.url /\ report.variants # <<>>)
      BY <2>2, <2>4, <3>2 DEF Merge
    <3> QED
      BY <3>1, <3>2
  <2> QED
    BY <2>4, <2>5
<1>3. CASE report.url \notin Urls(catalog)
  <2>1. PICK new : new = NewCandidate(report)
    OBVIOUS
  <2>2. new.id = Len(minted) + 1 /\ new.kind = report.kind
    BY <2>1 DEF NewCandidate
  <2>3. Recorded(report).catalog = Truncate(<<new>> \o catalog)
    BY <1>3, <2>1 DEF Recorded
  <2>4. ToSet(Recorded(report).catalog) \subseteq {new} \cup ToSet(catalog)
    BY <1>1, <2>3, InFront, TruncateKeeps
  <2> QED
    BY <2>2, <2>4
<1> QED
  BY <1>2, <1>3

LEMMA RecordReportPublishes ==
    ASSUME CInv, Published, RecordReport
    PROVE  Published'
<1>1. PICK s : s = Head(submissions)
  OBVIOUS
<1>2. /\ submissions # <<>> /\ publishing' = TRUE /\ UNCHANGED <<view, events, jobs>>
      /\ catalog' = Recorded(s.report).catalog /\ minted' = Recorded(s.report).minted
  BY <1>1 DEF RecordReport
<1>3. Submitted(s) /\ Recording
  BY <1>1, <1>2, TailQueue DEF CInv, OnTheirWay
<1>4. Grows
  BY <1>2, <1>3, ReportIsRecorded DEF Submitted
<1>5. Carried' = Carried
  BY <1>2 DEF Carried
<1>6. \A c \in ToSet(view') : Known(c, minted)'
  BY <1>2, <1>4, KnownStays DEF Published
<1> DEFINE Old == ToSet(catalog) \cup ToSet(view) \cup Carried
           Later == ToSet(catalog') \cup ToSet(view') \cup Carried'
<1>7. \A c \in Old : c.id # Len(minted) + 1
  <2>1. \A c \in Old : Known(c, minted)
    BY <1>3, CarriedAreKnown DEF Published, Recording
  <2>2. Len(minted) \in Nat
    BY <1>3, LenProperties DEF Recording, IsSeq
  <2>3. Len(minted) + 1 \notin 1 .. Len(minted)
    BY <2>2
  <2> QED
    BY <2>1, <2>3 DEF Known
<1>8. \A d \in Later : \/ \E c \in Old : c.id = d.id /\ c.kind = d.kind
                       \/ d.id = Len(minted) + 1 /\ d.kind = s.report.kind
  BY <1>2, <1>3, <1>5, ReportKeepsKinds
<1>9. \A c, d \in Old : c.id = d.id => c.kind = d.kind
  BY DEF Published, Agreeing
<1>10. \A c, d \in Later : c.id = d.id => c.kind = d.kind
  <2> HIDE DEF Old, Later
  <2> QED
    BY <1>7, <1>8, <1>9
<1>11. ASSUME NEW c \in Carried', Listed(catalog', c.id) PROVE Listed(view', c.id)
  <2>1. PICK d \in ToSet(catalog') : d.id = c.id
    BY <1>11 DEF Listed
  <2>2. c \in Carried /\ c.id # Len(minted) + 1
    BY <1>5, <1>7
  <2>3. Listed(catalog, c.id)
    BY <1>2, <1>3, <2>1, <2>2, ReportKeepsKinds DEF Listed
  <2> QED
    BY <1>2, <2>2, <2>3 DEF Published
<1> QED
  BY <1>2, <1>6, <1>10, <1>11 DEF Published, Agreeing

\* The catalog is published before the next request is forwarded
\* (server.rs:265-268, 366-371).
LEMMA PublishPublishes ==
    ASSUME CInv, Published, Publish
    PROVE  Published'
<1>1. view' = catalog /\ UNCHANGED <<catalog, minted, events>>
  BY DEF Publish
<1>2. Carried' = Carried
  BY <1>1 DEF Carried
<1>3. \A c \in ToSet(view') : Known(c, minted)'
  BY <1>1 DEF CInv, Recording, Known
<1>4. Agreeing'
  BY <1>1, <1>2 DEF Published, Agreeing
<1> QED
  BY <1>1, <1>2, <1>3, <1>4 DEF Published, Listed

\* What is forwarded is in the catalog, which is published then.
LEMMA ForwardRequestPublishes ==
    ASSUME CInv, Published, ForwardRequest
    PROVE  Published'
<1>1. PICK q : q = Head(requests)
  OBVIOUS
<1>2. PICK plain, full :
        /\ plain = [conn |-> q.conn, request |-> q.request]
        /\ full = [conn |-> q.conn, request |-> q.request,
                   candidate |-> CHOOSE c \in Meant(q.request) : TRUE]
  OBVIOUS
<1>3. /\ ~publishing /\ UNCHANGED <<catalog, minted, publishing, view>>
      /\ \/ q.request.type = "status" /\ events' = Append(events, plain)
         \/ events' = events
         \/ Meant(q.request) # {} /\ events' = Append(events, full)
  BY <1>1, <1>2 DEF ForwardRequest, listener
<1>4. IsSeq(events) /\ view = catalog
  BY <1>3 DEF CInv, OnTheirWay, Published
<1>5. CASE events' = events
  BY <1>3, <1>5, PublishedStays
<1>6. CASE q.request.type = "status" /\ events' = Append(events, plain)
  <2>1. ToSet(events') = ToSet(events) \cup {plain} /\ plain.request.type = "status"
    BY <1>2, <1>4, <1>6, AppendQueue
  <2>2. Carried' = Carried
    BY <2>1 DEF Carried
  <2> QED
    BY <1>3, <2>2 DEF Published, Agreeing, Listed, Known
<1>7. CASE Meant(q.request) # {} /\ events' = Append(events, full)
  <2>1. full.candidate \in ToSet(catalog)
    BY <1>2, <1>7 DEF Meant, OnPage
  <2>2. ToSet(events') = ToSet(events) \cup {full}
    BY <1>4, <1>7, AppendQueue
  <2>3. Carried' \subseteq Carried \cup {full.candidate}
    BY <2>2 DEF Carried
  <2>4. Agreeing'
    BY <1>3, <2>1, <2>3 DEF Published, Agreeing
  <2>5. \A c \in Carried' : Listed(catalog', c.id) => Listed(view', c.id)
    BY <1>3, <1>4
  <2> QED
    BY <1>3, <2>4, <2>5 DEF Published, Known
<1> QED
  BY <1>3, <1>5, <1>6, <1>7

\* A command's catalog is published with it (server.rs:349-362).
LEMMA ApplyCommandPublishes ==
    ASSUME CInv, Published, ApplyCommand
    PROVE  Published'
<1>1. /\ ~publishing /\ UNCHANGED <<minted, publishing, events>> /\ view' = catalog'
      /\ catalog' = <<>> \/ catalog' = Without(catalog, Head(commands))
  BY DEF ApplyCommand
<1>2. Recording /\ IsSeq(<<>>) /\ ToSet(<<>>) = {}
  BY EmptySeq DEF CInv, IsSeq, ToSet
<1>3. ToSet(catalog') \subseteq ToSet(catalog)
  BY <1>1, <1>2, WithoutKeeps DEF Recording
<1>4. Carried' = Carried
  BY <1>1 DEF Carried
<1>5. \A c \in ToSet(view') : Known(c, minted)'
  BY <1>1, <1>2, <1>3 DEF Recording, Known
<1>6. Agreeing'
  BY <1>1, <1>3, <1>4 DEF Published, Agreeing
<1>7. \A c \in Carried' : Listed(catalog', c.id) => Listed(view', c.id)
  BY <1>1
<1> QED
  BY <1>1, <1>5, <1>6, <1>7 DEF Published

\* Every other step leaves the catalog alone, and events are only taken.
LEMMA PublishedNext == CInv /\ Published /\ [Next]_vars => Published'
<1> SUFFICES ASSUME CInv, Published, [Next]_vars PROVE Published'
  OBVIOUS
<1> DEFINE quiet == /\ UNCHANGED <<catalog, minted, publishing, view>>
                    /\ events' = events \/ (events # <<>> /\ events' = Tail(events))
<1>1. quiet => Published'
  <2> SUFFICES ASSUME quiet PROVE Published'
    OBVIOUS
  <2>1. ToSet(events') \subseteq ToSet(events)
    BY TailQueue DEF CInv, OnTheirWay
  <2> QED
    BY <2>1, PublishedStays
<1>2. CASE Client
  <2>1. ASSUME NEW c, Accept(c) PROVE quiet
    BY <2>1 DEF Accept, listener
  <2>2. ASSUME NEW c, NEW good, Greet(c, good) PROVE quiet
    BY <2>2 DEF Greet, listener
  <2>3. ASSUME NEW c, Leave(c) PROVE quiet
    BY <2>3 DEF Leave, listener
  <2>4. ASSUME NEW c, NEW msg, Receive(c, msg) PROVE quiet
    BY <2>4 DEF Receive, listener
  <2> HIDE DEF quiet
  <2> QED
    BY <1>1, <1>2, <2>1, <2>2, <2>3, <2>4, Zenon DEF Client
<1>3. ASSUME NEW c \in Connections, Converse(c) PROVE quiet
  BY <1>3 DEF Converse, Submit, AfterSubmit, Ask, AfterAsk, listener
<1>4. CASE Listener
  BY <1>4, RecordReportPublishes, PublishPublishes, ForwardRequestPublishes, ApplyCommandPublishes
  DEF Listener
<1>5. CASE HandleEvent
  <2>1. events # <<>>
    BY <1>5 DEF HandleEvent, HandleDownload, HandleStatus, HandleFormats, Event
  <2>2. HandleDownload => quiet
    BY <2>1 DEF HandleDownload, Answer, listener
  <2>3. HandleStatus => quiet
    BY <2>1 DEF HandleStatus, Answer, listener
  <2>4. HandleFormats => quiet
    BY <2>1 DEF HandleFormats, Answer, listener
  <2> QED
    BY <1>1, <1>5, <2>2, <2>3, <2>4 DEF HandleEvent
<1>6. CASE HandleInspected
  BY <1>1, <1>6 DEF HandleInspected, listener
<1>7. CASE DaemonAwait
  BY <1>1, <1>7 DEF DaemonAwait, Dismissed, ManifestRead, listener
<1>8. CASE Desktop
  <2>1. ASSUME NEW id, InspectCapture(id) PROVE quiet
    BY <2>1 DEF InspectCapture, listener
  <2>2. ASSUME NEW id, DownloadCapture(id) PROVE quiet
    BY <2>2 DEF DownloadCapture, listener
  <2>3. ASSUME NEW id, Dismiss(id) PROVE quiet
    BY <2>3 DEF Dismiss, listener
  <2> HIDE DEF quiet
  <2> QED
    BY <1>1, <1>8, <2>1, <2>2, <2>3, Zenon DEF Desktop
<1>9. ASSUME NEW i, InspectionDone(i) PROVE quiet
  BY <1>9 DEF InspectionDone, listener
<1>10. ASSUME NEW j, JobStep(j) PROVE quiet
  BY <1>10 DEF JobStep, listener
<1>11. CASE UNCHANGED vars
  BY <1>1, <1>11 DEF vars, listener
<1> HIDE DEF quiet
<1> QED
  BY <1>1, <1>2, <1>3, <1>4, <1>5, <1>6, <1>7, <1>8, <1>9, <1>10, <1>11, Zenon DEF Next
\* Until the daemon answers it, nobody else answers a download request.
LEMMA NobodyElseAnswers ==
    ASSUME CInv, [Next]_vars, Event("download"), NEW c \in Connections, Head(events).conn = c,
           reply'[c] # reply[c]
    PROVE  HandleDownload
<1>1. PICK e : e = Head(events)
  OBVIOUS
<1>2. /\ e.conn = c /\ e.request.type = "download" /\ daemon.phase = "select" /\ events # <<>>
  BY <1>1 DEF Event, Waiting
<1>3. OnTheirWay /\ e \in ToSet(events) /\ DOMAIN reply = Connections
  BY <1>1, <1>2, TailQueue DEF CInv, OnTheirWay, Conversations
<1>4. Asked(e) /\ conn[c].phase = "asked" /\ reply[c] = Nobody
  BY <1>2, <1>3 DEF OnTheirWay, Forwarded, Asked
<1> DEFINE silent == reply' = reply
<1>5. CASE Client
  <2>1. ASSUME NEW d, Accept(d) PROVE silent
    BY <2>1 DEF Accept
  <2>2. ASSUME NEW d, NEW good, Greet(d, good) PROVE silent
    BY <2>2 DEF Greet
  <2>3. ASSUME NEW d, Leave(d) PROVE silent
    BY <2>3 DEF Leave
  <2>4. ASSUME NEW d, NEW msg, Receive(d, msg) PROVE silent
    BY <2>4 DEF Receive
  <2>5. silent
    <3> HIDE DEF silent
    <3> QED
      BY <1>5, <2>1, <2>2, <2>3, <2>4, Zenon DEF Client
  <2> QED
    BY <2>5
<1>6. ASSUME NEW d \in Connections, Converse(d) PROVE FALSE
  <2>1. silent \/ (reply[d] # Nobody /\ reply' = [reply EXCEPT ![d] = Nobody])
    BY <1>6 DEF Converse, Submit, AfterSubmit, Ask, AfterAsk
  <2> QED
    BY <1>3, <1>4, <2>1
<1>7. CASE Listener
  <2>1. CASE RecordReport
    <3>1. PICK s : s = Head(submissions)
      OBVIOUS
    <3>2. /\ submissions # <<>>
          /\ reply' = [reply EXCEPT ![s.conn] = [type |-> "id", id |-> Recorded(s.report).id]]
      BY <2>1, <3>1 DEF RecordReport
    <3>3. Submitted(s)
      BY <1>3, <3>1, <3>2, TailQueue DEF OnTheirWay
    <3> QED
      BY <1>3, <1>4, <3>2, <3>3 DEF Submitted
  <2>2. CASE ForwardRequest
    <3>1. PICK q : q = Head(requests)
      OBVIOUS
    <3>2. /\ requests # <<>>
          /\ silent \/ reply' = [reply EXCEPT ![q.conn] = [type |-> "unavailable"]]
      BY <2>2, <3>1 DEF ForwardRequest
    <3>3. q \in ToSet(requests)
      BY <1>3, <3>1, <3>2, TailQueue DEF OnTheirWay
    <3>4. q.conn # c
      BY <1>2, <1>3, <3>3 DEF OnTheirWay
    <3> QED
      BY <1>3, <3>2, <3>4
  <2>3. CASE Publish \/ ApplyCommand
    BY <2>3 DEF Publish, ApplyCommand
  <2> QED
    BY <1>7, <2>1, <2>2, <2>3 DEF Listener
<1>8. CASE HandleEvent
  BY <1>1, <1>2, <1>8 DEF HandleEvent, HandleStatus, HandleFormats, Event
<1>9. CASE HandleInspected
  BY <1>9 DEF HandleInspected
<1>10. CASE DaemonAwait
  BY <1>2, <1>10 DEF DaemonAwait, Dismissed, ManifestRead
<1>11. CASE Desktop
  <2>1. ASSUME NEW id, InspectCapture(id) PROVE silent
    BY <2>1 DEF InspectCapture
  <2>2. ASSUME NEW id, DownloadCapture(id) PROVE silent
    BY <2>2 DEF DownloadCapture
  <2>3. ASSUME NEW id, Dismiss(id) PROVE silent
    BY <2>3 DEF Dismiss
  <2>4. silent
    <3> HIDE DEF silent
    <3> QED
      BY <1>11, <2>1, <2>2, <2>3, Zenon DEF Desktop
  <2> QED
    BY <2>4
<1>12. ASSUME NEW i, InspectionDone(i) PROVE FALSE
  BY <1>12 DEF InspectionDone
<1>13. ASSUME NEW j, JobStep(j) PROVE FALSE
  BY <1>13 DEF JobStep
<1>14. CASE UNCHANGED vars
  BY <1>14 DEF vars
<1> QED
  BY <1>5, <1>6, <1>7, <1>8, <1>9, <1>10, <1>11, <1>12, <1>13, <1>14, Zenon DEF Next

\* The daemon looks up what the request carries in the published catalog, where
\* it finds the same resource, if it is still there (lib.rs:497-516).
LEMMA WhatIsCarriedIsFound ==
    ASSUME CInv, Published, NEW c \in Carried, Listed(catalog, c.id), Downloadable(c)
    PROVE  Captured(c.id)
<1>1. Listed(view, c.id)
  BY DEF Published
<1>2. PICK d : d = CandidateIn(view, c.id)
  OBVIOUS
<1>3. d \in ToSet(view) /\ d.id = c.id
  BY <1>1, <1>2 DEF CandidateIn, Listed
<1>4. Known(d, minted) /\ Known(c, minted)
  BY <1>3, CarriedAreKnown DEF Published
<1>5. d.url = c.url
  BY <1>3, <1>4 DEF Known
<1>6. d.kind = c.kind
  BY <1>3 DEF Published, Agreeing
<1> QED
  BY <1>1, <1>2, <1>5, <1>6 DEF Captured, Downloadable

\* A browser download asks for the best format, which every candidate has.
LEMMA TheBestIsThere ==
    ASSUME CInv, NEW e \in ToSet(events), e.request.type = "download",
           conn[e.conn].msg.type = "browser"
    PROVE  Choosable(e.candidate, e.request.format)
<1>1. Forwarded(e)
  BY DEF CInv, OnTheirWay
<1>2. e.request = Request(e.conn)
  BY <1>1 DEF Forwarded, Asked
<1>3. e.request.format = 0
  BY <1>2 DEF Request
<1>4. Known(e.candidate, minted)
  BY <1>1 DEF Forwarded
<1>5. PICK r \in AllReports : r.variants = e.candidate.variants
  BY <1>4 DEF Known
<1>6. Len(e.candidate.variants) \in Nat
  BY <1>5, CaptureAssumption, LenProperties
<1> QED
  BY <1>3, <1>6 DEF Choosable

\* The refusal of a download is one of its three.
LEMMA RefusalsOfADownload ==
    ASSUME CInv, HandleDownload, NEW e, e = Head(events), e.conn \in Connections,
           reply'[e.conn].type = "unavailable", Choosable(e.candidate, e.request.format)
    PROVE  ~Captured(e.candidate.id) \/ reply'[e.conn] = Declined
<1>1. DOMAIN reply = Connections
  BY DEF CInv, Conversations
<1>2. PICK job, queued, created :
        /\ job = Min(AlreadyActive(ChosenUrl(e.candidate, e.request.format)))
        /\ queued = [type |-> "queued", job |-> job]
        /\ created = [type |-> "queued", job |-> Len(jobs) + 1]
  OBVIOUS
<1>3. queued.type = "queued" /\ created.type = "queued"
  BY <1>2
<1>4. \/ Answer(e.conn, queued) \/ Answer(e.conn, created) \/ Answer(e.conn, Declined)
      \/ ~Captured(e.candidate.id)
  BY <1>2 DEF HandleDownload
<1> QED
  BY <1>1, <1>3, <1>4 DEF Answer

\* A browser download whose report was recorded is refused only if the capture
\* went meanwhile, cannot be downloaded, or the daemon lacks a folder or cannot
\* save the record, whatever is reported or dismissed between the report and
\* the request (server.rs:265-268, 609-628; lib.rs:839-882).
THEOREM RecordedCaptureIsFound == Spec => BrowserDownloadFindsItsCapture
<1>1. Init => Published
  BY EmptySeq DEF Init, Published, Agreeing, Carried, ToSet, Listed
<1>2. ASSUME CInv, Published, [Next]_vars, NEW c \in Connections,
             Event("download"), Head(events).conn = c, conn[c].msg.type = "browser",
             reply'[c] # reply[c], reply'[c].type = "unavailable",
             Listed(catalog, Head(events).candidate.id), Downloadable(Head(events).candidate)
      PROVE  reply'[c] = Declined
  <2>1. HandleDownload
    BY <1>2, NobodyElseAnswers
  <2>2. PICK e : e = Head(events)
    OBVIOUS
  <2>3. e \in ToSet(events) /\ e.request.type = "download" /\ e.conn = c
    BY <1>2, <2>2, TailQueue DEF CInv, OnTheirWay, Event
  <2>4. Choosable(e.candidate, e.request.format)
    BY <1>2, <2>3, TheBestIsThere
  <2>5. e.candidate \in Carried
    BY <2>3 DEF Carried
  <2>6. Captured(e.candidate.id)
    BY <1>2, <2>2, <2>5, WhatIsCarriedIsFound
  <2> QED
    BY <1>2, <2>1, <2>2, <2>3, <2>4, <2>6, RefusalsOfADownload
<1>3. CInv /\ Published /\ [Next]_vars =>
        [\A c \in Connections :
           /\ Event("download") /\ Head(events).conn = c
           /\ conn[c].msg.type = "browser"
           /\ reply'[c] # reply[c] /\ reply'[c].type = "unavailable"
           => \/ ~Listed(catalog, Head(events).candidate.id)
              \/ ~Downloadable(Head(events).candidate)
              \/ reply'[c] = Declined]_vars
  BY <1>2
<1> QED
  BY <1>1, <1>3, CaptureInit, CaptureNext, PublishedNext, PTL
  DEF Spec, BrowserDownloadFindsItsCapture
=============================================================================
