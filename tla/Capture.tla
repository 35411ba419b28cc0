------------------------------ MODULE Capture ------------------------------
(***************************************************************************)
(* The browser capture channel: the connections of the extension, the      *)
(* listener task that owns the catalog, and the capture part of the        *)
(* daemon's loop (crates/gunda-capture/src/server.rs and candidate.rs,     *)
(* apps/gundad/src/lib.rs).                                                *)
(*                                                                         *)
(* Three kinds of task share nothing but channels.  A connection reads one *)
(* message, waits for the answer to the questions it raises, writes one    *)
(* answer and reads the next one.  The listener records reports, publishes *)
(* the catalog and forwards requests.  The daemon answers the requests     *)
(* between its own commands, and reads the catalog from the published view.*)
(***************************************************************************)
EXTENDS Naturals, Sequences, FiniteSets, SequencesExt

CONSTANTS
    Connections,     \* client connections the model lets happen at once
    Reports,         \* resources the extension may report by itself
    Documents,       \* source documents, as the reports extracted from each
    Pages,           \* pages, up to same_page
    Streams,         \* the URLs whose path ends in .m3u8 or .mpd
    Masters,         \* the URLs that name a master playlist
    Capacity,        \* candidates the catalog keeps (256)
    MaxConnections,  \* connections the listener serves at once (8)
    QueueLimit,      \* room in the submission, request and command channels
    MaxInputs,       \* bound: messages and departures of clients, desktop commands
    Nobody           \* no connection, no message

AllReports == Reports \cup UNION {ToSet(d) : d \in Documents}

\* A document in which nothing is found is a failed extraction, not a report.
ASSUME CaptureAssumption ==
    /\ {Capacity, MaxConnections, QueueLimit} \subseteq Nat \ {0}
    /\ MaxInputs \in Nat
    /\ \A d \in Documents : d # <<>> /\ d \in Seq(ToSet(d))
    /\ \A r \in AllReports : r.variants \in Seq(ToSet(r.variants))

VARIABLES
    catalog,      \* the listener's candidates, newest first
    minted,       \* what each identifier was given to; its length is next_id
    publishing,   \* the listener has yet to publish what it just recorded
    view,         \* the catalog as published to the daemon
    submissions,  \* reports on their way to the listener
    requests,     \* formats, download and status requests to the listener
    commands,     \* Clear and Remove on their way to the listener
    events,       \* requests the listener forwarded to the daemon
    conn,         \* the connections
    reply,        \* the one-shot channel each connection waits on
    daemon,       \* what the daemon's loop is in the middle of
    tracks,       \* capture_tracks: the capture whose qualities are shown
    sequence,     \* inspection_sequence
    inspections,  \* inspections that still read a manifest
    inspected,    \* WorkerEvent::Inspected on their way to the daemon
    wanted,       \* observer: the capture the user last asked to inspect
    jobs,         \* the downloads the manager knows
    inputs        \* bound: messages, departures and commands so far

listener == <<catalog, minted, publishing, view>>
desk     == <<tracks, sequence, inspections, inspected, wanted>>
vars     == <<listener, submissions, requests, commands, events, conn, reply,
              daemon, desk, jobs, inputs>>

\* Counts one message, departure or desktop command against the bound.
Input == inputs < MaxInputs /\ inputs' = inputs + 1

-----------------------------------------------------------------------------
(* The catalog. *)

Ids == 1 .. Len(minted)

CandidateIn(list, id) == CHOOSE c \in ToSet(list) : c.id = id
Listed(list, id)      == \E c \in ToSet(list) : c.id = id
Urls(list)            == {c.url : c \in ToSet(list)}

\* Report::new refuses a piece of a segmented stream.
Refused(report) == report.kind = "segment"

\* Catalog::record for a URL it knows: the report may only add to it.
Merge(c, report) ==
    IF c.url = report.url /\ report.variants # <<>>
    THEN [c EXCEPT !.variants = report.variants] ELSE c

NewCandidate(report) ==
    [id |-> Len(minted) + 1, url |-> report.url, page |-> report.page,
     kind |-> report.kind, variants |-> report.variants]

\* The list is bounded, and the oldest entries go.
Truncate(list) == SubSeq(list, 1, IF Len(list) > Capacity THEN Capacity ELSE Len(list))

\* Catalog::record: [catalog, minted, id, duplicate] after one report.
Recorded(report) ==
    IF report.url \in Urls(catalog)
    THEN [catalog   |-> [i \in DOMAIN catalog |-> Merge(catalog[i], report)],
          minted    |-> minted,
          id        |-> (CHOOSE c \in ToSet(catalog) : c.url = report.url).id,
          duplicate |-> TRUE]
    ELSE [catalog   |-> Truncate(<<NewCandidate(report)>> \o catalog),
          minted    |-> Append(minted, [url |-> report.url, page |-> report.page]),
          id        |-> Len(minted) + 1,
          duplicate |-> FALSE]

\* page_candidate_score, compared as the tuple it is.
Rank(c)  == IF c.url \in Masters THEN 4 ELSE IF c.kind = "hls" THEN 3 ELSE 1
Score(c) == <<IF Len(c.variants) > 1 THEN 1 ELSE 0, Rank(c), c.id>>
Below(s, t) ==
    \/ s[1] < t[1]
    \/ s[1] = t[1] /\ s[2] < t[2]
    \/ s[1] = t[1] /\ s[2] = t[2] /\ s[3] < t[3]

OnPage(page) == {c \in ToSet(catalog) : c.page = page}

\* Mutant: the capture a download names does not matter.
Meant_Best(request) ==
    {c \in OnPage(request.page) :
       \A d \in OnPage(request.page) : d = c \/ Below(Score(d), Score(c))}

\* The candidates a request is about: at most one.
Meant(request) ==
    IF request.type = "download" /\ request.capture # 0
    THEN {c \in ToSet(catalog) : c.id = request.capture}
    ELSE {c \in OnPage(request.page) :
            \A d \in OnPage(request.page) : d = c \/ Below(Score(d), Score(c))}

\* Catalog::remove: an identifier is given once, so one candidate has it.
Without(list, id) ==
    IF Listed(list, id) THEN RemoveAt(list, CHOOSE i \in DOMAIN list : list[i].id = id) ELSE list

-----------------------------------------------------------------------------
(* Connections: converse. *)

Idle == [phase |-> "closed", gone |-> FALSE, msg |-> Nobody, todo |-> <<>>,
         ids |-> <<>>, offer |-> Nobody]

Open == {c \in Connections : conn[c].phase # "closed"}
Busy == {c \in Connections : conn[c].phase \in {"submit", "submitted", "ask", "asked"}}

\* The listener accepts while it has a permit left.  A connection whose
\* handshake or greeting is wrong or late ends before it can ask anything.
Accept(c) ==
    /\ ~publishing
    /\ conn[c].phase = "closed"
    /\ Cardinality(Open) < MaxConnections
    /\ conn' = [conn EXCEPT ![c].phase = "greeting"]
    /\ UNCHANGED <<listener, submissions, requests, commands, events, reply,
                   daemon, desk, jobs, inputs>>

\* The greeting: Ready, or the end of the connection for a wrong path, origin,
\* token or first message, a newer version, or no greeting in time.
Greet(c, good) ==
    /\ conn[c].phase = "greeting"
    /\ conn' = [conn EXCEPT ![c].phase = IF good THEN "ready" ELSE "closed"]
    /\ UNCHANGED <<listener, submissions, requests, commands, events, reply,
                   daemon, desk, jobs, inputs>>

\* The client goes away.  A busy connection notices when it answers.
Leave(c) ==
    /\ conn[c].phase \notin {"closed", "greeting"}
    /\ ~conn[c].gone
    /\ Input
    /\ conn' = [conn EXCEPT ![c] = IF conn[c].phase = "ready" THEN Idle
                                  ELSE [@ EXCEPT !.gone = TRUE]]
    /\ UNCHANGED <<listener, submissions, requests, commands, events, reply,
                   daemon, desk, jobs>>

\* A connection that has its answer: ready for the next message, or at its end
\* if nobody reads the answer.
After(k, answer) ==
    IF k.gone THEN Idle
    ELSE [k EXCEPT !.phase = "ready", !.msg = Nobody, !.todo = <<>>, !.ids = <<>>,
                   !.offer = IF answer.type = "formats" THEN answer ELSE @]

Respond(c, answer) == conn' = [conn EXCEPT ![c] = After(conn[c], answer)]

\* What a client may send.  It names a capture and picks a format from the
\* last listing it was given.
Messages(c) ==
    [type : {"candidate", "browser"}, reports : {<<r>> : r \in Reports}]
    \cup [type : {"source"}, reports : Documents]
    \cup [type : {"download"}, page : Pages, capture : {0}, format : {0}]
    \cup [type : {"list"}, page : Pages]
    \cup [type : {"status"}, job : {1}]
    \cup {[type |-> "malformed"]}
    \cup IF conn[c].offer = Nobody THEN {}
         ELSE [type : {"download"}, page : Pages, capture : {conn[c].offer.capture},
               format : 0 .. Len(conn[c].offer.variants)]

\* A source document whose extraction fails, and a report that is refused,
\* are answered without a question to the listener.
Receive(c, msg) ==
    /\ conn[c].phase = "ready"
    /\ ~conn[c].gone
    /\ Input
    /\ LET refuse == \/ msg.type = "malformed"
                     \/ /\ msg.type \in {"candidate", "browser", "source"}
                        /\ \E r \in ToSet(msg.reports) : Refused(r)
       IN conn' = [conn EXCEPT ![c] =
            CASE refuse -> @
              [] ~refuse /\ msg.type \in {"candidate", "browser", "source"} ->
                   [@ EXCEPT !.phase = "submit", !.msg = msg, !.todo = msg.reports]
              [] OTHER -> [@ EXCEPT !.phase = "ask", !.msg = msg]]
    /\ UNCHANGED <<listener, submissions, requests, commands, events, reply,
                   daemon, desk, jobs>>

\* submit: wait for room, then for the identifier.
Submit(c) ==
    /\ conn[c].phase = "submit"
    /\ Len(submissions) < QueueLimit
    /\ submissions' = Append(submissions, [conn |-> c, report |-> Head(conn[c].todo)])
    /\ conn' = [conn EXCEPT ![c].phase = "submitted", ![c].todo = Tail(@)]
    /\ UNCHANGED <<listener, requests, commands, events, reply, daemon, desk, jobs, inputs>>

\* The next report of a source, the download of a browser download, or the
\* answer that names what was recorded.
AfterSubmit(c) ==
    /\ conn[c].phase = "submitted"
    /\ reply[c] # Nobody
    /\ reply' = [reply EXCEPT ![c] = Nobody]
    /\ LET ids == Append(conn[c].ids, reply[c].id)
       IN IF conn[c].todo # <<>>
          THEN conn' = [conn EXCEPT ![c].phase = "submit", ![c].ids = ids]
          ELSE IF conn[c].msg.type = "browser"
          THEN conn' = [conn EXCEPT ![c].phase = "ask", ![c].ids = ids]
          ELSE Respond(c, [type |-> "recorded", ids |-> ids])
    /\ UNCHANGED <<listener, submissions, requests, commands, events, daemon, desk, jobs, inputs>>

Request(c) ==
    LET msg == conn[c].msg
    IN CASE msg.type = "browser" -> [type |-> "download", page |-> msg.reports[1].page,
                                     capture |-> conn[c].ids[1], format |-> 0]
         [] OTHER -> msg

\* request_download, request_formats and request_status.
Ask(c) ==
    /\ conn[c].phase = "ask"
    /\ Len(requests) < QueueLimit
    /\ requests' = Append(requests, [conn |-> c, request |-> Request(c)])
    /\ conn' = [conn EXCEPT ![c].phase = "asked"]
    /\ UNCHANGED <<listener, submissions, commands, events, reply, daemon, desk, jobs, inputs>>

AfterAsk(c) ==
    /\ conn[c].phase = "asked"
    /\ reply[c] # Nobody
    /\ reply' = [reply EXCEPT ![c] = Nobody]
    /\ Respond(c, reply[c])
    /\ UNCHANGED <<listener, submissions, requests, commands, events, daemon, desk, jobs, inputs>>

-----------------------------------------------------------------------------
(* The listener: CaptureServer::run. *)

\* Mutant: a report is recorded and answered, and not published.
RecordReport_Unpublished ==
    /\ ~publishing
    /\ submissions # <<>>
    /\ LET s == Head(submissions)
           r == Recorded(s.report)
       IN /\ catalog' = r.catalog
          /\ minted' = r.minted
          /\ reply' = [reply EXCEPT ![s.conn] = [type |-> "id", id |-> r.id]]
    /\ submissions' = Tail(submissions)
    /\ UNCHANGED <<publishing, view, requests, commands, events, conn, daemon, desk, jobs, inputs>>

RecordReport ==
    /\ ~publishing
    /\ submissions # <<>>
    /\ LET s == Head(submissions)
           r == Recorded(s.report)
       IN /\ catalog' = r.catalog
          /\ minted' = r.minted
          /\ reply' = [reply EXCEPT ![s.conn] = [type |-> "id", id |-> r.id]]
    /\ submissions' = Tail(submissions)
    /\ publishing' = TRUE
    /\ UNCHANGED <<view, requests, commands, events, conn, daemon, desk, jobs, inputs>>

\* The reply is sent before the catalog is published.
Publish ==
    /\ publishing
    /\ publishing' = FALSE
    /\ view' = catalog
    /\ UNCHANGED <<catalog, minted, submissions, requests, commands, events, conn,
                   reply, daemon, desk, jobs, inputs>>

\* Mutant: nobody answers a request about a page without a capture.
ForwardRequest_Silent ==
    /\ ~publishing
    /\ requests # <<>>
    /\ requests' = Tail(requests)
    /\ LET q == Head(requests)
       IN events' = IF q.request.type = "status"
                    THEN Append(events, [conn |-> q.conn, request |-> q.request])
                    ELSE events \o SetToSeq({[conn |-> q.conn, request |-> q.request, candidate |-> c] :
                                               c \in Meant(q.request)})
    /\ UNCHANGED <<listener, submissions, commands, conn, reply, daemon, desk, jobs, inputs>>

ForwardRequest ==
    /\ ~publishing
    /\ requests # <<>>
    /\ requests' = Tail(requests)
    /\ LET q == Head(requests)
       IN IF q.request.type = "status"
          THEN /\ events' = Append(events, [conn |-> q.conn, request |-> q.request])
               /\ UNCHANGED reply
          ELSE IF Meant(q.request) = {}
          THEN /\ reply' = [reply EXCEPT ![q.conn] = [type |-> "unavailable"]]
               /\ UNCHANGED events
          ELSE /\ events' = Append(events, [conn |-> q.conn, request |-> q.request,
                                            candidate |-> CHOOSE c \in Meant(q.request) : TRUE])
               /\ UNCHANGED reply
    /\ UNCHANGED <<listener, submissions, commands, conn, daemon, desk, jobs, inputs>>

\* Clear and Remove change the catalog and publish it.
ApplyCommand ==
    /\ ~publishing
    /\ commands # <<>>
    /\ LET kept == IF Head(commands) = 0 THEN <<>> ELSE Without(catalog, Head(commands))
       IN catalog' = kept /\ view' = kept
    /\ commands' = Tail(commands)
    /\ UNCHANGED <<minted, publishing, submissions, requests, events, conn, reply,
                   daemon, desk, jobs, inputs>>

-----------------------------------------------------------------------------
(* The daemon's loop. *)

Waiting == daemon.phase = "select"

\* capture_engine: a stream needs a URL that says so.
Downloadable(c) == c.kind = "file" \/ c.url \in Streams

\* Daemon::captured reads the published view, not the event's candidate.
Captured(id) == Listed(view, id) /\ Downloadable(CandidateIn(view, id))

\* capture_choice: the URL a format of a candidate stands for.  0 is the best
\* format and every selection, whose URL is the candidate's own.
Choosable(c, format) == format \in 0 .. Len(c.variants)
ChosenUrl(c, format) == IF format = 0 THEN c.url ELSE c.variants[format]

Supersede ==
    /\ tracks' = 0
    /\ sequence' = sequence + 1
    /\ wanted' = 0
    /\ UNCHANGED <<inspections, inspected>>

\* download_capture once the request is valid: create the job and close the
\* quality picker.
NewJob(url) ==
    /\ jobs' = Append(jobs, [url |-> url, active |-> TRUE])
    /\ Supersede

AlreadyActive(url) ==
    {j \in DOMAIN jobs : jobs[j].url = url /\ jobs[j].active}

Answer(c, answer) ==
    /\ reply' = [reply EXCEPT ![c] = answer]
    /\ events' = Tail(events)

Event(type) == Waiting /\ events # <<>> /\ Head(events).request.type = type

\* A download that no capture is to blame for: there is no folder, its path
\* cannot be represented, or the record could not be saved.  The browser reads
\* the same refusal; the daemon's notice says which one it was.
Declined == [type |-> "unavailable", cause |-> "folder or record"]

HandleDownload ==
    /\ Event("download")
    /\ LET e   == Head(events)
           c   == e.candidate
           f   == e.request.format
           url == ChosenUrl(c, f)
       IN \/ IF Choosable(c, f) /\ AlreadyActive(url) # {}
             THEN /\ Answer(e.conn, [type |-> "queued", job |-> Min(AlreadyActive(url))])
                  /\ UNCHANGED <<jobs, desk>>
             ELSE IF Choosable(c, f) /\ Captured(c.id)
             THEN /\ NewJob(url)
                  /\ Answer(e.conn, [type |-> "queued", job |-> Len(jobs) + 1])
             ELSE /\ Answer(e.conn, [type |-> "unavailable"])
                  /\ UNCHANGED <<jobs, desk>>
          \/ Answer(e.conn, Declined) /\ UNCHANGED <<jobs, desk>>
    /\ UNCHANGED <<listener, submissions, requests, commands, conn, daemon, inputs>>

HandleStatus ==
    /\ Event("status")
    /\ LET e == Head(events)
       IN Answer(e.conn, IF e.request.job \in DOMAIN jobs
                         THEN [type |-> "status", job |-> e.request.job]
                         ELSE [type |-> "unavailable"])
    /\ UNCHANGED <<listener, submissions, requests, commands, conn, daemon, desk, jobs, inputs>>

\* formats_for_candidate answers at once for a file, and reads the manifest
\* inside the loop for a stream: the daemon does nothing else meanwhile.
HandleFormats ==
    /\ Event("list")
    /\ LET e == Head(events)
       IN IF e.candidate.kind = "hls"
          THEN /\ daemon' = [phase |-> "formats", event |-> e]
               /\ events' = Tail(events)
               /\ UNCHANGED reply
          ELSE /\ Answer(e.conn, [type |-> "formats", capture |-> e.candidate.id,
                                  variants |-> e.candidate.variants])
               /\ UNCHANGED daemon
    /\ UNCHANGED <<listener, submissions, requests, commands, conn, desk, jobs, inputs>>

ManifestRead(ok) ==
    /\ daemon.phase = "formats"
    /\ daemon' = [phase |-> "select"]
    /\ reply' = [reply EXCEPT ![daemon.event.conn] =
                   IF ok THEN [type |-> "formats", capture |-> daemon.event.candidate.id,
                               variants |-> <<>>]
                   ELSE [type |-> "unavailable"]]
    /\ UNCHANGED <<listener, submissions, requests, commands, events, conn, desk, jobs, inputs>>

Command == Waiting /\ Input

\* InspectCapture: the variants at once, or a task that reads the manifest.
InspectCapture(id) ==
    /\ Command
    /\ Captured(id)
    /\ sequence' = sequence + 1
    /\ wanted' = id
    /\ IF CandidateIn(view, id).variants # <<>>
       THEN tracks' = id /\ UNCHANGED inspections
       ELSE /\ tracks' = 0
            /\ inspections' = inspections \cup {[sequence |-> sequence + 1, id |-> id]}
    /\ UNCHANGED <<listener, submissions, requests, commands, events, conn, reply,
                   daemon, inspected, jobs>>

InspectionDone(i) ==
    /\ i \in inspections
    /\ inspections' = inspections \ {i}
    /\ inspected' = Append(inspected, i)
    /\ UNCHANGED <<listener, submissions, requests, commands, events, conn, reply,
                   daemon, tracks, sequence, wanted, jobs, inputs>>

\* Mutant: an answer is shown whatever was asked since.
HandleInspected_Late ==
    /\ Waiting
    /\ inspected # <<>>
    /\ inspected' = Tail(inspected)
    /\ tracks' = IF Listed(view, Head(inspected).id) THEN Head(inspected).id ELSE tracks
    /\ UNCHANGED <<listener, submissions, requests, commands, events, conn, reply,
                   daemon, sequence, inspections, wanted, jobs, inputs>>

\* The answer of an inspection nobody waits for any more is dropped.
HandleInspected ==
    /\ Waiting
    /\ inspected # <<>>
    /\ inspected' = Tail(inspected)
    /\ LET i == Head(inspected)
       IN tracks' = IF i.sequence = sequence /\ Listed(view, i.id) THEN i.id ELSE tracks
    /\ UNCHANGED <<listener, submissions, requests, commands, events, conn, reply,
                   daemon, sequence, inspections, wanted, jobs, inputs>>

\* DownloadCapture from the desktop: no look at what is already active.
DownloadCapture(id) ==
    /\ Command
    /\ Captured(id)
    /\ NewJob(CandidateIn(view, id).url)
    /\ UNCHANGED <<listener, submissions, requests, commands, events, conn, reply, daemon>>

\* DismissCapture(id) and ClearCaptures (0) wait for room in the command
\* channel inside the loop.
Dismiss(id) ==
    /\ Command
    /\ daemon' = [phase |-> "send", id |-> id]
    /\ UNCHANGED <<listener, submissions, requests, commands, events, conn, reply,
                   desk, jobs>>

Dismissed ==
    /\ daemon.phase = "send"
    /\ Len(commands) < QueueLimit
    /\ commands' = Append(commands, daemon.id)
    /\ daemon' = [phase |-> "select"]
    /\ sequence' = sequence + 1
    /\ tracks' = IF daemon.id \in {0, tracks} THEN 0 ELSE tracks
    /\ wanted' = IF daemon.id \in {0, wanted} THEN 0 ELSE wanted
    /\ UNCHANGED <<listener, submissions, requests, events, conn, reply,
                   inspections, inspected, jobs, inputs>>

\* The manager moves a download into and out of the states Queued and
\* Downloading; the daemon's loop only reads which it is in.
JobStep(j) ==
    /\ jobs' = [jobs EXCEPT ![j].active = ~@]
    /\ UNCHANGED <<listener, submissions, requests, commands, events, conn, reply,
                   daemon, desk, inputs>>

-----------------------------------------------------------------------------
Init ==
    /\ catalog = <<>> /\ minted = <<>> /\ publishing = FALSE /\ view = <<>>
    /\ submissions = <<>> /\ requests = <<>> /\ commands = <<>> /\ events = <<>>
    /\ conn = [c \in Connections |-> Idle]
    /\ reply = [c \in Connections |-> Nobody]
    /\ daemon = [phase |-> "select"]
    /\ tracks = 0 /\ sequence = 0 /\ wanted = 0
    /\ inspections = {} /\ inspected = <<>>
    /\ jobs = <<>>
    /\ inputs = 0

Client ==
    \E c \in Connections :
        \/ Accept(c)
        \/ \E good \in BOOLEAN : Greet(c, good)
        \/ Leave(c)
        \/ \E msg \in Messages(c) : Receive(c, msg)

Converse(c) == Submit(c) \/ AfterSubmit(c) \/ Ask(c) \/ AfterAsk(c)

Listener == RecordReport \/ Publish \/ ForwardRequest \/ ApplyCommand

HandleEvent == HandleDownload \/ HandleStatus \/ HandleFormats

DaemonAwait == Dismissed \/ \E ok \in BOOLEAN : ManifestRead(ok)

Desktop ==
    \/ \E id \in Ids : InspectCapture(id) \/ DownloadCapture(id)
    \/ \E id \in Ids \cup {0} : Dismiss(id)

Next ==
    \/ Client
    \/ \E c \in Connections : Converse(c)
    \/ Listener
    \/ HandleEvent \/ HandleInspected \/ DaemonAwait \/ Desktop
    \/ \E i \in inspections : InspectionDone(i)
    \/ \E j \in DOMAIN jobs : JobStep(j)

Spec == Init /\ [][Next]_vars

\* Every task runs.  Which ready branch a select! takes is left open: with
\* finitely many messages and commands every branch gets its turn.  Reading a
\* manifest inside the loop ends because the client's requests have a deadline.
Fairness ==
    /\ \A c \in Connections : WF_vars(Converse(c))
    /\ WF_vars(Listener)
    /\ WF_vars(HandleEvent \/ DaemonAwait)

FairSpec == Spec /\ Fairness

-----------------------------------------------------------------------------
(* Properties. *)

CandidateType == [id : Nat \ {0}, url : {r.url : r \in AllReports}, page : Pages,
                  kind : {"file", "hls"}, variants : {r.variants : r \in AllReports}]

TypeOK ==
    /\ ToSet(catalog) \cup ToSet(view) \subseteq CandidateType
    /\ Len(catalog) <= Capacity
    /\ publishing \in BOOLEAN
    /\ Len(submissions) <= QueueLimit /\ Len(requests) <= QueueLimit
    /\ Len(commands) <= QueueLimit
    /\ Len(events) <= Cardinality(Connections)
    /\ Cardinality(Open) <= MaxConnections
    /\ tracks \in Ids \cup {0} /\ wanted \in Ids \cup {0}

Owner(id) == minted[id]

\* Whether a reply that arrived is one to the message the connection reads.
Answers(c, a) ==
    LET msg == conn[c].msg
    IN CASE a.type = "unavailable" -> msg.type # "candidate"
      [] a.type = "id" -> Owner(a.id).url = msg.reports[Len(conn[c].ids) + 1].url
      [] a.type = "formats" -> msg.type = "list" /\ Owner(a.capture).page = msg.page
      [] a.type = "status" -> msg.type = "status" /\ a.job = msg.job
      [] a.type = "queued" ->
            LET request == Request(c)
                about == IF request.capture # 0 THEN {request.capture}
                         ELSE {i \in Ids : Owner(i).page = request.page}
            IN \E i \in about, r \in AllReports :
                  /\ r.url = Owner(i).url
                  /\ jobs[a.job].url \in {r.url} \cup ToSet(r.variants)

\* Every reply is to the question its connection asked: the identifier is of
\* the report it made, the formats are of a capture on the page it asked about,
\* the download is of the capture it named.  (The one-shot replies travel
\* through the listener and the daemon, server.rs:553-718, lib.rs:823-916.)
AnswersTheQuestion ==
    \A c \in Connections : reply[c] # Nobody => Answers(c, reply[c])

\* The picker shows the qualities of the capture the user last asked to
\* inspect, and of none he dismissed or replaced since, however late an
\* inspection answers (inspection_sequence, lib.rs:573-585, 465-489).
TracksAreWanted == tracks # 0 => tracks = wanted

\* A browser download whose report was recorded is refused only when the
\* candidate went meanwhile, cannot be downloaded, or the daemon lacks a folder
\* or cannot save the record: the publication comes before the request
\* (server.rs:265-268, 609-628; lib.rs:839-882).
BrowserDownloadFindsItsCapture ==
    [][\A c \in Connections :
         /\ Event("download") /\ Head(events).conn = c
         /\ conn[c].msg.type = "browser"
         /\ reply'[c] # reply[c] /\ reply'[c].type = "unavailable"
         => \/ ~Listed(catalog, Head(events).candidate.id)
            \/ ~Downloadable(Head(events).candidate)
            \/ reply'[c] = Declined]_vars

\* The format a client picked from a listing of a capture is the one that is
\* downloaded (server.rs:286-288: "a newer capture on the same page cannot
\* replace the user's choice").
ListedChoiceKept ==
    \A c \in Connections :
        /\ conn[c].phase = "asked" /\ conn[c].msg.type = "download"
        /\ conn[c].msg.capture # 0 /\ conn[c].msg.format # 0
        /\ reply[c] # Nobody /\ reply[c].type = "queued"
        => jobs[reply[c].job].url = conn[c].offer.variants[conn[c].msg.format]

\* Whatever the other connections, the desktop and the manifests do, a client
\* that waits gets its answer: the daemon waiting for room in the command
\* channel and the listener waiting for nothing cannot wait for each other
\* (server.rs:235-364, lib.rs:465-489).
Answered == \A c \in Connections : c \in Busy ~> c \notin Busy
=============================================================================
