------------------------------- MODULE Extension -------------------------------
(***************************************************************************)
(* The browser extension (apps/extension): its background worker keeps one  *)
(* WebSocket to the daemon's capture server, holds the reports it cannot    *)
(* send yet, and takes over the downloads of the browser: the browser's     *)
(* copy is stopped, a window asks, and Start queues the download with the   *)
(* daemon while Cancel, a refusal or a timeout gives it back.               *)
(*                                                                          *)
(* Between two awaits the worker runs alone, so an action is a callback: an *)
(* event of a socket, of the browser, of a timer or of a window, with the   *)
(* microtasks it sets off. The daemon is what Capture describes, reduced to *)
(* its order: it reads a socket's messages one by one and answers each.     *)
(*                                                                          *)
(* Bounds: Sockets are the sockets that exist at once, MaxSettling the      *)
(* connections being prepared at once, MaxHeld is MAX_PENDING, MaxTries    *)
(* the restored copies of one download, MaxRestarts the times the browser   *)
(* ends the worker and MaxCommands the orders of the options page.          *)
(***************************************************************************)
EXTENDS Naturals, FiniteSets, SequencesExt

CONSTANTS Items, Reports, Sockets, NoSocket,
          MaxSettling, MaxHeld, MaxTries, MaxRestarts, MaxCommands

ASSUME ExtensionAssumption ==
    /\ NoSocket \notin Sockets \cup Items \cup Reports
    /\ Items \cap Reports = {}
    /\ MaxSettling \in Nat
    /\ MaxHeld \in Nat \ {0}
    /\ MaxTries \in Nat

VARIABLES
    sock,     \* each socket: its state and the messages in both directions
    chan,     \* connection, greeted, serverFeatures; settings() in flight; reconnectTimer
    held,     \* the reports not sent yet, in the worker and in session storage
    waiting,  \* downloadRequests
    item,     \* each browser download: the browser's copies, its window, its requests
    jobs,     \* the downloads the daemon queued
    past      \* observers: what happened that a property needs to know

vars == <<sock, chan, held, waiting, item, jobs, past>>

(***************************************************************************)
(* The state.                                                               *)
(***************************************************************************)

Message(kind, about) == [kind |-> kind, about |-> about]
Hello == Message("hello", NoSocket)

FreshSocket == [state |-> "free", sent |-> <<>>, got |-> <<>>]
FreshChannel == [connection |-> NoSocket, greeted |-> FALSE, intercepts |-> FALSE, settling |-> 0, timer |-> FALSE]
FreshHeld(stored) ==
    [load |-> "loading", queued |-> <<>>, pending |-> <<>>, stored |-> stored, writes |-> <<>>, seen |-> {}]
FreshItem ==
    [copy |-> "none",      \* the browser's own: none, created, cancelling, running, stopped
     window |-> "none",    \* none, opening, open, progress, closed
     start |-> "idle",     \* idle, connecting, asked, refused
     cancel |-> FALSE,     \* the window's Cancel waits for the browser
     copies |-> 0,         \* downloads the extension started again
     tries |-> 0,          \* ... and those that the browser refused
     fresh |-> 0,          \* copies whose creation the browser has not announced
     marked |-> FALSE,     \* restoredDownloads has the URL
     again |-> FALSE]      \* a restored copy was taken over

TypeOK ==
    /\ \A s \in Sockets : sock[s].state \in {"free", "connecting", "open", "closing"}
    /\ chan.connection \in Sockets \cup {NoSocket}
    /\ chan.settling \in 0..MaxSettling
    /\ held.load \in {"loading", "stale", "done"}
    /\ Len(held.pending) <= MaxHeld
    /\ ToSet(waiting) \subseteq Items
    /\ jobs \subseteq Items

Init ==
    /\ sock = [s \in Sockets |-> FreshSocket]
    /\ chan = FreshChannel
    /\ \E stored \in {<<>>} \cup {<<r>> : r \in Reports} : held = FreshHeld(stored)
    /\ waiting = <<>>
    /\ item = [i \in Items |-> FreshItem]
    /\ jobs = {}
    /\ past = [restarts |-> 0, commands |-> 0, ended |-> FALSE, dropped |-> FALSE, forgotten |-> {}]

(***************************************************************************)
(* The worker's own calls, as functions of what they change.                *)
(***************************************************************************)

Net == [sock |-> sock, chan |-> chan, held |-> held]
Become(net) == sock' = net.sock /\ chan' = net.chan /\ held' = net.held

(* A connection is used when it is open and the daemon has said ready.      *)
Ready(net) ==
    /\ net.chan.connection # NoSocket
    /\ net.sock[net.chan.connection].state = "open"
    /\ net.chan.greeted

Send(net, message) == [net EXCEPT !.sock[net.chan.connection].sent = Append(@, message)]

SendPending(net) ==
    [net EXCEPT !.sock[net.chan.connection].sent =
        @ \o [n \in DOMAIN net.held.pending |-> Message("report", net.held.pending[n])]]

(* connect: nothing while a connection is being made or is open; otherwise  *)
(* settings() is asked for the pairing, and the socket is created after it.  *)
Connect(net) ==
    IF net.chan.connection # NoSocket /\ net.sock[net.chan.connection].state \in {"connecting", "open"}
    THEN net
    ELSE [net EXCEPT !.chan.settling = IF @ = MaxSettling THEN @ ELSE @ + 1]

Disconnect(net) ==
    LET s == net.chan.connection
        closing == IF s # NoSocket /\ net.sock[s].state \in {"connecting", "open"}
                   THEN [net.sock EXCEPT ![s].state = "closing"]
                   ELSE net.sock
    IN  [net EXCEPT !.sock = closing,
                    !.chan = [@ EXCEPT !.connection = NoSocket, !.greeted = FALSE,
                                       !.intercepts = FALSE, !.timer = FALSE]]

(* savePending: the snapshots are written one after the other. A snapshot   *)
(* that repeats the one before it is left out.                               *)
SavePending(net) ==
    LET last == IF net.held.writes = <<>> THEN net.held.stored ELSE Last(net.held.writes)
    IN  IF last = net.held.pending THEN net ELSE [net EXCEPT !.held.writes = Append(@, net.held.pending)]

\* Mutant: a report leaves the queue even if there is no channel to send it on.
Flush_Unready(net) ==
    SavePending([(IF Ready(net) THEN SendPending(net) ELSE net) EXCEPT !.held.pending = <<>>])

Flush(net) == IF Ready(net) THEN SavePending([SendPending(net) EXCEPT !.held.pending = <<>>]) ELSE net

(* A queue that is full gives up its oldest reports.                         *)
Newest(list) == IF Len(list) <= MaxHeld THEN list ELSE SubSeq(list, Len(list) - MaxHeld + 1, Len(list))

(* enqueue: behind the load of the session storage, if that is under way.    *)
Enqueue(net, r) ==
    IF net.held.load = "loading"
    THEN [net EXCEPT !.held.queued = Append(@, r)]
    ELSE Flush(Connect(SavePending([net EXCEPT !.held.pending = Newest(Append(@, r))])))

(* reportCandidate: once, at once where the channel is ready.                *)
ReportCandidate(net, r) ==
    IF r \in net.held.seen
    THEN net
    ELSE LET noted == [net EXCEPT !.held.seen = @ \cup {r}]
         IN  IF Ready(noted) THEN Send(noted, Message("report", r)) ELSE Enqueue(noted, r)

(***************************************************************************)
(* The channel.                                                             *)
(***************************************************************************)

(* The pairing is known: a socket is opened, whatever happened meanwhile.    *)
(* Two calls of connect may both have found no connection; the second socket *)
(* then takes the place of the first, which stays open.                      *)
Settled(s) ==
    /\ chan.settling > 0
    /\ sock[s].state = "free"
    /\ sock' = [sock EXCEPT ![s] = [FreshSocket EXCEPT !.state = "connecting"]]
    /\ chan' = [chan EXCEPT !.settling = @ - 1, !.connection = s, !.greeted = FALSE]
    /\ past' = [past EXCEPT !.dropped = @ \/ waiting # <<>>]
    /\ UNCHANGED <<held, waiting, item, jobs>>

(* There is no pairing.                                                      *)
Unpaired ==
    /\ chan.settling > 0
    /\ chan' = [chan EXCEPT !.settling = @ - 1]
    /\ UNCHANGED <<sock, held, waiting, item, jobs, past>>

Opened(s) ==
    /\ sock[s].state = "connecting"
    /\ sock' = [sock EXCEPT ![s].state = "open", ![s].sent = <<Hello>>]
    /\ UNCHANGED <<chan, held, waiting, item, jobs, past>>

(* The close event of a socket, of the current one or of an earlier one:    *)
(* every request that waits is answered as unavailable, and a connection is *)
(* made again later.                                                        *)
Closed(s) ==
    /\ sock[s].state \in {"connecting", "open", "closing"}
    /\ sock' = [sock EXCEPT ![s] = FreshSocket]
    /\ chan' = [chan EXCEPT !.connection = IF @ = s THEN NoSocket ELSE @,
                            !.greeted = FALSE, !.intercepts = FALSE, !.timer = TRUE]
    /\ item' = [i \in Items |-> IF i \in ToSet(waiting) THEN [item[i] EXCEPT !.start = "refused"] ELSE item[i]]
    /\ past' = [past EXCEPT !.dropped = @ \/ (waiting # <<>> /\ chan.connection \notin {s, NoSocket})]
    /\ waiting' = <<>>
    /\ UNCHANGED <<held, jobs>>

\* Mutant: an answer is for the latest request.
Answered_Latest == Len(waiting)

\* finishDownloadRequest: an answer is for the request that waits longest.
Answered == 1

FinishRequest(answer) ==
    LET first == waiting[Answered]
    IN  IF waiting = <<>>
        THEN UNCHANGED <<waiting, item>>
        ELSE /\ waiting' = RemoveAt(waiting, Answered)
             /\ item' = IF answer.kind = "queued"
                        THEN [item EXCEPT ![first].start = "idle",
                                          ![first].window = IF @ = "open" THEN "progress" ELSE @]
                        ELSE [item EXCEPT ![first].start = "refused"]

Receive(s) ==
    /\ sock[s].state = "open" /\ sock[s].got # <<>>
    /\ LET answer == Head(sock[s].got)
           taken == [sock EXCEPT ![s].got = Tail(@)]
       IN  IF answer.kind = "ready"
           THEN /\ Become(IF held.load = "loading"
                          THEN [Net EXCEPT !.sock = taken, !.chan.greeted = TRUE, !.chan.intercepts = answer.about]
                          ELSE Flush([Net EXCEPT !.sock = taken, !.chan.greeted = TRUE,
                                                 !.chan.intercepts = answer.about]))
                /\ UNCHANGED <<waiting, item>>
           ELSE /\ sock' = taken
                /\ FinishRequest(answer)
                /\ UNCHANGED <<chan, held>>
    /\ UNCHANGED <<jobs, past>>

(* The reconnect timer, and the alarm that keeps the connection.             *)
Reconnect ==
    /\ chan.timer
    /\ Become(Connect([Net EXCEPT !.chan.timer = FALSE]))
    /\ UNCHANGED <<waiting, item, jobs, past>>
Alarm ==
    /\ Become(Connect(Net))
    /\ UNCHANGED <<waiting, item, jobs, past>>

(* The options page asks for a new connection, or for a new pairing, which  *)
(* forgets every report held.                                               *)
ReconnectOrder ==
    /\ past.commands < MaxCommands
    /\ Become(Connect(Disconnect(Net)))
    /\ past' = [past EXCEPT !.commands = @ + 1, !.dropped = @ \/ waiting # <<>>]
    /\ UNCHANGED <<waiting, item, jobs>>

\* Mutant: the load under way is not given up.
ForgetReports_KeepsLoad(net) == SavePending([net EXCEPT !.held.pending = <<>>])

ForgetReports(net) ==
    SavePending([net EXCEPT !.held.pending = <<>>,
                            !.held.load = IF @ = "loading" THEN "stale" ELSE @])

Forget ==
    /\ past.commands < MaxCommands
    /\ Become(Connect(Disconnect(ForgetReports(Net))))
    /\ past' = [past EXCEPT !.commands = @ + 1, !.dropped = @ \/ waiting # <<>>,
                            !.forgotten = (@ \cup ToSet(held.pending)
                                             \cup (IF held.load = "loading" THEN ToSet(held.stored) ELSE {}))
                                            \ ToSet(held.queued)]
    /\ UNCHANGED <<waiting, item, jobs>>

(***************************************************************************)
(* Reports.                                                                 *)
(***************************************************************************)

Report(r) ==
    /\ r \notin held.seen
    /\ Become(ReportCandidate(Net, r))
    /\ past' = [past EXCEPT !.forgotten = @ \ {r}]
    /\ UNCHANGED <<waiting, item, jobs>>

(* The session storage has been read: what it held comes first, then what   *)
(* was reported meanwhile. A load that Forget gave up adds only the latter.  *)
Loaded ==
    /\ held.load \in {"loading", "stale"}
    /\ LET stored == IF held.load = "loading" THEN held.stored ELSE held.pending
           read == [Net EXCEPT !.held.load = "done", !.held.queued = <<>>,
                               !.held.pending = Newest(stored \o held.queued)]
           saved == IF held.queued = <<>> THEN read ELSE SavePending(read)
       IN  Become(Flush(IF read.held.pending = <<>> THEN saved ELSE Connect(saved)))
    /\ UNCHANGED <<waiting, item, jobs, past>>

Written ==
    /\ held.writes # <<>>
    /\ held' = [held EXCEPT !.stored = Head(held.writes), !.writes = Tail(@)]
    /\ UNCHANGED <<sock, chan, waiting, item, jobs, past>>

(***************************************************************************)
(* The daemon.                                                              *)
(***************************************************************************)

Serve(s) ==
    /\ sock[s].state \in {"open", "closing"} /\ sock[s].sent # <<>>
    /\ LET message == Head(sock[s].sent)
           Answer(kind, about) ==
               sock' = [sock EXCEPT ![s].sent = Tail(@),
                                    ![s].got = IF sock[s].state = "open" THEN Append(@, Message(kind, about)) ELSE @]
       IN  \/ /\ message.kind = "hello"
              /\ \E intercepts \in BOOLEAN : Answer("ready", intercepts)
              /\ UNCHANGED jobs
           \/ /\ message.kind = "report"
              /\ sock' = [sock EXCEPT ![s].sent = Tail(@)]
              /\ UNCHANGED jobs
           \/ /\ message.kind = "download"
              /\ Answer("queued", message.about)
              /\ jobs' = jobs \cup {message.about}
           \/ /\ message.kind = "download"
              /\ Answer("unavailable", message.about)
              /\ UNCHANGED jobs
    /\ UNCHANGED <<chan, held, waiting, item, past>>

(***************************************************************************)
(* The downloads of the browser.                                            *)
(***************************************************************************)

CanIntercept == Ready(Net) /\ chan.intercepts

(* restoreBrowserDownload: the mark precedes the browser's answer, and goes  *)
(* where the browser refuses.                                                *)
Restored(i, ok) ==
    IF ok
    THEN [item[i] EXCEPT !.tries = @ + 1, !.copies = @ + 1, !.fresh = @ + 1, !.marked = TRUE]
    ELSE [item[i] EXCEPT !.tries = @ + 1, !.marked = FALSE]

(* The user clicks a download.                                               *)
Click(i) ==
    /\ item[i].copy = "none"
    /\ item' = [item EXCEPT ![i].copy = "created"]
    /\ UNCHANGED <<sock, chan, held, waiting, jobs, past>>

(* The browser announces it: it is taken over where the daemon can take it,  *)
(* and only reported otherwise.                                              *)
Created(i) ==
    /\ item[i].copy = "created"
    /\ \/ /\ CanIntercept
          /\ item' = [item EXCEPT ![i].copy = "cancelling"]
          /\ UNCHANGED <<sock, chan, held>>
       \/ /\ ~CanIntercept
          /\ item' = [item EXCEPT ![i].copy = "running"]
          /\ Become(ReportCandidate(Net, i))
    /\ UNCHANGED <<waiting, jobs, past>>

\* Mutant: a copy that can be taken over is, whoever started it.
IsRestored_Later(i) == item[i].marked /\ ~CanIntercept

IsRestored(i) == item[i].marked

(* The browser announces a copy that the extension started again. (Should it *)
(* be taken over, its second window is not followed.)                        *)
CopyCreated(i) ==
    /\ item[i].fresh > 0
    /\ \/ /\ IsRestored(i)
          /\ item' = [item EXCEPT ![i].fresh = @ - 1, ![i].marked = FALSE]
          /\ UNCHANGED <<sock, chan, held>>
       \/ /\ ~IsRestored(i) /\ CanIntercept
          /\ item' = [item EXCEPT ![i].fresh = @ - 1, ![i].again = TRUE]
          /\ UNCHANGED <<sock, chan, held>>
       \/ /\ ~IsRestored(i) /\ ~CanIntercept
          /\ item' = [item EXCEPT ![i].fresh = @ - 1]
          /\ Become(ReportCandidate(Net, i))
    /\ UNCHANGED <<waiting, jobs, past>>

(* The browser's copy is cancelled, or removed if it was complete; where     *)
(* neither can be done the browser keeps it.                                 *)
Stopped(i) ==
    /\ item[i].copy = "cancelling"
    /\ \/ /\ item' = [item EXCEPT ![i].copy = "stopped", ![i].window = "opening"]
          /\ UNCHANGED <<sock, chan, held>>
       \/ /\ item' = [item EXCEPT ![i].copy = "running"]
          /\ Become(ReportCandidate(Net, i))
    /\ UNCHANGED <<waiting, jobs, past>>

(* The window opens; where it cannot, the browser gets its download back.    *)
WindowOpened(i) ==
    /\ item[i].window = "opening"
    /\ item' = [item EXCEPT ![i].window = "open"]
    /\ UNCHANGED <<sock, chan, held, waiting, jobs, past>>
WindowFailed(i) ==
    /\ item[i].window = "opening"
    /\ \E ok \in BOOLEAN :
         item' = [item EXCEPT ![i] = [Restored(i, ok) EXCEPT !.window = IF ok THEN "closed" ELSE "failed"]]
    /\ Become(ReportCandidate(Net, i))
    /\ UNCHANGED <<waiting, jobs, past>>

(* Start: a connection is waited for, then the request is sent.              *)
Start(i) ==
    /\ item[i].window = "open" /\ item[i].start = "idle" /\ ~item[i].cancel
    /\ item[i].tries < MaxTries
    /\ item' = [item EXCEPT ![i].start = "connecting"]
    /\ Become(Connect(Net))
    /\ UNCHANGED <<waiting, jobs, past>>
Ask(i) ==
    /\ item[i].start = "connecting" /\ Ready(Net)
    /\ item' = [item EXCEPT ![i].start = "asked"]
    /\ waiting' = Append(waiting, i)
    /\ Become(Send(Net, Message("download", i)))
    /\ UNCHANGED <<jobs, past>>
NoConnection(i) ==
    /\ item[i].start = "connecting" /\ ~Ready(Net)
    /\ item' = [item EXCEPT ![i].start = "refused"]
    /\ UNCHANGED <<sock, chan, held, waiting, jobs, past>>

(* The request's own timer: it stops waiting, and is answered as a timeout.  *)
TimeOut(i) ==
    /\ \E n \in DOMAIN waiting : waiting[n] = i /\ waiting' = RemoveAt(waiting, n)
    /\ item' = [item EXCEPT ![i].start = "refused"]
    /\ past' = [past EXCEPT !.dropped = TRUE]
    /\ UNCHANGED <<sock, chan, held, jobs>>

(* The request failed: the browser gets its download back, and the window    *)
(* says so; its Start and its Cancel can be pressed again.                   *)
GiveBack(i) ==
    /\ item[i].start = "refused"
    /\ \E ok \in BOOLEAN :
         item' = [item EXCEPT ![i] = [Restored(i, ok) EXCEPT !.start = "idle",
                                        !.window = IF @ = "left" /\ ~ok THEN "failed" ELSE @]]
    /\ UNCHANGED <<sock, chan, held, waiting, jobs, past>>

(* Cancel, also while Start is under way: the window closes when the browser *)
(* has its download back.                                                    *)
Cancel(i) ==
    /\ item[i].window = "open" /\ ~item[i].cancel
    /\ item[i].tries + (IF item[i].start = "idle" THEN 0 ELSE 1) < MaxTries
    /\ item' = [item EXCEPT ![i].cancel = TRUE]
    /\ UNCHANGED <<sock, chan, held, waiting, jobs, past>>
Cancelled(i) ==
    /\ item[i].cancel
    /\ \E ok \in BOOLEAN :
         item' = [item EXCEPT ![i] = [Restored(i, ok) EXCEPT !.cancel = FALSE,
                                        !.window = IF ok THEN "closed" ELSE @]]
    /\ UNCHANGED <<sock, chan, held, waiting, jobs, past>>

(* The user closes the window without an answer.                             *)
Leave(i) ==
    /\ item[i].window = "open" /\ ~item[i].cancel
    /\ item' = [item EXCEPT ![i].window = "left"]
    /\ UNCHANGED <<sock, chan, held, waiting, jobs, past>>

(***************************************************************************)
(* The browser ends the worker, and starts it again on its next event: what  *)
(* was in memory is gone, what a window asked is answered with nothing.      *)
(***************************************************************************)
Ended(it) ==
    [it EXCEPT !.copy = IF @ = "cancelling" THEN "stopped" ELSE @,
               !.window = IF it.cancel THEN "closed" ELSE IF @ = "opening" THEN "none" ELSE @,
               !.start = "idle", !.cancel = FALSE, !.marked = FALSE]
Restart ==
    /\ past.restarts < MaxRestarts
    /\ sock' = [s \in Sockets |-> FreshSocket]
    /\ chan' = FreshChannel
    /\ held' = FreshHeld(held.stored)
    /\ waiting' = <<>>
    /\ item' = [i \in Items |-> Ended(item[i])]
    /\ past' = [past EXCEPT !.restarts = @ + 1, !.ended = TRUE]
    /\ UNCHANGED jobs

OfSocket(s) == Settled(s) \/ Opened(s) \/ Closed(s) \/ Receive(s) \/ Serve(s)
OfItem(i) ==
    \/ Click(i) \/ Created(i) \/ CopyCreated(i) \/ Stopped(i) \/ WindowOpened(i) \/ WindowFailed(i)
    \/ Start(i) \/ Ask(i) \/ NoConnection(i) \/ TimeOut(i) \/ GiveBack(i)
    \/ Cancel(i) \/ Cancelled(i) \/ Leave(i)

Next ==
    \/ \E s \in Sockets : OfSocket(s)
    \/ \E i \in Items : OfItem(i)
    \/ \E r \in Reports : Report(r)
    \/ Unpaired \/ Reconnect \/ Alarm \/ ReconnectOrder \/ Forget
    \/ Loaded \/ Written \/ Restart

Spec == Init /\ [][Next]_vars

(***************************************************************************)
(* Properties.                                                              *)
(***************************************************************************)

(* A download whose copy the browser gave up is somewhere: its window asks,  *)
(* its request is under way, the daemon has it or the browser has it again.  *)
(* Not counted: the user left the window, or the browser refused to start    *)
(* the download again.                                                       *)
SomewhereElse(i) ==
    LET it == item[i]
    IN  it.copy = "stopped" /\ it.window \notin {"left", "failed"} =>
        it.window \in {"opening", "open"} \/ it.start # "idle" \/ it.cancel \/ it.copies > 0 \/ i \in jobs

(* As long as every request has been answered, and no new socket has taken   *)
(* the place of one that requests wait on, no download is lost between the   *)
(* browser and the daemon (background.ts promptBrowserDownload,          *)
(* startBrowserDownload, keepBrowserDownload, finishDownloadRequest).        *)
DownloadIsNotLost ==
    ~past.ended /\ ~past.dropped => \A i \in Items : SomewhereElse(i)

(* "If the daemon refuses or times out on Start, the extension restores the  *)
(* browser download" (docs/design/media-capture.md): no download is lost     *)
(* after a timeout either.                                                   *)
StartEndsSomewhere ==
    ~past.ended => \A i \in Items : SomewhereElse(i)

(* A download given back to the browser is not taken over again, unless the  *)
(* worker ended or it was given back twice (background.ts                    *)
(* rememberRestoredDownload, takeRestoredDownload).                          *)
RestoredIsNotPrompted ==
    \A i \in Items : item[i].again => past.ended \/ item[i].tries > 1

(* What the options page made the worker forget is not held again, though    *)
(* the session storage it was in is still being read (background.ts          *)
(* loadPending, pendingEpoch).                                               *)
ForgottenStaysForgotten ==
    ~past.ended => past.forgotten \cap (ToSet(held.pending) \cup ToSet(held.queued)) = {}

(* A report held leaves the worker by being sent, by being the oldest of a   *)
(* full queue, by the order to forget or with the worker; one that the       *)
(* session storage held does too, once it is read (background.ts enqueue,    *)
(* flush).                                                                   *)
Holds(h) == ToSet(h.pending) \cup ToSet(h.queued) \cup (IF h.load = "loading" THEN ToSet(h.stored) ELSE {})
Held(h) == Len(h.pending) + Len(h.queued) + (IF h.load = "loading" THEN Len(h.stored) ELSE 0)
SentOn(sockets) == UNION {{sockets[s].sent[n].about : n \in DOMAIN sockets[s].sent} : s \in Sockets}
HeldUntilSent ==
    [][past'.restarts = past.restarts =>
         \A r \in Holds(held) \ Holds(held') :
            r \in SentOn(sock') \/ past'.commands > past.commands \/ Held(held) >= MaxHeld]_vars
================================================================================
