----------------------------- MODULE IpcSession -----------------------------
(***************************************************************************)
(* The desktop's connections to gundad (crates/gunda-ipc/src/lib.rs,       *)
(* serve_client in apps/gundad/src/lib.rs, run_client and run_connected in *)
(* apps/desktop/src/backend/daemon_client.rs).                             *)
(*                                                                         *)
(* A message is a line, and arrives in two parts.  Both ends read inside a *)
(* select and keep the part they have in the future they read with, so the *)
(* other branch of the select drops it; what then arrives is no message    *)
(* and ends the connection.  Sessions are numbered, since an old one may   *)
(* still hold a command while the desktop is on the next.                  *)
(***************************************************************************)
EXTENDS Naturals, Sequences, SequencesExt

CONSTANTS
  MaxCommands,   \* bound on the commands of the user
  MaxChanges,    \* bound on the changes that no command caused
  MaxExits,      \* bound on the exits of the desktop
  MaxSessions,   \* bound on the connections
  QueueLimit     \* of the channel from the interface to the client, 4 in the code

ASSUME IpcAssumption ==
  /\ {MaxCommands, MaxChanges, MaxExits} \subseteq Nat
  /\ {MaxSessions, QueueLimit} \subseteq Nat \ {0}

VARIABLES
  issued,     \* commands the interface has put into the channel
  taken,      \* of those, the ones the client has taken out
  desktop,    \* the client: its place, and whether it holds half a message
  session,    \* its connection, the last one if it has none
  view,       \* the snapshot it shows, or Nothing
  server,     \* serve_client of each session
  upstream,   \* parts on their way to the daemon, by session
  downstream, \* and to the desktop
  inbox,      \* the command channel of the daemon's loop
  publishing, \* whether the loop has answered and not yet published
  version,    \* the published snapshot
  exits,
  sent,       \* commands the desktop has sent, by session
  executed    \* commands the daemon has executed, by session

clientVars == <<issued, taken, desktop, session, view, exits, sent>>
daemonVars == <<inbox, publishing, version, executed>>
pipes == <<upstream, downstream>>
vars == <<clientVars, daemonVars, pipes, server>>

Sessions == 1..MaxSessions
Nothing == MaxCommands + MaxChanges + 1

Parts(kind, value) ==
  <<[kind |-> kind, value |-> value, part |-> 1],
    [kind |-> kind, value |-> value, part |-> 2]>>

Unborn == [pc |-> "none", half |-> FALSE, seen |-> 0, answer |-> "none"]

\* The desktop is at the other end of s.
Attached(s) == session = s /\ desktop.pc # "off"

\* Nobody reads what is sent to an end that has closed.
SendUp(s, kind, value) ==
  upstream' = IF server[s].pc = "closed" THEN upstream
              ELSE [upstream EXCEPT ![s] = @ \o Parts(kind, value)]

SendDown(s, kind, value) ==
  downstream' = IF ~Attached(s) THEN downstream
                ELSE [downstream EXCEPT ![s] = @ \o Parts(kind, value)]

---------------------------------------------------------------------------
(* The desktop. *)

\* The interface refuses a command when the channel is full.
Issue ==
  /\ issued < MaxCommands
  /\ issued - taken < QueueLimit
  /\ issued' = issued + 1
  /\ UNCHANGED <<taken, desktop, session, view, exits, sent, daemonVars, pipes, server>>

Connect ==
  /\ desktop.pc = "off"
  /\ session < MaxSessions
  /\ session' = session + 1
  /\ desktop' = [pc |-> "greet", half |-> FALSE]
  /\ SendUp(session + 1, "hello", 0)
  /\ server' = [server EXCEPT ![session + 1].pc = "hello"]
  /\ UNCHANGED <<issued, taken, view, exits, sent, daemonVars, downstream>>

Disconnect ==
  /\ desktop' = [pc |-> "off", half |-> FALSE]
  /\ view' = Nothing
  /\ downstream' = [s \in Sessions |-> <<>>]

\* A whole message is handled, half of one is kept, and a tail without its
\* head is not JSON.
ClientRead ==
  LET part == Head(downstream[session]) IN
  /\ desktop.pc # "off"
  /\ downstream[session] # <<>>
  /\ \/ /\ part.part = 1
        /\ downstream' = [downstream EXCEPT ![session] = Tail(@)]
        /\ desktop' = [desktop EXCEPT !.half = TRUE]
        /\ UNCHANGED view
     \/ /\ part.part = 2 /\ desktop.half
        /\ downstream' = [downstream EXCEPT ![session] = Tail(@)]
        /\ desktop' = [pc |-> "open", half |-> FALSE]
        /\ view' = IF part.kind = "snapshot" THEN part.value ELSE view
     \/ part.part = 2 /\ ~desktop.half /\ Disconnect
  /\ UNCHANGED <<issued, taken, session, exits, sent, daemonVars, upstream, server>>

ClientEnd ==
  /\ desktop.pc # "off"
  /\ downstream[session] = <<>>
  /\ server[session].pc = "closed"
  /\ Disconnect
  /\ UNCHANGED <<issued, taken, session, exits, sent, daemonVars, upstream, server>>

\* Taking a command abandons the message being read.
ClientCommand ==
  /\ desktop.pc = "open"
  /\ taken < issued
  /\ taken' = taken + 1
  /\ sent' = [sent EXCEPT ![session] = Append(@, taken + 1)]
  /\ SendUp(session, "command", taken + 1)
  /\ desktop' = [desktop EXCEPT !.half = FALSE]
  /\ UNCHANGED <<issued, session, view, exits, daemonVars, downstream, server>>

\* The desktop is closed, with what is in its channel, and opened again.
ClientExits ==
  /\ exits < MaxExits
  /\ exits' = exits + 1
  /\ Disconnect
  /\ taken' = issued
  /\ UNCHANGED <<issued, session, sent, daemonVars, upstream, server>>

---------------------------------------------------------------------------
(* A session of the daemon. *)

Close(s) ==
  /\ server' = [server EXCEPT ![s] = [Unborn EXCEPT !.pc = "closed"]]
  /\ upstream' = [upstream EXCEPT ![s] = <<>>]

\* Taking the next part, which leaves the session with server record next.
Take(s, next) ==
  /\ upstream' = [upstream EXCEPT ![s] = Tail(@)]
  /\ server' = [server EXCEPT ![s] = next]

Reading(s) == server[s].pc \in {"hello", "select"} /\ upstream[s] # <<>>

ReadHead(s) ==
  /\ Reading(s) /\ Head(upstream[s]).part = 1
  /\ Take(s, [server[s] EXCEPT !.half = TRUE])
  /\ UNCHANGED <<clientVars, daemonVars, downstream>>

\* The greeting is answered with the current snapshot; a command goes to the
\* loop, and nothing else is done until its answer.
ReadMessage(s) ==
  LET part == Head(upstream[s]) IN
  /\ Reading(s) /\ part.part = 2 /\ server[s].half
  /\ \/ /\ part.kind = "hello"
        /\ Take(s, [server[s] EXCEPT !.pc = "select", !.half = FALSE])
        /\ SendDown(s, "snapshot", version)
        /\ UNCHANGED inbox
     \/ /\ part.kind = "command"
        /\ Take(s, [server[s] EXCEPT !.pc = "await", !.half = FALSE])
        /\ inbox' = Append(inbox, [session |-> s, command |-> part.value])
        /\ UNCHANGED downstream
  /\ UNCHANGED <<clientVars, publishing, version, executed>>

\* Mutant: a line that is no message is skipped.
ReadGarbled_Skips(s) ==
  /\ Reading(s) /\ Head(upstream[s]).part = 2 /\ ~server[s].half
  /\ Take(s, server[s])
  /\ UNCHANGED <<clientVars, daemonVars, downstream>>

\* A tail without its head is not JSON, and ends the session.
ReadGarbled(s) ==
  /\ Reading(s) /\ Head(upstream[s]).part = 2 /\ ~server[s].half
  /\ Close(s)
  /\ UNCHANGED <<clientVars, daemonVars, downstream>>

\* A change of the snapshot abandons the message being read.
ServerSnapshot(s) ==
  /\ server[s].pc = "select"
  /\ server[s].seen # version
  /\ server' = [server EXCEPT ![s].seen = version, ![s].half = FALSE]
  /\ SendDown(s, "snapshot", version)
  /\ UNCHANGED <<clientVars, daemonVars, upstream>>

\* Mutant: what was published while the command was served counts as seen.
ServerAnswered_Seen(s) ==
  /\ server[s].answer # "none"
  /\ server' = [server EXCEPT ![s].pc = "select", ![s].answer = "none", ![s].seen = version]
  /\ IF server[s].answer = "error" THEN SendDown(s, "error", 0) ELSE UNCHANGED downstream
  /\ UNCHANGED <<clientVars, daemonVars, upstream>>

ServerAnswered(s) ==
  /\ server[s].answer # "none"
  /\ server' = [server EXCEPT ![s].pc = "select", ![s].answer = "none"]
  /\ IF server[s].answer = "error" THEN SendDown(s, "error", 0) ELSE UNCHANGED downstream
  /\ UNCHANGED <<clientVars, daemonVars, upstream>>

\* The desktop has gone: the session reads what it left, or a reset hides it.
ServerEnd(s) ==
  /\ server[s].pc \in {"hello", "select"}
  /\ ~Attached(s)
  /\ Close(s)
  /\ UNCHANGED <<clientVars, daemonVars, downstream>>

---------------------------------------------------------------------------
(* The daemon's loop, as far as its clients see it. *)

Serve ==
  LET next == Head(inbox) IN
  /\ ~publishing
  /\ inbox # <<>>
  /\ inbox' = Tail(inbox)
  /\ executed' = [executed EXCEPT ![next.session] = Append(@, next.command)]
  /\ \E answer \in {"ok", "error"} : server' = [server EXCEPT ![next.session].answer = answer]
  /\ publishing' = TRUE
  /\ UNCHANGED <<clientVars, pipes, version>>

Publish ==
  /\ publishing
  /\ publishing' = FALSE
  /\ version' = version + 1
  /\ UNCHANGED <<clientVars, pipes, server, inbox, executed>>

\* A worker or a capture changes what the daemon shows.
Change ==
  /\ ~publishing
  /\ version < MaxChanges
  /\ version' = version + 1
  /\ UNCHANGED <<clientVars, pipes, server, inbox, publishing, executed>>

---------------------------------------------------------------------------
Init ==
  /\ issued = 0 /\ taken = 0 /\ exits = 0
  /\ desktop = [pc |-> "off", half |-> FALSE]
  /\ session = 0
  /\ view = Nothing
  /\ server = [s \in Sessions |-> Unborn]
  /\ upstream = [s \in Sessions |-> <<>>]
  /\ downstream = [s \in Sessions |-> <<>>]
  /\ inbox = <<>>
  /\ publishing = FALSE
  /\ version = 0
  /\ sent = [s \in Sessions |-> <<>>]
  /\ executed = [s \in Sessions |-> <<>>]

ClientProceeds == Connect \/ ClientRead \/ ClientEnd
ServerReads(s) == ReadHead(s) \/ ReadMessage(s) \/ ReadGarbled(s)
ServerProceeds(s) ==
  ServerReads(s) \/ ServerSnapshot(s) \/ ServerAnswered(s) \/ ServerEnd(s)

Next ==
  \/ Issue \/ ClientProceeds \/ ClientCommand \/ ClientExits
  \/ \E s \in Sessions : ServerProceeds(s)
  \/ Serve \/ Publish \/ Change

Spec == Init /\ [][Next]_vars

\* The three kinds of task run; neither select starves one of its branches.
FairSpec ==
  /\ Spec
  /\ WF_vars(ClientProceeds) /\ WF_vars(ClientCommand)
  /\ \A s \in Sessions : WF_vars(ServerReads(s)) /\ WF_vars(ServerProceeds(s))
  /\ WF_vars(Serve) /\ WF_vars(Publish)

---------------------------------------------------------------------------
(* Properties. *)

TypeOK ==
  /\ taken \in 0..issued /\ issued \in 0..MaxCommands
  /\ session \in 0..MaxSessions
  /\ desktop \in [pc: {"off", "greet", "open"}, half: BOOLEAN]
  /\ view \in 0..Nothing
  /\ version \in 0..(MaxCommands + MaxChanges)
  /\ server \in [Sessions -> [pc: {"none", "hello", "select", "await", "closed"},
                              half: BOOLEAN, seen: 0..(MaxCommands + MaxChanges),
                              answer: {"none", "ok", "error"}]]

\* No command is executed out of a gap: what a connection executes are its
\* first commands, each once and in order, whatever parts were dropped.
ExecutedIsPrefix ==
  \A s \in Sessions : IsPrefix(executed[s], sent[s])

\* A command is not lost without a sign: what was sent is executed, or the
\* desktop loses the connection it was sent on.
Unanswered == session # 0 /\ Attached(session) /\ executed[session] # sent[session]
CommandAnswered == Unanswered ~> ~Unanswered

\* "Every connected client receives the same state": once the state rests, the
\* desktop comes to show it, and goes on showing it.
ViewConverges == <>[](view = version)
=============================================================================
