------------------------------ MODULE Startup ------------------------------
(***************************************************************************)
(* Who serves a data directory: the daemon processes the desktop and the   *)
(* browser's native host start, the runtime lease, the files through which *)
(* a daemon announces itself, and the clients that read them               *)
(* (apps/gundad/src/lib.rs run and start_capture, gunda-storage's          *)
(* runtime_lease.rs, gunda-capture's pairing.rs, gunda-ipc's endpoint      *)
(* file, apps/desktop's daemon_client.rs and native_host.rs).              *)
(*                                                                         *)
(* A process may end at any moment: the system then releases its lease and *)
(* closes its sockets, and what it wrote stays.  A file is opened and      *)
(* truncated before it is written, so a reader, or the next process, may   *)
(* find it empty.                                                          *)
(***************************************************************************)
EXTENDS Naturals, FiniteSets

CONSTANTS
    Slots,        \* processes that can run at once as daemons
    TornWrites,   \* whether a process may end inside the write of a file
    MaxExits,     \* bound: daemons that end after they got the lease
    Nobody        \* no process, a file that does not exist

\* A process is neither what an empty file holds nor the fixed port's address.
ASSUME StartupAssumption ==
    /\ Nobody \notin Slots \cup {"empty", "preferred"}
    /\ Slots \cap {"empty", "preferred"} = {}
    /\ TornWrites \in BOOLEAN
    /\ MaxExits \in Nat

VARIABLES
    pc,         \* where each daemon is in run()
    lease,      \* the process that holds the lock on gunda.runtime.lock
    files,      \* what the files hold, see Files
    tokens,     \* the tokens each process holds: capture and daemon
    captures,   \* the address each process's capture listener has, or Nobody
    desktop,    \* the desktop's client thread
    host,       \* one run of the native host
    exits       \* bound: daemons that ended so far

vars == <<pc, lease, files, tokens, captures, desktop, host, exits>>

\* The four files.  A token is named by the process that made it, an address
\* by the process that listens there, or "preferred" for the fixed port.
Files == {"captureToken", "captureEndpoint", "daemonToken", "daemonEndpoint"}
Empty == "empty"

-----------------------------------------------------------------------------
(* The daemon: run(). *)

Goto(p, to) == pc' = [pc EXCEPT ![p] = to]
Write(file, value) == files' = [files EXCEPT ![file] = value]

\* Mutant: the lease outlives the process, like a lock file that only exists.
Ended_Leased(p) ==
    /\ Goto(p, "free")
    /\ captures' = [captures EXCEPT ![p] = Nobody]
    /\ tokens' = [tokens EXCEPT ![p] = [capture |-> Nobody, daemon |-> Nobody]]
    /\ UNCHANGED lease

\* The process is gone: its lease and its sockets with it.
Ended(p) ==
    /\ Goto(p, "free")
    /\ lease' = IF lease = p THEN Nobody ELSE lease
    /\ captures' = [captures EXCEPT ![p] = Nobody]
    /\ tokens' = [tokens EXCEPT ![p] = [capture |-> Nobody, daemon |-> Nobody]]

\* Mutant: the lock is not exclusive.
Acquire_Shared(p) ==
    /\ pc[p] = "start"
    /\ lease' = p
    /\ Goto(p, "captureToken")
    /\ UNCHANGED <<files, tokens, captures, desktop, host, exits>>

\* RuntimeLease::acquire: the lock, or the end of the process.
Acquire(p) ==
    /\ pc[p] = "start"
    /\ IF lease = Nobody
       THEN lease' = p /\ Goto(p, "captureToken") /\ UNCHANGED <<tokens, captures>>
       ELSE Ended(p)
    /\ UNCHANGED <<files, desktop, host, exits>>

\* load_or_create_token: the stored token, or a new one, whose file is opened
\* before it is written.
LoadToken(p, kind, file, done, make, bad) ==
    /\ UNCHANGED <<files, desktop, host, exits>>
    /\ CASE files[file] = Nobody ->
              Goto(p, make) /\ UNCHANGED <<lease, captures, tokens>>
         [] files[file] \in Slots ->
              /\ tokens' = [tokens EXCEPT ![p][kind] = files[file]]
              /\ Goto(p, done)
              /\ UNCHANGED <<lease, captures>>
         [] OTHER -> bad

MakeToken(p, kind, file, write) ==
    /\ tokens' = [tokens EXCEPT ![p][kind] = p]
    /\ Write(file, Empty)
    /\ Goto(p, write)
    /\ UNCHANGED <<lease, captures, desktop, host, exits>>

StoreToken(p, kind, file, done) ==
    /\ Write(file, tokens[p][kind])
    /\ Goto(p, done)
    /\ UNCHANGED <<lease, tokens, captures, desktop, host, exits>>

\* A capture token that cannot be read leaves the daemon without capture.
CaptureToken(p) ==
    \/ /\ pc[p] = "captureToken"
       /\ LoadToken(p, "capture", "captureToken", "captureBind", "captureTokenMake",
                    Goto(p, "daemonToken") /\ UNCHANGED <<lease, captures, tokens>>)
    \/ pc[p] = "captureTokenMake" /\ MakeToken(p, "capture", "captureToken", "captureTokenWrite")
    \/ pc[p] = "captureTokenWrite" /\ StoreToken(p, "capture", "captureToken", "captureBind")

\* start_capture binds the preferred port, or any when that one is taken.
CaptureBind(p) ==
    /\ pc[p] = "captureBind"
    /\ \E address \in {"preferred", p} :
         /\ \A q \in Slots : captures[q] # address
         /\ captures' = [captures EXCEPT ![p] = address]
    /\ Goto(p, "captureEndpoint")
    /\ UNCHANGED <<lease, files, tokens, desktop, host, exits>>

CaptureEndpoint(p) ==
    /\ pc[p] = "captureEndpoint"
    /\ Write("captureEndpoint", Empty)
    /\ Goto(p, "captureEndpointWrite")
    /\ UNCHANGED <<lease, tokens, captures, desktop, host, exits>>

CaptureEndpointWrite(p) ==
    /\ pc[p] = "captureEndpointWrite"
    /\ Write("captureEndpoint", captures[p])
    /\ Goto(p, "daemonToken")
    /\ UNCHANGED <<lease, tokens, captures, desktop, host, exits>>

\* A daemon token that cannot be read ends the process.
DaemonToken(p) ==
    \/ pc[p] = "daemonToken"
       /\ LoadToken(p, "daemon", "daemonToken", "bind", "daemonTokenMake", Ended(p))
    \/ pc[p] = "daemonTokenMake" /\ MakeToken(p, "daemon", "daemonToken", "daemonTokenWrite")
    \/ pc[p] = "daemonTokenWrite" /\ StoreToken(p, "daemon", "daemonToken", "bind")

\* From the bind on a connection is accepted, at the latest by the backlog.
Bind(p) ==
    /\ pc[p] = "bind"
    /\ Goto(p, "endpoint")
    /\ UNCHANGED <<lease, files, tokens, captures, desktop, host, exits>>

DaemonEndpoint(p) ==
    /\ pc[p] = "endpoint"
    /\ Write("daemonEndpoint", Empty)
    /\ Goto(p, "endpointWrite")
    /\ UNCHANGED <<lease, tokens, captures, desktop, host, exits>>

DaemonEndpointWrite(p) ==
    /\ pc[p] = "endpointWrite"
    /\ Write("daemonEndpoint", p)
    /\ Goto(p, "serving")
    /\ UNCHANGED <<lease, tokens, captures, desktop, host, exits>>

Writing == {"captureTokenWrite", "captureEndpointWrite", "daemonTokenWrite", "endpointWrite"}

\* The process ends: an interrupt, a crash, the end of the session.
Exit(p) ==
    /\ pc[p] \notin {"free", "start"}
    /\ pc[p] \in Writing => TornWrites
    /\ exits < MaxExits
    /\ exits' = exits + 1
    /\ Ended(p)
    /\ UNCHANGED <<files, desktop, host>>

\* A client can connect, and is greeted.
Bound(p)   == pc[p] \in {"endpoint", "endpointWrite", "serving"}
Serving(p) == pc[p] = "serving"

Spawned(p) == pc[p] = "free" /\ Goto(p, "start")

-----------------------------------------------------------------------------
(* The desktop: connect_daemon and run_client. *)

\* try_connect reads the endpoint, then the token, then connects.
ReadEndpoint ==
    /\ desktop.phase \in {"try", "poll"}
    /\ ~desktop.reading
    /\ desktop' = [desktop EXCEPT !.endpoint = files["daemonEndpoint"], !.reading = TRUE]
    /\ UNCHANGED <<pc, lease, files, tokens, captures, host, exits>>

\* The greeting succeeds when the process that listens knows the token.
Greets ==
    /\ desktop.endpoint \in Slots
    /\ Serving(desktop.endpoint)
    /\ files["daemonToken"] = tokens[desktop.endpoint].daemon

Connect ==
    /\ desktop.reading
    /\ Greets
    /\ desktop' = [phase |-> "connected", endpoint |-> desktop.endpoint, reading |-> FALSE]
    /\ UNCHANGED <<pc, lease, files, tokens, captures, host, exits>>

\* The first failure starts a daemon, the later ones are polls for it.
ConnectFails ==
    /\ desktop.reading
    /\ ~Greets
    /\ \/ /\ desktop.phase = "try"
          /\ \E p \in Slots : Spawned(p)
       \/ desktop.phase = "poll" /\ UNCHANGED pc
    /\ desktop' = [phase |-> "poll", endpoint |-> Nobody, reading |-> FALSE]
    /\ UNCHANGED <<lease, files, tokens, captures, host, exits>>

\* The polls ended without a connection: run_client starts over.
GiveUp ==
    /\ desktop.phase = "poll"
    /\ ~desktop.reading
    /\ desktop' = [desktop EXCEPT !.phase = "try"]
    /\ UNCHANGED <<pc, lease, files, tokens, captures, host, exits>>

Disconnected ==
    /\ desktop.phase = "connected"
    /\ ~Serving(desktop.endpoint)
    /\ desktop' = [phase |-> "try", endpoint |-> Nobody, reading |-> FALSE]
    /\ UNCHANGED <<pc, lease, files, tokens, captures, host, exits>>

-----------------------------------------------------------------------------
(* The native host: ensure_pairing and current_pairing. *)

\* The daemon endpoint must be reachable before the capture files are read.
HostLooks ==
    /\ host.phase \in {"ask", "poll"}
    /\ files["daemonEndpoint"] \in Slots
    /\ Bound(files["daemonEndpoint"])
    /\ host' = [host EXCEPT !.phase = "found"]
    /\ UNCHANGED <<pc, lease, files, tokens, captures, desktop, exits>>

HostReadsEndpoint ==
    /\ host.phase = "found"
    /\ files["captureEndpoint"] # Nobody
    /\ host' = [host EXCEPT !.phase = "located", !.endpoint = files["captureEndpoint"]]
    /\ UNCHANGED <<pc, lease, files, tokens, captures, desktop, exits>>

HostReadsToken ==
    /\ host.phase = "located"
    /\ files["captureToken"] \in Slots
    /\ host' = [host EXCEPT !.phase = "read", !.token = files["captureToken"]]
    /\ UNCHANGED <<pc, lease, files, tokens, captures, desktop, exits>>

Listens(address) == \E p \in Slots : captures[p] # Nobody /\ captures[p] = address

HostPairs ==
    /\ host.phase = "read"
    /\ Listens(host.endpoint)
    /\ host' = [host EXCEPT !.phase = "paired"]
    /\ UNCHANGED <<pc, lease, files, tokens, captures, desktop, exits>>

\* Something was missing: start a daemon once, then look again.
HostMisses ==
    /\ \/ host.phase \in {"ask", "poll"} /\ ~\E p \in Slots : files["daemonEndpoint"] = p /\ Bound(p)
       \/ host.phase = "found" /\ files["captureEndpoint"] = Nobody
       \/ host.phase = "located" /\ files["captureToken"] \notin Slots
       \/ host.phase = "read" /\ ~Listens(host.endpoint)
    /\ IF ~host.spawned
       THEN \E p \in Slots : Spawned(p)
       ELSE UNCHANGED pc
    /\ host' = [phase |-> "poll", spawned |-> TRUE, endpoint |-> Nobody, token |-> Nobody]
    /\ UNCHANGED <<lease, files, tokens, captures, desktop, exits>>

HostGivesUp ==
    /\ host.phase = "poll"
    /\ host' = [host EXCEPT !.phase = "failed"]
    /\ UNCHANGED <<pc, lease, files, tokens, captures, desktop, exits>>

-----------------------------------------------------------------------------
Init ==
    /\ pc = [p \in Slots |-> "free"]
    /\ lease = Nobody
    /\ files = [f \in Files |-> Nobody]
    /\ tokens = [p \in Slots |-> [capture |-> Nobody, daemon |-> Nobody]]
    /\ captures = [p \in Slots |-> Nobody]
    /\ desktop = [phase |-> "try", endpoint |-> Nobody, reading |-> FALSE]
    /\ host = [phase |-> "ask", spawned |-> FALSE, endpoint |-> Nobody, token |-> Nobody]
    /\ exits = 0

DaemonStep(p) ==
    \/ Acquire(p)
    \/ CaptureToken(p) \/ CaptureBind(p)
    \/ CaptureEndpoint(p) \/ CaptureEndpointWrite(p)
    \/ DaemonToken(p) \/ Bind(p) \/ DaemonEndpoint(p) \/ DaemonEndpointWrite(p)

DesktopStep == ReadEndpoint \/ Connect \/ ConnectFails \/ Disconnected
HostStep    == HostLooks \/ HostReadsEndpoint \/ HostReadsToken \/ HostPairs \/ HostMisses

Next ==
    \/ \E p \in Slots : DaemonStep(p) \/ Exit(p)
    \/ DesktopStep \/ GiveUp
    \/ HostStep \/ HostGivesUp

Spec == Init /\ [][Next]_vars

\* Every process and the desktop's thread run, and the desktop polls a hundred
\* times before it starts over.
FairSpec ==
    /\ Spec
    /\ \A p \in Slots : WF_vars(DaemonStep(p))
    /\ WF_vars(DesktopStep)
    /\ SF_vars(GiveUp)

-----------------------------------------------------------------------------
(* Properties. *)

TypeOK ==
    /\ lease \in Slots \cup {Nobody}
    /\ \A f \in Files : files[f] \in Slots \cup {Nobody, Empty, "preferred"}
    /\ \A p \in Slots : captures[p] \in Slots \cup {Nobody, "preferred"}
    /\ desktop.phase \in {"try", "poll", "connected"}
    /\ host.phase \in {"ask", "poll", "found", "located", "read", "paired", "failed"}

\* A daemon that serves is the one the files name, with the tokens they hold,
\* whatever the processes before it and beside it wrote: the lease is taken
\* before any of them is touched and ends with the process (lib.rs:692-730,
\* runtime_lease.rs:12).
ServingIsAnnounced ==
    \A p \in Slots : Serving(p) =>
        /\ files["daemonEndpoint"] = p
        /\ files["daemonToken"] = tokens[p].daemon
        /\ captures[p] # Nobody =>
              files["captureEndpoint"] = captures[p] /\ files["captureToken"] = tokens[p].capture

\* What the native host hands to the browser is the address of a listener that
\* knows the token handed out with it, although the files are read one after
\* the other while daemons come and go (native_host.rs:302-318).
PairingIsAccepted ==
    HostPairs => \E p \in Slots : captures[p] = host.endpoint /\ tokens[p].capture = host.token

\* A daemon that serves is found through the files, and so is what the host
\* pairs the browser with (lib.rs:692-730, native_host.rs:302-318).
ServingIsFound == [][ServingIsAnnounced' /\ PairingIsAccepted]_vars

\* The desktop gets a daemon: it connects to the one there is or to one it
\* starts, again after each one that ends (daemon.md:14-16: it "starts
\* gunda-desktop --daemon with the same data directory when no daemon is
\* available, then reads snapshots").
DesktopConnects == desktop.phase # "connected" ~> desktop.phase = "connected"
=============================================================================
