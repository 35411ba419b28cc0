----------------------------- MODULE StartupProofs -----------------------------
(***************************************************************************)
(* A theorem about Startup, for any number of daemon processes that come,   *)
(* race for the lease and end anywhere, inside a write of a file included:  *)
(* the one that serves is the one its files name, and what the native host  *)
(* pairs the browser with is a listener that knows the token.               *)
(*                                                                         *)
(* The invariant rests on the lease: only its holder is past the lock, so   *)
(* what it has read or written of a file is what the file still holds, and  *)
(* a token, once it is in its file, is never replaced.                      *)
(***************************************************************************)
EXTENDS Startup, TLAPS

Places == {"free", "start", "captureToken", "captureTokenMake", "captureTokenWrite",
           "captureBind", "captureEndpoint", "captureEndpointWrite", "daemonToken",
           "daemonTokenMake", "daemonTokenWrite", "bind", "endpoint", "endpointWrite",
           "serving"}

Contents == Slots \cup {Nobody, Empty, "preferred"}
Tokens == [capture: Contents, daemon: Contents]

Typed ==
    /\ pc \in [Slots -> Places]
    /\ files \in [Files -> Contents]
    /\ tokens \in [Slots -> Tokens]
    /\ captures \in [Slots -> Slots \cup {Nobody, "preferred"}]

\* Past the lock.
Running(p) == pc[p] \notin {"free", "start"}
Exclusive == \A p \in Slots : Running(p) => lease = p

\* What a process in a place knows of the capture token and of its listener's
\* endpoint file.
CaptureKnown(p) ==
    /\ pc[p] \in {"free", "start", "captureToken", "captureTokenMake", "captureTokenWrite",
                  "captureBind"} => captures[p] = Nobody
    /\ pc[p] = "captureTokenMake" => files["captureToken"] = Nobody
    /\ pc[p] = "captureTokenWrite" => files["captureToken"] = Empty
    /\ pc[p] = "captureBind" => tokens[p].capture = files["captureToken"]
    /\ captures[p] # Nobody =>
         /\ tokens[p].capture = files["captureToken"]
         /\ pc[p] \notin {"captureEndpoint", "captureEndpointWrite"} =>
              files["captureEndpoint"] = captures[p]

\* And of the daemon's own token and endpoint.
DaemonKnown(p) ==
    /\ pc[p] \in {"bind", "endpoint", "endpointWrite", "serving"} =>
         files["daemonToken"] = tokens[p].daemon
    /\ pc[p] = "serving" => files["daemonEndpoint"] = p

Known == \A p \in Slots : CaptureKnown(p) /\ DaemonKnown(p)

\* The token the host has read is still in the file.
HostKnows ==
    /\ host \in [phase: {"ask", "poll", "found", "located", "read", "paired", "failed"},
                 spawned: BOOLEAN, endpoint: Contents, token: Contents]
    /\ host.phase = "read" => host.token \in Slots /\ host.token = files["captureToken"]

SInv == Typed /\ Exclusive /\ Known /\ HostKnows

-----------------------------------------------------------------------------
(* The steps of a daemon. *)

\* A process past the lock is alone there: what it writes disturbs nobody, as
\* long as it leaves a stored capture token in place.
LEMMA HolderStep ==
    ASSUME SInv, NEW p \in Slots, Running(p),
           NEW to \in Places \ {"free", "start"}, Goto(p, to),
           NEW token \in Tokens, tokens' = [tokens EXCEPT ![p] = token],
           NEW address \in Slots \cup {Nobody, "preferred"},
           captures' = [captures EXCEPT ![p] = address],
           files' \in [Files -> Contents], UNCHANGED <<lease, host>>,
           files["captureToken"] \in Slots => files'["captureToken"] = files["captureToken"],
           CaptureKnown(p)', DaemonKnown(p)'
    PROVE  SInv'
<1>1. \A q \in Slots : q # p => pc[q] \in {"free", "start"}
  BY DEF SInv, Exclusive, Running
<1>2. pc' \in [Slots -> Places] /\ \A q \in Slots : pc'[q] = IF q = p THEN to ELSE pc[q]
  BY DEF SInv, Typed, Goto
<1>3. Typed'
  BY <1>2 DEF SInv, Typed
<1>4. Exclusive'
  BY <1>1, <1>2 DEF SInv, Exclusive, Running
<1>5. Known'
  <2> SUFFICES ASSUME NEW q \in Slots, q # p PROVE CaptureKnown(q)' /\ DaemonKnown(q)'
    BY DEF Known
  <2>1. captures'[q] = captures[q] /\ pc'[q] \in {"free", "start"}
    BY <1>1, <1>2 DEF SInv, Typed
  <2>2. captures[q] = Nobody
    BY <1>1 DEF SInv, Known, CaptureKnown
  <2> QED
    BY <2>1, <2>2 DEF CaptureKnown, DaemonKnown
<1>6. HostKnows'
  BY DEF SInv, HostKnows
<1> QED
  BY <1>3, <1>4, <1>5, <1>6 DEF SInv

\* A process that ends disturbs nobody either.
LEMMA EndedStep ==
    ASSUME SInv, NEW p \in Slots, Ended(p), UNCHANGED <<files, host>>
    PROVE  SInv'
<1>1. \A q \in Slots : /\ pc'[q] = IF q = p THEN "free" ELSE pc[q]
                       /\ captures'[q] = IF q = p THEN Nobody ELSE captures[q]
                       /\ q # p => tokens'[q] = tokens[q]
  BY DEF SInv, Typed, Ended, Goto
<1>2. Typed'
  BY DEF SInv, Typed, Ended, Goto, Places, Contents, Tokens
<1>3. Exclusive'
  BY <1>1 DEF SInv, Exclusive, Running, Ended
<1>4. Known'
  BY <1>1 DEF SInv, Known, CaptureKnown, DaemonKnown
<1>5. HostKnows'
  BY DEF SInv, HostKnows
<1> QED
  BY <1>2, <1>3, <1>4, <1>5 DEF SInv

\* The lock is granted to one process at a time.
LEMMA AcquireKeeps ==
    ASSUME SInv, NEW p \in Slots, Acquire(p)
    PROVE  SInv'
<1>1. CASE lease = Nobody
  <2>1. /\ lease' = p /\ pc[p] = "start" /\ UNCHANGED <<files, tokens, captures, host>>
        /\ pc' \in [Slots -> Places]
        /\ \A q \in Slots : pc'[q] = IF q = p THEN "captureToken" ELSE pc[q]
    BY <1>1 DEF Acquire, Goto, SInv, Typed, Places
  <2>2. \A q \in Slots : pc[q] \in {"free", "start"}
    BY <1>1, StartupAssumption DEF SInv, Exclusive, Running
  <2>3. Exclusive'
    BY <2>1, <2>2 DEF Exclusive, Running
  <2>4. Known'
    BY <2>1 DEF SInv, Known, CaptureKnown, DaemonKnown
  <2> QED
    BY <2>1, <2>3, <2>4 DEF SInv, Typed, HostKnows
<1>2. CASE Ended(p)
  BY <1>2, EndedStep DEF Acquire
<1> QED
  BY <1>1, <1>2 DEF Acquire

\* The capture token is loaded, or made and written.
LEMMA CaptureTokenKeeps ==
    ASSUME SInv, NEW p \in Slots, CaptureToken(p)
    PROVE  SInv'
<1>1. /\ pc \in [Slots -> Places] /\ files \in [Files -> Contents]
      /\ tokens \in [Slots -> Tokens] /\ tokens[p] \in Tokens
      /\ captures \in [Slots -> Slots \cup {Nobody, "preferred"}]
      /\ "captureToken" \in Files /\ "captureEndpoint" \in Files
  BY DEF SInv, Typed, Files
<1>2. CaptureKnown(p) /\ DaemonKnown(p) /\ captures[p] = Nobody /\ Running(p)
  BY DEF SInv, Known, CaptureKnown, CaptureToken, Running
<1>3. captures' = [captures EXCEPT ![p] = Nobody]
  BY <1>1, <1>2, StartupAssumption DEF CaptureToken, LoadToken, MakeToken, StoreToken
<1>4. ASSUME pc[p] = "captureToken" PROVE SInv'
  <2>1. LoadToken(p, "capture", "captureToken", "captureBind", "captureTokenMake",
                  Goto(p, "daemonToken") /\ UNCHANGED <<lease, captures, tokens>>)
    BY <1>4 DEF CaptureToken
  <2>2. UNCHANGED <<files, host, lease>>
    BY <2>1, StartupAssumption DEF LoadToken
  <2>3. CASE files["captureToken"] = Nobody
    <3>1. Goto(p, "captureTokenMake") /\ tokens' = tokens
      BY <2>1, <2>3, StartupAssumption DEF LoadToken
    <3>2. pc'[p] = "captureTokenMake" /\ tokens' = [tokens EXCEPT ![p] = tokens[p]]
      BY <1>1, <3>1 DEF Goto
    <3>3. CaptureKnown(p)' /\ DaemonKnown(p)'
      BY <1>1, <1>3, <2>2, <2>3, <3>2 DEF CaptureKnown, DaemonKnown
    <3> QED
      BY <1>1, <1>2, <1>3, <2>2, <3>1, <3>2, <3>3, HolderStep DEF Places
  <2>4. CASE files["captureToken"] \in Slots
    <3> DEFINE token == [tokens[p] EXCEPT !.capture = files["captureToken"]]
    <3>1. Goto(p, "captureBind") /\ tokens' = [tokens EXCEPT ![p] = token]
      BY <2>1, <2>4, StartupAssumption DEF LoadToken
    <3>2. token \in Tokens /\ token.capture = files["captureToken"]
      BY <1>1, <2>4 DEF Tokens, Contents
    <3>3. pc'[p] = "captureBind" /\ tokens'[p] = token
      BY <1>1, <3>1 DEF Goto
    <3> HIDE DEF token
    <3>4. CaptureKnown(p)' /\ DaemonKnown(p)'
      BY <1>1, <1>3, <2>2, <3>2, <3>3 DEF CaptureKnown, DaemonKnown
    <3> QED
      BY <1>1, <1>2, <1>3, <2>2, <3>1, <3>2, <3>4, HolderStep DEF Places
  <2>5. CASE files["captureToken"] \notin Slots \cup {Nobody}
    <3>1. Goto(p, "daemonToken") /\ tokens' = tokens
      BY <2>1, <2>5 DEF LoadToken
    <3>2. pc'[p] = "daemonToken" /\ tokens' = [tokens EXCEPT ![p] = tokens[p]]
      BY <1>1, <3>1 DEF Goto
    <3>3. CaptureKnown(p)' /\ DaemonKnown(p)'
      BY <1>1, <1>3, <3>2 DEF CaptureKnown, DaemonKnown
    <3> QED
      BY <1>1, <1>2, <1>3, <2>2, <3>1, <3>2, <3>3, HolderStep DEF Places
  <2> QED
    BY <2>3, <2>4, <2>5
<1>5. ASSUME pc[p] = "captureTokenMake" PROVE SInv'
  <2> DEFINE token == [tokens[p] EXCEPT !.capture = p]
  <2>1. /\ tokens' = [tokens EXCEPT ![p] = token] /\ Goto(p, "captureTokenWrite")
        /\ files' = [files EXCEPT !["captureToken"] = Empty]
        /\ UNCHANGED <<lease, host>>
    BY <1>5 DEF CaptureToken, MakeToken, Write
  <2>2. token \in Tokens /\ pc'[p] = "captureTokenWrite" /\ files'["captureToken"] = Empty
    BY <1>1, <2>1 DEF Tokens, Contents, Goto
  <2>3. files["captureToken"] = Nobody /\ files' \in [Files -> Contents]
    BY <1>1, <1>2, <1>5, <2>1 DEF CaptureKnown, Contents
  <2> HIDE DEF token
  <2>4. CaptureKnown(p)' /\ DaemonKnown(p)'
    BY <1>1, <1>3, <2>2 DEF CaptureKnown, DaemonKnown
  <2> QED
    BY <1>1, <1>2, <1>3, <2>1, <2>2, <2>3, <2>4, HolderStep, StartupAssumption DEF Places
<1>6. ASSUME pc[p] = "captureTokenWrite" PROVE SInv'
  <2>1. /\ tokens' = [tokens EXCEPT ![p] = tokens[p]] /\ Goto(p, "captureBind")
        /\ files' = [files EXCEPT !["captureToken"] = tokens[p].capture]
        /\ UNCHANGED <<lease, host>>
    BY <1>1, <1>6 DEF CaptureToken, StoreToken, Write
  <2>2. pc'[p] = "captureBind" /\ tokens'[p].capture = files'["captureToken"]
    BY <1>1, <2>1 DEF Goto
  <2>3. files["captureToken"] = Empty /\ files' \in [Files -> Contents]
    BY <1>1, <1>2, <1>6, <2>1 DEF CaptureKnown, Tokens
  <2>4. CaptureKnown(p)' /\ DaemonKnown(p)'
    BY <1>1, <1>3, <2>2 DEF CaptureKnown, DaemonKnown
  <2> QED
    BY <1>1, <1>2, <1>3, <2>1, <2>2, <2>3, <2>4, HolderStep, StartupAssumption
    DEF Places, Empty
<1> QED
  BY <1>4, <1>5, <1>6 DEF CaptureToken

\* The capture listener is bound and announced.
LEMMA CaptureEndpointKeeps ==
    ASSUME SInv, NEW p \in Slots,
           CaptureBind(p) \/ CaptureEndpoint(p) \/ CaptureEndpointWrite(p)
    PROVE  SInv'
<1>1. /\ pc \in [Slots -> Places] /\ files \in [Files -> Contents]
      /\ tokens \in [Slots -> Tokens] /\ tokens[p] \in Tokens
      /\ captures \in [Slots -> Slots \cup {Nobody, "preferred"}]
      /\ {"captureToken", "captureEndpoint", "daemonToken", "daemonEndpoint"} = Files
  BY DEF SInv, Typed, Files
<1>2. CaptureKnown(p) /\ Running(p) /\ tokens' = [tokens EXCEPT ![p] = tokens[p]]
      /\ UNCHANGED <<lease, host>>
  BY <1>1 DEF SInv, Known, Running, CaptureBind, CaptureEndpoint, CaptureEndpointWrite
<1>3. CASE CaptureBind(p)
  <2>1. PICK address \in {"preferred", p} : captures' = [captures EXCEPT ![p] = address]
    BY <1>3 DEF CaptureBind
  <2>2. /\ pc[p] = "captureBind" /\ Goto(p, "captureEndpoint") /\ UNCHANGED files
        /\ pc'[p] = "captureEndpoint"
    BY <1>1, <1>3 DEF CaptureBind, Goto
  <2>3. CaptureKnown(p)' /\ DaemonKnown(p)'
    BY <1>1, <1>2, <2>2 DEF CaptureKnown, DaemonKnown
  <2> QED
    BY <1>1, <1>2, <2>1, <2>2, <2>3, HolderStep DEF Places
<1>4. CASE CaptureEndpoint(p)
  <2>1. /\ pc[p] = "captureEndpoint" /\ Goto(p, "captureEndpointWrite")
        /\ files' = [files EXCEPT !["captureEndpoint"] = Empty]
        /\ pc'[p] = "captureEndpointWrite"
        /\ captures' = [captures EXCEPT ![p] = captures[p]]
    BY <1>1, <1>4 DEF CaptureEndpoint, Goto, Write
  <2>2. /\ files' \in [Files -> Contents] /\ files'["captureToken"] = files["captureToken"]
    BY <1>1, <2>1 DEF Contents
  <2>3. CaptureKnown(p)' /\ DaemonKnown(p)'
    BY <1>1, <1>2, <2>1, <2>2 DEF CaptureKnown, DaemonKnown
  <2> QED
    BY <1>1, <1>2, <2>1, <2>2, <2>3, HolderStep DEF Places
<1>5. CASE CaptureEndpointWrite(p)
  <2>1. /\ pc[p] = "captureEndpointWrite" /\ Goto(p, "daemonToken")
        /\ files' = [files EXCEPT !["captureEndpoint"] = captures[p]]
        /\ pc'[p] = "daemonToken"
        /\ captures' = [captures EXCEPT ![p] = captures[p]]
    BY <1>1, <1>5 DEF CaptureEndpointWrite, Goto, Write
  <2>2. /\ files' \in [Files -> Contents] /\ files'["captureToken"] = files["captureToken"]
        /\ files'["captureEndpoint"] = captures[p]
    BY <1>1, <2>1 DEF Contents
  <2>3. CaptureKnown(p)' /\ DaemonKnown(p)'
    BY <1>1, <1>2, <2>1, <2>2 DEF CaptureKnown, DaemonKnown
  <2> QED
    BY <1>1, <1>2, <2>1, <2>2, <2>3, HolderStep DEF Places
<1> QED
  BY <1>3, <1>4, <1>5

\* From its own token on, the daemon leaves the capture files alone.
LEMMA OwnFileStep ==
    ASSUME SInv, NEW p \in Slots,
           pc[p] \in {"daemonToken", "daemonTokenMake", "daemonTokenWrite", "bind", "endpoint",
                      "endpointWrite"},
           NEW to \in {"daemonTokenMake", "daemonTokenWrite", "bind", "endpoint",
                       "endpointWrite", "serving"}, Goto(p, to),
           NEW token \in Tokens, tokens' = [tokens EXCEPT ![p] = token],
           token.capture = tokens[p].capture,
           files' \in [Files -> Contents], UNCHANGED <<lease, captures, host>>,
           files'["captureToken"] = files["captureToken"],
           files'["captureEndpoint"] = files["captureEndpoint"],
           DaemonKnown(p)'
    PROVE  SInv'
<1>1. /\ pc \in [Slots -> Places] /\ tokens \in [Slots -> Tokens]
      /\ captures \in [Slots -> Slots \cup {Nobody, "preferred"}]
      /\ CaptureKnown(p)
  BY DEF SInv, Typed, Known
<1>2. pc'[p] = to /\ tokens'[p] = token /\ captures' = [captures EXCEPT ![p] = captures[p]]
  BY <1>1 DEF Goto
<1>3. CaptureKnown(p)'
  BY <1>1, <1>2 DEF CaptureKnown
<1> QED
  BY <1>1, <1>2, <1>3, HolderStep DEF Places, Running

\* The daemon token is loaded, or made and written.
LEMMA DaemonTokenKeeps ==
    ASSUME SInv, NEW p \in Slots, DaemonToken(p)
    PROVE  SInv'
<1>1. /\ pc \in [Slots -> Places] /\ files \in [Files -> Contents]
      /\ tokens \in [Slots -> Tokens] /\ tokens[p] \in Tokens
      /\ {"captureToken", "captureEndpoint", "daemonToken", "daemonEndpoint"} = Files
  BY DEF SInv, Typed, Files
<1>2. ASSUME pc[p] = "daemonToken" PROVE SInv'
  <2>1. LoadToken(p, "daemon", "daemonToken", "bind", "daemonTokenMake", Ended(p))
    BY <1>2 DEF DaemonToken
  <2>2. UNCHANGED <<files, host>>
    BY <2>1 DEF LoadToken
  <2>3. CASE files["daemonToken"] = Nobody
    <3>1. Goto(p, "daemonTokenMake") /\ UNCHANGED <<lease, captures, tokens>>
      BY <2>1, <2>3, StartupAssumption DEF LoadToken
    <3>2. pc'[p] = "daemonTokenMake" /\ tokens' = [tokens EXCEPT ![p] = tokens[p]]
      BY <1>1, <3>1 DEF Goto
    <3>3. DaemonKnown(p)'
      BY <3>2 DEF DaemonKnown
    <3> QED
      BY <1>1, <1>2, <2>2, <3>1, <3>2, <3>3, OwnFileStep
  <2>4. CASE files["daemonToken"] \in Slots
    <3> DEFINE token == [tokens[p] EXCEPT !.daemon = files["daemonToken"]]
    <3>1. /\ Goto(p, "bind") /\ tokens' = [tokens EXCEPT ![p] = token]
          /\ UNCHANGED <<lease, captures>>
      BY <2>1, <2>4, StartupAssumption DEF LoadToken
    <3>2. /\ token \in Tokens /\ token.daemon = files["daemonToken"]
          /\ token.capture = tokens[p].capture
      BY <1>1, <2>4 DEF Tokens, Contents
    <3>3. pc'[p] = "bind" /\ tokens'[p] = token
      BY <1>1, <3>1 DEF Goto
    <3> HIDE DEF token
    <3>4. DaemonKnown(p)'
      BY <2>2, <3>2, <3>3 DEF DaemonKnown
    <3> QED
      BY <1>1, <1>2, <2>2, <3>1, <3>2, <3>4, OwnFileStep
  <2>5. CASE files["daemonToken"] \notin Slots \cup {Nobody}
    BY <2>1, <2>2, <2>5, EndedStep DEF LoadToken
  <2> QED
    BY <2>3, <2>4, <2>5
<1>3. ASSUME pc[p] = "daemonTokenMake" PROVE SInv'
  <2> DEFINE token == [tokens[p] EXCEPT !.daemon = p]
  <2>1. /\ tokens' = [tokens EXCEPT ![p] = token] /\ Goto(p, "daemonTokenWrite")
        /\ files' = [files EXCEPT !["daemonToken"] = Empty]
        /\ UNCHANGED <<lease, captures, host>>
    BY <1>3 DEF DaemonToken, MakeToken, Write
  <2>2. token \in Tokens /\ token.capture = tokens[p].capture /\ pc'[p] = "daemonTokenWrite"
    BY <1>1, <2>1 DEF Tokens, Contents, Goto
  <2>3. /\ files' \in [Files -> Contents]
        /\ files'["captureToken"] = files["captureToken"]
        /\ files'["captureEndpoint"] = files["captureEndpoint"]
    BY <1>1, <2>1 DEF Contents
  <2> HIDE DEF token
  <2>4. DaemonKnown(p)'
    BY <2>2 DEF DaemonKnown
  <2> QED
    BY <1>3, <2>1, <2>2, <2>3, <2>4, OwnFileStep
<1>4. ASSUME pc[p] = "daemonTokenWrite" PROVE SInv'
  <2>1. /\ tokens' = [tokens EXCEPT ![p] = tokens[p]] /\ Goto(p, "bind")
        /\ files' = [files EXCEPT !["daemonToken"] = tokens[p].daemon]
        /\ UNCHANGED <<lease, captures, host>>
    BY <1>1, <1>4 DEF DaemonToken, StoreToken, Write
  <2>2. /\ files' \in [Files -> Contents] /\ files'["daemonToken"] = tokens[p].daemon
        /\ files'["captureToken"] = files["captureToken"]
        /\ files'["captureEndpoint"] = files["captureEndpoint"]
        /\ pc'[p] = "bind" /\ tokens'[p] = tokens[p]
    BY <1>1, <2>1 DEF Tokens, Goto
  <2>3. DaemonKnown(p)'
    BY <2>2 DEF DaemonKnown
  <2> QED
    BY <1>1, <1>4, <2>1, <2>2, <2>3, OwnFileStep
<1> QED
  BY <1>2, <1>3, <1>4 DEF DaemonToken

\* It binds, and announces where.
LEMMA EndpointKeeps ==
    ASSUME SInv, NEW p \in Slots, Bind(p) \/ DaemonEndpoint(p) \/ DaemonEndpointWrite(p)
    PROVE  SInv'
<1>1. /\ pc \in [Slots -> Places] /\ files \in [Files -> Contents]
      /\ tokens \in [Slots -> Tokens] /\ tokens[p] \in Tokens
      /\ {"captureToken", "captureEndpoint", "daemonToken", "daemonEndpoint"} = Files
      /\ DaemonKnown(p)
  BY DEF SInv, Typed, Files, Known
<1>2. /\ tokens' = [tokens EXCEPT ![p] = tokens[p]] /\ UNCHANGED <<lease, captures, host>>
      /\ tokens' = tokens
  BY <1>1 DEF Bind, DaemonEndpoint, DaemonEndpointWrite
<1>3. CASE Bind(p)
  <2>1. pc[p] = "bind" /\ Goto(p, "endpoint") /\ UNCHANGED files /\ pc'[p] = "endpoint"
    BY <1>1, <1>3 DEF Bind, Goto
  <2>2. DaemonKnown(p)'
    BY <1>1, <1>2, <2>1 DEF DaemonKnown
  <2> QED
    BY <1>1, <1>2, <2>1, <2>2, OwnFileStep
<1>4. CASE DaemonEndpoint(p)
  <2>1. /\ pc[p] = "endpoint" /\ Goto(p, "endpointWrite") /\ pc'[p] = "endpointWrite"
        /\ files' = [files EXCEPT !["daemonEndpoint"] = Empty]
    BY <1>1, <1>4 DEF DaemonEndpoint, Goto, Write
  <2>2. /\ files' \in [Files -> Contents]
        /\ \A f \in Files : f # "daemonEndpoint" => files'[f] = files[f]
    BY <1>1, <2>1 DEF Contents
  <2>3. DaemonKnown(p)'
    BY <1>1, <1>2, <2>1, <2>2 DEF DaemonKnown
  <2> QED
    BY <1>1, <1>2, <2>1, <2>2, <2>3, OwnFileStep
<1>5. CASE DaemonEndpointWrite(p)
  <2>1. /\ pc[p] = "endpointWrite" /\ Goto(p, "serving") /\ pc'[p] = "serving"
        /\ files' = [files EXCEPT !["daemonEndpoint"] = p]
    BY <1>1, <1>5 DEF DaemonEndpointWrite, Goto, Write
  <2>2. /\ files' \in [Files -> Contents] /\ files'["daemonEndpoint"] = p
        /\ \A f \in Files : f # "daemonEndpoint" => files'[f] = files[f]
    BY <1>1, <2>1 DEF Contents
  <2>3. DaemonKnown(p)'
    BY <1>1, <1>2, <2>1, <2>2 DEF DaemonKnown
  <2> QED
    BY <1>1, <1>2, <2>1, <2>2, <2>3, OwnFileStep
<1> QED
  BY <1>3, <1>4, <1>5

-----------------------------------------------------------------------------
(* The clients, the invariant and the theorem. *)

\* A process that is spawned holds nothing yet.
LEMMA SpawnedKeeps ==
    ASSUME SInv, NEW p \in Slots, Spawned(p), UNCHANGED <<lease, files, tokens, captures>>,
           HostKnows'
    PROVE  SInv'
<1>1. pc' \in [Slots -> Places] /\ pc[p] = "free"
      /\ \A q \in Slots : pc'[q] = IF q = p THEN "start" ELSE pc[q]
  BY DEF Spawned, Goto, SInv, Typed, Places
<1>2. Typed' /\ Exclusive'
  BY <1>1 DEF SInv, Typed, Exclusive, Running
<1>3. Known'
  BY <1>1 DEF SInv, Known, CaptureKnown, DaemonKnown
<1> QED
  BY <1>2, <1>3 DEF SInv

\* Clients read, and start processes.
LEMMA ClientKeeps ==
    ASSUME SInv, UNCHANGED <<lease, files, tokens, captures>>,
           UNCHANGED pc \/ \E p \in Slots : Spawned(p), HostKnows'
    PROVE  SInv'
<1>1. CASE UNCHANGED pc
  BY <1>1 DEF SInv, Typed, Exclusive, Running, Known, CaptureKnown, DaemonKnown
<1> QED
  BY <1>1, SpawnedKeeps

\* Nobody runs and no file exists at first.
LEMMA StartupInit == Init => SInv
<1> SUFFICES ASSUME Init PROVE SInv
  OBVIOUS
<1>1. Typed
  BY DEF Init, Typed, Places, Contents, Tokens
<1>2. Exclusive /\ Known /\ HostKnows
  BY DEF Init, Exclusive, Running, Known, CaptureKnown, DaemonKnown, HostKnows, Contents
<1> QED
  BY <1>1, <1>2 DEF SInv

\* Every step of a daemon, the desktop, the host or the system keeps the invariant.
LEMMA StartupNext == SInv /\ [Next]_vars => SInv'
<1> SUFFICES ASSUME SInv, [Next]_vars PROVE SInv'
  OBVIOUS
<1>1. ASSUME NEW p \in Slots, DaemonStep(p) PROVE SInv'
  BY <1>1, AcquireKeeps, CaptureTokenKeeps, CaptureEndpointKeeps, DaemonTokenKeeps,
     EndpointKeeps DEF DaemonStep
<1>2. ASSUME NEW p \in Slots, Exit(p) PROVE SInv'
  BY <1>2, EndedStep DEF Exit
<1>3. CASE DesktopStep \/ GiveUp
  <2>1. /\ UNCHANGED <<lease, files, tokens, captures, host>>
        /\ UNCHANGED pc \/ \E p \in Slots : Spawned(p)
    BY <1>3 DEF DesktopStep, GiveUp, ReadEndpoint, Connect, ConnectFails, Disconnected
  <2>2. HostKnows'
    BY <2>1 DEF SInv, HostKnows
  <2> QED
    BY <2>1, <2>2, ClientKeeps
<1>4. CASE HostStep \/ HostGivesUp
  <2>1. /\ UNCHANGED <<lease, files, tokens, captures>>
        /\ UNCHANGED pc \/ \E p \in Slots : Spawned(p)
    BY <1>4 DEF HostStep, HostGivesUp, HostLooks, HostReadsEndpoint, HostReadsToken, HostPairs,
                HostMisses
  <2>2. HostKnows'
    <3>1. /\ HostKnows /\ UNCHANGED files
          /\ files \in [Files -> Contents] /\ "captureEndpoint" \in Files
      BY <2>1 DEF SInv, Typed, Files
    <3>2. CASE HostReadsEndpoint
      BY <3>1, <3>2 DEF HostReadsEndpoint, HostKnows
    <3>8. CASE HostReadsToken
      BY <3>1, <3>8 DEF HostReadsToken, HostKnows, Contents
    <3>3. CASE \E phase \in {"found", "paired", "failed"} : host' = [host EXCEPT !.phase = phase]
      BY <3>1, <3>3 DEF HostKnows
    <3>4. CASE HostMisses
      BY <3>1, <3>4 DEF HostMisses, HostKnows, Contents
    <3>5. HostLooks => host' = [host EXCEPT !.phase = "found"]
      BY DEF HostLooks
    <3>6. HostPairs => host' = [host EXCEPT !.phase = "paired"]
      BY DEF HostPairs
    <3>7. HostGivesUp => host' = [host EXCEPT !.phase = "failed"]
      BY DEF HostGivesUp
    <3> QED
      BY <1>4, <3>2, <3>3, <3>4, <3>5, <3>6, <3>7, <3>8 DEF HostStep
  <2> QED
    BY <2>1, <2>2, ClientKeeps
<1>5. CASE UNCHANGED vars
  BY <1>5, ClientKeeps DEF vars, SInv, HostKnows
<1> QED
  BY <1>1, <1>2, <1>3, <1>4, <1>5 DEF Next

\* What the host pairs with knows the token (native_host.rs:302-318).
LEMMA Accepted == SInv => PairingIsAccepted
<1> SUFFICES ASSUME SInv, HostPairs
             PROVE  \E p \in Slots : captures[p] = host.endpoint /\ tokens[p].capture = host.token
  BY DEF PairingIsAccepted
<1>1. PICK p \in Slots : captures[p] # Nobody /\ captures[p] = host.endpoint
  BY DEF HostPairs, Listens
<1>2. tokens[p].capture = files["captureToken"]
  BY <1>1 DEF SInv, Known, CaptureKnown
<1>3. host.token = files["captureToken"]
  BY DEF SInv, HostKnows, HostPairs
<1> QED
  BY <1>1, <1>2, <1>3

\* The invariant of the startup.
THEOREM StartupInvariance == Spec => []SInv
<1> QED
  BY StartupInit, StartupNext, PTL DEF Spec

\* A daemon that serves is found through the files, and so is what the host pairs
\* the browser with, whatever processes came and went before and beside it.
THEOREM ServingDaemonIsFound == Spec => ServingIsFound
<1> DEFINE Found == ServingIsAnnounced' /\ PairingIsAccepted
<1>1. SInv /\ [Next]_vars => [Found]_vars
  <2> SUFFICES ASSUME SInv, [Next]_vars PROVE Found
    OBVIOUS
  <2>1. SInv'
    BY StartupNext
  <2>2. ServingIsAnnounced'
    BY <2>1 DEF SInv, Known, CaptureKnown, DaemonKnown, ServingIsAnnounced, Serving
  <2> QED
    BY <2>2, Accepted
<1> HIDE DEF Found
<1>2. Spec => [][Found]_vars
  BY <1>1, StartupInvariance, PTL DEF Spec
<1> QED
  BY <1>2 DEF ServingIsFound, Found
=============================================================================
