---------------------------- MODULE ExtensionProofs ----------------------------
(***************************************************************************)
(* Theorems about Extension, for any number of downloads, reports and        *)
(* sockets and a queue of any length: no download is lost between the        *)
(* browser and the daemon, none that was given back is taken over again,     *)
(* what was forgotten stays so, and a report that is held gets sent.          *)
(*                                                                         *)
(* The worker matches answers with requests by their order alone. What a     *)
(* socket still carries of them, the answers not read yet and behind them    *)
(* the requests the daemon has not read yet, is its line; the requests and    *)
(* answers on the line of the connection are the requests that wait, in the   *)
(* order in which they wait, and there are none on any other line.            *)
(***************************************************************************)
EXTENDS Extension, SequenceTheorems, TLAPS

-----------------------------------------------------------------------------
(* Types. *)

Things == Items \cup Reports

Outgoing == [kind : {"hello", "report"}, about : Things \cup {NoSocket}]
                \cup [kind : {"download"}, about : Items]
Incoming == [kind : {"ready"}, about : BOOLEAN] \cup [kind : {"queued", "unavailable"}, about : Items]

SocketType == [state : {"free", "connecting", "open", "closing"}, sent : Seq(Outgoing), got : Seq(Incoming)]
ChannelType == [connection : Sockets \cup {NoSocket}, greeted : BOOLEAN, intercepts : BOOLEAN,
                settling : 0 .. MaxSettling, timer : BOOLEAN]
HeldType == [load : {"loading", "stale", "done"}, queued : Seq(Things), pending : Seq(Things),
             stored : Seq(Things), writes : Seq(Seq(Things)), seen : SUBSET Things]
ItemType == [copy : {"none", "created", "cancelling", "running", "stopped"},
             window : {"none", "opening", "open", "progress", "closed", "left", "failed"},
             start : {"idle", "connecting", "asked", "refused"},
             cancel : BOOLEAN, copies : Nat, tries : Nat, fresh : Nat,
             marked : BOOLEAN, again : BOOLEAN]
PastType == [restarts : Nat, commands : Nat, ended : BOOLEAN, dropped : BOOLEAN, forgotten : SUBSET Things]

NetType == [sock : [Sockets -> SocketType], chan : ChannelType, held : HeldType]

Typed ==
    /\ Net \in NetType
    /\ Len(held.pending) <= MaxHeld
    /\ waiting \in Seq(Items)
    /\ item \in [Items -> ItemType]
    /\ jobs \subseteq Items
    /\ past \in PastType

-----------------------------------------------------------------------------
(* A download that was given back. *)

\* The copy that the extension starts first is known by its mark.
Marked(it) == it.tries <= 1 => /\ it.fresh <= it.tries
                               /\ it.fresh > 0 => it.marked
                               /\ ~it.again

GivenBack == \A i \in Items : past.ended \/ Marked(item[i])

-----------------------------------------------------------------------------
(* What is held. *)

\* While the session storage is being read, nothing is written to it.
Reading == held.load = "loading" => held.pending = <<>> /\ held.writes = <<>>

\* What is forgotten has been read already, or will not be used; a download
\* that was held has been seen, so it is not reported again.
Forgetting ==
    ~past.ended =>
        /\ held.load = "loading" => past.forgotten = {} /\ ToSet(held.stored) \subseteq Reports
        /\ (past.forgotten \cup ToSet(held.pending) \cup ToSet(held.queued)) \cap Items \subseteq held.seen
        /\ ForgottenStaysForgotten

-----------------------------------------------------------------------------
(* Requests and answers. *)

Asks(message) == message.kind \in {"download", "queued", "unavailable"}

\* What a socket carries, in the order in which it reaches the worker.
Line(k) == k.got \o k.sent

\* The requests and answers of a line are those of the queue, in its order.
InOrder(line, queue) ==
    /\ \A n \in 1 .. Len(line) : Asks(line[n]) => \E k \in 1 .. Len(queue) : queue[k] = line[n].about
    /\ \A m, n \in 1 .. Len(line) : Asks(line[m]) /\ Asks(line[n]) /\ m < n =>
          \E j, k \in 1 .. Len(queue) : j < k /\ queue[j] = line[m].about /\ queue[k] = line[n].about
    /\ \A k \in 1 .. Len(queue) : \E n \in 1 .. Len(line) : Asks(line[n]) /\ line[n].about = queue[k]

\* Each download waits once, and what was queued is with the daemon.
Requests ==
    /\ \A j, k \in 1 .. Len(waiting) : waiting[j] = waiting[k] => j = k
    /\ \A k \in 1 .. Len(waiting) : item[waiting[k]].start = "asked"
    /\ \A s \in Sockets :
         /\ sock[s].state \in {"free", "connecting"} => sock[s].sent = <<>> /\ sock[s].got = <<>>
         /\ chan.connection = s => sock[s].state \in {"connecting", "open"}
         /\ \A n \in 1 .. Len(sock[s].got) : sock[s].got[n].kind = "queued" => sock[s].got[n].about \in jobs

Awaited(s) == IF s = chan.connection THEN waiting ELSE <<>>

Matched ==
    ~past.ended /\ ~past.dropped =>
        /\ \A s \in Sockets : InOrder(Line(sock[s]), Awaited(s))
        /\ chan.connection = NoSocket => waiting = <<>>

\* Where a download is, whose copy the browser gave up.
Followed ==
    ~past.ended => \A i \in Items :
        /\ item[i].copy = "stopped" => item[i].window # "none"
        /\ item[i].window = "closed" => item[i].copies > 0
        /\ ~past.dropped /\ item[i].window = "progress" => i \in jobs

EInv == Typed /\ GivenBack /\ Reading /\ Forgetting /\ Requests /\ Matched /\ Followed

-----------------------------------------------------------------------------
(* The worker's own calls. *)

\* A sequence of messages grows by reports and greetings only.
Grows(a, b) ==
    /\ Len(a) <= Len(b)
    /\ \A n \in 1 .. Len(a) : b[n] = a[n]
    /\ \A n \in (Len(a) + 1) .. Len(b) : ~Asks(b[n])

\* A call touches no request and no answer, and sends on an open socket only.
Steady(net, out) ==
    /\ out \in NetType
    /\ out.chan.connection = net.chan.connection
    /\ \A s \in Sockets :
         /\ out.sock[s].state = net.sock[s].state
         /\ out.sock[s].got = net.sock[s].got
         /\ Grows(net.sock[s].sent, out.sock[s].sent)
         /\ net.sock[s].state \in {"free", "connecting"} => out.sock[s].sent = net.sock[s].sent

\* A call keeps what the session storage is to it, and holds nothing new but R.
Keeps(h, g, R) ==
    /\ g.load = h.load /\ g.stored = h.stored
    /\ h.load = "loading" => g.pending = h.pending /\ g.writes = h.writes
    /\ Len(h.pending) <= MaxHeld => Len(g.pending) <= MaxHeld
    /\ ToSet(g.pending) \cup ToSet(g.queued) \subseteq ToSet(h.pending) \cup ToSet(h.queued) \cup R

\* What a call no longer holds was sent, or was the oldest of a full queue.
Sends(h, net) ==
    \A r \in Holds(h) \ Holds(net.held) : r \in SentOn(net.sock) \/ Held(h) >= MaxHeld

\* The elements of a sequence of things are things.
LEMMA ThingsOf ==
    ASSUME NEW S, NEW q \in Seq(S)
    PROVE  /\ Len(q) \in Nat /\ DOMAIN q = 1 .. Len(q) /\ ToSet(q) \subseteq S
           /\ ToSet(q) = {q[n] : n \in 1 .. Len(q)}
           /\ \A n \in 1 .. Len(q) : q[n] \in S
<1>1. Len(q) \in Nat /\ DOMAIN q = 1 .. Len(q)
  BY LenProperties
<1>2. \A n \in 1 .. Len(q) : q[n] \in S
  BY <1>1, ElementOfSeq
<1>3. ToSet(q) = {q[n] : n \in 1 .. Len(q)}
  BY <1>1, Zenon DEF ToSet
<1>4. ToSet(q) \subseteq S
  BY <1>2, <1>3
<1> QED
  BY <1>1, <1>2, <1>3, <1>4

\* One more thing at the end.
LEMMA AppendTo ==
    ASSUME NEW S, NEW q \in Seq(S), NEW x \in S
    PROVE  /\ Append(q, x) \in Seq(S) /\ Len(Append(q, x)) = Len(q) + 1
           /\ ToSet(Append(q, x)) = ToSet(q) \cup {x}
<1>1. PICK t : t = Append(q, x)
  OBVIOUS
<1>2. /\ t \in Seq(S) /\ Len(t) = Len(q) + 1
      /\ \A i \in 1 .. Len(q) : t[i] = q[i]
      /\ t[Len(q) + 1] = x
  BY <1>1, AppendProperties
<1>3. Len(q) \in Nat /\ ToSet(q) = {q[n] : n \in 1 .. Len(q)} /\ ToSet(t) = {t[n] : n \in 1 .. Len(q) + 1}
  BY <1>2, ThingsOf
<1>4. 1 .. Len(q) + 1 = (1 .. Len(q)) \cup {Len(q) + 1}
  BY <1>3
<1>5. ToSet(t) = ToSet(q) \cup {x}
  BY <1>2, <1>3, <1>4
<1> QED
  BY <1>1, <1>2, <1>5

\* Nothing is in a sequence of none.
LEMMA ToEmpty == ToSet(<<>>) = {} /\ Len(<<>>) = 0
<1>1. <<>> \in Seq({}) /\ Len(<<>>) = 0
  BY EmptySeq
<1>2. ToSet(<<>>) = {(<<>>)[n] : n \in 1 .. 0}
  BY <1>1, ThingsOf
<1> QED
  BY <1>1, <1>2

\* A sequence grows by nothing.
LEMMA GrowsByNone == ASSUME NEW S, NEW q \in Seq(S) PROVE Grows(q, q)
  BY DEF Grows

\* Nothing changes.
LEMMA SteadyStays == ASSUME NEW net \in NetType PROVE Steady(net, net)
<1> SUFFICES ASSUME NEW s \in Sockets PROVE Grows(net.sock[s].sent, net.sock[s].sent)
  BY DEF Steady
<1> QED
  BY GrowsByNone DEF NetType, SocketType

\* One call after another.
LEMMA SteadyThen ==
    ASSUME NEW a, NEW b, NEW c, a \in NetType, Steady(a, b), Steady(b, c)
    PROVE  Steady(a, c)
<1> SUFFICES ASSUME NEW s \in Sockets PROVE Grows(a.sock[s].sent, c.sock[s].sent)
  BY DEF Steady
<1>1. PICK x, y, z : x = a.sock[s].sent /\ y = b.sock[s].sent /\ z = c.sock[s].sent
  OBVIOUS
<1>2. Grows(x, y) /\ Grows(y, z)
  BY <1>1 DEF Steady
<1>3. Len(x) \in Nat /\ Len(y) \in Nat /\ Len(z) \in Nat
  BY <1>1 DEF Steady, NetType, SocketType
<1>4. Grows(x, z)
  BY <1>2, <1>3 DEF Grows
<1> QED
  BY <1>1, <1>4

\* connect prepares a socket, and no more.
LEMMA ConnectIs ==
    ASSUME NEW net \in NetType
    PROVE  /\ Steady(net, Connect(net))
           /\ Connect(net).sock = net.sock /\ Connect(net).held = net.held
<1>1. CASE Connect(net) = net
  BY <1>1, SteadyStays
<1>2. CASE Connect(net) # net
  <2>1. PICK n \in 0 .. MaxSettling : Connect(net) = [net EXCEPT !.chan.settling = n]
    <3>1. Connect(net) = [net EXCEPT !.chan.settling =
                            IF net.chan.settling = MaxSettling THEN net.chan.settling ELSE net.chan.settling + 1]
      BY <1>2, Zenon DEF Connect
    <3>2. (IF net.chan.settling = MaxSettling THEN net.chan.settling ELSE net.chan.settling + 1) \in 0 .. MaxSettling
      BY ExtensionAssumption DEF NetType, ChannelType
    <3> QED
      BY <3>1, <3>2
  <2>2. PICK out : out = [net EXCEPT !.chan.settling = n]
    OBVIOUS
  <2>3. /\ out \in NetType /\ out.sock = net.sock /\ out.held = net.held
        /\ out.chan.connection = net.chan.connection
    BY <2>2 DEF NetType, ChannelType
  <2>4. Steady(net, out)
    BY <2>3, SteadyStays DEF Steady
  <2> QED
    BY <2>1, <2>2, <2>3, <2>4
<1> QED
  BY <1>1, <1>2

\* What is sent on the open connection goes behind what was sent before.
LEMMA SendingIs ==
    ASSUME NEW net \in NetType, Ready(net), NEW grown \in Seq(Outgoing),
           Grows(net.sock[net.chan.connection].sent, grown),
           NEW out, out = [net EXCEPT !.sock[net.chan.connection].sent = grown]
    PROVE  /\ Steady(net, out) /\ out.chan = net.chan /\ out.held = net.held
           /\ \A n \in 1 .. Len(grown) : grown[n].about \in SentOn(out.sock)
<1>1. PICK c : c = net.chan.connection
  OBVIOUS
<1>2. /\ c \in Sockets /\ net.sock[c].state = "open"
      /\ net.sock \in [Sockets -> SocketType] /\ net.sock[c] \in SocketType
  BY <1>1 DEF Ready, NetType, ChannelType
<1>3. PICK k : k = [net.sock[c] EXCEPT !.sent = grown]
  OBVIOUS
<1>4. /\ k \in SocketType /\ k.sent = grown /\ k.got = net.sock[c].got /\ k.state = "open"
  BY <1>2, <1>3 DEF SocketType
<1>5. PICK new : new = [net.sock EXCEPT ![c] = k]
  OBVIOUS
<1>6. /\ new \in [Sockets -> SocketType] /\ new[c] = k
      /\ \A s \in Sockets : s # c => new[s] = net.sock[s]
  BY <1>2, <1>4, <1>5
<1>7. out = [net EXCEPT !.sock = new]
  BY <1>1, <1>3, <1>5
<1>8. out.chan = net.chan /\ out.held = net.held /\ out.sock = new /\ out \in NetType
  BY <1>6, <1>7 DEF NetType
<1>9. Grows(net.sock[c].sent, k.sent)
  BY <1>1, <1>4
<1>10. ASSUME NEW s \in Sockets
       PROVE  /\ new[s].state = net.sock[s].state
              /\ new[s].got = net.sock[s].got
              /\ Grows(net.sock[s].sent, new[s].sent)
              /\ net.sock[s].state \in {"free", "connecting"} => new[s].sent = net.sock[s].sent
  <2>1. CASE s = c
    BY <1>2, <1>4, <1>6, <1>9, <2>1
  <2>2. CASE s # c
    <3>1. net.sock[s].sent \in Seq(Outgoing)
      BY <1>2 DEF SocketType
    <3> QED
      BY <1>6, <2>2, <3>1, GrowsByNone
  <2> QED
    BY <2>1, <2>2
<1>11. Steady(net, out)
  BY <1>8, <1>10 DEF Steady
<1>12. ASSUME NEW n \in 1 .. Len(grown) PROVE grown[n].about \in SentOn(out.sock)
  <2>1. n \in DOMAIN new[c].sent /\ new[c].sent[n].about = grown[n].about
    BY <1>4, <1>6, LenProperties
  <2>2. grown[n].about \in {new[c].sent[m].about : m \in DOMAIN new[c].sent}
    BY <2>1
  <2>3. grown[n].about \in SentOn(new)
    BY <1>2, <2>2 DEF SentOn
  <2> QED
    BY <1>8, <2>3
<1> QED
  BY <1>8, <1>11, <1>12

\* A report is a message.
LEMMA ReportMessage ==
    ASSUME NEW r \in Things
    PROVE  /\ Message("report", r) \in Outgoing /\ ~Asks(Message("report", r))
           /\ Message("report", r).about = r
  BY DEF Message, Outgoing, Asks

\* The sequences of an open connection.
LEMMA ReadyHas ==
    ASSUME NEW net \in NetType, Ready(net)
    PROVE  net.sock[net.chan.connection].sent \in Seq(Outgoing)
  BY DEF Ready, NetType, ChannelType, SocketType

\* One report is sent.
LEMMA SendIs ==
    ASSUME NEW net \in NetType, Ready(net), NEW r \in Things
    PROVE  /\ Steady(net, Send(net, Message("report", r)))
           /\ Send(net, Message("report", r)).chan = net.chan
           /\ Send(net, Message("report", r)).held = net.held
           /\ r \in SentOn(Send(net, Message("report", r)).sock)
<1>1. PICK m : m = Message("report", r)
  OBVIOUS
<1>2. m \in Outgoing /\ ~Asks(m) /\ m.about = r
  BY <1>1, ReportMessage
<1>3. PICK old : old = net.sock[net.chan.connection].sent
  OBVIOUS
<1>4. PICK grown : grown = Append(old, m)
  OBVIOUS
<1>5. /\ old \in Seq(Outgoing) /\ grown \in Seq(Outgoing)
      /\ Len(grown) = Len(old) + 1 /\ Len(old) \in Nat
      /\ \A n \in 1 .. Len(old) : grown[n] = old[n]
      /\ grown[Len(old) + 1] = m
  <2>1. old \in Seq(Outgoing)
    BY <1>3, ReadyHas
  <2>2. Len(old) \in Nat
    BY <2>1, LenProperties
  <2> QED
    BY <1>2, <1>4, <2>1, <2>2, AppendProperties
<1>6. Grows(old, grown)
  BY <1>2, <1>5 DEF Grows
<1>7. PICK out : out = [net EXCEPT !.sock[net.chan.connection].sent = grown]
  OBVIOUS
<1>8. /\ Steady(net, out) /\ out.chan = net.chan /\ out.held = net.held
      /\ \A n \in 1 .. Len(grown) : grown[n].about \in SentOn(out.sock)
  BY ONLY <1>3, <1>5, <1>6, <1>7, SendingIs, Ready(net), net \in NetType
<1>9. r \in SentOn(out.sock)
  BY <1>2, <1>5, <1>8
<1>10. Send(net, m) = out
  BY <1>3, <1>4, <1>7, Zenon DEF Send
<1> QED
  BY <1>1, <1>8, <1>9, <1>10

\* Every report held is sent.
LEMMA SendPendingIs ==
    ASSUME NEW net \in NetType, Ready(net)
    PROVE  /\ Steady(net, SendPending(net))
           /\ SendPending(net).chan = net.chan
           /\ SendPending(net).held = net.held
           /\ ToSet(net.held.pending) \subseteq SentOn(SendPending(net).sock)
<1>1. PICK p : p = net.held.pending
  OBVIOUS
<1>2. p \in Seq(Things)
  BY <1>1 DEF NetType, HeldType
<1>3. /\ Len(p) \in Nat /\ DOMAIN p = 1 .. Len(p)
      /\ \A n \in 1 .. Len(p) : p[n] \in Things
      /\ ToSet(p) = {p[n] : n \in 1 .. Len(p)}
  BY <1>2, ThingsOf
<1>4. PICK more : more = [n \in DOMAIN net.held.pending |-> Message("report", net.held.pending[n])]
  OBVIOUS
<1>15. more = [n \in 1 .. Len(p) |-> Message("report", p[n])]
  BY <1>1, <1>3, <1>4
<1>5. \A n \in 1 .. Len(p) : more[n] \in Outgoing /\ ~Asks(more[n]) /\ more[n].about = p[n]
  BY <1>3, <1>15, ReportMessage
<1>6. more \in Seq(Outgoing) /\ Len(more) = Len(p)
  BY <1>3, <1>15, <1>5
<1>7. PICK old : old = net.sock[net.chan.connection].sent
  OBVIOUS
<1>8. PICK grown : grown = old \o more
  OBVIOUS
<1>9. /\ old \in Seq(Outgoing) /\ grown \in Seq(Outgoing)
      /\ Len(grown) = Len(old) + Len(p) /\ Len(old) \in Nat
      /\ \A n \in 1 .. Len(old) + Len(p) : grown[n] = IF n <= Len(old) THEN old[n] ELSE more[n - Len(old)]
  <2>1. old \in Seq(Outgoing)
    BY <1>7, ReadyHas
  <2> QED
    BY <1>6, <1>8, <2>1, ConcatProperties, LenProperties
<1>10. Grows(old, grown)
  <2>1. \A n \in 1 .. Len(old) : grown[n] = old[n]
    BY <1>3, <1>9
  <2>2. ASSUME NEW n \in (Len(old) + 1) .. Len(grown) PROVE ~Asks(grown[n])
    <3>1. n - Len(old) \in 1 .. Len(p) /\ n \in 1 .. Len(old) + Len(p) /\ ~(n <= Len(old))
      BY <1>3, <1>9
    <3>2. grown[n] = more[n - Len(old)]
      BY <1>9, <3>1
    <3> QED
      BY <1>5, <3>1, <3>2
  <2>3. Len(old) <= Len(grown)
    BY <1>3, <1>9
  <2> QED
    BY <2>1, <2>2, <2>3 DEF Grows
<1>11. PICK out : out = [net EXCEPT !.sock[net.chan.connection].sent = grown]
  OBVIOUS
<1>12. /\ Steady(net, out) /\ out.chan = net.chan /\ out.held = net.held
       /\ \A n \in 1 .. Len(grown) : grown[n].about \in SentOn(out.sock)
  BY ONLY <1>7, <1>9, <1>10, <1>11, SendingIs, Ready(net), net \in NetType
<1>13. ASSUME NEW n \in 1 .. Len(p) PROVE p[n] \in SentOn(out.sock)
  <2>1. /\ Len(old) + n \in 1 .. Len(grown) /\ Len(old) + n \in 1 .. Len(old) + Len(p)
        /\ ~(Len(old) + n <= Len(old)) /\ (Len(old) + n) - Len(old) = n
    BY <1>3, <1>9
  <2>2. grown[Len(old) + n] = more[n]
    BY <1>9, <2>1
  <2> QED
    BY <1>5, <1>12, <2>1, <2>2
<1>14. SendPending(net) = out
  BY <1>4, <1>7, <1>8, <1>11, Zenon DEF SendPending
<1> QED
  BY <1>1, <1>3, <1>12, <1>13, <1>14

\* What a call on the store of the reports leaves alone.
Aside(h, g) == g.load = h.load /\ g.stored = h.stored /\ g.queued = h.queued /\ g.seen = h.seen

\* savePending writes, and no more.
LEMMA SaveIs ==
    ASSUME NEW net \in NetType
    PROVE  /\ Steady(net, SavePending(net))
           /\ SavePending(net).sock = net.sock /\ SavePending(net).chan = net.chan
           /\ Aside(net.held, SavePending(net).held)
           /\ SavePending(net).held.pending = net.held.pending
<1>1. CASE SavePending(net) = net
  BY <1>1, SteadyStays DEF Aside
<1>2. CASE SavePending(net) # net
  <2>1. PICK w : w = Append(net.held.writes, net.held.pending)
    OBVIOUS
  <2>2. SavePending(net) = [net EXCEPT !.held.writes = w]
    BY <1>2, <2>1, Zenon DEF SavePending
  <2>3. net.held \in HeldType
    BY DEF NetType
  <2>4. w \in Seq(Seq(Things))
    <3>1. net.held.writes \in Seq(Seq(Things)) /\ net.held.pending \in Seq(Things)
      BY <2>3 DEF HeldType
    <3> QED
      BY <2>1, <3>1, AppendProperties
  <2>5. PICK g : g = [net.held EXCEPT !.writes = w]
    OBVIOUS
  <2>6. g \in HeldType /\ Aside(net.held, g) /\ g.pending = net.held.pending
    BY <2>3, <2>4, <2>5 DEF HeldType, Aside
  <2>7. PICK out : out = [net EXCEPT !.held = g]
    OBVIOUS
  <2>8. out \in NetType /\ out.sock = net.sock /\ out.chan = net.chan /\ out.held = g
    BY <2>6, <2>7 DEF NetType
  <2>9. Steady(net, out)
    BY <2>8, SteadyStays DEF Steady
  <2>10. SavePending(net) = out
    BY <2>2, <2>5, <2>7
  <2> QED
    BY <2>6, <2>8, <2>9, <2>10
<1> QED
  BY <1>1, <1>2

\* A queue is cut to its length from the front.
LEMMA NewestIs ==
    ASSUME NEW list \in Seq(Things)
    PROVE  /\ Newest(list) \in Seq(Things) /\ Len(Newest(list)) <= MaxHeld
           /\ ToSet(Newest(list)) \subseteq ToSet(list)
           /\ Len(list) <= MaxHeld => Newest(list) = list
<1>1. /\ Len(list) \in Nat /\ DOMAIN list = 1 .. Len(list) /\ MaxHeld \in Nat \ {0}
      /\ ToSet(list) = {list[n] : n \in 1 .. Len(list)}
  BY ThingsOf, ExtensionAssumption
<1>2. CASE Len(list) <= MaxHeld
  BY <1>1, <1>2 DEF Newest
<1>3. CASE ~(Len(list) <= MaxHeld)
  <2>1. PICK m \in Int : m = Len(list) - MaxHeld + 1
    BY <1>1
  <2>2. PICK l \in Int : l = Len(list)
    <3>1. Len(list) \in Int
      BY <1>1
    <3> QED
      BY <3>1, Zenon
  <2>3. m \in 1 .. l /\ l - m + 1 = MaxHeld /\ m <= l
    BY <1>1, <1>3, <2>1, <2>2
  <2>4. \A i \in m .. l : list[i] \in ToSet(list)
    BY <1>1, <2>2, <2>3
  <2>5. PICK cut : cut = SubSeq(list, m, l)
    OBVIOUS
  <2>6. cut \in Seq(ToSet(list)) /\ Len(cut) = MaxHeld
    BY <2>3, <2>4, <2>5, SubSeqProperties
  <2>7. ToSet(cut) \subseteq ToSet(list)
    BY <2>6, ThingsOf
  <2>8. ToSet(list) \subseteq Things
    BY ThingsOf
  <2>9. cut \in Seq(Things)
    BY <2>6, <2>8
  <2>10. Newest(list) = cut
    BY <1>3, <2>1, <2>2, <2>5 DEF Newest
  <2> QED
    BY <1>1, <1>3, <2>6, <2>7, <2>9, <2>10
<1> QED
  BY <1>2, <1>3

\* flush sends every report held, or none.
LEMMA FlushIs ==
    ASSUME NEW net \in NetType
    PROVE  /\ Steady(net, Flush(net)) /\ Flush(net).chan = net.chan
           /\ Aside(net.held, Flush(net).held)
           /\ \/ Flush(net) = net
              \/ /\ Flush(net).held.pending = <<>>
                 /\ ToSet(net.held.pending) \subseteq SentOn(Flush(net).sock)
<1>1. CASE ~Ready(net)
  <2>1. Flush(net) = net
    BY <1>1 DEF Flush
  <2> QED
    BY <2>1, SteadyStays DEF Aside
<1>2. CASE Ready(net)
  <2>1. PICK sent : sent = SendPending(net)
    OBVIOUS
  <2>2. /\ Steady(net, sent) /\ sent.chan = net.chan /\ sent.held = net.held
        /\ ToSet(net.held.pending) \subseteq SentOn(sent.sock) /\ sent \in NetType
    BY <1>2, <2>1, SendPendingIs DEF Steady
  <2>3. PICK empty : empty = [sent EXCEPT !.held.pending = <<>>]
    OBVIOUS
  <2>4. /\ empty \in NetType /\ empty.sock = sent.sock /\ empty.chan = sent.chan
        /\ Aside(net.held, empty.held) /\ empty.held.pending = <<>>
    <3>1. PICK g : g = [sent.held EXCEPT !.pending = <<>>]
      OBVIOUS
    <3>2. sent.held \in HeldType /\ sent.held = net.held
      BY <2>2 DEF NetType
    <3>3. g \in HeldType /\ Aside(net.held, g) /\ g.pending = <<>>
      BY <3>1, <3>2, EmptySeq DEF HeldType, Aside
    <3>4. empty = [sent EXCEPT !.held = g]
      BY <2>3, <3>1
    <3> QED
      BY <2>2, <3>3, <3>4 DEF NetType
  <2>5. Steady(net, empty)
    BY <2>2, <2>4 DEF Steady
  <2>6. PICK out : out = SavePending(empty)
    OBVIOUS
  <2>7. /\ Steady(empty, out) /\ out.sock = empty.sock /\ out.chan = empty.chan
        /\ Aside(empty.held, out.held) /\ out.held.pending = <<>>
    BY <2>4, <2>6, SaveIs
  <2>8. Steady(net, out)
    BY <2>5, <2>7, SteadyThen
  <2>9. Flush(net) = out
    BY <1>2, <2>1, <2>3, <2>6, Zenon DEF Flush
  <2> QED
    BY <2>2, <2>4, <2>7, <2>8, <2>9 DEF Aside
<1> QED
  BY <1>1, <1>2

\* enqueue holds the report, and sends what it can.
LEMMA EnqueueIs ==
    ASSUME NEW net \in NetType, NEW r \in Things
    PROVE  /\ Steady(net, Enqueue(net, r))
           /\ Enqueue(net, r).held.seen = net.held.seen
           /\ Keeps(net.held, Enqueue(net, r).held, {r})
           /\ Sends(net.held, Enqueue(net, r))
<1>1. PICK h : h = net.held
  OBVIOUS
<1>2. /\ h \in HeldType /\ h.pending \in Seq(Things) /\ h.queued \in Seq(Things)
      /\ h.stored \in Seq(Things)
  BY <1>1 DEF NetType, HeldType
<1>3. CASE h.load = "loading"
  <2>1. PICK q : q = Append(h.queued, r)
    OBVIOUS
  <2>2. q \in Seq(Things) /\ ToSet(q) = ToSet(h.queued) \cup {r}
    BY <1>2, <2>1, AppendTo
  <2>3. PICK g : g = [h EXCEPT !.queued = q]
    OBVIOUS
  <2>4. g \in HeldType /\ g.queued = q /\ g.pending = h.pending /\ g.load = h.load
        /\ g.stored = h.stored /\ g.writes = h.writes /\ g.seen = h.seen
    BY <1>2, <2>2, <2>3 DEF HeldType
  <2>5. PICK out : out = [net EXCEPT !.held = g]
    OBVIOUS
  <2>6. out \in NetType /\ out.sock = net.sock /\ out.chan = net.chan /\ out.held = g
    BY <2>4, <2>5 DEF NetType
  <2>7. Steady(net, out)
    BY <2>6, SteadyStays DEF Steady
  <2>8. Keeps(h, g, {r})
    BY <2>2, <2>4 DEF Keeps
  <2>9. Sends(h, out)
    BY <2>2, <2>4, <2>6 DEF Sends, Holds
  <2>10. Enqueue(net, r) = out
    BY <1>1, <1>3, <2>1, <2>3, <2>5, Zenon DEF Enqueue
  <2> QED
    BY <1>1, <2>4, <2>6, <2>7, <2>8, <2>9, <2>10
<1>4. CASE h.load # "loading"
  <2>1. PICK list : list = Append(h.pending, r)
    OBVIOUS
  <2>2. /\ list \in Seq(Things) /\ ToSet(list) = ToSet(h.pending) \cup {r}
        /\ Len(list) = Len(h.pending) + 1
    BY <1>2, <2>1, AppendTo
  <2>3. PICK kept : kept = Newest(list)
    OBVIOUS
  <2>4. /\ kept \in Seq(Things) /\ Len(kept) <= MaxHeld /\ ToSet(kept) \subseteq ToSet(list)
        /\ Len(list) <= MaxHeld => kept = list
    BY <2>2, <2>3, NewestIs
  <2>5. PICK g : g = [h EXCEPT !.pending = kept]
    OBVIOUS
  <2>6. g \in HeldType /\ g.pending = kept /\ Aside(h, g)
    BY <1>2, <2>4, <2>5 DEF HeldType, Aside
  <2>7. PICK a : a = [net EXCEPT !.held = g]
    OBVIOUS
  <2>8. a \in NetType /\ a.sock = net.sock /\ a.chan = net.chan /\ a.held = g
    BY <2>6, <2>7 DEF NetType
  <2>9. Steady(net, a)
    BY <2>8, SteadyStays DEF Steady
  <2>10. PICK b : b = SavePending(a)
    OBVIOUS
  <2>11. Steady(a, b) /\ Aside(g, b.held) /\ b.held.pending = kept /\ b \in NetType
    BY <2>6, <2>8, <2>10, SaveIs DEF Steady
  <2>12. PICK c : c = Connect(b)
    OBVIOUS
  <2>13. Steady(b, c) /\ c.held = b.held /\ c \in NetType
    BY <2>11, <2>12, ConnectIs DEF Steady
  <2>14. PICK out : out = Flush(c)
    OBVIOUS
  <2>15. /\ Steady(c, out) /\ Aside(c.held, out.held)
         /\ \/ out = c
            \/ out.held.pending = <<>> /\ ToSet(kept) \subseteq SentOn(out.sock)
    BY <2>11, <2>13, <2>14, FlushIs
  <2>16. Steady(net, out)
    <3>1. Steady(net, b)
      BY <2>8, <2>9, <2>11, SteadyThen
    <3>2. Steady(net, c)
      BY <2>13, <3>1, SteadyThen
    <3> QED
      BY <2>15, <3>2, SteadyThen
  <2>17. Aside(h, out.held)
    BY <2>6, <2>11, <2>13, <2>15 DEF Aside
  <2>18. \/ out.held.pending = kept
         \/ out.held.pending = <<>> /\ ToSet(kept) \subseteq SentOn(out.sock)
    BY <2>11, <2>13, <2>15
  <2>19. Keeps(h, out.held, {r})
    <3>1. ToSet(<<>>) = {} /\ Len(<<>>) = 0 /\ 0 <= MaxHeld
      BY ToEmpty, ExtensionAssumption
    <3> QED
      BY <1>4, <2>2, <2>4, <2>17, <2>18, <3>1 DEF Keeps, Aside
  <2>20. Sends(h, out)
    <3>1. Holds(h) = ToSet(h.pending) \cup ToSet(h.queued)
      BY <1>4 DEF Holds
    <3>2. ToSet(h.queued) \cup ToSet(out.held.pending) \subseteq Holds(out.held)
      BY <1>4, <2>17 DEF Holds, Aside
    <3>3. CASE Len(list) <= MaxHeld
      <4>1. ToSet(h.pending) \subseteq ToSet(kept)
        BY <2>2, <2>4, <3>3
      <4> QED
        BY <2>18, <3>1, <3>2, <4>1 DEF Sends
    <3>4. CASE ~(Len(list) <= MaxHeld)
      <4>1. Len(h.pending) \in Nat /\ Len(h.queued) \in Nat /\ MaxHeld \in Nat
        BY <1>2, LenProperties, ExtensionAssumption
      <4>2. Held(h) = Len(h.pending) + Len(h.queued)
        BY <1>4, <4>1 DEF Held
      <4>3. Held(h) >= MaxHeld
        <5>1. PICK x \in Nat, y \in Nat, m \in Nat :
                x = Len(h.pending) /\ y = Len(h.queued) /\ m = MaxHeld
          BY <4>1, Zenon
        <5>2. Len(list) = x + 1 /\ Held(h) = x + y
          BY <2>2, <4>2, <5>1
        <5>3. ~(x + 1 <= m)
          BY <3>4, <5>1, <5>2
        <5>4. x + y >= m
          BY <5>3
        <5> QED
          BY <5>1, <5>2, <5>4
      <4> QED
        BY <4>3 DEF Sends
    <3> QED
      BY <3>3, <3>4
  <2>21. Enqueue(net, r) = out
    <3>1. a = [net EXCEPT !.held.pending = Newest(Append(@, r))]
      BY <1>1, <2>1, <2>3, <2>5, <2>7
    <3> QED
      BY <1>1, <1>4, <2>10, <2>12, <2>14, <3>1, Zenon DEF Enqueue
  <2> QED
    BY <1>1, <2>16, <2>17, <2>19, <2>20, <2>21 DEF Aside
<1> QED
  BY <1>3, <1>4

\* reportCandidate sends the report or holds it, once.
LEMMA ReportIs ==
    ASSUME NEW net \in NetType, NEW r \in Things
    PROVE  /\ Steady(net, ReportCandidate(net, r))
           /\ ReportCandidate(net, r).held.seen = net.held.seen \cup {r}
           /\ Keeps(net.held, ReportCandidate(net, r).held, {r} \ net.held.seen)
           /\ Sends(net.held, ReportCandidate(net, r))
<1>1. CASE r \in net.held.seen
  <2>1. ReportCandidate(net, r) = net
    BY <1>1 DEF ReportCandidate
  <2>2. Keeps(net.held, net.held, {r} \ net.held.seen) /\ Sends(net.held, net)
    BY DEF Keeps, Sends
  <2> QED
    BY <1>1, <2>1, <2>2, SteadyStays
<1>2. CASE r \notin net.held.seen
  <2>1. PICK g : g = [net.held EXCEPT !.seen = @ \cup {r}]
    OBVIOUS
  <2>2. net.held \in HeldType
    BY DEF NetType
  <2>3. /\ g \in HeldType /\ g.seen = net.held.seen \cup {r}
        /\ g.load = net.held.load /\ g.stored = net.held.stored /\ g.pending = net.held.pending
        /\ g.queued = net.held.queued /\ g.writes = net.held.writes
    BY <2>1, <2>2 DEF HeldType
  <2>4. PICK noted : noted = [net EXCEPT !.held = g]
    OBVIOUS
  <2>5. noted \in NetType /\ noted.sock = net.sock /\ noted.chan = net.chan /\ noted.held = g
    BY <2>3, <2>4 DEF NetType
  <2>6. Steady(net, noted)
    BY <2>5, SteadyStays DEF Steady
  <2>7. Holds(net.held) = Holds(g) /\ Held(net.held) = Held(g)
    BY <2>3 DEF Holds, Held
  <2>8. noted = [net EXCEPT !.held.seen = @ \cup {r}]
    BY <2>1, <2>4
  <2>9. CASE Ready(noted)
    <3>1. PICK out : out = Send(noted, Message("report", r))
      OBVIOUS
    <3>2. Steady(noted, out) /\ out.held = g
      BY <2>5, <2>9, <3>1, SendIs
    <3>3. ReportCandidate(net, r) = out
      BY <1>2, <2>8, <2>9, <3>1, Zenon DEF ReportCandidate
    <3>4. Keeps(net.held, g, {r} \ net.held.seen)
      BY <2>3 DEF Keeps
    <3>5. Sends(net.held, out)
      BY <2>7, <3>2 DEF Sends
    <3> QED
      BY <2>3, <2>5, <2>6, <3>2, <3>3, <3>4, <3>5, SteadyThen
  <2>10. CASE ~Ready(noted)
    <3>1. PICK out : out = Enqueue(noted, r)
      OBVIOUS
    <3>2. Steady(noted, out) /\ out.held.seen = g.seen /\ Keeps(g, out.held, {r}) /\ Sends(g, out)
      BY <2>5, <3>1, EnqueueIs
    <3>3. ReportCandidate(net, r) = out
      BY <1>2, <2>8, <2>10, <3>1, Zenon DEF ReportCandidate
    <3>4. Keeps(net.held, out.held, {r} \ net.held.seen)
      BY <1>2, <2>3, <3>2 DEF Keeps
    <3>5. Sends(net.held, out)
      BY <2>7, <3>2 DEF Sends
    <3> QED
      BY <2>3, <2>5, <2>6, <3>2, <3>3, <3>4, <3>5, SteadyThen
  <2> QED
    BY <2>9, <2>10
<1> QED
  BY <1>1, <1>2

-----------------------------------------------------------------------------
(* Lines. *)

Messages == Incoming \cup Outgoing

\* One message, at p, has left the line.
Without(line, p, short) ==
    /\ p \in 1 .. Len(line)
    /\ Len(short) = Len(line) - 1
    /\ \A n \in 1 .. Len(short) : short[n] = IF n < p THEN line[n] ELSE line[n + 1]

\* One message, at p, has another in its place.
Exchanged(line, p, next) ==
    /\ p \in 1 .. Len(line)
    /\ Len(next) = Len(line)
    /\ \A n \in 1 .. Len(line) : n # p => next[n] = line[n]

\* A line is what is received and then what is sent.
LEMMA LineIs ==
    ASSUME NEW k \in SocketType
    PROVE  /\ Len(k.got) \in Nat /\ Len(k.sent) \in Nat
           /\ Line(k) \in Seq(Messages) /\ Len(Line(k)) = Len(k.got) + Len(k.sent)
           /\ \A n \in 1 .. Len(k.got) + Len(k.sent) :
                Line(k)[n] = IF n <= Len(k.got) THEN k.got[n] ELSE k.sent[n - Len(k.got)]
<1>1. PICK a, b : a = k.got /\ b = k.sent
  OBVIOUS
<1>2. a \in Seq(Incoming) /\ b \in Seq(Outgoing)
  BY <1>1 DEF SocketType
<1>3. a \in Seq(Messages) /\ b \in Seq(Messages)
  BY <1>2 DEF Messages
<1>4. Len(a) \in Nat /\ Len(b) \in Nat
  BY <1>3, LenProperties
<1>5. /\ a \o b \in Seq(Messages) /\ Len(a \o b) = Len(a) + Len(b)
      /\ \A n \in 1 .. Len(a) + Len(b) : (a \o b)[n] = IF n <= Len(a) THEN a[n] ELSE b[n - Len(a)]
  BY <1>3, ConcatProperties
<1> QED
  BY <1>1, <1>4, <1>5 DEF Line

\* What is sent besides requests changes no order.
LEMMA GrownInOrder ==
    ASSUME NEW line, NEW longer, NEW queue, Len(line) \in Nat, Len(longer) \in Nat, Len(queue) \in Nat,
           InOrder(line, queue), Grows(line, longer)
    PROVE  InOrder(longer, queue)
<1>1. \A n \in 1 .. Len(longer) : Asks(longer[n]) => n \in 1 .. Len(line)
  BY DEF Grows
<1>2. \A n \in 1 .. Len(line) : n \in 1 .. Len(longer) /\ longer[n] = line[n]
  BY DEF Grows
<1>3. ASSUME NEW n \in 1 .. Len(longer), Asks(longer[n])
      PROVE  \E k \in 1 .. Len(queue) : queue[k] = longer[n].about
  <2>1. n \in 1 .. Len(line) /\ longer[n] = line[n]
    BY <1>1, <1>2, <1>3
  <2> QED
    BY <1>3, <2>1 DEF InOrder
<1>4. ASSUME NEW m \in 1 .. Len(longer), NEW n \in 1 .. Len(longer), Asks(longer[m]), Asks(longer[n]), m < n
      PROVE  \E j, k \in 1 .. Len(queue) : j < k /\ queue[j] = longer[m].about /\ queue[k] = longer[n].about
  <2>1. m \in 1 .. Len(line) /\ longer[m] = line[m] /\ n \in 1 .. Len(line) /\ longer[n] = line[n]
    BY <1>1, <1>2, <1>4
  <2> QED
    BY <1>4, <2>1 DEF InOrder
<1>5. ASSUME NEW k \in 1 .. Len(queue)
      PROVE  \E n \in 1 .. Len(longer) : Asks(longer[n]) /\ longer[n].about = queue[k]
  <2>1. PICK n \in 1 .. Len(line) : Asks(line[n]) /\ line[n].about = queue[k]
    BY Zenon DEF InOrder
  <2> QED
    BY <1>2, <2>1
<1> QED
  BY <1>3, <1>4, <1>5 DEF InOrder

\* A request goes behind the others on the line, and in the queue.
LEMMA AskedInOrder ==
    ASSUME NEW line, NEW longer, NEW queue, NEW queue2, NEW i,
           Len(line) \in Nat, Len(queue) \in Nat, InOrder(line, queue),
           Len(longer) = Len(line) + 1, \A n \in 1 .. Len(line) : longer[n] = line[n],
           Asks(longer[Len(line) + 1]), longer[Len(line) + 1].about = i,
           Len(queue2) = Len(queue) + 1, \A k \in 1 .. Len(queue) : queue2[k] = queue[k],
           queue2[Len(queue) + 1] = i
    PROVE  InOrder(longer, queue2)
<1>1. PICK l \in Nat, q \in Nat : l = Len(line) /\ q = Len(queue)
  OBVIOUS
<1>2. /\ Len(longer) = l + 1 /\ Len(queue2) = q + 1
      /\ \A n \in 1 .. l : longer[n] = line[n]
      /\ \A k \in 1 .. q : queue2[k] = queue[k]
      /\ Asks(longer[l + 1]) /\ longer[l + 1].about = i /\ queue2[q + 1] = i
  BY <1>1
<1>3. /\ \A n \in 1 .. l : Asks(line[n]) => \E k \in 1 .. q : queue[k] = line[n].about
      /\ \A m, n \in 1 .. l : Asks(line[m]) /\ Asks(line[n]) /\ m < n =>
           \E j, k \in 1 .. q : j < k /\ queue[j] = line[m].about /\ queue[k] = line[n].about
      /\ \A k \in 1 .. q : \E n \in 1 .. l : Asks(line[n]) /\ line[n].about = queue[k]
  BY <1>1 DEF InOrder
<1>4. /\ \A n \in 1 .. l + 1 : n \in 1 .. l \/ n = l + 1
      /\ \A k \in 1 .. q + 1 : k \in 1 .. q \/ k = q + 1
      /\ \A k \in 1 .. q : k \in 1 .. q + 1 /\ k < q + 1
      /\ \A n \in 1 .. l : n \in 1 .. l + 1 /\ ~(l + 1 < n)
      /\ q + 1 \in 1 .. q + 1 /\ l + 1 \in 1 .. l + 1 /\ ~(l + 1 < l + 1)
  OBVIOUS
<1>5. ASSUME NEW n \in 1 .. l + 1, Asks(longer[n])
      PROVE  \E k \in 1 .. q + 1 : queue2[k] = longer[n].about
  <2>1. CASE n \in 1 .. l
    <3>1. Asks(line[n]) /\ longer[n] = line[n]
      BY <1>2, <1>5, <2>1
    <3>2. PICK k \in 1 .. q : queue[k] = line[n].about
      BY <1>3, <2>1, <3>1
    <3> QED
      BY <1>2, <1>4, <3>1, <3>2
  <2>2. CASE n = l + 1
    BY <1>2, <1>4, <2>2
  <2> QED
    BY <1>4, <2>1, <2>2
<1>6. ASSUME NEW m \in 1 .. l + 1, NEW n \in 1 .. l + 1, Asks(longer[m]), Asks(longer[n]), m < n
      PROVE  \E j, k \in 1 .. q + 1 : j < k /\ queue2[j] = longer[m].about /\ queue2[k] = longer[n].about
  <2>1. m \in 1 .. l /\ longer[m] = line[m]
    BY <1>2, <1>4, <1>6
  <2>2. CASE n \in 1 .. l
    <3>1. longer[n] = line[n]
      BY <1>2, <2>2
    <3>2. PICK j \in 1 .. q, k \in 1 .. q : j < k /\ queue[j] = line[m].about /\ queue[k] = line[n].about
      BY <1>3, <1>6, <2>1, <2>2, <3>1
    <3> QED
      BY <1>2, <1>4, <2>1, <3>1, <3>2
  <2>3. CASE n = l + 1
    <3>1. PICK j \in 1 .. q : queue[j] = line[m].about
      BY <1>3, <1>6, <2>1
    <3> QED
      BY <1>2, <1>4, <2>1, <2>3, <3>1
  <2> QED
    BY <1>4, <2>2, <2>3
<1>7. ASSUME NEW k \in 1 .. q + 1
      PROVE  \E n \in 1 .. l + 1 : Asks(longer[n]) /\ longer[n].about = queue2[k]
  <2>1. CASE k \in 1 .. q
    <3>1. PICK n \in 1 .. l : Asks(line[n]) /\ line[n].about = queue[k]
      BY <1>3, <2>1
    <3> QED
      BY <1>2, <1>4, <2>1, <3>1
  <2>2. CASE k = q + 1
    BY <1>2, <1>4, <2>2
  <2> QED
    BY <1>4, <2>1, <2>2
<1> QED
  BY <1>1, <1>2, <1>5, <1>6, <1>7 DEF InOrder

\* What is neither a request nor an answer can leave the line.
LEMMA WithoutInOrder ==
    ASSUME NEW line, NEW short, NEW queue, NEW p,
           Len(line) \in Nat, Len(queue) \in Nat, InOrder(line, queue),
           Without(line, p, short), ~Asks(line[p])
    PROVE  InOrder(short, queue)
<1>1. PICK l \in Nat : l = Len(line)
  OBVIOUS
<1>2. p \in 1 .. l /\ Len(short) = l - 1
  BY <1>1 DEF Without
<1>3. PICK at : at = [n \in 1 .. l - 1 |-> IF n < p THEN n ELSE n + 1]
  OBVIOUS
<1>4. /\ \A n \in 1 .. l - 1 : at[n] \in 1 .. l /\ short[n] = line[at[n]]
      /\ \A m, n \in 1 .. l - 1 : m < n => at[m] < at[n]
      /\ \A n \in 1 .. l : n # p => \E m \in 1 .. l - 1 : at[m] = n
  <2>1. \A n \in 1 .. l - 1 : at[n] \in 1 .. l /\ short[n] = line[at[n]]
    BY <1>1, <1>2, <1>3 DEF Without
  <2>2. \A m, n \in 1 .. l - 1 : m < n => at[m] < at[n]
    BY <1>2, <1>3
  <2>3. ASSUME NEW n \in 1 .. l, n # p PROVE \E m \in 1 .. l - 1 : at[m] = n
    <3>1. CASE n < p
      <4>1. n \in 1 .. l - 1 /\ at[n] = n
        BY <1>2, <1>3, <3>1
      <4> QED
        BY <4>1
    <3>2. CASE ~(n < p)
      <4>1. n - 1 \in 1 .. l - 1 /\ at[n - 1] = n
        BY <1>2, <1>3, <2>3, <3>2
      <4> QED
        BY <4>1
    <3> QED
      BY <3>1, <3>2
  <2> QED
    BY <2>1, <2>2, <2>3
<1>5. /\ \A n \in 1 .. l : Asks(line[n]) => \E k \in 1 .. Len(queue) : queue[k] = line[n].about
      /\ \A m, n \in 1 .. l : Asks(line[m]) /\ Asks(line[n]) /\ m < n =>
           \E j, k \in 1 .. Len(queue) : j < k /\ queue[j] = line[m].about /\ queue[k] = line[n].about
      /\ \A k \in 1 .. Len(queue) : \E n \in 1 .. l : Asks(line[n]) /\ line[n].about = queue[k]
  BY <1>1 DEF InOrder
<1>6. ASSUME NEW n \in 1 .. l - 1, Asks(short[n])
      PROVE  \E k \in 1 .. Len(queue) : queue[k] = short[n].about
  <2>1. at[n] \in 1 .. l /\ short[n] = line[at[n]] /\ Asks(line[at[n]])
    BY <1>4, <1>6
  <2>2. PICK k \in 1 .. Len(queue) : queue[k] = line[at[n]].about
    BY <1>5, <2>1
  <2> QED
    BY <2>1, <2>2
<1>7. ASSUME NEW m \in 1 .. l - 1, NEW n \in 1 .. l - 1, Asks(short[m]), Asks(short[n]), m < n
      PROVE  \E j, k \in 1 .. Len(queue) : j < k /\ queue[j] = short[m].about /\ queue[k] = short[n].about
  <2>1. /\ at[m] \in 1 .. l /\ short[m] = line[at[m]] /\ at[n] \in 1 .. l /\ short[n] = line[at[n]]
        /\ at[m] < at[n] /\ Asks(line[at[m]]) /\ Asks(line[at[n]])
    BY <1>4, <1>7
  <2>2. PICK j \in 1 .. Len(queue), k \in 1 .. Len(queue) :
          j < k /\ queue[j] = line[at[m]].about /\ queue[k] = line[at[n]].about
    BY <1>5, <2>1
  <2> QED
    BY <2>1, <2>2
<1>8. ASSUME NEW k \in 1 .. Len(queue)
      PROVE  \E n \in 1 .. l - 1 : Asks(short[n]) /\ short[n].about = queue[k]
  <2>1. PICK n \in 1 .. l : Asks(line[n]) /\ line[n].about = queue[k]
    BY <1>5
  <2>2. PICK m \in 1 .. l - 1 : at[m] = n
    BY <1>4, <2>1
  <2> QED
    BY <1>4, <2>1, <2>2
<1>9. Len(short) = l - 1
  BY <1>2
<1>10. \A n \in 1 .. Len(short) : Asks(short[n]) => \E k \in 1 .. Len(queue) : queue[k] = short[n].about
  BY <1>6, <1>9
<1>11. \A m, n \in 1 .. Len(short) : Asks(short[m]) /\ Asks(short[n]) /\ m < n =>
          \E j, k \in 1 .. Len(queue) : j < k /\ queue[j] = short[m].about /\ queue[k] = short[n].about
  BY <1>7, <1>9
<1>12. \A k \in 1 .. Len(queue) : \E n \in 1 .. Len(short) : Asks(short[n]) /\ short[n].about = queue[k]
  BY <1>8, <1>9
<1> QED
  BY <1>10, <1>11, <1>12 DEF InOrder

\* The daemon's answer takes the place of the request.
LEMMA ExchangedInOrder ==
    ASSUME NEW line, NEW next, NEW queue, NEW p,
           Len(line) \in Nat, Len(queue) \in Nat, InOrder(line, queue), Exchanged(line, p, next),
           Asks(line[p]) <=> Asks(next[p]), Asks(line[p]) => next[p].about = line[p].about
    PROVE  InOrder(next, queue)
<1>1. \A n \in 1 .. Len(line) : /\ Asks(next[n]) <=> Asks(line[n])
                                /\ Asks(line[n]) => next[n].about = line[n].about
  BY DEF Exchanged
<1>2. Len(next) = Len(line)
  BY DEF Exchanged
<1> QED
  BY <1>1, <1>2 DEF InOrder

\* What is answered first was asked first: the answer at the head of the line is
\* for the head of the queue, and both can go.
LEMMA AnsweredInOrder ==
    ASSUME NEW line, NEW short, NEW queue, NEW rest,
           Len(line) \in Nat, Len(queue) \in Nat, InOrder(line, queue),
           \A j, k \in 1 .. Len(queue) : queue[j] = queue[k] => j = k,
           Without(line, 1, short), Asks(line[1]), Without(queue, 1, rest)
    PROVE  queue[1] = line[1].about /\ InOrder(short, rest)
<1>1. PICK l \in Nat, q \in Nat : l = Len(line) /\ q = Len(queue)
  OBVIOUS
<1>2. /\ 1 \in 1 .. l /\ 1 \in 1 .. q /\ Len(short) = l - 1 /\ Len(rest) = q - 1
      /\ \A n \in 1 .. l - 1 : short[n] = line[n + 1]
      /\ \A n \in 1 .. q - 1 : rest[n] = queue[n + 1]
  BY <1>1 DEF Without
<1>3. /\ \A n \in 1 .. l : Asks(line[n]) => \E k \in 1 .. q : queue[k] = line[n].about
      /\ \A m, n \in 1 .. l : Asks(line[m]) /\ Asks(line[n]) /\ m < n =>
           \E j, k \in 1 .. q : j < k /\ queue[j] = line[m].about /\ queue[k] = line[n].about
      /\ \A k \in 1 .. q : \E n \in 1 .. l : Asks(line[n]) /\ line[n].about = queue[k]
      /\ \A j, k \in 1 .. q : queue[j] = queue[k] => j = k
  BY <1>1 DEF InOrder
<1>4. queue[1] = line[1].about
  <2>1. PICK n \in 1 .. l : Asks(line[n]) /\ line[n].about = queue[1]
    BY <1>2, <1>3
  <2>2. CASE n = 1
    BY <2>1, <2>2
  <2>3. CASE n # 1
    <3>1. 1 < n
      BY <2>3
    <3>2. PICK j \in 1 .. q, k \in 1 .. q : j < k /\ queue[j] = line[1].about /\ queue[k] = line[n].about
      BY <1>2, <1>3, <2>1, <3>1
    <3>3. k = 1
      BY <1>2, <1>3, <2>1, <3>2
    <3> QED
      BY <3>2, <3>3
  <2> QED
    BY <2>2, <2>3
\* Behind the head of the line stand the requests behind the head of the queue.
<1>5. ASSUME NEW n \in 1 .. l - 1, Asks(short[n])
      PROVE  \A k \in 1 .. q : queue[k] = short[n].about => k # 1
  <2>1. n + 1 \in 1 .. l /\ 1 < n + 1 /\ short[n] = line[n + 1]
    BY <1>2
  <2>4. Asks(line[n + 1])
    BY <1>5, <2>1
  <2>5. PICK j \in 1 .. q, k \in 1 .. q : j < k /\ queue[j] = line[1].about /\ queue[k] = line[n + 1].about
    BY <1>2, <1>3, <2>1, <2>4
  <2>2. j < k /\ queue[j] = line[1].about /\ queue[k] = short[n].about
    BY <2>1, <2>5
  <2>3. k # 1
    BY <2>2
  <2> QED
    BY <1>3, <2>2, <2>3
<1>6. \A k \in 1 .. q : k # 1 => k - 1 \in 1 .. q - 1 /\ rest[k - 1] = queue[k]
  BY <1>2
<1>7. ASSUME NEW n \in 1 .. l - 1, Asks(short[n])
      PROVE  \E k \in 1 .. q - 1 : rest[k] = short[n].about
  <2>1. n + 1 \in 1 .. l /\ short[n] = line[n + 1]
    BY <1>2
  <2>2. PICK k \in 1 .. q : queue[k] = short[n].about
    BY <1>3, <1>7, <2>1
  <2>3. k # 1
    BY <1>5, <1>7, <2>2
  <2> QED
    BY <1>6, <2>2, <2>3
<1>8. ASSUME NEW m \in 1 .. l - 1, NEW n \in 1 .. l - 1, Asks(short[m]), Asks(short[n]), m < n
      PROVE  \E j, k \in 1 .. q - 1 : j < k /\ rest[j] = short[m].about /\ rest[k] = short[n].about
  <2>1. m + 1 \in 1 .. l /\ n + 1 \in 1 .. l /\ m + 1 < n + 1 /\ short[m] = line[m + 1] /\ short[n] = line[n + 1]
    BY <1>2, <1>8
  <2>6. Asks(line[m + 1]) /\ Asks(line[n + 1])
    BY <1>8, <2>1
  <2>7. PICK j \in 1 .. q, k \in 1 .. q : j < k /\ queue[j] = line[m + 1].about /\ queue[k] = line[n + 1].about
    BY <1>3, <2>1, <2>6
  <2>2. j < k /\ queue[j] = short[m].about /\ queue[k] = short[n].about
    BY <2>1, <2>7
  <2>3. j # 1 /\ k # 1
    BY <1>5, <1>8, <2>2
  <2>4. j - 1 < k - 1
    BY <2>2
  <2>5. /\ j - 1 \in 1 .. q - 1 /\ rest[j - 1] = short[m].about
        /\ k - 1 \in 1 .. q - 1 /\ rest[k - 1] = short[n].about
    BY <1>6, <2>2, <2>3
  <2> QED
    BY <2>4, <2>5
<1>9. ASSUME NEW k \in 1 .. q - 1
      PROVE  \E n \in 1 .. l - 1 : Asks(short[n]) /\ short[n].about = rest[k]
  <2>1. k + 1 \in 1 .. q /\ k + 1 # 1 /\ rest[k] = queue[k + 1]
    BY <1>2
  <2>5. PICK n \in 1 .. l : Asks(line[n]) /\ line[n].about = queue[k + 1]
    BY ONLY <1>3, <2>1
  <2>2. Asks(line[n]) /\ line[n].about = rest[k]
    BY <2>1, <2>5
  <2>3. n # 1
    BY <1>2, <1>3, <1>4, <2>1, <2>2
  <2>4. n - 1 \in 1 .. l - 1 /\ short[n - 1] = line[n]
    <3>1. n - 1 \in 1 .. l - 1 /\ (n - 1) + 1 = n
      BY <2>3
    <3>2. short[n - 1] = line[(n - 1) + 1]
      BY <1>2, <3>1
    <3> QED
      BY <3>1, <3>2
  <2> QED
    BY <2>2, <2>4
<1>10. InOrder(short, rest)
  BY <1>2, <1>7, <1>8, <1>9 DEF InOrder
<1> QED
  BY <1>4, <1>10

-----------------------------------------------------------------------------
(* Steps that touch neither requests nor answers. *)

\* The network and the store of an invariant state.
LEMMA NetIs ==
    ASSUME Typed
    PROVE  /\ Net \in NetType /\ Net.sock = sock /\ Net.chan = chan /\ Net.held = held
           /\ sock \in [Sockets -> SocketType] /\ chan \in ChannelType /\ held \in HeldType
<1>1. Net \in NetType /\ Net.sock = sock /\ Net.chan = chan /\ Net.held = held
  BY DEF Typed, Net
<1> QED
  BY <1>1 DEF NetType

\* What the worker's calls leave is the next state.
LEMMA NetBecomes ==
    ASSUME NEW n \in NetType, Become(n)
    PROVE  Net' = n /\ Net' \in NetType
<1>1. n = [sock |-> n.sock, chan |-> n.chan, held |-> n.held]
  BY DEF NetType
<1>2. Net' = n
  BY <1>1 DEF Become, Net
<1> QED
  BY <1>2

\* The line of a socket on which only reports are sent.
LEMMA LineGrows ==
    ASSUME NEW k \in SocketType, NEW k2 \in SocketType, k2.got = k.got, Grows(k.sent, k2.sent)
    PROVE  Grows(Line(k), Line(k2))
<1>1. PICK a \in Nat, b \in Nat, b2 \in Nat : a = Len(k.got) /\ b = Len(k.sent) /\ b2 = Len(k2.sent)
  BY LineIs
<1>2. /\ Len(Line(k)) = a + b /\ Len(Line(k2)) = a + b2
      /\ \A n \in 1 .. a + b : Line(k)[n] = IF n <= a THEN k.got[n] ELSE k.sent[n - a]
      /\ \A n \in 1 .. a + b2 : Line(k2)[n] = IF n <= a THEN k.got[n] ELSE k2.sent[n - a]
  BY <1>1, LineIs
<1>3. /\ b <= b2
      /\ \A n \in 1 .. b : k2.sent[n] = k.sent[n]
      /\ \A n \in (b + 1) .. b2 : ~Asks(k2.sent[n])
  BY <1>1 DEF Grows
<1>4. ASSUME NEW n \in 1 .. a + b PROVE Line(k2)[n] = Line(k)[n]
  <2>1. n \in 1 .. a + b2 /\ (n <= a \/ n - a \in 1 .. b)
    BY <1>3
  <2> QED
    BY <1>2, <1>3, <2>1
<1>5. ASSUME NEW n \in (a + b + 1) .. (a + b2) PROVE ~Asks(Line(k2)[n])
  <2>1. n \in 1 .. a + b2 /\ ~(n <= a) /\ n - a \in (b + 1) .. b2
    OBVIOUS
  <2> QED
    BY <1>2, <1>3, <2>1
<1> QED
  BY <1>2, <1>3, <1>4, <1>5 DEF Grows

\* Requests and answers stay matched.
LEMMA CalmMatched ==
    ASSUME Typed, Requests, Matched, NEW n, Steady(Net, n), Become(n),
           waiting' = waiting, jobs \subseteq jobs',
           \A i \in Items : item[i].start = "asked" => item'[i].start = "asked",
           past'.ended = past.ended, past'.dropped = past.dropped
    PROVE  Requests' /\ Matched'
<1>1. /\ n \in NetType /\ n.sock \in [Sockets -> SocketType] /\ n.chan.connection = chan.connection
      /\ sock' = n.sock /\ chan' = n.chan /\ sock \in [Sockets -> SocketType] /\ waiting \in Seq(Items)
  BY NetIs DEF Steady, NetType, Become, Typed
<1>2. \A s \in Sockets : /\ n.sock[s].state = sock[s].state /\ n.sock[s].got = sock[s].got
                         /\ Grows(sock[s].sent, n.sock[s].sent)
                         /\ sock[s].state \in {"free", "connecting"} => n.sock[s].sent = sock[s].sent
  BY NetIs DEF Steady
<1>3. Len(waiting) \in Nat /\ \A k \in 1 .. Len(waiting) : waiting[k] \in Items
  BY <1>1, LenProperties, ElementOfSeq
<1>4. Requests'
  BY <1>1, <1>2, <1>3 DEF Requests
<1>5. Matched'
  <2> SUFFICES ASSUME ~past.ended, ~past.dropped,
                      NEW s \in Sockets
               PROVE  InOrder(Line(n.sock[s]), Awaited(s))
    BY <1>1 DEF Matched, Awaited
  <2>1. InOrder(Line(sock[s]), Awaited(s))
    BY DEF Matched
  <2>2. Grows(Line(sock[s]), Line(n.sock[s]))
    BY <1>1, <1>2, LineGrows
  <2>3. Len(Line(sock[s])) \in Nat /\ Len(Line(n.sock[s])) \in Nat
    BY <1>1, LineIs
  <2>4. Len(Awaited(s)) \in Nat
    BY <1>3, ToEmpty DEF Awaited
  <2>5. PICK x, y, z : x = Line(sock[s]) /\ y = Line(n.sock[s]) /\ z = Awaited(s)
    OBVIOUS
  <2>6. InOrder(y, z)
    BY <2>1, <2>2, <2>3, <2>4, <2>5, GrownInOrder
  <2> QED
    BY <2>5, <2>6
<1> QED
  BY <1>4, <1>5

\* What is held stays what it is to the session storage and the orders.
LEMMA CalmHeld ==
    ASSUME Reading, Forgetting, NEW g, held' = g, NEW R, Keeps(held, g, R), g.seen = held.seen \cup R,
           past'.ended = past.ended, past'.forgotten \subseteq past.forgotten,
           past.ended \/ R \cap past'.forgotten = {}
    PROVE  Reading' /\ Forgetting'
<1>1. Reading'
  BY DEF Reading, Keeps
<1>2. Forgetting'
  BY DEF Forgetting, ForgottenStaysForgotten, Keeps
<1> QED
  BY <1>1, <1>2

\* A step of the worker or of one download that touches neither.
LEMMA CalmKeeps ==
    ASSUME EInv, NEW n, Steady(Net, n), Become(n),
           NEW R, Keeps(held, n.held, R), n.held.seen = held.seen \cup R,
           waiting' = waiting, jobs' = jobs,
           item' \in [Items -> ItemType], GivenBack', Followed',
           \A i \in Items : item[i].start = "asked" => item'[i].start = "asked",
           past' \in PastType, past'.ended = past.ended, past'.dropped = past.dropped,
           past'.forgotten \subseteq past.forgotten, past.ended \/ R \cap past'.forgotten = {}
    PROVE  EInv'
<1>1. n \in NetType /\ held' = n.held
  BY DEF Steady, Become
<1>2. Net' \in NetType
  BY <1>1, NetBecomes
<1>3. Typed'
  BY <1>1, <1>2 DEF EInv, Typed, Keeps
<1>4. Requests' /\ Matched'
  BY CalmMatched DEF EInv
<1>5. PICK g : g = n.held
  OBVIOUS
<1>6. Reading' /\ Forgetting'
  BY <1>1, <1>5, CalmHeld DEF EInv
<1> QED
  BY <1>3, <1>4, <1>6 DEF EInv

-----------------------------------------------------------------------------
(* The browser's downloads. *)

\* A download is where a window, the daemon or the browser has it.
Placed(it) ==
    /\ it.copy = "stopped" => it.window # "none"
    /\ it.window = "closed" => it.copies > 0

\* One download goes on, and stops waiting for no answer.
Goes(it, next) ==
    /\ next \in ItemType
    /\ Marked(it) => Marked(next)
    /\ Placed(it) => Placed(next)
    /\ next.window = "progress" => it.window = "progress"
    /\ it.start = "asked" => next.start = "asked"

\* The other downloads stay as they are.
LEMMA GoesOn ==
    ASSUME EInv, NEW i \in Items, NEW next, item' = [item EXCEPT ![i] = next], Goes(item[i], next),
           past'.ended = past.ended, past.dropped => past'.dropped, jobs \subseteq jobs'
    PROVE  /\ item' \in [Items -> ItemType] /\ GivenBack' /\ Followed'
           /\ \A j \in Items : item[j].start = "asked" => item'[j].start = "asked"
<1>1. item \in [Items -> ItemType] /\ next \in ItemType
  BY DEF EInv, Typed, Goes
<1>2. /\ item' \in [Items -> ItemType] /\ item'[i] = next
      /\ \A j \in Items : j # i => item'[j] = item[j]
  BY <1>1
<1>3. GivenBack'
  <2> SUFFICES ASSUME NEW j \in Items, ~past.ended PROVE Marked(item'[j])
    BY DEF GivenBack, Marked
  <2>1. Marked(item[j])
    BY DEF EInv, GivenBack
  <2>2. CASE j = i
    BY <1>2, <2>1, <2>2 DEF Goes
  <2>3. CASE j # i
    <3>1. item'[j] = item[j]
      BY <1>2, <2>3
    <3> QED
      BY <2>1, <3>1
  <2> QED
    BY <2>2, <2>3
<1>4. Followed'
  <2> SUFFICES ASSUME ~past.ended, NEW j \in Items
               PROVE  /\ item'[j].copy = "stopped" => item'[j].window # "none"
                      /\ item'[j].window = "closed" => item'[j].copies > 0
                      /\ ~past.dropped /\ item'[j].window = "progress" => j \in jobs'
    BY DEF Followed
  <2>1. /\ Placed(item[j])
        /\ ~past.dropped /\ item[j].window = "progress" => j \in jobs'
    BY DEF EInv, Followed, Placed
  <2>2. CASE j = i
    BY <1>2, <2>1, <2>2 DEF Goes, Placed
  <2>3. CASE j # i
    <3>1. item'[j] = item[j]
      BY <1>2, <2>3
    <3> QED
      BY <2>1, <3>1 DEF Placed
  <2> QED
    BY <2>2, <2>3
<1>5. ASSUME NEW j \in Items, item[j].start = "asked" PROVE item'[j].start = "asked"
  BY <1>2, <1>5 DEF Goes
<1> QED
  BY <1>2, <1>3, <1>4, <1>5

\* The worker calls nothing.
LEMMA NothingCalled ==
    ASSUME EInv, UNCHANGED <<sock, chan, held>>
    PROVE  \E n : /\ Steady(Net, n) /\ Become(n) /\ n.held = held
                  /\ Keeps(held, n.held, {}) /\ n.held.seen = held.seen \cup {}
<1>1. Net \in NetType /\ Net.sock = sock /\ Net.chan = chan /\ Net.held = held
  BY NetIs DEF EInv
<1>2. Become(Net)
  BY <1>1 DEF Become
<1>3. Steady(Net, Net) /\ Keeps(held, held, {})
  BY <1>1, SteadyStays DEF Keeps
<1> QED
  BY <1>1, <1>2, <1>3

\* The worker reports a download, or has reported it.
LEMMA DownloadReported ==
    ASSUME EInv, NEW i \in Items, Become(ReportCandidate(Net, i))
    PROVE  \E n, R : /\ Steady(Net, n) /\ Become(n) /\ Sends(held, n)
                     /\ Keeps(held, n.held, R) /\ n.held.seen = held.seen \cup R
                     /\ past.ended \/ R \cap past.forgotten = {}
<1>1. Net \in NetType /\ Net.held = held /\ held \in HeldType
  BY NetIs DEF EInv
<1>2. PICK n : n = ReportCandidate(Net, i)
  OBVIOUS
<1>3. i \in Things
  BY DEF Things
<1>4. /\ Steady(Net, n) /\ n.held.seen = held.seen \cup {i}
      /\ Keeps(held, n.held, {i} \ held.seen) /\ Sends(held, n)
  BY <1>1, <1>2, <1>3, ReportIs
<1>5. Become(n)
  BY <1>2 DEF Become
<1>6. n.held.seen = held.seen \cup ({i} \ held.seen)
  BY <1>4
<1>7. past.ended \/ ({i} \ held.seen) \cap past.forgotten = {}
  BY DEF EInv, Forgetting
<1> QED
  BY <1>4, <1>5, <1>6, <1>7

\* One download goes on, and the worker reports it or calls nothing.
LEMMA DownloadGoes ==
    ASSUME EInv, NEW i \in Items, NEW next, item' = [item EXCEPT ![i] = next], Goes(item[i], next),
           UNCHANGED <<sock, chan, held>> \/ Become(ReportCandidate(Net, i)),
           UNCHANGED <<waiting, jobs, past>>
    PROVE  EInv'
<1>1. /\ item' \in [Items -> ItemType] /\ GivenBack' /\ Followed'
      /\ \A j \in Items : item[j].start = "asked" => item'[j].start = "asked"
  BY GoesOn
<1>2. past' \in PastType /\ past'.forgotten \subseteq past.forgotten
  BY DEF EInv, Typed
<1>3. CASE UNCHANGED <<sock, chan, held>>
  <2>1. PICK n : /\ Steady(Net, n) /\ Become(n)
                 /\ Keeps(held, n.held, {}) /\ n.held.seen = held.seen \cup {}
    BY <1>3, NothingCalled
  <2> QED
    BY <1>1, <1>2, <2>1, CalmKeeps
<1>4. CASE Become(ReportCandidate(Net, i))
  <2>1. PICK n, R : /\ Steady(Net, n) /\ Become(n)
                    /\ Keeps(held, n.held, R) /\ n.held.seen = held.seen \cup R
                    /\ past.ended \/ R \cap past.forgotten = {}
    BY <1>4, DownloadReported
  <2> QED
    BY <1>1, <1>2, <2>1, CalmKeeps
<1> QED
  BY <1>3, <1>4

\* A download as the worker gives it back.
LEMMA RestoredIs ==
    ASSUME NEW i \in Items, item[i] \in ItemType, NEW ok \in BOOLEAN
    PROVE  /\ Restored(i, ok) \in ItemType
           /\ Restored(i, ok).copy = item[i].copy /\ Restored(i, ok).window = item[i].window
           /\ Restored(i, ok).start = item[i].start
           /\ Restored(i, ok).copies = item[i].copies + (IF ok THEN 1 ELSE 0)
           /\ Marked(item[i]) => Marked(Restored(i, ok))
<1>1. PICK it : it = item[i]
  OBVIOUS
<1>2. PICK next : next = Restored(i, ok)
  OBVIOUS
<1>3. CASE ok
  <2>1. next = [it EXCEPT !.tries = @ + 1, !.copies = @ + 1, !.fresh = @ + 1, !.marked = TRUE]
    BY <1>1, <1>2, <1>3 DEF Restored
  <2>5. it \in ItemType /\ it.tries + 1 \in Nat /\ it.copies + 1 \in Nat /\ it.fresh + 1 \in Nat
    BY <1>1 DEF ItemType
  <2>4. next \in ItemType
    BY <2>1, <2>5 DEF ItemType
  <2>2. /\ next.copy = it.copy /\ next.window = it.window /\ next.start = it.start
        /\ next.copies = it.copies + 1 /\ next.tries = it.tries + 1 /\ next.fresh = it.fresh + 1
        /\ next.marked = TRUE /\ next.again = it.again
    BY <1>1, <2>1 DEF ItemType
  <2>3. Marked(it) => Marked(next)
    BY <1>1, <2>2 DEF Marked, ItemType
  <2> QED
    BY <1>1, <1>2, <1>3, <2>2, <2>3, <2>4
<1>4. CASE ~ok
  <2>1. next = [it EXCEPT !.tries = @ + 1, !.marked = FALSE]
    BY <1>1, <1>2, <1>4 DEF Restored
  <2>5. it \in ItemType /\ it.tries + 1 \in Nat
    BY <1>1 DEF ItemType
  <2>4. next \in ItemType
    BY <2>1, <2>5 DEF ItemType
  <2>2. /\ next.copy = it.copy /\ next.window = it.window /\ next.start = it.start
        /\ next.copies = it.copies + 0 /\ next.tries = it.tries + 1 /\ next.fresh = it.fresh
        /\ next.again = it.again
    BY <1>1, <2>1 DEF ItemType
  <2>3. Marked(it) => Marked(next)
    BY <1>1, <2>2 DEF Marked, ItemType
  <2> QED
    BY <1>1, <1>2, <1>4, <2>2, <2>3, <2>4
<1> QED
  BY <1>3, <1>4

\* A click begins a download.
LEMMA ClickKeeps ==
    ASSUME EInv, NEW i \in Items, Click(i)
    PROVE  EInv'
<1>1. item[i] \in ItemType /\ item \in [Items -> ItemType]
  BY DEF EInv, Typed
<1>2. PICK it : it = item[i]
  OBVIOUS
<1>3. CASE item' = [item EXCEPT ![i].copy = "created"]
  <2>1. PICK next : next = [it EXCEPT !.copy = "created"]
    OBVIOUS
  <2>2. item' = [item EXCEPT ![i] = next]
    BY <1>1, <1>2, <1>3, <2>1
  <2>3. Goes(it, next)
    BY <1>1, <1>2, <2>1 DEF Click, Goes, Marked, Placed, ItemType
  <2> QED
    BY <1>2, <2>2, <2>3, DownloadGoes DEF Click
<1> QED
  BY <1>3 DEF Click

\* A download that is announced is taken over or reported.
LEMMA CreatedKeeps ==
    ASSUME EInv, NEW i \in Items, Created(i)
    PROVE  EInv'
<1>1. item[i] \in ItemType /\ item \in [Items -> ItemType]
  BY DEF EInv, Typed
<1>2. PICK it : it = item[i]
  OBVIOUS
<1>3. CASE item' = [item EXCEPT ![i].copy = "cancelling"]
  <2>1. PICK next : next = [it EXCEPT !.copy = "cancelling"]
    OBVIOUS
  <2>2. item' = [item EXCEPT ![i] = next]
    BY <1>1, <1>2, <1>3, <2>1
  <2>3. Goes(it, next)
    BY <1>1, <1>2, <2>1 DEF Created, Goes, Marked, Placed, ItemType
  <2> QED
    BY <1>2, <2>2, <2>3, DownloadGoes DEF Created
<1>4. CASE item' = [item EXCEPT ![i].copy = "running"]
  <2>1. PICK next : next = [it EXCEPT !.copy = "running"]
    OBVIOUS
  <2>2. item' = [item EXCEPT ![i] = next]
    BY <1>1, <1>2, <1>4, <2>1
  <2>3. Goes(it, next)
    BY <1>1, <1>2, <2>1 DEF Created, Goes, Marked, Placed, ItemType
  <2> QED
    BY <1>2, <2>2, <2>3, DownloadGoes DEF Created
<1> QED
  BY <1>3, <1>4 DEF Created

\* A window opens.
LEMMA WindowOpenedKeeps ==
    ASSUME EInv, NEW i \in Items, WindowOpened(i)
    PROVE  EInv'
<1>1. item[i] \in ItemType /\ item \in [Items -> ItemType]
  BY DEF EInv, Typed
<1>2. PICK it : it = item[i]
  OBVIOUS
<1>3. CASE item' = [item EXCEPT ![i].window = "open"]
  <2>1. PICK next : next = [it EXCEPT !.window = "open"]
    OBVIOUS
  <2>2. item' = [item EXCEPT ![i] = next]
    BY <1>1, <1>2, <1>3, <2>1
  <2>3. Goes(it, next)
    BY <1>1, <1>2, <2>1 DEF WindowOpened, Goes, Marked, Placed, ItemType
  <2> QED
    BY <1>2, <2>2, <2>3, DownloadGoes DEF WindowOpened
<1> QED
  BY <1>3 DEF WindowOpened

\* A Start finds no connection.
LEMMA NoConnectionKeeps ==
    ASSUME EInv, NEW i \in Items, NoConnection(i)
    PROVE  EInv'
<1>1. item[i] \in ItemType /\ item \in [Items -> ItemType]
  BY DEF EInv, Typed
<1>2. PICK it : it = item[i]
  OBVIOUS
<1>3. CASE item' = [item EXCEPT ![i].start = "refused"]
  <2>1. PICK next : next = [it EXCEPT !.start = "refused"]
    OBVIOUS
  <2>2. item' = [item EXCEPT ![i] = next]
    BY <1>1, <1>2, <1>3, <2>1
  <2>3. Goes(it, next)
    BY <1>1, <1>2, <2>1 DEF NoConnection, Goes, Marked, Placed, ItemType
  <2> QED
    BY <1>2, <2>2, <2>3, DownloadGoes DEF NoConnection
<1> QED
  BY <1>3 DEF NoConnection

\* Cancel is pressed.
LEMMA CancelKeeps ==
    ASSUME EInv, NEW i \in Items, Cancel(i)
    PROVE  EInv'
<1>1. item[i] \in ItemType /\ item \in [Items -> ItemType]
  BY DEF EInv, Typed
<1>2. PICK it : it = item[i]
  OBVIOUS
<1>3. CASE item' = [item EXCEPT ![i].cancel = TRUE]
  <2>1. PICK next : next = [it EXCEPT !.cancel = TRUE]
    OBVIOUS
  <2>2. item' = [item EXCEPT ![i] = next]
    BY <1>1, <1>2, <1>3, <2>1
  <2>3. Goes(it, next)
    BY <1>1, <1>2, <2>1 DEF Cancel, Goes, Marked, Placed, ItemType
  <2> QED
    BY <1>2, <2>2, <2>3, DownloadGoes DEF Cancel
<1> QED
  BY <1>3 DEF Cancel

\* The user closes the window.
LEMMA LeaveKeeps ==
    ASSUME EInv, NEW i \in Items, Leave(i)
    PROVE  EInv'
<1>1. item[i] \in ItemType /\ item \in [Items -> ItemType]
  BY DEF EInv, Typed
<1>2. PICK it : it = item[i]
  OBVIOUS
<1>3. CASE item' = [item EXCEPT ![i].window = "left"]
  <2>1. PICK next : next = [it EXCEPT !.window = "left"]
    OBVIOUS
  <2>2. item' = [item EXCEPT ![i] = next]
    BY <1>1, <1>2, <1>3, <2>1
  <2>3. Goes(it, next)
    BY <1>1, <1>2, <2>1 DEF Leave, Goes, Marked, Placed, ItemType
  <2> QED
    BY <1>2, <2>2, <2>3, DownloadGoes DEF Leave
<1> QED
  BY <1>3 DEF Leave

\* The browser's copy is stopped, or kept.
LEMMA StoppedKeeps ==
    ASSUME EInv, NEW i \in Items, Stopped(i)
    PROVE  EInv'
<1>1. item[i] \in ItemType /\ item \in [Items -> ItemType]
  BY DEF EInv, Typed
<1>2. PICK it : it = item[i]
  OBVIOUS
<1>3. CASE item' = [item EXCEPT ![i].copy = "stopped", ![i].window = "opening"]
  <2>1. PICK next : next = [it EXCEPT !.copy = "stopped", !.window = "opening"]
    OBVIOUS
  <2>2. item' = [item EXCEPT ![i] = next]
    BY <1>1, <1>2, <1>3, <2>1
  <2>3. Goes(it, next)
    BY <1>1, <1>2, <2>1 DEF Stopped, Goes, Marked, Placed, ItemType
  <2> QED
    BY <1>2, <2>2, <2>3, DownloadGoes DEF Stopped
<1>4. CASE item' = [item EXCEPT ![i].copy = "running"]
  <2>1. PICK next : next = [it EXCEPT !.copy = "running"]
    OBVIOUS
  <2>2. item' = [item EXCEPT ![i] = next]
    BY <1>1, <1>2, <1>4, <2>1
  <2>3. Goes(it, next)
    BY <1>1, <1>2, <2>1 DEF Stopped, Goes, Marked, Placed, ItemType
  <2> QED
    BY <1>2, <2>2, <2>3, DownloadGoes DEF Stopped
<1> QED
  BY <1>3, <1>4 DEF Stopped

\* A copy that was started again is announced: as long as a download was given
\* back once, its mark is there.
LEMMA CopyCreatedKeeps ==
    ASSUME EInv, NEW i \in Items, CopyCreated(i)
    PROVE  EInv'
<1>1. item[i] \in ItemType /\ item \in [Items -> ItemType]
  BY DEF EInv, Typed
<1>2. PICK it : it = item[i]
  OBVIOUS
<1>3. CASE item' = [item EXCEPT ![i].fresh = @ - 1, ![i].marked = FALSE]
  <2>1. PICK next : next = [it EXCEPT !.fresh = @ - 1, !.marked = FALSE]
    OBVIOUS
  <2>2. item' = [item EXCEPT ![i] = next]
    BY <1>1, <1>2, <1>3, <2>1
  <2>4. it \in ItemType /\ it.fresh \in Nat \ {0} /\ it.tries \in Nat /\ it.fresh - 1 \in Nat
    BY <1>1, <1>2 DEF CopyCreated, ItemType
  <2>5. next \in ItemType
    BY <2>1, <2>4 DEF ItemType
  <2>6. /\ next.fresh = it.fresh - 1 /\ next.tries = it.tries
        /\ next.again = it.again /\ next.copy = it.copy
        /\ next.window = it.window /\ next.copies = it.copies /\ next.start = it.start
    BY <2>1, <2>4 DEF ItemType
  <2>7. Marked(it) => Marked(next)
    BY <2>4, <2>6 DEF Marked
  <2>3. Goes(it, next)
    BY <2>5, <2>6, <2>7 DEF Goes, Placed
  <2> QED
    BY <1>2, <2>2, <2>3, DownloadGoes DEF CopyCreated
<1>4. CASE ~IsRestored(i) /\ item' = [item EXCEPT ![i].fresh = @ - 1, ![i].again = TRUE]
  <2>1. PICK next : next = [it EXCEPT !.fresh = @ - 1, !.again = TRUE]
    OBVIOUS
  <2>2. item' = [item EXCEPT ![i] = next]
    BY <1>1, <1>2, <1>4, <2>1
  <2>3. Goes(it, next)
    BY <1>1, <1>2, <1>4, <2>1 DEF CopyCreated, IsRestored, Goes, Marked, Placed, ItemType
  <2> QED
    BY <1>2, <2>2, <2>3, DownloadGoes DEF CopyCreated
<1>5. CASE item' = [item EXCEPT ![i].fresh = @ - 1]
  <2>1. PICK next : next = [it EXCEPT !.fresh = @ - 1]
    OBVIOUS
  <2>2. item' = [item EXCEPT ![i] = next]
    BY <1>1, <1>2, <1>5, <2>1
  <2>4. it.fresh \in Nat \ {0} /\ it.tries \in Nat
    BY <1>1, <1>2 DEF CopyCreated, ItemType
  <2>5. /\ next \in ItemType /\ next.fresh = it.fresh - 1 /\ next.tries = it.tries
        /\ next.marked = it.marked /\ next.again = it.again /\ next.copy = it.copy
        /\ next.window = it.window /\ next.copies = it.copies /\ next.start = it.start
    BY <1>1, <1>2, <2>1, <2>4 DEF ItemType
  <2>6. Marked(it) => Marked(next)
    BY <2>4, <2>5 DEF Marked
  <2>3. Goes(it, next)
    BY <2>5, <2>6 DEF Goes, Placed
  <2> QED
    BY <1>2, <2>2, <2>3, DownloadGoes DEF CopyCreated
<1> QED
  BY <1>3, <1>4, <1>5 DEF CopyCreated

\* A window cannot be opened, and the browser gets its download back.
LEMMA WindowFailedKeeps ==
    ASSUME EInv, NEW i \in Items, WindowFailed(i)
    PROVE  EInv'
<1>1. item[i] \in ItemType /\ item \in [Items -> ItemType]
  BY DEF EInv, Typed
<1>2. PICK ok \in BOOLEAN : item' = [item EXCEPT ![i] = [Restored(i, ok) EXCEPT !.window = IF ok THEN "closed" ELSE "failed"]]
  BY Zenon DEF WindowFailed
<1>3. PICK it, back : it = item[i] /\ back = Restored(i, ok)
  OBVIOUS
<1>4. /\ it \in ItemType /\ back \in ItemType
      /\ back.copy = it.copy /\ back.window = it.window /\ back.start = it.start
      /\ back.copies = it.copies + (IF ok THEN 1 ELSE 0)
      /\ Marked(it) => Marked(back)
  BY <1>1, <1>3, RestoredIs
<1>5. PICK next : next = [back EXCEPT !.window = IF ok THEN "closed" ELSE "failed"]
  OBVIOUS
<1>6. item' = [item EXCEPT ![i] = next]
  BY <1>2, <1>3, <1>5
<1>7. /\ next \in ItemType /\ next.tries = back.tries /\ next.fresh = back.fresh
      /\ next.marked = back.marked /\ next.again = back.again
  BY <1>4, <1>5 DEF ItemType
<1>8. Marked(it) => Marked(next)
  BY <1>4, <1>7 DEF Marked
<1>9. Goes(it, next)
  BY <1>1, <1>3, <1>4, <1>5, <1>7, <1>8 DEF WindowFailed, Goes, Placed, ItemType
<1> QED
  BY <1>3, <1>6, <1>9, DownloadGoes DEF WindowFailed

\* A Start was refused, and the browser gets its download back.
LEMMA GiveBackKeeps ==
    ASSUME EInv, NEW i \in Items, GiveBack(i)
    PROVE  EInv'
<1>1. item[i] \in ItemType /\ item \in [Items -> ItemType]
  BY DEF EInv, Typed
<1>2. PICK ok \in BOOLEAN : item' = [item EXCEPT ![i] = [Restored(i, ok) EXCEPT !.start = "idle", !.window = IF @ = "left" /\ ~ok THEN "failed" ELSE @]]
  BY Zenon DEF GiveBack
<1>3. PICK it, back : it = item[i] /\ back = Restored(i, ok)
  OBVIOUS
<1>4. /\ it \in ItemType /\ back \in ItemType
      /\ back.copy = it.copy /\ back.window = it.window /\ back.start = it.start
      /\ back.copies = it.copies + (IF ok THEN 1 ELSE 0)
      /\ Marked(it) => Marked(back)
  BY <1>1, <1>3, RestoredIs
<1>5. PICK next : next = [back EXCEPT !.start = "idle", !.window = IF @ = "left" /\ ~ok THEN "failed" ELSE @]
  OBVIOUS
<1>6. item' = [item EXCEPT ![i] = next]
  BY <1>2, <1>3, <1>5
<1>7. /\ next \in ItemType /\ next.tries = back.tries /\ next.fresh = back.fresh
      /\ next.marked = back.marked /\ next.again = back.again
  BY <1>4, <1>5 DEF ItemType
<1>8. Marked(it) => Marked(next)
  BY <1>4, <1>7 DEF Marked
<1>9. Goes(it, next)
  BY <1>1, <1>3, <1>4, <1>5, <1>7, <1>8 DEF GiveBack, Goes, Placed, ItemType
<1> QED
  BY <1>3, <1>6, <1>9, DownloadGoes DEF GiveBack

\* A cancelled download goes back to the browser.
LEMMA CancelledKeeps ==
    ASSUME EInv, NEW i \in Items, Cancelled(i)
    PROVE  EInv'
<1>1. item[i] \in ItemType /\ item \in [Items -> ItemType]
  BY DEF EInv, Typed
<1>2. PICK ok \in BOOLEAN : item' = [item EXCEPT ![i] = [Restored(i, ok) EXCEPT !.cancel = FALSE, !.window = IF ok THEN "closed" ELSE @]]
  BY Zenon DEF Cancelled
<1>3. PICK it, back : it = item[i] /\ back = Restored(i, ok)
  OBVIOUS
<1>4. /\ it \in ItemType /\ back \in ItemType
      /\ back.copy = it.copy /\ back.window = it.window /\ back.start = it.start
      /\ back.copies = it.copies + (IF ok THEN 1 ELSE 0)
      /\ Marked(it) => Marked(back)
  BY <1>1, <1>3, RestoredIs
<1>5. PICK next : next = [back EXCEPT !.cancel = FALSE, !.window = IF ok THEN "closed" ELSE @]
  OBVIOUS
<1>6. item' = [item EXCEPT ![i] = next]
  BY <1>2, <1>3, <1>5
<1>7. /\ next \in ItemType /\ next.tries = back.tries /\ next.fresh = back.fresh
      /\ next.marked = back.marked /\ next.again = back.again
  BY <1>4, <1>5 DEF ItemType
<1>8. Marked(it) => Marked(next)
  BY <1>4, <1>7 DEF Marked
<1>9. Goes(it, next)
  BY <1>1, <1>3, <1>4, <1>5, <1>7, <1>8 DEF Cancelled, Goes, Placed, ItemType
<1> QED
  BY <1>3, <1>6, <1>9, DownloadGoes DEF Cancelled

-----------------------------------------------------------------------------
(* The worker's connection and its reports. *)

\* The downloads stay as they are.
LEMMA DownloadsStay ==
    ASSUME EInv, item' = item, jobs \subseteq jobs', past'.ended = past.ended, past.dropped => past'.dropped
    PROVE  /\ item' \in [Items -> ItemType] /\ GivenBack' /\ Followed'
           /\ \A j \in Items : item[j].start = "asked" => item'[j].start = "asked"
<1>1. GivenBack'
  BY DEF EInv, GivenBack, Marked
<1>2. Followed'
  BY DEF EInv, Followed
<1> QED
  BY <1>1, <1>2 DEF EInv, Typed

\* A step of the worker that touches its connection and its store only.
LEMMA WorkerKeeps ==
    ASSUME EInv, NEW n, Steady(Net, n), Become(n),
           Len(n.held.pending) <= MaxHeld, Reading', Forgetting',
           UNCHANGED <<waiting, item, jobs>>,
           past' \in PastType, past'.ended = past.ended, past'.dropped = past.dropped
    PROVE  EInv'
<1>1. n \in NetType /\ held' = n.held
  BY DEF Steady, Become
<1>2. Net' \in NetType
  BY <1>1, NetBecomes
<1>3. Typed'
  BY <1>1, <1>2 DEF EInv, Typed
<1>4. /\ item' \in [Items -> ItemType] /\ GivenBack' /\ Followed'
      /\ \A j \in Items : item[j].start = "asked" => item'[j].start = "asked"
  BY DownloadsStay
<1>5. Requests' /\ Matched'
  BY <1>4, CalmMatched DEF EInv
<1> QED
  BY <1>3, <1>4, <1>5 DEF EInv

\* The store stays as it is.
LEMMA StoreStays ==
    ASSUME EInv, held' = held, past'.ended = past.ended, past'.forgotten \subseteq past.forgotten
    PROVE  Reading' /\ Forgetting' /\ Len(held'.pending) <= MaxHeld
<1>1. Keeps(held, held, {}) /\ held.seen = held.seen \cup {}
  BY DEF Keeps
<1>2. PICK g : g = held
  OBVIOUS
<1>3. Keeps(held, g, {}) /\ g.seen = held.seen \cup {} /\ held' = g
  BY <1>1, <1>2
<1>4. Reading /\ Forgetting
  BY DEF EInv
<1>5. past.ended \/ {} \cap past'.forgotten = {}
  OBVIOUS
<1> QED
  BY <1>3, <1>4, <1>5, CalmHeld DEF EInv, Typed

\* The channel's own variables change, the connection itself does not.
LEMMA ChannelChanges ==
    ASSUME Typed, NEW c \in ChannelType, c.connection = chan.connection,
           NEW n, n = [Net EXCEPT !.chan = c]
    PROVE  Steady(Net, n) /\ n.held = held /\ n.sock = sock /\ n.chan = c
<1>1. Net \in NetType /\ Net.sock = sock /\ Net.chan = chan /\ Net.held = held
  BY NetIs
<1>2. n \in NetType /\ n.sock = Net.sock /\ n.held = Net.held /\ n.chan = c
  BY <1>1 DEF NetType
<1>3. Steady(Net, n)
  BY <1>1, <1>2, SteadyStays DEF Steady
<1> QED
  BY <1>1, <1>2, <1>3

\* There is no pairing.
LEMMA UnpairedKeeps == EInv /\ Unpaired => EInv'
<1> SUFFICES ASSUME EInv, Unpaired PROVE EInv'
  OBVIOUS
<1>1. /\ chan.settling > 0 /\ chan' = [chan EXCEPT !.settling = @ - 1]
      /\ UNCHANGED <<sock, held, waiting, item, jobs, past>>
  BY DEF Unpaired
<1>2. Typed /\ chan \in ChannelType /\ MaxSettling \in Nat
  BY NetIs, ExtensionAssumption DEF EInv
<1>3. PICK c : c = [chan EXCEPT !.settling = @ - 1]
  OBVIOUS
<1>4. chan.settling - 1 \in 0 .. MaxSettling
  BY <1>1, <1>2 DEF ChannelType
<1>5. c \in ChannelType /\ c.connection = chan.connection
  BY <1>2, <1>3, <1>4 DEF ChannelType
<1>6. PICK n : n = [Net EXCEPT !.chan = c]
  OBVIOUS
<1>7. Steady(Net, n) /\ n.held = held /\ n.sock = sock /\ n.chan = c
  BY <1>2, <1>5, <1>6, ChannelChanges
<1>8. Become(n)
  BY <1>1, <1>3, <1>7 DEF Become
<1>9. Reading' /\ Forgetting' /\ Len(held'.pending) <= MaxHeld
  BY <1>1, StoreStays
<1> QED
  BY <1>1, <1>7, <1>8, <1>9, WorkerKeeps DEF EInv, Typed, Become

\* The alarm asks for a connection.
LEMMA AlarmKeeps == EInv /\ Alarm => EInv'
<1> SUFFICES ASSUME EInv, Alarm PROVE EInv'
  OBVIOUS
<1>1. Net \in NetType /\ Net.held = held
  BY NetIs DEF EInv
<1>2. PICK n : n = Connect(Net)
  OBVIOUS
<1>3. Steady(Net, n) /\ n.held = held
  BY <1>1, <1>2, ConnectIs
<1>4. Become(n) /\ UNCHANGED <<waiting, item, jobs, past>>
  BY <1>2 DEF Alarm, Become
<1>5. held' = held
  BY <1>3, <1>4 DEF Become
<1>6. Reading' /\ Forgetting' /\ Len(held'.pending) <= MaxHeld
  BY <1>4, <1>5, StoreStays
<1> QED
  BY <1>3, <1>4, <1>5, <1>6, WorkerKeeps DEF EInv, Typed

\* So does the timer, which is then over.
LEMMA ReconnectKeeps == EInv /\ Reconnect => EInv'
<1> SUFFICES ASSUME EInv, Reconnect PROVE EInv'
  OBVIOUS
<1>1. Typed /\ Net \in NetType /\ Net.held = held /\ Net.chan = chan /\ chan \in ChannelType
  BY NetIs DEF EInv
<1>2. PICK c : c = [chan EXCEPT !.timer = FALSE]
  OBVIOUS
<1>3. c \in ChannelType /\ c.connection = chan.connection
  BY <1>1, <1>2 DEF ChannelType
<1>4. PICK a : a = [Net EXCEPT !.chan = c]
  OBVIOUS
<1>5. Steady(Net, a) /\ a.held = held
  BY <1>1, <1>3, <1>4, ChannelChanges
<1>6. PICK n : n = Connect(a)
  OBVIOUS
<1>7. Steady(a, n) /\ n.held = held
  BY <1>5, <1>6, ConnectIs DEF Steady
<1>8. Steady(Net, n)
  BY <1>1, <1>5, <1>7, SteadyThen
<1>9. a = [Net EXCEPT !.chan.timer = FALSE]
  BY <1>1, <1>2, <1>4
<1>10. Become(n) /\ UNCHANGED <<waiting, item, jobs, past>>
  BY <1>6, <1>9 DEF Reconnect, Become
<1>11. held' = held
  BY <1>7, <1>10 DEF Become
<1>12. Reading' /\ Forgetting' /\ Len(held'.pending) <= MaxHeld
  BY <1>10, <1>11, StoreStays
<1> QED
  BY <1>7, <1>8, <1>10, <1>11, <1>12, WorkerKeeps DEF EInv, Typed

\* A report of a page is sent or held, also one that was forgotten before.
LEMMA ReportKeeps == ASSUME EInv, NEW r \in Reports, Report(r) PROVE EInv'
<1>1. Net \in NetType /\ Net.held = held /\ r \in Things /\ past \in PastType
  BY NetIs DEF EInv, Typed, Things
<1>2. PICK n : n = ReportCandidate(Net, r)
  OBVIOUS
<1>3. PICK R : R = {r} \ held.seen
  OBVIOUS
<1>4. Steady(Net, n) /\ n.held.seen = held.seen \cup {r} /\ Keeps(held, n.held, R)
  BY <1>1, <1>2, <1>3, ReportIs
<1>5. /\ Become(n) /\ UNCHANGED <<waiting, item, jobs>>
      /\ past' = [past EXCEPT !.forgotten = @ \ {r}]
  BY <1>2 DEF Report, Become
<1>6. /\ past' \in PastType /\ past'.ended = past.ended /\ past'.dropped = past.dropped
      /\ past'.forgotten = past.forgotten \ {r}
  BY <1>1, <1>5 DEF PastType
<1>7. /\ n.held.seen = held.seen \cup R /\ R \cap past'.forgotten = {}
      /\ past'.forgotten \subseteq past.forgotten
  BY <1>3, <1>4, <1>6
<1>8. /\ item' \in [Items -> ItemType] /\ GivenBack' /\ Followed'
      /\ \A j \in Items : item[j].start = "asked" => item'[j].start = "asked"
  BY <1>5, <1>6, DownloadsStay
<1> QED
  BY <1>4, <1>5, <1>6, <1>7, <1>8, CalmKeeps

\* What two sequences have between them.
LEMMA TogetherIs ==
    ASSUME NEW S, NEW a \in Seq(S), NEW b \in Seq(S)
    PROVE  /\ a \o b \in Seq(S) /\ Len(a \o b) = Len(a) + Len(b)
           /\ ToSet(a \o b) = ToSet(a) \cup ToSet(b)
<1>1. PICK t : t = a \o b
  OBVIOUS
<1>2. PICK k \in Nat, l \in Nat : k = Len(a) /\ l = Len(b)
  BY LenProperties
<1>3. /\ t \in Seq(S) /\ Len(t) = k + l
      /\ \A n \in 1 .. k + l : t[n] = IF n <= k THEN a[n] ELSE b[n - k]
  BY <1>1, <1>2, ConcatProperties
<1>4. /\ ToSet(t) = {t[n] : n \in 1 .. k + l}
      /\ ToSet(a) = {a[n] : n \in 1 .. k} /\ ToSet(b) = {b[n] : n \in 1 .. l}
  BY <1>2, <1>3, ThingsOf
<1>5. ASSUME NEW n \in 1 .. k + l PROVE t[n] \in ToSet(a) \cup ToSet(b)
  <2>1. CASE n <= k
    <3>1. n \in 1 .. k /\ t[n] = a[n]
      BY <1>3, <2>1
    <3> QED
      BY <1>4, <3>1
  <2>2. CASE ~(n <= k)
    <3>1. n - k \in 1 .. l /\ t[n] = b[n - k]
      BY <1>3, <2>2
    <3> QED
      BY <1>4, <3>1
  <2> QED
    BY <2>1, <2>2
<1>6. ASSUME NEW n \in 1 .. k PROVE a[n] \in ToSet(t)
  <2>1. n \in 1 .. k + l /\ n <= k
    OBVIOUS
  <2> QED
    BY <1>3, <1>4, <2>1
<1>7. ASSUME NEW n \in 1 .. l PROVE b[n] \in ToSet(t)
  <2>1. k + n \in 1 .. k + l /\ ~(k + n <= k) /\ (k + n) - k = n
    OBVIOUS
  <2>2. t[k + n] = b[n]
    BY <1>3, <2>1
  <2> QED
    BY <1>4, <2>1, <2>2
<1>8. ToSet(t) = ToSet(a) \cup ToSet(b)
  BY <1>4, <1>5, <1>6, <1>7
<1> QED
  BY <1>1, <1>2, <1>3, <1>8

\* What was read is held, or sent, but for the oldest of more than the queue takes.
LEMMA LoadedIs ==
    ASSUME EInv, Loaded
    PROVE  \E n : /\ Steady(Net, n) /\ Become(n) /\ Sends(held, n)
                  /\ n.held.load = "done" /\ n.held.queued = <<>>
                  /\ n.held.seen = held.seen /\ Len(n.held.pending) <= MaxHeld
                  /\ ToSet(n.held.pending) \subseteq
                       (IF held.load = "loading" THEN ToSet(held.stored) ELSE ToSet(held.pending))
                         \cup ToSet(held.queued)
<1>1. Net \in NetType /\ Net.held = held /\ Net.sock = sock /\ Net.chan = chan /\ held \in HeldType
  BY NetIs DEF EInv
<1>2. PICK stored : stored = IF held.load = "loading" THEN held.stored ELSE held.pending
  OBVIOUS
<1>3. stored \in Seq(Things) /\ held.queued \in Seq(Things) /\ held.pending \in Seq(Things)
  BY <1>1, <1>2 DEF HeldType
<1>4. PICK list : list = stored \o held.queued
  OBVIOUS
<1>5. /\ list \in Seq(Things) /\ Len(list) = Len(stored) + Len(held.queued)
      /\ ToSet(list) = ToSet(stored) \cup ToSet(held.queued)
  BY <1>3, <1>4, TogetherIs
<1>6. PICK kept : kept = Newest(list)
  OBVIOUS
<1>7. /\ kept \in Seq(Things) /\ Len(kept) <= MaxHeld /\ ToSet(kept) \subseteq ToSet(list)
      /\ Len(list) <= MaxHeld => kept = list
  BY <1>5, <1>6, NewestIs
<1>8. PICK g : g = [held EXCEPT !.load = "done", !.queued = <<>>, !.pending = kept]
  OBVIOUS
<1>9. /\ g \in HeldType /\ g.load = "done" /\ g.queued = <<>> /\ g.pending = kept
      /\ g.seen = held.seen
  BY <1>1, <1>7, <1>8, EmptySeq DEF HeldType
<1>10. PICK read : read = [Net EXCEPT !.held = g]
  OBVIOUS
<1>11. read \in NetType /\ read.sock = Net.sock /\ read.chan = Net.chan /\ read.held = g
  BY <1>1, <1>9, <1>10 DEF NetType
<1>12. Steady(Net, read)
  BY <1>1, <1>11, SteadyStays DEF Steady
<1>13. PICK saved : saved = IF held.queued = <<>> THEN read ELSE SavePending(read)
  OBVIOUS
<1>14. Steady(read, saved) /\ Aside(g, saved.held) /\ saved.held.pending = kept /\ saved \in NetType
  <2>1. CASE saved = read
    BY <1>9, <1>11, <2>1, SteadyStays DEF Aside
  <2>2. CASE saved = SavePending(read)
    BY <1>9, <1>11, <2>2, SaveIs DEF Steady
  <2> QED
    BY <1>13, <2>1, <2>2
<1>15. PICK c : c = IF read.held.pending = <<>> THEN saved ELSE Connect(saved)
  OBVIOUS
<1>16. Steady(saved, c) /\ c.held = saved.held /\ c \in NetType
  <2>1. CASE c = saved
    BY <1>14, <2>1, SteadyStays
  <2>2. CASE c = Connect(saved)
    BY <1>14, <2>2, ConnectIs DEF Steady
  <2> QED
    BY <1>15, <2>1, <2>2
<1>17. PICK out : out = Flush(c)
  OBVIOUS
<1>18. /\ Steady(c, out) /\ Aside(c.held, out.held)
       /\ \/ out = c
          \/ out.held.pending = <<>> /\ ToSet(kept) \subseteq SentOn(out.sock)
  BY <1>14, <1>16, <1>17, FlushIs
<1>19. Steady(Net, out)
  <2>1. Steady(Net, saved)
    BY <1>1, <1>12, <1>14, SteadyThen
  <2>2. Steady(Net, c)
    BY <1>1, <1>16, <2>1, SteadyThen
  <2> QED
    BY <1>1, <1>18, <2>2, SteadyThen
<1>20. read = [Net EXCEPT !.held.load = "done", !.held.queued = <<>>,
                          !.held.pending = Newest(stored \o held.queued)]
  BY <1>1, <1>4, <1>6, <1>8, <1>10
<1>21. Become(out)
  BY <1>2, <1>13, <1>15, <1>17, <1>20, Zenon DEF Loaded
<1>22. /\ out.held.load = "done" /\ out.held.queued = <<>> /\ out.held.seen = held.seen
       /\ \/ out.held.pending = kept
          \/ out.held.pending = <<>> /\ ToSet(kept) \subseteq SentOn(out.sock)
  BY <1>9, <1>14, <1>16, <1>18 DEF Aside
<1>23. ToSet(<<>>) = {} /\ Len(<<>>) = 0 /\ 0 <= MaxHeld
  BY ToEmpty, ExtensionAssumption
<1>24. Len(out.held.pending) <= MaxHeld
  BY <1>7, <1>22, <1>23
<1>25. ToSet(out.held.pending) \subseteq ToSet(list)
  BY <1>7, <1>22, <1>23
<1>26. Holds(held) = ToSet(list) /\ Held(held) = Len(list)
  <2>1. CASE held.load = "loading"
    <3>1. held.pending = <<>>
      BY <2>1 DEF EInv, Reading
    <3>2. Len(held.queued) \in Nat /\ Len(stored) \in Nat
      BY <1>3, LenProperties
    <3>3. stored = held.stored
      BY <1>2, <2>1
    <3>4. Holds(held) = ToSet(list)
      BY <1>5, <1>23, <2>1, <3>1, <3>3 DEF Holds
    <3>5. Held(held) = Len(held.pending) + Len(held.queued) + Len(stored)
      BY <2>1, <3>3 DEF Held
    <3>6. Len(held.pending) = 0
      BY <1>23, <3>1
    <3>7. Held(held) = Len(list)
      BY ONLY <1>5, <3>2, <3>5, <3>6
    <3> QED
      BY <3>4, <3>7
  <2>2. CASE held.load # "loading"
    <3>1. Len(held.queued) \in Nat /\ Len(held.pending) \in Nat
      BY <1>3, LenProperties
    <3> QED
      BY <1>2, <1>5, <2>2, <3>1 DEF Holds, Held
  <2> QED
    BY <2>1, <2>2
<1>27. Sends(held, out)
  <2>1. ToSet(out.held.pending) \subseteq Holds(out.held)
    BY DEF Holds
  <2>2. CASE Len(list) <= MaxHeld
    BY <1>7, <1>22, <1>26, <2>1, <2>2 DEF Sends
  <2>3. CASE ~(Len(list) <= MaxHeld)
    <3>1. Len(list) \in Nat /\ MaxHeld \in Nat
      BY <1>5, LenProperties, ExtensionAssumption
    <3>2. Held(held) >= MaxHeld
      BY <1>26, <2>3, <3>1
    <3> QED
      BY <3>2 DEF Sends
  <2> QED
    BY <2>2, <2>3
<1> QED
  BY <1>2, <1>5, <1>19, <1>21, <1>22, <1>24, <1>25, <1>27

\* The session storage has been read.
LEMMA LoadedKeeps == EInv /\ Loaded => EInv'
<1> SUFFICES ASSUME EInv, Loaded PROVE EInv'
  OBVIOUS
<1>1. PICK n : /\ Steady(Net, n) /\ Become(n)
               /\ n.held.load = "done" /\ n.held.queued = <<>>
               /\ n.held.seen = held.seen /\ Len(n.held.pending) <= MaxHeld
               /\ ToSet(n.held.pending) \subseteq
                    (IF held.load = "loading" THEN ToSet(held.stored) ELSE ToSet(held.pending))
                      \cup ToSet(held.queued)
  BY LoadedIs
<1>2. UNCHANGED <<waiting, item, jobs, past>>
  BY DEF Loaded
<1>3. held' = n.held
  BY <1>1 DEF Become
<1>4. Reading'
  BY <1>1, <1>3 DEF Reading
<1>5. Forgetting'
  <2> SUFFICES ASSUME ~past.ended
               PROVE  /\ (past.forgotten \cup ToSet(n.held.pending)) \cap Items \subseteq held.seen
                      /\ past.forgotten \cap ToSet(n.held.pending) = {}
    BY <1>1, <1>2, <1>3, ToEmpty DEF Forgetting, ForgottenStaysForgotten
  <2>1. /\ held.load = "loading" => past.forgotten = {} /\ ToSet(held.stored) \subseteq Reports
        /\ (past.forgotten \cup ToSet(held.pending) \cup ToSet(held.queued)) \cap Items \subseteq held.seen
        /\ past.forgotten \cap (ToSet(held.pending) \cup ToSet(held.queued)) = {}
    BY DEF EInv, Forgetting, ForgottenStaysForgotten
  <2>2. Items \cap Reports = {}
    BY ExtensionAssumption
  <2> QED
    BY <1>1, <2>1, <2>2
<1> QED
  BY <1>1, <1>2, <1>4, <1>5, WorkerKeeps DEF EInv, Typed

\* A snapshot is in the session storage; none is written while it is being read.
LEMMA WrittenKeeps == EInv /\ Written => EInv'
<1> SUFFICES ASSUME EInv, Written PROVE EInv'
  OBVIOUS
<1>1. /\ held.writes # <<>> /\ held' = [held EXCEPT !.stored = Head(held.writes), !.writes = Tail(@)]
      /\ UNCHANGED <<sock, chan, waiting, item, jobs, past>>
  BY DEF Written
<1>2. Net \in NetType /\ Net.held = held /\ Net.sock = sock /\ Net.chan = chan /\ held \in HeldType
  BY NetIs DEF EInv
<1>3. held.writes \in Seq(Seq(Things))
  BY <1>2 DEF HeldType
<1>4. Head(held.writes) \in Seq(Things) /\ Tail(held.writes) \in Seq(Seq(Things))
  BY <1>1, <1>3, HeadTailProperties
<1>5. PICK g : g = [held EXCEPT !.stored = Head(held.writes), !.writes = Tail(@)]
  OBVIOUS
<1>6. /\ g \in HeldType /\ g.load = held.load /\ g.pending = held.pending /\ g.queued = held.queued
      /\ g.seen = held.seen
  BY <1>2, <1>4, <1>5 DEF HeldType
<1>7. held' = g
  BY <1>1, <1>5
<1>8. PICK n : n = [Net EXCEPT !.held = g]
  OBVIOUS
<1>9. n \in NetType /\ n.sock = sock /\ n.chan = chan /\ n.held = g
  BY <1>2, <1>6, <1>8 DEF NetType
<1>10. Steady(Net, n) /\ Become(n)
  BY <1>1, <1>2, <1>7, <1>9, SteadyStays DEF Steady, Become
<1>11. held.load # "loading"
  BY <1>1 DEF EInv, Reading
<1>12. Reading' /\ Forgetting'
  BY <1>1, <1>6, <1>7, <1>11 DEF EInv, Reading, Forgetting, ForgottenStaysForgotten
<1>13. Len(n.held.pending) <= MaxHeld
  BY <1>6, <1>9 DEF EInv, Typed
<1> QED
  BY <1>1, <1>10, <1>12, <1>13, WorkerKeeps DEF EInv, Typed

\* Start asks for a connection.
LEMMA StartKeeps == ASSUME EInv, NEW i \in Items, Start(i) PROVE EInv'
<1>1. Net \in NetType /\ Net.held = held /\ item \in [Items -> ItemType] /\ item[i] \in ItemType
  BY NetIs DEF EInv, Typed
<1>2. PICK it, next : it = item[i] /\ next = [it EXCEPT !.start = "connecting"]
  OBVIOUS
<1>3. item' = [item EXCEPT ![i] = next] /\ UNCHANGED <<waiting, jobs, past>>
  BY <1>1, <1>2 DEF Start
<1>4. Goes(it, next)
  BY <1>1, <1>2 DEF Start, Goes, Marked, Placed, ItemType
<1>5. /\ item' \in [Items -> ItemType] /\ GivenBack' /\ Followed'
      /\ \A j \in Items : item[j].start = "asked" => item'[j].start = "asked"
  BY <1>2, <1>3, <1>4, GoesOn
<1>6. PICK n : n = Connect(Net)
  OBVIOUS
<1>7. Steady(Net, n) /\ n.held = held
  BY <1>1, <1>6, ConnectIs
<1>8. Become(n)
  BY <1>6 DEF Start, Become
<1>9. Keeps(held, n.held, {}) /\ n.held.seen = held.seen \cup {} /\ (past.ended \/ {} \cap past'.forgotten = {})
  BY <1>7 DEF Keeps
<1>10. past' \in PastType /\ past'.forgotten \subseteq past.forgotten
  BY <1>3 DEF EInv, Typed
<1> QED
  BY <1>3, <1>5, <1>7, <1>8, <1>9, <1>10, CalmKeeps

-----------------------------------------------------------------------------
(* The sockets. *)

\* One socket goes on, and the worker then sends what it sends.
LEMMA SocketMatched ==
    ASSUME Typed, Requests, Matched, NEW s \in Sockets, NEW k \in SocketType,
           k.state = "open" \/ (k.state = "closing" /\ sock[s].state = "closing"),
           \A m \in 1 .. Len(k.got) : k.got[m].kind = "queued" => k.got[m].about \in jobs',
           ~past.ended /\ ~past.dropped => InOrder(Line(k), Awaited(s)),
           NEW n \in NetType, n.sock = [sock EXCEPT ![s] = k], n.chan.connection = chan.connection,
           NEW out, Steady(n, out), Become(out),
           waiting' = waiting, jobs \subseteq jobs', item' = item,
           past'.ended = past.ended, past'.dropped = past.dropped
    PROVE  Requests' /\ Matched'
<1>1. /\ out \in NetType /\ out.sock \in [Sockets -> SocketType] /\ n.sock \in [Sockets -> SocketType]
      /\ out.chan.connection = chan.connection
      /\ sock' = out.sock /\ chan' = out.chan /\ sock \in [Sockets -> SocketType] /\ waiting \in Seq(Items)
  BY NetIs DEF Steady, NetType, Become, Typed
<1>2. n.sock[s] = k /\ \A t \in Sockets : t # s => n.sock[t] = sock[t]
  BY <1>1
<1>3. \A t \in Sockets : /\ out.sock[t].state = n.sock[t].state /\ out.sock[t].got = n.sock[t].got
                         /\ Grows(n.sock[t].sent, out.sock[t].sent)
                         /\ n.sock[t].state \in {"free", "connecting"} => out.sock[t].sent = n.sock[t].sent
  BY DEF Steady
<1>4. Requests'
  <2>1. /\ \A i, j \in 1 .. Len(waiting) : waiting[i] = waiting[j] => i = j
        /\ \A i \in 1 .. Len(waiting) : item'[waiting[i]].start = "asked"
    BY DEF Requests
  <2>2. ASSUME NEW t \in Sockets
        PROVE  /\ out.sock[t].state \in {"free", "connecting"} => out.sock[t].sent = <<>> /\ out.sock[t].got = <<>>
               /\ chan.connection = t => out.sock[t].state \in {"connecting", "open"}
               /\ \A m \in 1 .. Len(out.sock[t].got) :
                    out.sock[t].got[m].kind = "queued" => out.sock[t].got[m].about \in jobs'
    <3>1. CASE t = s
      <4>1. chan.connection = s => sock[s].state # "closing"
        BY DEF Requests
      <4> QED
        BY <1>2, <1>3, <3>1, <4>1
    <3>2. CASE t # s
      BY <1>2, <1>3, <3>2 DEF Requests
    <3> QED
      BY <3>1, <3>2
  <2> QED
    BY <1>1, <2>1, <2>2 DEF Requests
<1>5. Matched'
  <2> SUFFICES ASSUME ~past.ended, ~past.dropped, NEW t \in Sockets
               PROVE  InOrder(Line(out.sock[t]), Awaited(t))
    BY <1>1 DEF Matched, Awaited
  <2>1. InOrder(Line(n.sock[t]), Awaited(t))
    <3>1. CASE t = s
      BY <1>2, <3>1
    <3>2. CASE t # s
      <4>1. InOrder(Line(sock[t]), Awaited(t))
        BY DEF Matched
      <4> QED
        BY <1>2, <3>2, <4>1
    <3> QED
      BY <3>1, <3>2
  <2>2. Grows(Line(n.sock[t]), Line(out.sock[t]))
    BY <1>1, <1>3, LineGrows
  <2>3. Len(Line(n.sock[t])) \in Nat /\ Len(Line(out.sock[t])) \in Nat
    BY <1>1, LineIs
  <2>4. Len(Awaited(t)) \in Nat
    BY <1>1, LenProperties, ToEmpty DEF Awaited
  <2>5. PICK x, y, z : x = Line(n.sock[t]) /\ y = Line(out.sock[t]) /\ z = Awaited(t)
    OBVIOUS
  <2>6. InOrder(y, z)
    BY <2>1, <2>2, <2>3, <2>4, <2>5, GrownInOrder
  <2> QED
    BY <2>5, <2>6
<1> QED
  BY <1>4, <1>5

\* A step of one socket, with what the worker sends then.
LEMMA SocketKeeps ==
    ASSUME EInv, NEW s \in Sockets, NEW k \in SocketType,
           k.state = "open" \/ (k.state = "closing" /\ sock[s].state = "closing"),
           \A m \in 1 .. Len(k.got) : k.got[m].kind = "queued" => k.got[m].about \in jobs',
           ~past.ended /\ ~past.dropped => InOrder(Line(k), Awaited(s)),
           NEW n \in NetType, n.sock = [sock EXCEPT ![s] = k], n.chan.connection = chan.connection,
           NEW out, Steady(n, out), Become(out),
           Len(out.held.pending) <= MaxHeld, Reading', Forgetting',
           UNCHANGED <<waiting, item, past>>, jobs \subseteq jobs', jobs' \subseteq Items
    PROVE  EInv'
<1>1. Requests' /\ Matched'
  BY SocketMatched DEF EInv
<1>2. out \in NetType /\ held' = out.held
  BY DEF Steady, Become
<1>3. Net' \in NetType
  BY <1>2, NetBecomes
<1>4. Typed'
  BY <1>2, <1>3 DEF EInv, Typed
<1>5. GivenBack' /\ Followed'
  BY DownloadsStay
<1> QED
  BY <1>1, <1>4, <1>5 DEF EInv

\* ... and with nothing sent by the worker.
LEMMA SocketAlone ==
    ASSUME EInv, NEW s \in Sockets, NEW k \in SocketType,
           k.state = "open" \/ (k.state = "closing" /\ sock[s].state = "closing"),
           \A m \in 1 .. Len(k.got) : k.got[m].kind = "queued" => k.got[m].about \in jobs',
           ~past.ended /\ ~past.dropped => InOrder(Line(k), Awaited(s)),
           sock' = [sock EXCEPT ![s] = k],
           UNCHANGED <<chan, held, waiting, item, past>>, jobs \subseteq jobs', jobs' \subseteq Items
    PROVE  EInv'
<1>1. /\ Net \in NetType /\ Net.chan = chan /\ Net.held = held
      /\ sock \in [Sockets -> SocketType]
  BY NetIs DEF EInv
<1>2. PICK new : new = [sock EXCEPT ![s] = k]
  OBVIOUS
<1>3. new \in [Sockets -> SocketType]
  BY <1>1, <1>2
<1>4. PICK n : n = [Net EXCEPT !.sock = new]
  OBVIOUS
<1>5. n \in NetType /\ n.sock = new /\ n.chan = chan /\ n.held = held
  BY <1>1, <1>3, <1>4 DEF NetType
<1>6. Steady(n, n) /\ Become(n)
  BY <1>2, <1>5, SteadyStays DEF Become
<1>7. Reading' /\ Forgetting' /\ Len(held'.pending) <= MaxHeld
  BY StoreStays
<1>8. Len(n.held.pending) <= MaxHeld
  BY <1>5 DEF EInv, Typed
<1> QED
  BY <1>2, <1>5, <1>6, <1>7, <1>8, SocketKeeps

\* What a socket carries of no kind that asks is in order for none.
LEMMA NoneInOrder == \A line : Len(line) = 0 => InOrder(line, <<>>)
  BY ToEmpty DEF InOrder

\* A socket opens, and greets the daemon.
LEMMA OpenedKeeps == ASSUME EInv, NEW s \in Sockets, Opened(s) PROVE EInv'
<1>1. /\ sock[s].state = "connecting" /\ sock' = [sock EXCEPT ![s].state = "open", ![s].sent = <<Hello>>]
      /\ UNCHANGED <<chan, held, waiting, item, jobs, past>>
  BY DEF Opened
<1>2. sock \in [Sockets -> SocketType] /\ sock[s] \in SocketType /\ waiting \in Seq(Items)
  BY NetIs DEF EInv, Typed
<1>3. PICK k : k = [sock[s] EXCEPT !.state = "open", !.sent = <<Hello>>]
  OBVIOUS
<1>4. sock' = [sock EXCEPT ![s] = k]
  BY <1>1, <1>2, <1>3
<1>5. Hello \in Outgoing /\ ~Asks(Hello)
  BY DEF Hello, Message, Outgoing, Asks
<1>6. <<Hello>> \in Seq(Outgoing) /\ Len(<<Hello>>) = 1 /\ (<<Hello>>)[1] = Hello
  BY <1>5
<1>7. k \in SocketType /\ k.state = "open" /\ k.got = sock[s].got /\ k.sent = <<Hello>>
  BY <1>2, <1>3, <1>6 DEF SocketType
<1>8. sock[s].sent = <<>> /\ sock[s].got = <<>>
  BY <1>1 DEF EInv, Requests
<1>9. Grows(sock[s].sent, k.sent)
  <2>1. Len(sock[s].sent) = 0
    BY <1>8, ToEmpty
  <2> QED
    BY <1>5, <1>6, <1>7, <2>1 DEF Grows
<1>10. ~past.ended /\ ~past.dropped => InOrder(Line(k), Awaited(s))
  <2> SUFFICES ASSUME ~past.ended, ~past.dropped PROVE InOrder(Line(k), Awaited(s))
    OBVIOUS
  <2>1. InOrder(Line(sock[s]), Awaited(s))
    BY DEF EInv, Matched
  <2>2. Grows(Line(sock[s]), Line(k))
    BY <1>2, <1>7, <1>9, LineGrows
  <2>3. Len(Line(sock[s])) \in Nat /\ Len(Line(k)) \in Nat
    BY <1>2, <1>7, LineIs
  <2>4. Len(Awaited(s)) \in Nat
    BY <1>2, LenProperties, ToEmpty DEF Awaited
  <2>5. PICK x, y, z : x = Line(sock[s]) /\ y = Line(k) /\ z = Awaited(s)
    OBVIOUS
  <2>6. InOrder(y, z)
    BY <2>1, <2>2, <2>3, <2>4, <2>5, GrownInOrder
  <2> QED
    BY <2>5, <2>6
<1>11. \A m \in 1 .. Len(k.got) : k.got[m].kind = "queued" => k.got[m].about \in jobs'
  BY <1>1, <1>7 DEF EInv, Requests
<1>12. jobs' \subseteq Items
  BY <1>1 DEF EInv, Typed
<1> QED
  BY <1>1, <1>4, <1>7, <1>10, <1>11, <1>12, SocketAlone

\* The daemon reads a message.
LEMMA TakenIs ==
    ASSUME NEW k \in SocketType, k.sent # <<>>, NEW k2, k2 = [k EXCEPT !.sent = Tail(@)]
    PROVE  /\ k2 \in SocketType /\ k2.state = k.state /\ k2.got = k.got
           /\ Head(k.sent) \in Outgoing /\ Line(k)[Len(k.got) + 1] = Head(k.sent)
           /\ Without(Line(k), Len(k.got) + 1, Line(k2))
<1>1. PICK x : x = k.sent
  OBVIOUS
<1>2. x \in Seq(Outgoing) /\ x # <<>>
  BY <1>1 DEF SocketType
<1>3. PICK y : y = Tail(x)
  OBVIOUS
<1>4. /\ Head(x) \in Outgoing /\ Head(x) = x[1] /\ y \in Seq(Outgoing) /\ Len(y) = Len(x) - 1
      /\ \A n \in 1 .. Len(y) : y[n] = x[n + 1]
  BY <1>2, <1>3, HeadTailProperties
<1>5. k2 \in SocketType /\ k2.state = k.state /\ k2.got = k.got /\ k2.sent = y
  BY <1>1, <1>3, <1>4 DEF SocketType
<1>6. PICK a \in Nat, b \in Nat : a = Len(k.got) /\ b = Len(x)
  BY <1>1, LineIs
<1>7. b >= 1
  BY <1>2, <1>6, EmptySeq
<1>8. /\ Len(Line(k)) = a + b
      /\ \A n \in 1 .. a + b : Line(k)[n] = IF n <= a THEN k.got[n] ELSE x[n - a]
      /\ Len(Line(k2)) = a + (b - 1)
      /\ \A n \in 1 .. a + (b - 1) : Line(k2)[n] = IF n <= a THEN k.got[n] ELSE y[n - a]
  <2>1. /\ Len(Line(k)) = a + b
        /\ \A n \in 1 .. a + b : Line(k)[n] = IF n <= a THEN k.got[n] ELSE x[n - a]
    BY <1>1, <1>6, LineIs
  <2>2. Len(k2.got) = a /\ Len(k2.sent) = b - 1 /\ k2.got = k.got /\ k2.sent = y /\ k2 \in SocketType
    BY <1>4, <1>5, <1>6
  <2>3. /\ Len(Line(k2)) = a + (b - 1)
        /\ \A n \in 1 .. a + (b - 1) : Line(k2)[n] = IF n <= a THEN k2.got[n] ELSE k2.sent[n - a]
    BY ONLY <2>2, LineIs
  <2> QED
    BY <2>1, <2>2, <2>3
<1>9. Line(k)[a + 1] = Head(x)
  <2>1. a + 1 \in 1 .. a + b /\ ~(a + 1 <= a) /\ (a + 1) - a = 1
    BY <1>7
  <2> QED
    BY <1>4, <1>8, <2>1
<1>10. ASSUME NEW n \in 1 .. a + (b - 1)
       PROVE  Line(k2)[n] = IF n < a + 1 THEN Line(k)[n] ELSE Line(k)[n + 1]
  <2>1. CASE n <= a
    <3>1. n < a + 1 /\ n \in 1 .. a + b
      BY <1>7, <2>1
    <3> QED
      BY <1>8, <2>1, <3>1
  <2>2. CASE ~(n <= a)
    <3>1. /\ ~(n < a + 1) /\ n + 1 \in 1 .. a + b /\ ~(n + 1 <= a) /\ (n + 1) - a = (n - a) + 1
          /\ n - a \in 1 .. b - 1
      BY <1>7, <2>2
    <3>2. Line(k2)[n] = y[n - a] /\ Line(k)[n + 1] = x[(n - a) + 1]
      BY <1>8, <2>2, <3>1
    <3>3. y[n - a] = x[(n - a) + 1]
      BY <1>4, <1>6, <3>1
    <3> QED
      BY <3>1, <3>2, <3>3
  <2> QED
    BY <2>1, <2>2
<1>11. Without(Line(k), a + 1, Line(k2))
  <2>1. a + 1 \in 1 .. a + b /\ a + (b - 1) = (a + b) - 1
    BY <1>7
  <2> QED
    BY <1>8, <1>10, <2>1 DEF Without
<1> QED
  BY <1>1, <1>4, <1>5, <1>6, <1>9, <1>11

\* A socket whose first message has its answer.
WithAnswer(k, answer) == [k EXCEPT !.sent = Tail(@), !.got = Append(@, answer)]

\* ... and answers it.
LEMMA AnsweredIs ==
    ASSUME NEW k \in SocketType, k.sent # <<>>, NEW answer \in Incoming,
           NEW k2, k2 = WithAnswer(k, answer)
    PROVE  /\ k2 \in SocketType /\ k2.state = k.state
           /\ Len(k2.got) = Len(k.got) + 1 /\ k2.got[Len(k.got) + 1] = answer
           /\ \A n \in 1 .. Len(k.got) : k2.got[n] = k.got[n]
           /\ Line(k2)[Len(k.got) + 1] = answer
           /\ Exchanged(Line(k), Len(k.got) + 1, Line(k2))
<1>1. PICK x, z : x = k.sent /\ z = k.got
  OBVIOUS
<1>2. x \in Seq(Outgoing) /\ x # <<>> /\ z \in Seq(Incoming)
  BY <1>1 DEF SocketType
<1>3. PICK y, w : y = Tail(x) /\ w = Append(z, answer)
  OBVIOUS
<1>4. /\ y \in Seq(Outgoing) /\ Len(y) = Len(x) - 1
      /\ \A n \in 1 .. Len(y) : y[n] = x[n + 1]
  BY <1>2, <1>3, HeadTailProperties
<1>5. PICK a \in Nat, b \in Nat : a = Len(z) /\ b = Len(x)
  BY <1>1, LineIs
<1>6. /\ w \in Seq(Incoming) /\ Len(w) = a + 1 /\ w[a + 1] = answer
      /\ \A n \in 1 .. a : w[n] = z[n]
  BY <1>2, <1>3, <1>5, AppendProperties
<1>7. k2 \in SocketType /\ k2.state = k.state /\ k2.got = w /\ k2.sent = y
  BY <1>1, <1>3, <1>4, <1>6 DEF SocketType, WithAnswer
<1>8. b >= 1
  BY <1>2, <1>5, EmptySeq
<1>9. /\ Len(Line(k)) = a + b
      /\ \A n \in 1 .. a + b : Line(k)[n] = IF n <= a THEN z[n] ELSE x[n - a]
      /\ Len(Line(k2)) = (a + 1) + (b - 1)
      /\ \A n \in 1 .. (a + 1) + (b - 1) : Line(k2)[n] = IF n <= a + 1 THEN w[n] ELSE y[n - (a + 1)]
  <2>1. /\ Len(Line(k)) = a + b
        /\ \A n \in 1 .. a + b : Line(k)[n] = IF n <= a THEN z[n] ELSE x[n - a]
    BY <1>1, <1>5, LineIs
  <2>2. Len(k2.got) = a + 1 /\ Len(k2.sent) = b - 1 /\ k2.got = w /\ k2.sent = y /\ k2 \in SocketType
    BY <1>4, <1>5, <1>6, <1>7
  <2>3. /\ Len(Line(k2)) = (a + 1) + (b - 1)
        /\ \A n \in 1 .. (a + 1) + (b - 1) :
             Line(k2)[n] = IF n <= a + 1 THEN k2.got[n] ELSE k2.sent[n - (a + 1)]
    BY ONLY <2>2, LineIs
  <2> QED
    BY <2>1, <2>2, <2>3
<1>10. Line(k2)[a + 1] = answer
  <2>1. a + 1 \in 1 .. (a + 1) + (b - 1) /\ a + 1 <= a + 1
    BY <1>8
  <2> QED
    BY <1>6, <1>9, <2>1
<1>11. ASSUME NEW n \in 1 .. a + b, n # a + 1 PROVE Line(k2)[n] = Line(k)[n]
  <2>1. CASE n <= a
    <3>1. n \in 1 .. (a + 1) + (b - 1) /\ n <= a + 1 /\ n \in 1 .. a
      BY <1>8, <2>1
    <3> QED
      BY <1>6, <1>9, <2>1, <3>1
  <2>2. CASE ~(n <= a)
    <3>1. /\ n \in 1 .. (a + 1) + (b - 1) /\ ~(n <= a + 1)
          /\ n - (a + 1) \in 1 .. b - 1 /\ (n - (a + 1)) + 1 = n - a
      BY <1>8, <1>11, <2>2
    <3>2. Line(k2)[n] = y[n - (a + 1)] /\ Line(k)[n] = x[n - a]
      BY <1>9, <2>2, <3>1
    <3>3. y[n - (a + 1)] = x[n - a]
      BY <1>4, <1>5, <3>1
    <3> QED
      BY <3>2, <3>3
  <2> QED
    BY <2>1, <2>2
<1>12. Exchanged(Line(k), a + 1, Line(k2))
  <2>1. a + 1 \in 1 .. a + b /\ (a + 1) + (b - 1) = a + b
    BY <1>8
  <2> QED
    BY <1>9, <1>11, <2>1 DEF Exchanged
<1> QED
  BY <1>1, <1>5, <1>6, <1>7, <1>10, <1>12

\* What the daemon reads and does not answer was no request, or no one waits.
LEMMA TakenKeeps ==
    ASSUME EInv, NEW s \in Sockets, sock[s].state \in {"open", "closing"}, sock[s].sent # <<>>,
           sock' = [sock EXCEPT ![s].sent = Tail(@)],
           ~Asks(Head(sock[s].sent)) \/ sock[s].state = "closing",
           UNCHANGED <<chan, held, waiting, item, past>>, jobs \subseteq jobs', jobs' \subseteq Items
    PROVE  EInv'
<1>1. sock \in [Sockets -> SocketType] /\ sock[s] \in SocketType /\ waiting \in Seq(Items)
  BY NetIs DEF EInv, Typed
<1>2. PICK k, k2 : k = sock[s] /\ k2 = [k EXCEPT !.sent = Tail(@)]
  OBVIOUS
<1>3. sock' = [sock EXCEPT ![s] = k2]
  BY <1>1, <1>2
<1>4. PICK p : p = Len(k.got) + 1
  OBVIOUS
<1>5. /\ k2 \in SocketType /\ k2.state = k.state /\ k2.got = k.got
      /\ Line(k)[p] = Head(k.sent) /\ Without(Line(k), p, Line(k2))
  BY <1>1, <1>2, <1>4, TakenIs
<1>6. \A n \in 1 .. Len(k2.got) : k2.got[n].kind = "queued" => k2.got[n].about \in jobs'
  BY <1>2, <1>5 DEF EInv, Requests
<1>7. ASSUME ~past.ended, ~past.dropped PROVE InOrder(Line(k2), Awaited(s))
  <2>1. PICK x, y, z : x = Line(k) /\ y = Line(k2) /\ z = Awaited(s)
    OBVIOUS
  <2>2. InOrder(x, z)
    BY <1>2, <1>7, <2>1 DEF EInv, Matched
  <2>3. Len(x) \in Nat /\ Len(z) \in Nat
    BY <1>1, <1>2, <2>1, LineIs, LenProperties, ToEmpty DEF Awaited
  <2>4. ~Asks(x[p])
    <3>1. CASE ~Asks(Head(sock[s].sent))
      BY <1>2, <1>5, <2>1, <3>1
    <3>2. CASE sock[s].state = "closing"
      <4>1. s # chan.connection
        BY <3>2 DEF EInv, Requests
      <4>2. Len(z) = 0
        BY <2>1, <4>1, ToEmpty DEF Awaited
      <4>3. p \in 1 .. Len(x)
        BY <1>5, <2>1 DEF Without
      <4> QED
        BY <2>2, <4>2, <4>3 DEF InOrder
    <3> QED
      BY <3>1, <3>2
  <2>5. Without(x, p, y)
    BY <1>5, <2>1
  <2>6. InOrder(y, z)
    BY <2>2, <2>3, <2>4, <2>5, WithoutInOrder
  <2> QED
    BY <2>1, <2>6
<1>8. k2.state = "open" \/ (k2.state = "closing" /\ sock[s].state = "closing")
  BY <1>2, <1>5
<1> QED
  BY <1>3, <1>5, <1>6, <1>7, <1>8, SocketAlone

\* An answer takes the place of what it answers.
LEMMA AnswerKeeps ==
    ASSUME EInv, NEW s \in Sockets, sock[s].state = "open", sock[s].sent # <<>>,
           NEW answer \in Incoming,
           sock' = [sock EXCEPT ![s].sent = Tail(@), ![s].got = Append(@, answer)],
           Asks(Head(sock[s].sent)) <=> Asks(answer),
           Asks(Head(sock[s].sent)) => answer.about = Head(sock[s].sent).about,
           answer.kind = "queued" => answer.about \in jobs',
           UNCHANGED <<chan, held, waiting, item, past>>, jobs \subseteq jobs', jobs' \subseteq Items
    PROVE  EInv'
<1>1. sock \in [Sockets -> SocketType] /\ sock[s] \in SocketType /\ waiting \in Seq(Items)
  BY NetIs DEF EInv, Typed
<1>2. PICK k, k2 : k = sock[s] /\ k2 = WithAnswer(k, answer)
  OBVIOUS
<1>3. sock' = [sock EXCEPT ![s] = k2]
  BY <1>1, <1>2 DEF WithAnswer
<1>4. PICK p : p = Len(k.got) + 1
  OBVIOUS
<1>5. /\ k2 \in SocketType /\ k2.state = k.state
      /\ Len(k2.got) = p /\ k2.got[p] = answer
      /\ \A n \in 1 .. Len(k.got) : k2.got[n] = k.got[n]
      /\ Line(k2)[p] = answer /\ Exchanged(Line(k), p, Line(k2))
  <2>1. k \in SocketType /\ k.sent # <<>>
    BY <1>1, <1>2
  <2> QED
    BY <1>2, <1>4, <2>1, AnsweredIs
<1>6. Line(k)[p] = Head(k.sent)
  <2>1. PICK k3 : k3 = [k EXCEPT !.sent = Tail(@)]
    OBVIOUS
  <2> QED
    BY <1>1, <1>2, <1>4, <2>1, TakenIs
<1>7. ASSUME NEW n \in 1 .. Len(k2.got), k2.got[n].kind = "queued" PROVE k2.got[n].about \in jobs'
  <2>1. Len(k.got) \in Nat
    BY <1>1, <1>2, LineIs
  <2>2. n \in 1 .. Len(k.got) \/ n = p
    BY <1>4, <1>5, <2>1
  <2>3. CASE n \in 1 .. Len(k.got)
    BY <1>2, <1>5, <1>7, <2>3 DEF EInv, Requests
  <2>4. CASE n = p
    BY <1>5, <1>7, <2>4
  <2> QED
    BY <2>2, <2>3, <2>4
<1>8. ASSUME ~past.ended, ~past.dropped PROVE InOrder(Line(k2), Awaited(s))
  <2>1. PICK x, y, z : x = Line(k) /\ y = Line(k2) /\ z = Awaited(s)
    OBVIOUS
  <2>2. InOrder(x, z)
    BY <1>2, <1>8, <2>1 DEF EInv, Matched
  <2>3. Len(x) \in Nat /\ Len(z) \in Nat
    BY <1>1, <1>2, <2>1, LineIs, LenProperties, ToEmpty DEF Awaited
  <2>4. Exchanged(x, p, y) /\ (Asks(x[p]) <=> Asks(y[p])) /\ (Asks(x[p]) => y[p].about = x[p].about)
    BY <1>2, <1>5, <1>6, <2>1
  <2>5. InOrder(y, z)
    BY <2>2, <2>3, <2>4, ExchangedInOrder
  <2> QED
    BY <2>1, <2>5
<1>9. k2.state = "open"
  BY <1>2, <1>5
<1> QED
  BY <1>3, <1>5, <1>7, <1>8, <1>9, SocketAlone

\* The daemon reads a message, and answers it where the socket is open.
LEMMA ServeKeeps == ASSUME EInv, NEW s \in Sockets, Serve(s) PROVE EInv'
<1>1. sock \in [Sockets -> SocketType] /\ sock[s] \in SocketType /\ jobs \subseteq Items
  BY NetIs DEF EInv, Typed
<1>2. /\ sock[s].state \in {"open", "closing"} /\ sock[s].sent # <<>>
      /\ UNCHANGED <<chan, held, waiting, item, past>>
  BY DEF Serve
<1>3. PICK m : m = Head(sock[s].sent)
  OBVIOUS
<1>4. m \in Outgoing
  <2>1. sock[s].sent \in Seq(Outgoing)
    BY <1>1 DEF SocketType
  <2> QED
    BY <1>2, <1>3, <2>1, HeadTailProperties
<1>5. m.kind = "download" => m.about \in Items
  BY <1>4 DEF Outgoing
<1>6. ASSUME NEW kind, NEW about,
             sock' = [sock EXCEPT ![s].sent = Tail(@),
                                  ![s].got = IF sock[s].state = "open" THEN Append(@, Message(kind, about)) ELSE @],
             Message(kind, about) \in Incoming, Asks(m) <=> Asks(Message(kind, about)), Asks(m) => about = m.about,
             kind = "queued" => about \in jobs', jobs \subseteq jobs', jobs' \subseteq Items
      PROVE  EInv'
  <2>1. PICK answer : answer = Message(kind, about)
    OBVIOUS
  <2>2. answer \in Incoming /\ answer.kind = kind /\ answer.about = about
    BY <1>6, <2>1 DEF Message
  <2>3. CASE sock[s].state = "open"
    <3>1. sock' = [sock EXCEPT ![s].sent = Tail(@), ![s].got = Append(@, answer)]
      BY <1>6, <2>1, <2>3
    <3> QED
      BY <1>2, <1>3, <1>6, <2>1, <2>2, <2>3, <3>1, AnswerKeeps
  <2>4. CASE sock[s].state = "closing"
    <3>1. sock' = [sock EXCEPT ![s].sent = Tail(@)]
      <4>1. sock' = [sock EXCEPT ![s].sent = Tail(@), ![s].got = @]
        BY <1>6, <2>4
      <4> QED
        BY <1>1, <4>1 DEF SocketType
    <3> QED
      BY <1>2, <1>6, <2>4, <3>1, TakenKeeps
  <2> QED
    BY <1>2, <2>3, <2>4
<1>7. CASE /\ m.kind = "hello"
           /\ \E intercepts \in BOOLEAN :
                sock' = [sock EXCEPT ![s].sent = Tail(@),
                                     ![s].got = IF sock[s].state = "open" THEN Append(@, Message("ready", intercepts)) ELSE @]
           /\ UNCHANGED jobs
  <2>1. PICK intercepts \in BOOLEAN :
          sock' = [sock EXCEPT ![s].sent = Tail(@),
                               ![s].got = IF sock[s].state = "open" THEN Append(@, Message("ready", intercepts)) ELSE @]
    BY <1>7, Zenon
  <2>2. /\ Message("ready", intercepts) \in Incoming /\ ~Asks(m) /\ ~Asks(Message("ready", intercepts))
        /\ "ready" # "queued" /\ jobs \subseteq jobs' /\ jobs' \subseteq Items
    BY <1>1, <1>7 DEF Message, Incoming, Asks
  <2> QED
    BY <1>6, <2>1, <2>2, Zenon
<1>8. CASE /\ m.kind = "report" /\ sock' = [sock EXCEPT ![s].sent = Tail(@)] /\ UNCHANGED jobs
  <2>1. ~Asks(m)
    BY <1>8 DEF Asks
  <2> QED
    BY <1>1, <1>2, <1>3, <1>8, <2>1, TakenKeeps
<1>9. CASE /\ m.kind = "download"
           /\ sock' = [sock EXCEPT ![s].sent = Tail(@),
                                   ![s].got = IF sock[s].state = "open" THEN Append(@, Message("queued", m.about)) ELSE @]
           /\ jobs' = jobs \cup {m.about}
  <2>1. Message("queued", m.about) \in Incoming /\ Asks(m) /\ Asks(Message("queued", m.about))
    BY <1>5, <1>9 DEF Message, Incoming, Asks
  <2>2. jobs \subseteq jobs' /\ jobs' \subseteq Items /\ m.about \in jobs'
    BY <1>1, <1>5, <1>9
  <2> QED
    BY <1>6, <1>9, <2>1, <2>2, Zenon
<1>10. CASE /\ m.kind = "download"
            /\ sock' = [sock EXCEPT ![s].sent = Tail(@),
                                    ![s].got = IF sock[s].state = "open" THEN Append(@, Message("unavailable", m.about)) ELSE @]
            /\ UNCHANGED jobs
  <2>1. /\ Message("unavailable", m.about) \in Incoming /\ Asks(m) /\ Asks(Message("unavailable", m.about))
        /\ "unavailable" # "queued" /\ jobs \subseteq jobs' /\ jobs' \subseteq Items
    BY <1>1, <1>5, <1>10 DEF Message, Incoming, Asks
  <2> QED
    BY <1>6, <1>10, <2>1, Zenon
<1> QED
  BY <1>3, <1>7, <1>8, <1>9, <1>10 DEF Serve

\* A step that leaves the store alone.
LEMMA StoreAside ==
    ASSUME EInv, held' = held, sock' \in [Sockets -> SocketType], chan' \in ChannelType,
           waiting' \in Seq(Items), item' \in [Items -> ItemType], jobs' \subseteq Items, past' \in PastType,
           past'.ended = past.ended, past'.forgotten \subseteq past.forgotten,
           GivenBack', Followed', Requests', Matched'
    PROVE  EInv'
<1>1. held \in HeldType
  BY NetIs DEF EInv
<1>2. Net' \in NetType
  BY <1>1 DEF NetType, Net
<1>3. Reading' /\ Forgetting' /\ Len(held'.pending) <= MaxHeld
  BY StoreStays
<1> QED
  BY <1>2, <1>3 DEF EInv, Typed

\* Downloads whose request is answered or sent, and no more.
LEMMA StartsChange ==
    ASSUME EInv, item' \in [Items -> ItemType],
           \A i \in Items : \E st : item'[i] = [item[i] EXCEPT !.start = st],
           past'.ended = past.ended, past.dropped => past'.dropped, jobs \subseteq jobs'
    PROVE  GivenBack' /\ Followed'
<1>1. item \in [Items -> ItemType]
  BY DEF EInv, Typed
<1>2. ASSUME NEW i \in Items
      PROVE  /\ item'[i].copy = item[i].copy /\ item'[i].window = item[i].window
             /\ item'[i].copies = item[i].copies /\ item'[i].tries = item[i].tries
             /\ item'[i].fresh = item[i].fresh /\ item'[i].marked = item[i].marked
             /\ item'[i].again = item[i].again
  <2>1. PICK st : item'[i] = [item[i] EXCEPT !.start = st]
    OBVIOUS
  <2> QED
    BY <1>1, <2>1 DEF ItemType
<1>3. GivenBack'
  BY <1>2 DEF EInv, GivenBack, Marked
<1>4. Followed'
  BY <1>2 DEF EInv, Followed
<1> QED
  BY <1>3, <1>4

\* A socket that carries nothing.
LEMMA BareSocket ==
    ASSUME NEW k, NEW state \in {"free", "connecting"}, k = [state |-> state, sent |-> <<>>, got |-> <<>>]
    PROVE  k \in SocketType /\ k.state = state /\ k.sent = <<>> /\ k.got = <<>> /\ InOrder(Line(k), <<>>)
<1>1. k \in SocketType /\ k.state = state /\ k.sent = <<>> /\ k.got = <<>>
  BY EmptySeq DEF SocketType
<1>2. Len(Line(k)) = 0
  <2>1. Len(k.got) = 0 /\ Len(k.sent) = 0
    BY <1>1, ToEmpty
  <2>2. Len(Line(k)) = Len(k.got) + Len(k.sent)
    BY <1>1, LineIs
  <2> QED
    BY <2>1, <2>2
<1> QED
  BY <1>1, <1>2, NoneInOrder

\* A socket is created, and takes the place of the one before it; requests that
\* wait on that one are counted as dropped.
LEMMA SettledKeeps == ASSUME EInv, NEW s \in Sockets, Settled(s) PROVE EInv'
<1>1. /\ chan.settling > 0 /\ sock' = [sock EXCEPT ![s] = [FreshSocket EXCEPT !.state = "connecting"]]
      /\ chan' = [chan EXCEPT !.settling = @ - 1, !.connection = s, !.greeted = FALSE]
      /\ past' = [past EXCEPT !.dropped = @ \/ waiting # <<>>]
      /\ UNCHANGED <<held, waiting, item, jobs>>
  BY DEF Settled
<1>2. /\ sock \in [Sockets -> SocketType] /\ chan \in ChannelType /\ past \in PastType
      /\ waiting \in Seq(Items) /\ MaxSettling \in Nat
  BY NetIs, ExtensionAssumption DEF EInv, Typed
<1>3. PICK k : k = [FreshSocket EXCEPT !.state = "connecting"]
  OBVIOUS
<1>4. k = [state |-> "connecting", sent |-> <<>>, got |-> <<>>]
  BY <1>3 DEF FreshSocket
<1>5. k \in SocketType /\ k.state = "connecting" /\ k.sent = <<>> /\ k.got = <<>> /\ InOrder(Line(k), <<>>)
  BY <1>4, BareSocket
<1>6. /\ sock' \in [Sockets -> SocketType] /\ sock'[s] = k
      /\ \A t \in Sockets : t # s => sock'[t] = sock[t]
  BY <1>1, <1>2, <1>3, <1>5
<1>7. chan' \in ChannelType /\ chan'.connection = s
  <2>1. chan.settling - 1 \in 0 .. MaxSettling
    BY <1>1, <1>2 DEF ChannelType
  <2> QED
    BY <1>1, <1>2, <2>1 DEF ChannelType
<1>8. /\ past' \in PastType /\ past'.ended = past.ended /\ past'.forgotten = past.forgotten
      /\ past'.dropped = (past.dropped \/ waiting # <<>>)
  BY <1>1, <1>2 DEF PastType
<1>9. Requests'
  <2>1. ASSUME NEW t \in Sockets
        PROVE  /\ sock'[t].state \in {"free", "connecting"} => sock'[t].sent = <<>> /\ sock'[t].got = <<>>
               /\ s = t => sock'[t].state \in {"connecting", "open"}
               /\ \A m \in 1 .. Len(sock'[t].got) : sock'[t].got[m].kind = "queued" => sock'[t].got[m].about \in jobs
    <3>1. CASE t = s
      <4>1. Len(sock'[t].got) = 0
        BY <1>5, <1>6, <3>1, ToEmpty
      <4> QED
        BY <1>5, <1>6, <3>1, <4>1
    <3>2. CASE t # s
      BY <1>6, <3>2 DEF EInv, Requests
    <3> QED
      BY <3>1, <3>2
  <2> QED
    BY <1>1, <1>7, <2>1 DEF EInv, Requests
<1>10. Matched'
  <2> SUFFICES ASSUME ~past.ended, ~past.dropped, waiting = <<>>, NEW t \in Sockets
               PROVE  InOrder(Line(sock'[t]), <<>>)
    BY <1>1, <1>8, Zenon DEF Matched, Awaited
  <2>1. CASE t = s
    BY <1>5, <1>6, <2>1
  <2>2. CASE t # s
    <3>1. InOrder(Line(sock[t]), Awaited(t)) /\ Awaited(t) = <<>>
      BY DEF EInv, Matched, Awaited
    <3> QED
      BY <1>6, <2>2, <3>1
  <2> QED
    BY <2>1, <2>2
<1>11. item' \in [Items -> ItemType] /\ GivenBack' /\ Followed' /\ jobs' \subseteq Items
  BY <1>1, <1>8, DownloadsStay DEF EInv, Typed
<1> QED
  BY <1>1, <1>2, <1>6, <1>7, <1>8, <1>9, <1>10, <1>11, StoreAside

\* A socket closes, and every request that waits is refused.
LEMMA ClosedKeeps == ASSUME EInv, NEW s \in Sockets, Closed(s) PROVE EInv'
<1>1. /\ sock' = [sock EXCEPT ![s] = FreshSocket]
      /\ chan' = [chan EXCEPT !.connection = IF @ = s THEN NoSocket ELSE @,
                              !.greeted = FALSE, !.intercepts = FALSE, !.timer = TRUE]
      /\ item' = [i \in Items |-> IF i \in ToSet(waiting) THEN [item[i] EXCEPT !.start = "refused"] ELSE item[i]]
      /\ past' = [past EXCEPT !.dropped = @ \/ (waiting # <<>> /\ chan.connection \notin {s, NoSocket})]
      /\ waiting' = <<>> /\ UNCHANGED <<held, jobs>>
  BY DEF Closed
<1>2. /\ sock \in [Sockets -> SocketType] /\ chan \in ChannelType /\ past \in PastType
      /\ item \in [Items -> ItemType] /\ jobs \subseteq Items
  BY NetIs DEF EInv, Typed
<1>3. PICK k : k = FreshSocket
  OBVIOUS
<1>4. k = [state |-> "free", sent |-> <<>>, got |-> <<>>]
  BY <1>3 DEF FreshSocket
<1>5. k \in SocketType /\ k.state = "free" /\ k.sent = <<>> /\ k.got = <<>> /\ InOrder(Line(k), <<>>)
  BY <1>4, BareSocket
<1>6. /\ sock' \in [Sockets -> SocketType] /\ sock'[s] = k
      /\ \A t \in Sockets : t # s => sock'[t] = sock[t]
  BY <1>1, <1>2, <1>3, <1>5
<1>7. PICK c \in Sockets \cup {NoSocket} : c = IF chan.connection = s THEN NoSocket ELSE chan.connection
  BY <1>2 DEF ChannelType
<1>8. chan' \in ChannelType /\ chan'.connection = c
  <2>1. chan' = [chan EXCEPT !.connection = c, !.greeted = FALSE, !.intercepts = FALSE, !.timer = TRUE]
    BY <1>1, <1>7
  <2> QED
    BY <1>2, <2>1 DEF ChannelType
<1>9. /\ past' \in PastType /\ past'.ended = past.ended /\ past'.forgotten = past.forgotten
      /\ past'.dropped = (past.dropped \/ (waiting # <<>> /\ chan.connection \notin {s, NoSocket}))
  BY <1>1, <1>2 DEF PastType
<1>10. Len(waiting') = 0 /\ waiting' \in Seq(Items)
  BY <1>1, ToEmpty, EmptySeq
<1>11. NoSocket \notin Sockets
  BY ExtensionAssumption
<1>12. Requests'
  <2>1. ASSUME NEW t \in Sockets
        PROVE  /\ sock'[t].state \in {"free", "connecting"} => sock'[t].sent = <<>> /\ sock'[t].got = <<>>
               /\ c = t => sock'[t].state \in {"connecting", "open"}
               /\ \A m \in 1 .. Len(sock'[t].got) : sock'[t].got[m].kind = "queued" => sock'[t].got[m].about \in jobs
    <3>1. CASE t = s
      <4>1. Len(sock'[t].got) = 0
        BY <1>5, <1>6, <3>1, ToEmpty
      <4> QED
        BY <1>5, <1>6, <1>7, <1>11, <3>1, <4>1
    <3>2. CASE t # s
      BY <1>6, <1>7, <1>11, <3>2 DEF EInv, Requests
    <3> QED
      BY <3>1, <3>2
  <2> QED
    BY <1>1, <1>8, <1>10, <2>1 DEF Requests
<1>13. Matched'
  <2> SUFFICES ASSUME ~past.ended, ~past.dropped, waiting = <<>> \/ chan.connection \in {s, NoSocket},
                      NEW t \in Sockets
               PROVE  InOrder(Line(sock'[t]), <<>>)
    BY <1>1, <1>9, Zenon DEF Matched, Awaited
  <2>1. CASE t = s
    BY <1>5, <1>6, <2>1
  <2>2. CASE t # s
    <3>1. InOrder(Line(sock[t]), Awaited(t))
      BY DEF EInv, Matched
    <3>2. Awaited(t) = <<>>
      BY <1>11, <2>2 DEF Awaited
    <3> QED
      BY <1>6, <2>2, <3>1, <3>2
  <2> QED
    BY <2>1, <2>2
<1>14. item' \in [Items -> ItemType] /\ \A i \in Items : \E st : item'[i] = [item[i] EXCEPT !.start = st]
  <2>1. ASSUME NEW i \in Items
        PROVE  item'[i] \in ItemType /\ \E st : item'[i] = [item[i] EXCEPT !.start = st]
    <3>1. CASE i \in ToSet(waiting)
      <4>1. item'[i] = [item[i] EXCEPT !.start = "refused"]
        BY <1>1, <3>1
      <4> QED
        BY <1>2, <4>1 DEF ItemType
    <3>2. CASE i \notin ToSet(waiting)
      <4>1. item'[i] = item[i]
        BY <1>1, <3>2
      <4>2. item[i] = [item[i] EXCEPT !.start = item[i].start]
        BY <1>2 DEF ItemType
      <4> QED
        BY <1>2, <4>1, <4>2
    <3> QED
      BY <3>1, <3>2
  <2>2. item' = [i \in Items |-> item'[i]]
    BY <1>1
  <2> QED
    BY <2>1, <2>2
<1>15. GivenBack' /\ Followed'
  BY <1>1, <1>9, <1>14, StartsChange
<1>16. jobs' \subseteq Items
  BY <1>1, <1>2
<1> QED
  BY <1>1, <1>6, <1>8, <1>9, <1>10, <1>12, <1>13, <1>14, <1>15, <1>16, StoreAside

\* One of a sequence is taken out.
LEMMA RemovedIs ==
    ASSUME NEW S, NEW q \in Seq(S), NEW p \in 1 .. Len(q)
    PROVE  RemoveAt(q, p) \in Seq(S) /\ Without(q, p, RemoveAt(q, p))
<1>1. PICK l \in Nat : l = Len(q)
  BY LenProperties
<1>2. p \in Int /\ p >= 1 /\ p <= l
  BY <1>1
<1>3. \A n \in 1 .. l : q[n] \in S
  BY <1>1, ElementOfSeq
<1>4. PICK m \in Int, n \in Int : m = p - 1 /\ n = p + 1
  BY <1>2
<1>5. PICK a, b : a = SubSeq(q, 1, m) /\ b = SubSeq(q, n, l)
  OBVIOUS
<1>6. a \in Seq(S) /\ Len(a) = m /\ \A i \in 1 .. m : a[i] = q[i]
  <2>1. \A i \in 1 .. m : q[i] \in S
    BY <1>2, <1>3, <1>4
  <2>2. /\ a \in Seq(S) /\ Len(a) = (IF 1 <= m THEN m - 1 + 1 ELSE 0)
        /\ \A i \in 1 .. m - 1 + 1 : a[i] = q[1 + i - 1]
    BY <1>5, <2>1, SubSeqProperties
  <2>3. (IF 1 <= m THEN m - 1 + 1 ELSE 0) = m /\ m - 1 + 1 = m
    BY <1>2, <1>4
  <2>4. ASSUME NEW i \in 1 .. m PROVE a[i] = q[i]
    <3>1. i \in 1 .. m - 1 + 1 /\ 1 + i - 1 = i
      BY <1>2, <1>4
    <3> QED
      BY <2>2, <3>1
  <2> QED
    BY <2>2, <2>3, <2>4
<1>7. b \in Seq(S) /\ Len(b) = l - p /\ \A i \in 1 .. l - p : b[i] = q[p + i]
  <2>1. \A i \in n .. l : q[i] \in S
    BY <1>2, <1>3, <1>4
  <2>2. /\ b \in Seq(S) /\ Len(b) = (IF n <= l THEN l - n + 1 ELSE 0)
        /\ \A i \in 1 .. l - n + 1 : b[i] = q[n + i - 1]
    BY <1>5, <2>1, SubSeqProperties
  <2>3. (IF n <= l THEN l - n + 1 ELSE 0) = l - p /\ l - n + 1 = l - p
    BY <1>2, <1>4
  <2>4. ASSUME NEW i \in 1 .. l - p PROVE b[i] = q[p + i]
    <3>1. i \in 1 .. l - n + 1 /\ n + i - 1 = p + i
      BY <1>2, <1>4
    <3> QED
      BY <2>2, <3>1
  <2> QED
    BY <2>2, <2>3, <2>4
<1>8. PICK t : t = a \o b
  OBVIOUS
<1>9. /\ t \in Seq(S) /\ Len(t) = m + (l - p)
      /\ \A i \in 1 .. m + (l - p) : t[i] = IF i <= m THEN a[i] ELSE b[i - m]
  BY <1>6, <1>7, <1>8, ConcatProperties
<1>10. m + (l - p) = l - 1
  BY <1>2, <1>4
<1>11. ASSUME NEW i \in 1 .. l - 1 PROVE t[i] = IF i < p THEN q[i] ELSE q[i + 1]
  <2>1. CASE i < p
    <3>1. i <= m /\ i \in 1 .. m /\ i \in 1 .. m + (l - p)
      BY <1>2, <1>4, <1>10, <2>1
    <3> QED
      BY <1>6, <1>9, <2>1, <3>1
  <2>2. CASE ~(i < p)
    <3>1. ~(i <= m) /\ i - m \in 1 .. l - p /\ i \in 1 .. m + (l - p) /\ p + (i - m) = i + 1
      BY <1>2, <1>4, <1>10, <2>2
    <3>2. t[i] = b[i - m] /\ b[i - m] = q[p + (i - m)]
      BY <1>7, <1>9, <3>1
    <3> QED
      BY <2>2, <3>1, <3>2
  <2> QED
    BY <2>1, <2>2
<1>12. Without(q, p, t)
  BY <1>1, <1>2, <1>9, <1>10, <1>11 DEF Without
<1>13. RemoveAt(q, p) = t
  BY <1>1, <1>4, <1>5, <1>8 DEF RemoveAt
<1> QED
  BY <1>9, <1>12, <1>13

\* Without one of them the others wait as before, each once.
LEMMA OthersWait ==
    ASSUME NEW queue, NEW p, NEW rest, Len(queue) \in Nat, Without(queue, p, rest),
           \A j, k \in 1 .. Len(queue) : queue[j] = queue[k] => j = k
    PROVE  /\ \A j, k \in 1 .. Len(rest) : rest[j] = rest[k] => j = k
           /\ \A k \in 1 .. Len(rest) : rest[k] # queue[p] /\ \E j \in 1 .. Len(queue) : rest[k] = queue[j]
<1>1. PICK q \in Nat : q = Len(queue)
  OBVIOUS
<1>2. /\ p \in 1 .. q /\ Len(rest) = q - 1
      /\ \A n \in 1 .. q - 1 : rest[n] = IF n < p THEN queue[n] ELSE queue[n + 1]
      /\ \A j, k \in 1 .. q : queue[j] = queue[k] => j = k
  BY <1>1 DEF Without
<1>3. PICK at : at = [n \in 1 .. q - 1 |-> IF n < p THEN n ELSE n + 1]
  OBVIOUS
<1>4. /\ \A n \in 1 .. q - 1 : at[n] \in 1 .. q /\ at[n] # p /\ rest[n] = queue[at[n]]
      /\ \A m, n \in 1 .. q - 1 : at[m] = at[n] => m = n
  <2>1. \A n \in 1 .. q - 1 : at[n] \in 1 .. q /\ at[n] # p /\ rest[n] = queue[at[n]]
    BY <1>2, <1>3
  <2>2. \A m, n \in 1 .. q - 1 : at[m] = at[n] => m = n
    BY <1>2, <1>3
  <2> QED
    BY <2>1, <2>2
<1>5. \A j, k \in 1 .. q - 1 : rest[j] = rest[k] => j = k
  BY <1>2, <1>4
<1>6. ASSUME NEW k \in 1 .. q - 1 PROVE rest[k] # queue[p] /\ \E j \in 1 .. q : rest[k] = queue[j]
  <2>1. at[k] \in 1 .. q /\ at[k] # p /\ rest[k] = queue[at[k]]
    BY <1>4
  <2>2. queue[at[k]] # queue[p]
    BY <1>2, <2>1
  <2> QED
    BY <2>1, <2>2
<1> QED
  BY <1>1, <1>2, <1>5, <1>6

\* A request's own timer: an answer that comes all the same is for another one,
\* which is why the request counts as dropped.
LEMMA TimeOutKeeps == ASSUME EInv, NEW i \in Items, TimeOut(i) PROVE EInv'
<1>1. /\ \E n \in DOMAIN waiting : waiting[n] = i /\ waiting' = RemoveAt(waiting, n)
      /\ item' = [item EXCEPT ![i].start = "refused"]
      /\ past' = [past EXCEPT !.dropped = TRUE]
      /\ UNCHANGED <<sock, chan, held, jobs>>
  BY DEF TimeOut
<1>2. /\ sock \in [Sockets -> SocketType] /\ chan \in ChannelType /\ past \in PastType
      /\ item \in [Items -> ItemType] /\ jobs \subseteq Items /\ waiting \in Seq(Items)
  BY NetIs DEF EInv, Typed
<1>3. PICK p \in 1 .. Len(waiting) : waiting[p] = i /\ waiting' = RemoveAt(waiting, p)
  BY <1>1, <1>2, LenProperties
<1>4. waiting' \in Seq(Items) /\ Without(waiting, p, waiting')
  BY <1>2, <1>3, RemovedIs
<1>5. PICK rest : rest = waiting'
  OBVIOUS
<1>6. Len(waiting) \in Nat /\ \A j, k \in 1 .. Len(waiting) : waiting[j] = waiting[k] => j = k
  BY <1>2, LenProperties DEF EInv, Requests
<1>7. /\ \A j, k \in 1 .. Len(rest) : rest[j] = rest[k] => j = k
      /\ \A k \in 1 .. Len(rest) : rest[k] # i /\ \E j \in 1 .. Len(waiting) : rest[k] = waiting[j]
  <2>1. PICK queue : queue = waiting
    OBVIOUS
  <2>2. Len(queue) \in Nat /\ Without(queue, p, rest) /\ \A j, k \in 1 .. Len(queue) : queue[j] = queue[k] => j = k
    BY <1>4, <1>5, <1>6, <2>1
  <2>3. /\ \A j, k \in 1 .. Len(rest) : rest[j] = rest[k] => j = k
        /\ \A k \in 1 .. Len(rest) : rest[k] # queue[p] /\ \E j \in 1 .. Len(queue) : rest[k] = queue[j]
    BY ONLY <2>2, OthersWait
  <2> QED
    BY <1>3, <2>1, <2>3
<1>8. /\ item' \in [Items -> ItemType] /\ \A j \in Items : j # i => item'[j] = item[j]
      /\ \A j \in Items : \E st : item'[j] = [item[j] EXCEPT !.start = st]
  <2>1. PICK next : next = [item[i] EXCEPT !.start = "refused"]
    OBVIOUS
  <2>2. next \in ItemType
    BY <1>2, <2>1 DEF ItemType
  <2>3. item' \in [Items -> ItemType] /\ item'[i] = next /\ \A j \in Items : j # i => item'[j] = item[j]
    BY <1>1, <1>2, <2>1, <2>2
  <2>4. ASSUME NEW j \in Items PROVE \E st : item'[j] = [item[j] EXCEPT !.start = st]
    <3>1. CASE j = i
      BY <2>1, <2>3, <3>1
    <3>2. CASE j # i
      <4>1. item[j] = [item[j] EXCEPT !.start = item[j].start]
        BY <1>2 DEF ItemType
      <4> QED
        BY <2>3, <3>2, <4>1
    <3> QED
      BY <3>1, <3>2
  <2> QED
    BY <2>3, <2>4
<1>9. past' \in PastType /\ past'.ended = past.ended /\ past'.forgotten = past.forgotten /\ past'.dropped = TRUE
  BY <1>1, <1>2 DEF PastType
<1>10. Requests'
  <2>1. ASSUME NEW k \in 1 .. Len(rest) PROVE item'[rest[k]].start = "asked"
    <3>1. PICK j \in 1 .. Len(waiting) : rest[k] = waiting[j]
      BY <1>7
    <3>2. rest[k] # i /\ rest[k] \in Items /\ item[waiting[j]].start = "asked"
      BY <1>2, <1>7, <3>1, ElementOfSeq DEF EInv, Requests
    <3> QED
      BY <1>8, <3>1, <3>2
  <2>2. \A s \in Sockets :
         /\ sock[s].state \in {"free", "connecting"} => sock[s].sent = <<>> /\ sock[s].got = <<>>
         /\ chan.connection = s => sock[s].state \in {"connecting", "open"}
         /\ \A n \in 1 .. Len(sock[s].got) : sock[s].got[n].kind = "queued" => sock[s].got[n].about \in jobs
    BY DEF EInv, Requests
  <2>3. \A j, k \in 1 .. Len(waiting') : waiting'[j] = waiting'[k] => j = k
    BY <1>5, <1>7
  <2>4. \A k \in 1 .. Len(waiting') : item'[waiting'[k]].start = "asked"
    BY <1>5, <2>1
  <2> QED
    BY <1>1, <2>2, <2>3, <2>4 DEF Requests
<1>11. Matched'
  BY <1>9 DEF Matched
<1>12. GivenBack' /\ Followed'
  BY <1>1, <1>8, <1>9, StartsChange
<1>13. /\ sock' \in [Sockets -> SocketType] /\ chan' \in ChannelType /\ jobs' \subseteq Items /\ held' = held
  BY <1>1, <1>2
<1> QED
  BY <1>4, <1>8, <1>9, <1>10, <1>11, <1>12, <1>13, StoreAside

\* One download's request is sent or answered.
LEMMA OneStarts ==
    ASSUME EInv, NEW i \in Items, NEW st \in {"idle", "connecting", "asked", "refused"},
           item' = [item EXCEPT ![i].start = st]
    PROVE  /\ item' \in [Items -> ItemType] /\ item'[i].start = st
           /\ \A j \in Items : j # i => item'[j] = item[j]
           /\ \A j \in Items : \E any : item'[j] = [item[j] EXCEPT !.start = any]
<1>1. item \in [Items -> ItemType]
  BY DEF EInv, Typed
<1>2. PICK next : next = [item[i] EXCEPT !.start = st]
  OBVIOUS
<1>3. next \in ItemType /\ next.start = st
  BY <1>1, <1>2 DEF ItemType
<1>4. item' \in [Items -> ItemType] /\ item'[i] = next /\ \A j \in Items : j # i => item'[j] = item[j]
  BY <1>1, <1>2, <1>3
<1>5. ASSUME NEW j \in Items PROVE \E any : item'[j] = [item[j] EXCEPT !.start = any]
  <2>1. CASE j = i
    BY <1>2, <1>4, <2>1
  <2>2. CASE j # i
    <3>1. item[j] = [item[j] EXCEPT !.start = item[j].start]
      BY <1>1 DEF ItemType
    <3> QED
      BY <1>4, <2>2, <3>1
  <2> QED
    BY <2>1, <2>2
<1> QED
  BY <1>3, <1>4, <1>5

\* A request goes on the connection, and waits behind the others.
LEMMA AskKeeps == ASSUME EInv, NEW i \in Items, Ask(i) PROVE EInv'
<1>1. /\ item[i].start = "connecting" /\ Ready(Net)
      /\ item' = [item EXCEPT ![i].start = "asked"]
      /\ waiting' = Append(waiting, i)
      /\ Become(Send(Net, Message("download", i)))
      /\ UNCHANGED <<jobs, past>>
  BY DEF Ask
<1>2. /\ Net \in NetType /\ Net.sock = sock /\ Net.chan = chan /\ Net.held = held
      /\ sock \in [Sockets -> SocketType] /\ chan \in ChannelType
      /\ waiting \in Seq(Items) /\ past \in PastType /\ jobs \subseteq Items
  BY NetIs DEF EInv, Typed
<1>3. PICK c : c = chan.connection
  OBVIOUS
<1>4. c \in Sockets /\ sock[c].state = "open" /\ sock[c] \in SocketType
  BY <1>1, <1>2, <1>3 DEF Ready, ChannelType
<1>5. PICK m : m = Message("download", i)
  OBVIOUS
<1>6. m \in Outgoing /\ Asks(m) /\ m.about = i
  BY <1>5 DEF Message, Outgoing, Asks
<1>7. PICK x, y : x = sock[c].sent /\ y = Append(x, m)
  OBVIOUS
<1>8. PICK b \in Nat, a \in Nat, q \in Nat : b = Len(x) /\ a = Len(sock[c].got) /\ q = Len(waiting)
  BY <1>2, <1>4, <1>7, LineIs, LenProperties
<1>9. y \in Seq(Outgoing) /\ Len(y) = b + 1 /\ y[b + 1] = m /\ \A n \in 1 .. b : y[n] = x[n]
  <2>1. x \in Seq(Outgoing)
    BY <1>4, <1>7 DEF SocketType
  <2> QED
    BY <1>6, <1>7, <1>8, <2>1, AppendProperties
<1>10. PICK k : k = [sock[c] EXCEPT !.sent = y]
  OBVIOUS
<1>11. k \in SocketType /\ k.sent = y /\ k.got = sock[c].got /\ k.state = "open"
  BY <1>4, <1>9, <1>10 DEF SocketType
<1>12. /\ sock' = [sock EXCEPT ![c] = k] /\ chan' = chan /\ held' = held
  <2>1. PICK n : n = Send(Net, m)
    OBVIOUS
  <2>2. n = [Net EXCEPT !.sock[Net.chan.connection].sent = Append(@, m)]
    BY <2>1 DEF Send
  <2>3. n.sock = [sock EXCEPT ![c] = k] /\ n.chan = chan /\ n.held = held
    BY <1>2, <1>3, <1>7, <1>10, <2>2 DEF NetType
  <2>4. sock' = n.sock /\ chan' = n.chan /\ held' = n.held
    BY <1>1, <1>5, <2>1 DEF Become
  <2> QED
    BY <2>3, <2>4
<1>13. /\ sock' \in [Sockets -> SocketType] /\ sock'[c] = k /\ \A t \in Sockets : t # c => sock'[t] = sock[t]
  BY <1>2, <1>4, <1>11, <1>12
<1>14. /\ waiting' \in Seq(Items) /\ Len(waiting') = q + 1 /\ waiting'[q + 1] = i
       /\ \A n \in 1 .. q : waiting'[n] = waiting[n]
  BY <1>1, <1>2, <1>8, AppendProperties
<1>15. /\ item' \in [Items -> ItemType] /\ item'[i].start = "asked"
       /\ \A j \in Items : j # i => item'[j] = item[j]
       /\ \A j \in Items : \E any : item'[j] = [item[j] EXCEPT !.start = any]
  BY <1>1, OneStarts
\* Whoever waits has asked already.
<1>16. \A n \in 1 .. q : waiting[n] \in Items /\ item[waiting[n]].start = "asked" /\ waiting[n] # i
  BY <1>1, <1>2, <1>8, ElementOfSeq DEF EInv, Requests
<1>17. Requests'
  <2>1. ASSUME NEW j \in 1 .. q + 1, NEW n \in 1 .. q + 1, waiting'[j] = waiting'[n] PROVE j = n
    <3>1. /\ j \in 1 .. q \/ j = q + 1
          /\ n \in 1 .. q \/ n = q + 1
      OBVIOUS
    <3>2. CASE j \in 1 .. q /\ n \in 1 .. q
      <4>1. waiting[j] = waiting[n]
        BY <1>14, <2>1, <3>2
      <4> QED
        BY <1>8, <3>2, <4>1 DEF EInv, Requests
    <3>3. CASE j \in 1 .. q /\ n = q + 1
      BY <1>14, <1>16, <2>1, <3>3
    <3>4. CASE j = q + 1 /\ n \in 1 .. q
      BY <1>14, <1>16, <2>1, <3>4
    <3> QED
      BY <3>1, <3>2, <3>3, <3>4
  <2>2. ASSUME NEW n \in 1 .. q + 1 PROVE item'[waiting'[n]].start = "asked"
    <3>1. CASE n \in 1 .. q
      BY <1>14, <1>15, <1>16, <3>1
    <3>2. CASE n = q + 1
      BY <1>14, <1>15, <3>2
    <3>3. n \in 1 .. q \/ n = q + 1
      OBVIOUS
    <3> QED
      BY <3>1, <3>2, <3>3
  <2>3. ASSUME NEW t \in Sockets
        PROVE  /\ sock'[t].state \in {"free", "connecting"} => sock'[t].sent = <<>> /\ sock'[t].got = <<>>
               /\ chan.connection = t => sock'[t].state \in {"connecting", "open"}
               /\ \A n \in 1 .. Len(sock'[t].got) : sock'[t].got[n].kind = "queued" => sock'[t].got[n].about \in jobs
    <3>1. CASE t = c
      BY <1>4, <1>11, <1>13, <3>1 DEF EInv, Requests
    <3>2. CASE t # c
      BY <1>13, <3>2 DEF EInv, Requests
    <3> QED
      BY <3>1, <3>2
  <2>4. jobs' = jobs /\ chan' = chan
    BY <1>1, <1>12
  <2>5. /\ \A j, n \in 1 .. Len(waiting') : waiting'[j] = waiting'[n] => j = n
        /\ \A n \in 1 .. Len(waiting') : item'[waiting'[n]].start = "asked"
    BY <1>14, <2>1, <2>2
  <2> QED
    BY <2>3, <2>4, <2>5 DEF Requests
<1>18. Matched'
  <2> SUFFICES ASSUME ~past.ended, ~past.dropped, NEW t \in Sockets
               PROVE  InOrder(Line(sock'[t]), IF t = c THEN waiting' ELSE <<>>)
    <3>1. c # NoSocket /\ chan'.connection = c
      BY <1>3, <1>4, <1>12, ExtensionAssumption
    <3> QED
      BY <1>1, <3>1, Zenon DEF Matched, Awaited
  <2>1. CASE t # c
    <3>1. InOrder(Line(sock[t]), Awaited(t)) /\ Awaited(t) = <<>>
      BY <1>3, <2>1 DEF EInv, Matched, Awaited
    <3> QED
      BY <1>13, <2>1, <3>1
  <2>2. CASE t = c
    <3>1. PICK line, longer, queue, queue2 :
            line = Line(sock[c]) /\ longer = Line(k) /\ queue = waiting /\ queue2 = waiting'
      OBVIOUS
    <3>2. InOrder(line, queue)
      <4>1. InOrder(Line(sock[c]), Awaited(c)) /\ Awaited(c) = waiting
        BY <1>3, <1>4 DEF EInv, Matched, Awaited
      <4> QED
        BY <3>1, <4>1
    <3>3. /\ Len(line) = a + b
          /\ \A n \in 1 .. a + b : line[n] = IF n <= a THEN sock[c].got[n] ELSE x[n - a]
      BY <1>4, <1>7, <1>8, <3>1, LineIs
    <3>4. /\ Len(longer) = a + (b + 1)
          /\ \A n \in 1 .. a + (b + 1) : longer[n] = IF n <= a THEN sock[c].got[n] ELSE y[n - a]
      <4>1. Len(k.got) = a /\ Len(k.sent) = b + 1 /\ k.got = sock[c].got /\ k.sent = y /\ k \in SocketType
        BY <1>8, <1>9, <1>11
      <4>2. /\ Len(Line(k)) = a + (b + 1)
            /\ \A n \in 1 .. a + (b + 1) : Line(k)[n] = IF n <= a THEN k.got[n] ELSE k.sent[n - a]
        BY ONLY <4>1, LineIs
      <4> QED
        BY <3>1, <4>1, <4>2
    <3>5. ASSUME NEW n \in 1 .. a + b PROVE longer[n] = line[n]
      <4>1. n \in 1 .. a + (b + 1) /\ (n <= a \/ n - a \in 1 .. b)
        OBVIOUS
      <4> QED
        BY <1>9, <3>3, <3>4, <4>1
    <3>6. longer[(a + b) + 1] = m
      <4>1. (a + b) + 1 \in 1 .. a + (b + 1) /\ ~((a + b) + 1 <= a) /\ ((a + b) + 1) - a = b + 1
        OBVIOUS
      <4> QED
        BY <1>9, <3>4, <4>1
    <3>7. Len(longer) = (a + b) + 1
      BY <3>4
    <3>8. PICK l \in Nat : l = a + b
      OBVIOUS
    <3>9. /\ Len(line) = l /\ Len(longer) = l + 1 /\ Len(queue) = q /\ Len(queue2) = q + 1
          /\ \A n \in 1 .. l : longer[n] = line[n]
          /\ longer[l + 1] = m
          /\ \A n \in 1 .. q : queue2[n] = queue[n]
          /\ queue2[q + 1] = i
      BY <1>8, <1>14, <3>1, <3>3, <3>5, <3>6, <3>7, <3>8
    <3>10. InOrder(longer, queue2)
      BY <1>6, <3>2, <3>9, AskedInOrder
    <3> QED
      BY <1>13, <2>2, <3>1, <3>10
  <2> QED
    BY <2>1, <2>2
<1>19. GivenBack' /\ Followed'
  BY <1>1, <1>15, StartsChange
<1> QED
  BY <1>1, <1>2, <1>12, <1>13, <1>14, <1>15, <1>17, <1>18, <1>19, StoreAside

\* The worker receives a message.
LEMMA HeardIs ==
    ASSUME NEW k \in SocketType, k.got # <<>>, NEW k2, k2 = [k EXCEPT !.got = Tail(@)]
    PROVE  /\ k2 \in SocketType /\ k2.state = k.state /\ k2.sent = k.sent
           /\ Head(k.got) \in Incoming /\ Head(k.got) = k.got[1] /\ 1 \in 1 .. Len(k.got)
           /\ \A n \in 1 .. Len(k2.got) : n + 1 \in 1 .. Len(k.got) /\ k2.got[n] = k.got[n + 1]
           /\ Line(k)[1] = Head(k.got) /\ Without(Line(k), 1, Line(k2))
<1>1. PICK x : x = k.got
  OBVIOUS
<1>2. x \in Seq(Incoming) /\ x # <<>>
  BY <1>1 DEF SocketType
<1>3. PICK y : y = Tail(x)
  OBVIOUS
<1>4. /\ Head(x) \in Incoming /\ Head(x) = x[1] /\ y \in Seq(Incoming) /\ Len(y) = Len(x) - 1
      /\ \A n \in 1 .. Len(y) : y[n] = x[n + 1]
  BY <1>2, <1>3, HeadTailProperties
<1>5. k2 \in SocketType /\ k2.state = k.state /\ k2.got = y /\ k2.sent = k.sent
  BY <1>1, <1>3, <1>4 DEF SocketType
<1>6. PICK a \in Nat, b \in Nat : a = Len(x) /\ b = Len(k.sent)
  BY <1>1, LineIs
<1>7. a >= 1
  BY <1>2, <1>6, EmptySeq
<1>8. /\ Len(Line(k)) = a + b
      /\ \A n \in 1 .. a + b : Line(k)[n] = IF n <= a THEN x[n] ELSE k.sent[n - a]
  BY <1>1, <1>6, LineIs
<1>9. /\ Len(Line(k2)) = (a - 1) + b
      /\ \A n \in 1 .. (a - 1) + b : Line(k2)[n] = IF n <= a - 1 THEN y[n] ELSE k.sent[n - (a - 1)]
  <2>1. Len(k2.got) = a - 1 /\ Len(k2.sent) = b /\ k2.got = y /\ k2.sent = k.sent /\ k2 \in SocketType
    BY <1>4, <1>5, <1>6
  <2>2. /\ Len(Line(k2)) = (a - 1) + b
        /\ \A n \in 1 .. (a - 1) + b : Line(k2)[n] = IF n <= a - 1 THEN k2.got[n] ELSE k2.sent[n - (a - 1)]
    BY ONLY <2>1, LineIs
  <2> QED
    BY <2>1, <2>2
<1>10. Line(k)[1] = Head(x)
  <2>1. 1 \in 1 .. a + b /\ 1 <= a
    BY <1>7
  <2> QED
    BY <1>4, <1>8, <2>1
<1>11. ASSUME NEW n \in 1 .. (a - 1) + b PROVE Line(k2)[n] = Line(k)[n + 1]
  <2>1. n + 1 \in 1 .. a + b
    BY <1>7
  <2>2. CASE n <= a - 1
    <3>1. n + 1 <= a /\ n \in 1 .. a - 1
      BY <1>7, <2>2
    <3> QED
      BY <1>4, <1>6, <1>8, <1>9, <2>1, <2>2, <3>1
  <2>3. CASE ~(n <= a - 1)
    <3>1. ~(n + 1 <= a) /\ (n + 1) - a = n - (a - 1)
      BY <1>7, <2>3
    <3> QED
      BY <1>8, <1>9, <2>1, <2>3, <3>1
  <2> QED
    BY <2>2, <2>3
<1>12. Without(Line(k), 1, Line(k2))
  <2>1. 1 \in 1 .. a + b /\ (a - 1) + b = (a + b) - 1 /\ \A n \in 1 .. (a - 1) + b : ~(n < 1)
    BY <1>7
  <2> QED
    BY <1>8, <1>9, <1>11, <2>1 DEF Without
<1>13. ASSUME NEW n \in 1 .. Len(y) PROVE n + 1 \in 1 .. Len(x) /\ y[n] = x[n + 1]
  BY <1>4, <1>6, <1>7
<1>14. 1 \in 1 .. Len(x)
  BY <1>6, <1>7
<1> QED
  BY <1>1, <1>4, <1>5, <1>10, <1>12, <1>13, <1>14

\* The daemon is ready: what is held is sent, unless the session storage is read.
LEMMA ReadyIs ==
    ASSUME EInv, NEW s \in Sockets, Receive(s), Head(sock[s].got).kind = "ready"
    PROVE  /\ UNCHANGED <<waiting, item, jobs, past>>
           /\ \E n, out : /\ n \in NetType /\ n.chan.connection = chan.connection
                          /\ n.sock = [sock EXCEPT ![s].got = Tail(@)]
                          /\ Steady(n, out) /\ Become(out) /\ Sends(held, out)
                          /\ Keeps(held, out.held, {}) /\ out.held.seen = held.seen
<1>1. PICK answer : answer = Head(sock[s].got)
  OBVIOUS
<1>2. PICK taken : taken = [sock EXCEPT ![s].got = Tail(@)]
  OBVIOUS
<1>3. PICK n : n = [Net EXCEPT !.sock = taken, !.chan.greeted = TRUE, !.chan.intercepts = answer.about]
  OBVIOUS
<1>4. PICK out : out = IF held.load = "loading" THEN n ELSE Flush(n)
  OBVIOUS
<1>5. /\ sock[s].state = "open" /\ sock[s].got # <<>>
      /\ Become(out) /\ UNCHANGED <<waiting, item, jobs, past>>
  <2>1. Become(IF held.load = "loading" THEN n ELSE Flush(n))
    BY <1>1, <1>2, <1>3 DEF Receive
  <2> QED
    BY <1>4, <2>1 DEF Receive
<1>6. /\ Net \in NetType /\ Net.sock = sock /\ Net.chan = chan /\ Net.held = held
      /\ sock \in [Sockets -> SocketType] /\ chan \in ChannelType
  BY NetIs DEF EInv
<1>7. PICK k : k = [sock[s] EXCEPT !.got = Tail(@)]
  OBVIOUS
<1>8. k \in SocketType /\ answer \in Incoming
  BY <1>1, <1>5, <1>6, <1>7, HeardIs
<1>9. taken \in [Sockets -> SocketType]
  BY <1>2, <1>6, <1>7, <1>8
<1>10. answer.about \in BOOLEAN
  BY <1>1, <1>8 DEF Incoming
<1>11. PICK c : c = [chan EXCEPT !.greeted = TRUE, !.intercepts = answer.about]
  OBVIOUS
<1>12. c \in ChannelType /\ c.connection = chan.connection
  BY <1>6, <1>10, <1>11 DEF ChannelType
<1>13. n = [Net EXCEPT !.sock = taken, !.chan = c]
  BY <1>3, <1>6, <1>11
<1>14. n \in NetType /\ n.sock = taken /\ n.chan = c /\ n.held = held
  BY <1>6, <1>9, <1>12, <1>13 DEF NetType
<1>15. Steady(n, out) /\ Sends(held, out) /\ Keeps(held, out.held, {}) /\ out.held.seen = held.seen
  <2>1. CASE held.load = "loading"
    <3>1. out = n
      BY <1>4, <2>1
    <3> QED
      BY <1>14, <3>1, SteadyStays DEF Sends, Keeps
  <2>2. CASE held.load # "loading"
    <3>1. out = Flush(n)
      BY <1>4, <2>2
    <3>2. /\ Steady(n, out) /\ Aside(held, out.held)
          /\ \/ out = n
             \/ out.held.pending = <<>> /\ ToSet(held.pending) \subseteq SentOn(out.sock)
      BY <1>14, <3>1, FlushIs
    <3>3. Sends(held, out)
      BY <1>14, <2>2, <3>2 DEF Sends, Holds, Aside
    <3>4. Keeps(held, out.held, {})
      <4>1. ToSet(<<>>) = {} /\ Len(<<>>) = 0 /\ 0 <= MaxHeld
        BY ToEmpty, ExtensionAssumption
      <4>2. out.held.pending = held.pending \/ out.held.pending = <<>>
        BY <1>14, <3>2
      <4> QED
        BY <2>2, <3>2, <4>1, <4>2 DEF Keeps, Aside
    <3> QED
      BY <3>2, <3>3, <3>4 DEF Aside
  <2> QED
    BY <2>1, <2>2
<1> QED
  BY <1>2, <1>5, <1>12, <1>14, <1>15

\* The daemon is ready.
LEMMA ReadyKeeps ==
    ASSUME EInv, NEW s \in Sockets, Receive(s), Head(sock[s].got).kind = "ready"
    PROVE  EInv'
<1>1. /\ sock[s].state = "open" /\ sock[s].got # <<>> /\ sock \in [Sockets -> SocketType]
      /\ waiting \in Seq(Items) /\ jobs \subseteq Items
  BY NetIs DEF EInv, Typed, Receive
<1>2. UNCHANGED <<waiting, item, jobs, past>>
  BY ReadyIs
<1>3. PICK n, out : /\ n \in NetType /\ n.chan.connection = chan.connection
                    /\ n.sock = [sock EXCEPT ![s].got = Tail(@)]
                    /\ Steady(n, out) /\ Become(out)
                    /\ Keeps(held, out.held, {}) /\ out.held.seen = held.seen
  BY ReadyIs
<1>4. PICK k, k2 : k = sock[s] /\ k2 = [k EXCEPT !.got = Tail(@)]
  OBVIOUS
<1>5. n.sock = [sock EXCEPT ![s] = k2]
  BY <1>1, <1>3, <1>4
<1>6. /\ k2 \in SocketType /\ k2.state = "open"
      /\ \A m \in 1 .. Len(k2.got) : m + 1 \in 1 .. Len(k.got) /\ k2.got[m] = k.got[m + 1]
      /\ Line(k)[1] = Head(k.got) /\ Without(Line(k), 1, Line(k2))
  BY <1>1, <1>4, HeardIs
<1>7. \A m \in 1 .. Len(k2.got) : k2.got[m].kind = "queued" => k2.got[m].about \in jobs'
  BY <1>2, <1>4, <1>6 DEF EInv, Requests
<1>8. ASSUME ~past.ended, ~past.dropped PROVE InOrder(Line(k2), Awaited(s))
  <2>1. PICK x, y, z : x = Line(k) /\ y = Line(k2) /\ z = Awaited(s)
    OBVIOUS
  <2>2. InOrder(x, z)
    BY <1>4, <1>8, <2>1 DEF EInv, Matched
  <2>3. Len(x) \in Nat /\ Len(z) \in Nat
    BY <1>1, <1>4, <2>1, LineIs, LenProperties, ToEmpty DEF Awaited
  <2>4. Without(x, 1, y) /\ ~Asks(x[1])
    BY <1>4, <1>6, <2>1 DEF Asks
  <2>5. InOrder(y, z)
    BY <2>2, <2>3, <2>4, WithoutInOrder
  <2> QED
    BY <2>1, <2>5
<1>9. held' = out.held
  BY <1>3 DEF Become
<1>10. PICK g : g = out.held
  OBVIOUS
<1>11. Reading' /\ Forgetting'
  BY <1>2, <1>3, <1>9, <1>10, CalmHeld DEF EInv
<1>12. Len(out.held.pending) <= MaxHeld
  BY <1>3 DEF EInv, Typed, Keeps
<1> QED
  BY <1>1, <1>2, <1>3, <1>5, <1>6, <1>7, <1>8, <1>11, <1>12, SocketKeeps

\* An answer that no request waits for.
LEMMA StrayKeeps ==
    ASSUME EInv, NEW s \in Sockets, Receive(s), Head(sock[s].got).kind # "ready", waiting = <<>>
    PROVE  EInv'
<1>1. /\ sock[s].state = "open" /\ sock[s].got # <<>> /\ sock \in [Sockets -> SocketType]
      /\ jobs \subseteq Items
  BY NetIs DEF EInv, Typed, Receive
<1>2. /\ sock' = [sock EXCEPT ![s].got = Tail(@)]
      /\ UNCHANGED <<waiting, item, chan, held, jobs, past>>
  BY DEF Receive, FinishRequest
<1>3. PICK k, k2 : k = sock[s] /\ k2 = [k EXCEPT !.got = Tail(@)]
  OBVIOUS
<1>4. sock' = [sock EXCEPT ![s] = k2]
  BY <1>1, <1>2, <1>3
<1>5. /\ k2 \in SocketType /\ k2.state = "open" /\ Head(k.got) \in Incoming
      /\ \A m \in 1 .. Len(k2.got) : m + 1 \in 1 .. Len(k.got) /\ k2.got[m] = k.got[m + 1]
      /\ Line(k)[1] = Head(k.got) /\ Without(Line(k), 1, Line(k2))
  BY <1>1, <1>3, HeardIs
<1>6. \A m \in 1 .. Len(k2.got) : k2.got[m].kind = "queued" => k2.got[m].about \in jobs'
  BY <1>2, <1>3, <1>5 DEF EInv, Requests
<1>7. ASSUME ~past.ended, ~past.dropped PROVE FALSE
  <2>1. InOrder(Line(k), Awaited(s))
    BY <1>3, <1>7 DEF EInv, Matched
  <2>2. Len(Awaited(s)) = 0
    BY ToEmpty DEF Awaited
  <2>3. Asks(Line(k)[1]) /\ 1 \in 1 .. Len(Line(k))
    BY <1>3, <1>5 DEF Incoming, Asks, Without
  <2> QED
    BY <2>1, <2>2, <2>3 DEF InOrder
<1> QED
  BY <1>1, <1>2, <1>4, <1>5, <1>6, <1>7, SocketAlone

\* An answer is for the request that waits longest.
LEMMA AnsweredKeeps ==
    ASSUME EInv, NEW s \in Sockets, Receive(s), Head(sock[s].got).kind # "ready", waiting # <<>>
    PROVE  EInv'
<1>1. PICK answer : answer = Head(sock[s].got)
  OBVIOUS
<1>2. PICK first : first = waiting[1]
  OBVIOUS
<1>3. /\ sock[s].state = "open" /\ sock[s].got # <<>>
      /\ sock' = [sock EXCEPT ![s].got = Tail(@)]
      /\ waiting' = RemoveAt(waiting, 1)
      /\ item' = IF answer.kind = "queued"
                 THEN [item EXCEPT ![first].start = "idle",
                                   ![first].window = IF @ = "open" THEN "progress" ELSE @]
                 ELSE [item EXCEPT ![first].start = "refused"]
      /\ UNCHANGED <<chan, held, jobs, past>>
  BY <1>1, <1>2 DEF Receive, FinishRequest, Answered
<1>4. /\ sock \in [Sockets -> SocketType] /\ chan \in ChannelType /\ past \in PastType
      /\ item \in [Items -> ItemType] /\ jobs \subseteq Items /\ waiting \in Seq(Items)
  BY NetIs DEF EInv, Typed
<1>5. PICK q \in Nat : q = Len(waiting)
  BY <1>4, LenProperties
<1>6. 1 \in 1 .. q /\ first \in Items
  <2>1. q >= 1
    BY <1>3, <1>4, <1>5, EmptySeq
  <2> QED
    BY <1>2, <1>4, <1>5, <2>1, ElementOfSeq
<1>7. PICK queue, rest : queue = waiting /\ rest = waiting'
  OBVIOUS
<1>8. rest \in Seq(Items) /\ Without(queue, 1, rest)
  BY <1>3, <1>4, <1>5, <1>6, <1>7, RemovedIs
<1>9. Len(queue) \in Nat /\ \A i, j \in 1 .. Len(queue) : queue[i] = queue[j] => i = j
  BY <1>5, <1>7 DEF EInv, Requests
<1>10. /\ \A i, j \in 1 .. Len(rest) : rest[i] = rest[j] => i = j
       /\ \A i \in 1 .. Len(rest) : rest[i] # first /\ \E j \in 1 .. Len(queue) : rest[i] = queue[j]
  <2>1. /\ \A i, j \in 1 .. Len(rest) : rest[i] = rest[j] => i = j
        /\ \A i \in 1 .. Len(rest) : rest[i] # queue[1] /\ \E j \in 1 .. Len(queue) : rest[i] = queue[j]
    BY ONLY <1>8, <1>9, OthersWait
  <2> QED
    BY <1>2, <1>7, <2>1
<1>11. PICK k, k2 : k = sock[s] /\ k2 = [k EXCEPT !.got = Tail(@)]
  OBVIOUS
<1>12. /\ k2 \in SocketType /\ k2.state = "open" /\ k2.sent = k.sent /\ answer \in Incoming
       /\ answer = k.got[1] /\ 1 \in 1 .. Len(k.got)
       /\ \A m \in 1 .. Len(k2.got) : m + 1 \in 1 .. Len(k.got) /\ k2.got[m] = k.got[m + 1]
       /\ Line(k)[1] = answer /\ Without(Line(k), 1, Line(k2)) /\ k \in SocketType
  <2>1. k \in SocketType /\ k.got # <<>> /\ k2 = [k EXCEPT !.got = Tail(@)] /\ answer = Head(k.got)
    BY <1>1, <1>3, <1>4, <1>11
  <2>2. k.state = "open"
    BY <1>3, <1>11
  <2>3. /\ k2 \in SocketType /\ k2.state = k.state /\ k2.sent = k.sent
        /\ Head(k.got) \in Incoming /\ Head(k.got) = k.got[1] /\ 1 \in 1 .. Len(k.got)
        /\ \A m \in 1 .. Len(k2.got) : m + 1 \in 1 .. Len(k.got) /\ k2.got[m] = k.got[m + 1]
        /\ Line(k)[1] = Head(k.got) /\ Without(Line(k), 1, Line(k2))
    BY ONLY <2>1, HeardIs
  <2> QED
    BY <2>1, <2>2, <2>3
<1>13. /\ sock' \in [Sockets -> SocketType] /\ sock'[s] = k2
       /\ \A t \in Sockets : t # s => sock'[t] = sock[t]
  BY <1>3, <1>4, <1>11, <1>12
\* Where the order was kept, the answer is for the one that waits longest.
<1>14. ASSUME ~past.ended, ~past.dropped
       PROVE  s = chan.connection /\ first = answer.about /\ InOrder(Line(k2), rest)
  <2>1. PICK line, short : line = Line(k) /\ short = Line(k2)
    OBVIOUS
  <2>2. Asks(line[1]) /\ 1 \in 1 .. Len(line) /\ Without(line, 1, short) /\ Len(line) \in Nat
    <3>1. Asks(answer)
      BY <1>1, <1>12 DEF Incoming, Asks
    <3> QED
      BY <1>12, <2>1, <3>1, LineIs DEF Without
  <2>3. InOrder(line, Awaited(s))
    BY <1>11, <1>14, <2>1 DEF EInv, Matched
  <2>4. s = chan.connection
    <3>1. CASE s # chan.connection
      <4>1. Len(Awaited(s)) = 0
        BY <3>1, ToEmpty DEF Awaited
      <4> QED
        BY <2>2, <2>3, <4>1 DEF InOrder
    <3> QED
      BY <3>1
  <2>5. InOrder(line, queue)
    BY <1>7, <2>3, <2>4 DEF Awaited
  <2>6. queue[1] = line[1].about /\ InOrder(short, rest)
    BY ONLY <1>8, <1>9, <2>2, <2>5, AnsweredInOrder
  <2> QED
    BY <1>2, <1>7, <1>12, <2>1, <2>4, <2>6
<1>15. PICK next : next = IF answer.kind = "queued"
                          THEN [item[first] EXCEPT !.start = "idle", !.window = IF @ = "open" THEN "progress" ELSE @]
                          ELSE [item[first] EXCEPT !.start = "refused"]
  OBVIOUS
<1>16. /\ next \in ItemType /\ next.copy = item[first].copy /\ next.copies = item[first].copies
       /\ next.tries = item[first].tries /\ next.fresh = item[first].fresh
       /\ next.marked = item[first].marked /\ next.again = item[first].again
       /\ next.window = item[first].window
            \/ (answer.kind = "queued" /\ item[first].window = "open" /\ next.window = "progress")
  <2>1. item[first] \in ItemType
    BY <1>4, <1>6
  <2>2. CASE answer.kind = "queued"
    <3>1. next = [item[first] EXCEPT !.start = "idle", !.window = IF @ = "open" THEN "progress" ELSE @]
      BY <1>15, <2>2
    <3> QED
      BY <2>1, <2>2, <3>1 DEF ItemType
  <2>3. CASE answer.kind # "queued"
    <3>1. next = [item[first] EXCEPT !.start = "refused"]
      BY <1>15, <2>3
    <3> QED
      BY <2>1, <2>3, <3>1 DEF ItemType
  <2> QED
    BY <2>2, <2>3
<1>17. item' = [item EXCEPT ![first] = next]
  <2>1. CASE answer.kind = "queued"
    <3>1. /\ next = [item[first] EXCEPT !.start = "idle", !.window = IF @ = "open" THEN "progress" ELSE @]
          /\ item' = [item EXCEPT ![first].start = "idle",
                                  ![first].window = IF @ = "open" THEN "progress" ELSE @]
      BY <1>3, <1>15, <2>1
    <3> QED
      BY <1>4, <1>6, <3>1
  <2>2. CASE answer.kind # "queued"
    BY <1>3, <1>4, <1>15, <2>2
  <2> QED
    BY <2>1, <2>2
<1>18. item' \in [Items -> ItemType] /\ item'[first] = next /\ \A i \in Items : i # first => item'[i] = item[i]
  BY <1>4, <1>6, <1>16, <1>17
<1>19. GivenBack'
  <2> SUFFICES ASSUME NEW i \in Items, ~past.ended PROVE Marked(item'[i])
    BY <1>3 DEF GivenBack, Marked
  <2>1. Marked(item[i])
    BY DEF EInv, GivenBack
  <2>2. CASE i = first
    BY <1>16, <1>18, <2>1, <2>2 DEF Marked
  <2>3. CASE i # first
    <3>1. item'[i] = item[i]
      BY <1>18, <2>3
    <3> QED
      BY <2>1, <3>1
  <2> QED
    BY <2>2, <2>3
<1>20. Followed'
  <2> SUFFICES ASSUME ~past.ended, NEW i \in Items
               PROVE  /\ item'[i].copy = "stopped" => item'[i].window # "none"
                      /\ item'[i].window = "closed" => item'[i].copies > 0
                      /\ ~past.dropped /\ item'[i].window = "progress" => i \in jobs
    BY <1>3 DEF Followed
  <2>1. /\ item[i].copy = "stopped" => item[i].window # "none"
        /\ item[i].window = "closed" => item[i].copies > 0
        /\ ~past.dropped /\ item[i].window = "progress" => i \in jobs
    BY DEF EInv, Followed
  <2>2. CASE i # first
    BY <1>18, <2>1, <2>2
  <2>3. CASE i = first
    <3>1. ~past.dropped /\ answer.kind = "queued" => first \in jobs
      BY <1>11, <1>12, <1>14 DEF EInv, Requests
    <3> QED
      BY <1>16, <1>18, <2>1, <2>3, <3>1
  <2> QED
    BY <2>2, <2>3
<1>21. Requests'
  <2>1. ASSUME NEW i \in 1 .. Len(rest) PROVE item'[rest[i]].start = "asked"
    <3>1. PICK j \in 1 .. Len(waiting) : rest[i] = waiting[j]
      BY <1>7, <1>10
    <3>2. rest[i] # first /\ rest[i] \in Items /\ item[waiting[j]].start = "asked"
      BY <1>4, <1>10, <3>1, ElementOfSeq DEF EInv, Requests
    <3> QED
      BY <1>18, <3>1, <3>2
  <2>2. ASSUME NEW t \in Sockets
        PROVE  /\ sock'[t].state \in {"free", "connecting"} => sock'[t].sent = <<>> /\ sock'[t].got = <<>>
               /\ chan.connection = t => sock'[t].state \in {"connecting", "open"}
               /\ \A m \in 1 .. Len(sock'[t].got) : sock'[t].got[m].kind = "queued" => sock'[t].got[m].about \in jobs
    <3>1. CASE t = s
      <4>1. \A m \in 1 .. Len(k.got) : k.got[m].kind = "queued" => k.got[m].about \in jobs
        BY <1>11 DEF EInv, Requests
      <4>2. ASSUME NEW m \in 1 .. Len(k2.got), k2.got[m].kind = "queued" PROVE k2.got[m].about \in jobs
        <5>1. m + 1 \in 1 .. Len(k.got) /\ k2.got[m] = k.got[m + 1]
          BY <1>12
        <5> QED
          BY <4>1, <4>2, <5>1
      <4> QED
        BY <1>12, <1>13, <3>1, <4>2
    <3>2. CASE t # s
      BY <1>13, <3>2 DEF EInv, Requests
    <3> QED
      BY <3>1, <3>2
  <2>3. jobs' = jobs /\ chan' = chan
    BY <1>3
  <2>4. /\ \A i, j \in 1 .. Len(waiting') : waiting'[i] = waiting'[j] => i = j
        /\ \A i \in 1 .. Len(waiting') : item'[waiting'[i]].start = "asked"
    BY <1>7, <1>10, <2>1
  <2> QED
    BY <2>2, <2>3, <2>4 DEF Requests
<1>22. Matched'
  <2> SUFFICES ASSUME ~past.ended, ~past.dropped, NEW t \in Sockets
               PROVE  InOrder(Line(sock'[t]), IF t = s THEN rest ELSE <<>>)
    <3>1. ~past.ended /\ ~past.dropped => s # NoSocket /\ chan'.connection = s
      BY <1>3, <1>14, ExtensionAssumption
    <3> QED
      BY <1>3, <1>7, <3>1, Zenon DEF Matched, Awaited
  <2>1. CASE t # s
    <3>1. InOrder(Line(sock[t]), Awaited(t)) /\ Awaited(t) = <<>>
      BY <1>14, <2>1 DEF EInv, Matched, Awaited
    <3> QED
      BY <1>13, <2>1, <3>1
  <2>2. CASE t = s
    BY <1>13, <1>14, <2>2
  <2> QED
    BY <2>1, <2>2
<1>23. waiting' \in Seq(Items) /\ chan' \in ChannelType /\ jobs' \subseteq Items /\ past' = past /\ held' = held
  BY <1>3, <1>4, <1>7, <1>8
<1> QED
  BY <1>4, <1>13, <1>18, <1>19, <1>20, <1>21, <1>22, <1>23, StoreAside

\* A message reaches the worker.
LEMMA ReceiveKeeps == ASSUME EInv, NEW s \in Sockets, Receive(s) PROVE EInv'
  BY ReadyKeeps, StrayKeeps, AnsweredKeeps

-----------------------------------------------------------------------------
(* The orders of the options page, and the end of the worker. *)

\* Every socket carries what it carried.
Carries(socks, socks2) ==
    \A t \in Sockets : /\ socks2[t].sent = socks[t].sent /\ socks2[t].got = socks[t].got
                       /\ socks2[t].state \in {"free", "connecting"} => socks2[t].state = socks[t].state

\* disconnect closes the connection, and there is none.
LEMMA DisconnectIs ==
    ASSUME NEW net \in NetType
    PROVE  /\ Disconnect(net) \in NetType /\ Disconnect(net).held = net.held
           /\ Disconnect(net).chan.connection = NoSocket
           /\ Carries(net.sock, Disconnect(net).sock)
<1>1. PICK s : s = net.chan.connection
  OBVIOUS
<1>2. PICK closing : closing = IF s # NoSocket /\ net.sock[s].state \in {"connecting", "open"}
                               THEN [net.sock EXCEPT ![s].state = "closing"]
                               ELSE net.sock
  OBVIOUS
<1>3. net.sock \in [Sockets -> SocketType] /\ net.chan \in ChannelType
  BY DEF NetType
<1>4. closing \in [Sockets -> SocketType] /\ Carries(net.sock, closing)
  <2>1. CASE closing = net.sock
    BY <1>3, <2>1 DEF Carries
  <2>2. CASE s # NoSocket /\ closing = [net.sock EXCEPT ![s].state = "closing"]
    <3>1. s \in Sockets
      BY <1>1, <1>3, <2>2 DEF ChannelType
    <3>2. PICK k : k = [net.sock[s] EXCEPT !.state = "closing"]
      OBVIOUS
    <3>3. /\ k \in SocketType /\ k.state = "closing" /\ k.sent = net.sock[s].sent /\ k.got = net.sock[s].got
      BY <1>3, <3>1, <3>2 DEF SocketType
    <3>4. closing = [net.sock EXCEPT ![s] = k]
      BY <1>3, <2>2, <3>1, <3>2
    <3>5. /\ closing \in [Sockets -> SocketType] /\ closing[s] = k
          /\ \A t \in Sockets : t # s => closing[t] = net.sock[t]
      BY <1>3, <3>1, <3>3, <3>4
    <3> QED
      BY <3>3, <3>5 DEF Carries
  <2> QED
    BY <1>2, <2>1, <2>2
<1>5. PICK c : c = [net.chan EXCEPT !.connection = NoSocket, !.greeted = FALSE,
                                    !.intercepts = FALSE, !.timer = FALSE]
  OBVIOUS
<1>6. c \in ChannelType /\ c.connection = NoSocket
  BY <1>3, <1>5 DEF ChannelType
<1>7. PICK out : out = [net EXCEPT !.sock = closing, !.chan = c]
  OBVIOUS
<1>8. out \in NetType /\ out.held = net.held /\ out.chan = c /\ out.sock = closing
  BY <1>4, <1>6, <1>7 DEF NetType
<1>9. Disconnect(net) = out
  BY <1>1, <1>2, <1>5, <1>7 DEF Disconnect
<1> QED
  BY <1>4, <1>6, <1>8, <1>9

\* The connection is given up for a new one: requests that wait count as dropped.
LEMMA OrderMatched ==
    ASSUME EInv, NEW out \in NetType, Become(out), Carries(sock, out.sock),
           out.chan.connection = NoSocket,
           UNCHANGED <<waiting, item, jobs>>,
           past'.ended = past.ended, past'.dropped = (past.dropped \/ waiting # <<>>)
    PROVE  Requests' /\ Matched'
<1>1. sock' = out.sock /\ chan'.connection = NoSocket /\ NoSocket \notin Sockets
  BY ExtensionAssumption DEF Become
<1>2. Requests'
  BY <1>1 DEF EInv, Requests, Carries
<1>3. Matched'
  <2> SUFFICES ASSUME ~past.ended, ~past.dropped, waiting = <<>>, NEW t \in Sockets
               PROVE  InOrder(Line(out.sock[t]), <<>>)
    BY <1>1, Zenon DEF Matched, Awaited
  <2>1. InOrder(Line(sock[t]), Awaited(t)) /\ Awaited(t) = <<>>
    BY DEF EInv, Matched, Awaited
  <2>2. Line(out.sock[t]) = Line(sock[t])
    BY DEF Line, Carries
  <2> QED
    BY <2>1, <2>2
<1> QED
  BY <1>2, <1>3

\* A new connection is ordered.
LEMMA ReconnectOrderKeeps == EInv /\ ReconnectOrder => EInv'
<1> SUFFICES ASSUME EInv, ReconnectOrder PROVE EInv'
  OBVIOUS
<1>1. /\ Become(Connect(Disconnect(Net)))
      /\ past' = [past EXCEPT !.commands = @ + 1, !.dropped = @ \/ waiting # <<>>]
      /\ UNCHANGED <<waiting, item, jobs>>
  BY DEF ReconnectOrder
<1>2. Net \in NetType /\ Net.held = held /\ Net.sock = sock /\ past \in PastType
  BY NetIs DEF EInv, Typed
<1>3. PICK a, out : a = Disconnect(Net) /\ out = Connect(a)
  OBVIOUS
<1>4. a \in NetType /\ a.held = held /\ a.chan.connection = NoSocket /\ Carries(sock, a.sock)
  BY <1>2, <1>3, DisconnectIs
<1>5. /\ out \in NetType /\ out.held = held /\ out.chan.connection = NoSocket /\ Carries(sock, out.sock)
  BY <1>3, <1>4, ConnectIs DEF Steady
<1>6. Become(out)
  BY <1>1, <1>3, Zenon
<1>7. /\ past' \in PastType /\ past'.ended = past.ended /\ past'.forgotten = past.forgotten
      /\ past'.dropped = (past.dropped \/ waiting # <<>>)
  <2>1. past.commands + 1 \in Nat
    BY <1>2 DEF PastType
  <2> QED
    BY <1>1, <1>2, <2>1 DEF PastType
<1>8. Requests' /\ Matched'
  BY <1>1, <1>5, <1>6, <1>7, OrderMatched
<1>9. /\ sock' \in [Sockets -> SocketType] /\ chan' \in ChannelType /\ held' = held
  BY <1>5, <1>6 DEF Become, NetType
<1>10. /\ item' \in [Items -> ItemType] /\ GivenBack' /\ Followed'
  BY <1>1, <1>7, DownloadsStay
<1>11. waiting' \in Seq(Items) /\ jobs' \subseteq Items
  BY <1>1 DEF EInv, Typed
<1> QED
  BY <1>7, <1>8, <1>9, <1>10, <1>11, StoreAside

\* Every report is forgotten: what is read of them later is not used.
LEMMA ForgetKeeps == EInv /\ Forget => EInv'
<1> SUFFICES ASSUME EInv, Forget PROVE EInv'
  OBVIOUS
<1>1. /\ Become(Connect(Disconnect(ForgetReports(Net))))
      /\ past' = [past EXCEPT !.commands = @ + 1, !.dropped = @ \/ waiting # <<>>,
                              !.forgotten = (@ \cup ToSet(held.pending)
                                               \cup (IF held.load = "loading" THEN ToSet(held.stored) ELSE {}))
                                              \ ToSet(held.queued)]
      /\ UNCHANGED <<waiting, item, jobs>>
  BY DEF Forget
<1>2. /\ Net \in NetType /\ Net.held = held /\ Net.sock = sock /\ past \in PastType /\ held \in HeldType
  BY NetIs DEF EInv, Typed
<1>3. PICK load : load = IF held.load = "loading" THEN "stale" ELSE held.load
  OBVIOUS
<1>4. PICK g : g = [held EXCEPT !.pending = <<>>, !.load = load]
  OBVIOUS
<1>5. /\ g \in HeldType /\ g.pending = <<>> /\ g.load # "loading"
      /\ g.queued = held.queued /\ g.seen = held.seen
  <2>1. load \in {"stale", "done"}
    BY <1>2, <1>3 DEF HeldType
  <2> QED
    BY <1>2, <1>4, <2>1, EmptySeq DEF HeldType
<1>6. PICK emptied : emptied = [Net EXCEPT !.held = g]
  OBVIOUS
<1>7. emptied \in NetType /\ emptied.held = g /\ emptied.sock = sock
  BY <1>2, <1>5, <1>6 DEF NetType
<1>8. PICK saved, a, out : saved = SavePending(emptied) /\ a = Disconnect(saved) /\ out = Connect(a)
  OBVIOUS
<1>9. /\ saved \in NetType /\ saved.sock = sock /\ Aside(g, saved.held) /\ saved.held.pending = <<>>
  BY <1>5, <1>7, <1>8, SaveIs DEF Steady
<1>10. /\ a \in NetType /\ a.held = saved.held /\ a.chan.connection = NoSocket /\ Carries(sock, a.sock)
  BY <1>8, <1>9, DisconnectIs
<1>11. /\ out \in NetType /\ out.held = saved.held /\ out.chan.connection = NoSocket /\ Carries(sock, out.sock)
  BY <1>8, <1>10, ConnectIs DEF Steady
<1>12. emptied = [Net EXCEPT !.held.pending = <<>>,
                             !.held.load = IF @ = "loading" THEN "stale" ELSE @]
  BY <1>2, <1>3, <1>4, <1>6
<1>13. Become(out)
  <2>1. ForgetReports(Net) = saved
    BY <1>8, <1>12 DEF ForgetReports
  <2> QED
    BY <1>1, <1>8, <2>1
<1>14. PICK gone : gone = (past.forgotten \cup ToSet(held.pending)
                             \cup (IF held.load = "loading" THEN ToSet(held.stored) ELSE {})) \ ToSet(held.queued)
  OBVIOUS
<1>15. gone \subseteq Things
  <2>1. ToSet(held.pending) \subseteq Things /\ ToSet(held.stored) \subseteq Things
    BY <1>2, ThingsOf DEF HeldType
  <2> QED
    BY <1>2, <1>14, <2>1 DEF PastType
<1>16. /\ past' \in PastType /\ past'.ended = past.ended /\ past'.forgotten = gone
       /\ past'.dropped = (past.dropped \/ waiting # <<>>)
  <2>1. past.commands + 1 \in Nat
    BY <1>2 DEF PastType
  <2> QED
    BY <1>1, <1>2, <1>14, <1>15, <2>1 DEF PastType
<1>17. Requests' /\ Matched'
  BY <1>1, <1>11, <1>13, <1>16, OrderMatched
<1>18. held' = out.held /\ Net' \in NetType
  BY <1>11, <1>13, NetBecomes DEF Become
<1>19. /\ held'.pending = <<>> /\ held'.load # "loading" /\ held'.queued = held.queued
       /\ held'.seen = held.seen
  BY <1>5, <1>9, <1>11, <1>18 DEF Aside
<1>20. ToSet(<<>>) = {} /\ Len(<<>>) = 0 /\ 0 <= MaxHeld
  BY ToEmpty, ExtensionAssumption
<1>21. Reading'
  BY <1>19 DEF Reading
<1>22. Forgetting'
  <2> SUFFICES ASSUME ~past.ended
               PROVE  /\ (gone \cup ToSet(held.queued)) \cap Items \subseteq held.seen
                      /\ gone \cap ToSet(held.queued) = {}
    BY <1>16, <1>19, <1>20 DEF Forgetting, ForgottenStaysForgotten
  <2>1. /\ held.load = "loading" => ToSet(held.stored) \subseteq Reports
        /\ (past.forgotten \cup ToSet(held.pending) \cup ToSet(held.queued)) \cap Items \subseteq held.seen
    BY DEF EInv, Forgetting
  <2> QED
    BY <1>14, <2>1, ExtensionAssumption
<1>23. /\ item' \in [Items -> ItemType] /\ GivenBack' /\ Followed'
  BY <1>1, <1>16, DownloadsStay
<1>24. Typed'
  BY <1>1, <1>16, <1>18, <1>19, <1>20, <1>23 DEF EInv, Typed
<1> QED
  BY <1>17, <1>21, <1>22, <1>23, <1>24 DEF EInv

\* A worker that begins.
LEMMA FreshIs ==
    ASSUME NEW stored \in Seq(Things)
    PROVE  /\ FreshChannel \in ChannelType /\ FreshChannel.connection = NoSocket
           /\ FreshHeld(stored) \in HeldType /\ FreshHeld(stored).load = "loading"
           /\ FreshHeld(stored).stored = stored
           /\ FreshHeld(stored).pending = <<>> /\ FreshHeld(stored).writes = <<>>
           /\ FreshHeld(stored).queued = <<>> /\ FreshHeld(stored).seen = {}
           /\ FreshSocket \in SocketType /\ FreshSocket.state = "free"
           /\ FreshSocket.sent = <<>> /\ FreshSocket.got = <<>> /\ InOrder(Line(FreshSocket), <<>>)
<1>1. FreshChannel \in ChannelType /\ FreshChannel.connection = NoSocket
  BY ExtensionAssumption DEF FreshChannel, ChannelType
<1>2. /\ FreshHeld(stored) \in HeldType /\ FreshHeld(stored).load = "loading"
      /\ FreshHeld(stored).stored = stored
      /\ FreshHeld(stored).pending = <<>> /\ FreshHeld(stored).writes = <<>>
      /\ FreshHeld(stored).queued = <<>> /\ FreshHeld(stored).seen = {}
  BY EmptySeq DEF FreshHeld, HeldType
<1>3. FreshSocket = [state |-> "free", sent |-> <<>>, got |-> <<>>]
  BY DEF FreshSocket
<1>4. PICK k : k = FreshSocket
  OBVIOUS
<1>5. k \in SocketType /\ k.state = "free" /\ k.sent = <<>> /\ k.got = <<>> /\ InOrder(Line(k), <<>>)
  BY <1>3, <1>4, BareSocket
<1> QED
  BY <1>1, <1>2, <1>4, <1>5

\* The browser ends the worker and starts it again.
LEMMA RestartKeeps == EInv /\ Restart => EInv'
<1> SUFFICES ASSUME EInv, Restart PROVE EInv'
  OBVIOUS
<1>1. /\ sock' = [s \in Sockets |-> FreshSocket] /\ chan' = FreshChannel
      /\ held' = FreshHeld(held.stored) /\ waiting' = <<>>
      /\ item' = [i \in Items |-> Ended(item[i])]
      /\ past' = [past EXCEPT !.restarts = @ + 1, !.ended = TRUE] /\ UNCHANGED jobs
  BY DEF Restart
<1>2. held \in HeldType /\ past \in PastType /\ item \in [Items -> ItemType] /\ jobs \subseteq Items
  BY NetIs DEF EInv, Typed
<1>3. held.stored \in Seq(Things)
  BY <1>2 DEF HeldType
<1>4. /\ FreshChannel \in ChannelType /\ FreshChannel.connection = NoSocket
      /\ FreshHeld(held.stored) \in HeldType
      /\ FreshHeld(held.stored).pending = <<>> /\ FreshHeld(held.stored).writes = <<>>
      /\ FreshSocket \in SocketType /\ FreshSocket.state = "free"
      /\ FreshSocket.sent = <<>> /\ FreshSocket.got = <<>>
  BY <1>3, FreshIs
<1>5. past' \in PastType /\ past'.ended = TRUE
  <2>1. past.restarts + 1 \in Nat
    BY <1>2 DEF PastType
  <2> QED
    BY <1>1, <1>2, <2>1 DEF PastType
<1>6. ASSUME NEW i \in Items PROVE Ended(item[i]) \in ItemType
  <2>1. PICK it : it = item[i]
    OBVIOUS
  <2>2. it \in ItemType
    BY <1>2, <2>1
  <2>3. PICK copy \in {"none", "created", "cancelling", "running", "stopped"} :
          copy = IF it.copy = "cancelling" THEN "stopped" ELSE it.copy
    BY <2>2 DEF ItemType
  <2>4. PICK window \in {"none", "opening", "open", "progress", "closed", "left", "failed"} :
          window = IF it.cancel THEN "closed" ELSE IF it.window = "opening" THEN "none" ELSE it.window
    BY <2>2 DEF ItemType
  <2>5. Ended(it) = [it EXCEPT !.copy = copy, !.window = window, !.start = "idle",
                               !.cancel = FALSE, !.marked = FALSE]
    BY <2>2, <2>3, <2>4 DEF Ended, ItemType
  <2>6. Ended(it) \in ItemType
    BY <2>2, <2>5 DEF ItemType
  <2> QED
    BY <2>1, <2>6
<1>7. item' \in [Items -> ItemType]
  BY <1>1, <1>6
<1>8. Len(<<>>) = 0 /\ 0 <= MaxHeld /\ <<>> \in Seq(Items)
  BY ToEmpty, EmptySeq, ExtensionAssumption
<1>9. sock' \in [Sockets -> SocketType] /\ \A s \in Sockets : sock'[s] = FreshSocket
  BY <1>1, <1>4
<1>10. Net' \in NetType
  BY <1>1, <1>4, <1>9 DEF NetType, Net
<1>11. Typed'
  BY <1>1, <1>2, <1>4, <1>5, <1>7, <1>8, <1>10 DEF Typed
<1>12. Requests'
  BY <1>1, <1>4, <1>8, <1>9, ExtensionAssumption DEF Requests
<1>13. GivenBack' /\ Followed' /\ Matched' /\ Forgetting'
  BY <1>5 DEF GivenBack, Followed, Matched, Forgetting
<1>14. Reading'
  BY <1>1, <1>4 DEF Reading
<1> QED
  BY <1>11, <1>12, <1>13, <1>14 DEF EInv

-----------------------------------------------------------------------------
(* The invariant. *)

\* It holds when the worker begins for the first time.
LEMMA ExtensionInit == Init => EInv
<1> SUFFICES ASSUME Init PROVE EInv
  OBVIOUS
<1>1. PICK stored \in {<<>>} \cup {<<r>> : r \in Reports} : held = FreshHeld(stored)
  BY DEF Init
<1>2. stored \in Seq(Things) /\ ToSet(stored) \subseteq Reports
  <2>1. CASE stored = <<>>
    BY <2>1, EmptySeq, ToEmpty
  <2>2. CASE stored # <<>>
    <3>1. PICK r \in Reports : stored = <<r>>
      BY <1>1, <2>2
    <3>2. <<r>> \in Seq(Reports)
      OBVIOUS
    <3>3. ToSet(<<r>>) \subseteq Reports
      BY <3>2, ThingsOf
    <3>4. <<r>> \in Seq(Things)
      BY DEF Things
    <3> QED
      BY <3>1, <3>3, <3>4
  <2> QED
    BY <2>1, <2>2
<1>3. /\ sock = [s \in Sockets |-> FreshSocket] /\ chan = FreshChannel /\ waiting = <<>>
      /\ item = [i \in Items |-> FreshItem] /\ jobs = {}
      /\ past = [restarts |-> 0, commands |-> 0, ended |-> FALSE, dropped |-> FALSE, forgotten |-> {}]
  BY DEF Init
<1>4. /\ FreshChannel \in ChannelType /\ FreshChannel.connection = NoSocket
      /\ held \in HeldType /\ held.load = "loading" /\ held.stored = stored
      /\ held.pending = <<>> /\ held.writes = <<>> /\ held.queued = <<>>
      /\ FreshSocket \in SocketType /\ FreshSocket.state = "free"
      /\ FreshSocket.sent = <<>> /\ FreshSocket.got = <<>> /\ InOrder(Line(FreshSocket), <<>>)
  BY <1>1, <1>2, FreshIs
<1>5. past \in PastType /\ past.forgotten = {}
  BY <1>3 DEF PastType
<1>6. FreshItem \in ItemType
  BY DEF FreshItem, ItemType
<1>7. item \in [Items -> ItemType] /\ \A i \in Items : item[i] = FreshItem
  BY <1>3, <1>6
<1>8. Len(<<>>) = 0 /\ 0 <= MaxHeld /\ <<>> \in Seq(Items) /\ ToSet(<<>>) = {}
  BY ToEmpty, EmptySeq, ExtensionAssumption
<1>9. sock \in [Sockets -> SocketType] /\ \A s \in Sockets : sock[s] = FreshSocket
  BY <1>3, <1>4
<1>10. Net \in NetType
  BY <1>3, <1>4, <1>9 DEF NetType, Net
<1>11. Typed
  BY <1>3, <1>4, <1>5, <1>7, <1>8, <1>10 DEF Typed
<1>12. Requests
  BY <1>3, <1>4, <1>8, <1>9, ExtensionAssumption DEF Requests
<1>13. Matched
  BY <1>3, <1>4, <1>9 DEF Matched, Awaited
<1>14. Reading
  BY <1>4 DEF Reading
<1>15. Forgetting
  BY <1>2, <1>4, <1>5, <1>8 DEF Forgetting, ForgottenStaysForgotten
<1>16. GivenBack /\ Followed
  BY <1>7 DEF GivenBack, Marked, Followed, FreshItem
<1> QED
  BY <1>11, <1>12, <1>13, <1>14, <1>15, <1>16 DEF EInv

\* Every step keeps it.
LEMMA ExtensionNext == EInv /\ [Next]_vars => EInv'
<1> SUFFICES ASSUME EInv, [Next]_vars PROVE EInv'
  OBVIOUS
<1>1. ASSUME NEW s \in Sockets, OfSocket(s) PROVE EInv'
  BY <1>1, SettledKeeps, OpenedKeeps, ClosedKeeps, ReceiveKeeps, ServeKeeps DEF OfSocket
<1>2. ASSUME NEW i \in Items, OfItem(i) PROVE EInv'
  BY <1>2, ClickKeeps, CreatedKeeps, CopyCreatedKeeps, StoppedKeeps, WindowOpenedKeeps, WindowFailedKeeps,
     StartKeeps, AskKeeps, NoConnectionKeeps, TimeOutKeeps, GiveBackKeeps, CancelKeeps, CancelledKeeps,
     LeaveKeeps DEF OfItem
<1>3. ASSUME NEW r \in Reports, Report(r) PROVE EInv'
  BY <1>3, ReportKeeps
<1>4. CASE Unpaired \/ Reconnect \/ Alarm \/ ReconnectOrder \/ Forget \/ Loaded \/ Written \/ Restart
  BY <1>4, UnpairedKeeps, ReconnectKeeps, AlarmKeeps, ReconnectOrderKeeps, ForgetKeeps, LoadedKeeps,
     WrittenKeeps, RestartKeeps
<1>5. CASE UNCHANGED vars
  <2>1. /\ sock' = sock /\ chan' = chan /\ held' = held /\ waiting' = waiting /\ item' = item
        /\ jobs' = jobs /\ past' = past
    BY <1>5 DEF vars
  <2>2. Typed' /\ GivenBack' /\ Reading' /\ Forgetting'
    BY <2>1 DEF EInv, Typed, Net, GivenBack, Reading, Forgetting, ForgottenStaysForgotten
  <2>3. Requests' /\ Matched' /\ Followed'
    BY <2>1 DEF EInv, Requests, Matched, Awaited, Followed
  <2> QED
    BY <2>2, <2>3 DEF EInv
<1> QED
  BY <1>1, <1>2, <1>3, <1>4, <1>5 DEF Next

\* The invariant holds throughout: what waits is what the line of the connection
\* carries, in its order (background.ts finishDownloadRequest).
THEOREM ExtensionInvariance == Spec => []EInv
<1>1. EInv /\ [Next]_vars => EInv'
  BY ExtensionNext
<1> QED
  BY <1>1, ExtensionInit, PTL DEF Spec

\* No download is lost between the browser and the daemon, as long as no request
\* went without its answer (background.ts promptBrowserDownload, startBrowserDownload,
\* keepBrowserDownload, finishDownloadRequest).
THEOREM NoDownloadIsLost == Spec => []DownloadIsNotLost
<1>1. EInv => DownloadIsNotLost
  <2> SUFFICES ASSUME EInv, ~past.ended, ~past.dropped, NEW i \in Items PROVE SomewhereElse(i)
    BY DEF DownloadIsNotLost
  <2>1. /\ item[i].copy = "stopped" => item[i].window # "none"
        /\ item[i].window = "closed" => item[i].copies > 0
        /\ item[i].window = "progress" => i \in jobs
    BY DEF EInv, Followed
  <2>2. item[i].window \in {"none", "opening", "open", "progress", "closed", "left", "failed"}
    BY DEF EInv, Typed, ItemType
  <2> QED
    BY <2>1, <2>2 DEF SomewhereElse
<1> QED
  BY <1>1, ExtensionInvariance, PTL

\* What was given back once is not taken over again (background.ts
\* rememberRestoredDownload, takeRestoredDownload).
THEOREM NoRestoredIsPrompted == Spec => []RestoredIsNotPrompted
<1>1. EInv => RestoredIsNotPrompted
  <2> SUFFICES ASSUME EInv, NEW i \in Items, item[i].again, ~past.ended PROVE item[i].tries > 1
    BY DEF RestoredIsNotPrompted
  <2>1. item[i].tries \in Nat
    BY DEF EInv, Typed, ItemType
  <2>2. Marked(item[i])
    BY DEF EInv, GivenBack
  <2> QED
    BY <2>1, <2>2 DEF Marked
<1> QED
  BY <1>1, ExtensionInvariance, PTL

\* What was forgotten is not held again (background.ts loadPending, pendingEpoch).
THEOREM NothingForgottenComesBack == Spec => []ForgottenStaysForgotten
<1>1. EInv => ForgottenStaysForgotten
  BY DEF EInv, Forgetting, ForgottenStaysForgotten
<1> QED
  BY <1>1, ExtensionInvariance, PTL

-----------------------------------------------------------------------------
(* Reports that are held. *)

\* How a report that is held may leave the worker.
Leaves ==
    past'.restarts = past.restarts =>
        \A r \in Holds(held) \ Holds(held') :
            r \in SentOn(sock') \/ past'.commands > past.commands \/ Held(held) >= MaxHeld

\* A step that holds what was held.
LEMMA StaysHeld == held' = held => Leaves
  BY DEF Leaves

\* A step of the worker's calls, which send what they no longer hold.
LEMMA SentFirst == ASSUME NEW n, Become(n), Sends(held, n) PROVE Leaves
  BY DEF Leaves, Become, Sends

\* The calls of one download.
LEMMA DownloadLeaves ==
    ASSUME EInv, NEW i \in Items, UNCHANGED <<sock, chan, held>> \/ Become(ReportCandidate(Net, i))
    PROVE  Leaves
<1>1. CASE UNCHANGED <<sock, chan, held>>
  BY <1>1, StaysHeld
<1>2. CASE Become(ReportCandidate(Net, i))
  <2>1. PICK n : Become(n) /\ Sends(held, n)
    BY <1>2, DownloadReported
  <2> QED
    BY <2>1, SentFirst
<1> QED
  BY <1>1, <1>2

\* A step of one download.
LEMMA ItemLeaves == ASSUME EInv, NEW i \in Items, OfItem(i) PROVE Leaves
<1>1. Net \in NetType /\ Net.held = held
  BY NetIs DEF EInv
<1>2. CASE Click(i) \/ WindowOpened(i) \/ NoConnection(i) \/ GiveBack(i) \/ Cancel(i) \/ Cancelled(i) \/ Leave(i)
  <2>1. held' = held
    BY <1>2 DEF Click, WindowOpened, NoConnection, GiveBack, Cancel, Cancelled, Leave
  <2> QED
    BY <2>1, StaysHeld
<1>3. CASE TimeOut(i)
  BY <1>3, StaysHeld DEF TimeOut
<1>4. CASE Created(i)
  BY <1>4, DownloadLeaves DEF Created
<1>5. CASE CopyCreated(i)
  BY <1>5, DownloadLeaves DEF CopyCreated
<1>6. CASE Stopped(i)
  BY <1>6, DownloadLeaves DEF Stopped
<1>7. CASE WindowFailed(i)
  BY <1>7, DownloadLeaves DEF WindowFailed
<1>8. CASE Start(i)
  <2>1. Become(Connect(Net)) /\ Connect(Net).held = held
    BY <1>1, <1>8, ConnectIs DEF Start
  <2>2. held' = held
    BY <2>1 DEF Become
  <2> QED
    BY <2>2, StaysHeld
<1>9. CASE Ask(i)
  <2>1. PICK m : m = Message("download", i)
    OBVIOUS
  <2>2. PICK n : n = Send(Net, m)
    OBVIOUS
  <2>3. held' = n.held
    BY <1>9, <2>1, <2>2 DEF Ask, Become
  <2>4. n = [Net EXCEPT !.sock[Net.chan.connection].sent = Append(@, m)]
    BY <2>2 DEF Send
  <2>5. n.held = held
    BY <1>1, <2>4 DEF NetType
  <2> QED
    BY <2>3, <2>5, StaysHeld
<1> QED
  BY <1>2, <1>3, <1>4, <1>5, <1>6, <1>7, <1>8, <1>9 DEF OfItem

\* A step of one socket.
LEMMA SocketLeaves == ASSUME EInv, NEW s \in Sockets, OfSocket(s) PROVE Leaves
<1>1. CASE Settled(s) \/ Opened(s) \/ Closed(s) \/ Serve(s)
  <2>1. held' = held
    BY <1>1 DEF Settled, Opened, Closed, Serve
  <2> QED
    BY <2>1, StaysHeld
<1>2. CASE Receive(s) /\ Head(sock[s].got).kind = "ready"
  <2>1. PICK n, out : n \in NetType /\ Become(out) /\ Sends(held, out)
    BY <1>2, ReadyIs
  <2> QED
    BY <2>1, SentFirst
<1>3. CASE Receive(s) /\ Head(sock[s].got).kind # "ready"
  <2>1. held' = held
    BY <1>3 DEF Receive
  <2> QED
    BY <2>1, StaysHeld
<1> QED
  BY <1>1, <1>2, <1>3 DEF OfSocket

\* A step of the worker, of the browser or of the options page.
LEMMA WorkerLeaves ==
    ASSUME EInv, Unpaired \/ Reconnect \/ Alarm \/ ReconnectOrder \/ Forget \/ Loaded \/ Written \/ Restart
    PROVE  Leaves
<1>1. Net \in NetType /\ Net.held = held /\ Net.chan = chan /\ held \in HeldType /\ past \in PastType
  BY NetIs DEF EInv, Typed
<1>2. CASE Unpaired
  BY <1>2, StaysHeld DEF Unpaired
<1>3. CASE Alarm
  <2>1. Become(Connect(Net)) /\ Connect(Net).held = held
    BY <1>1, <1>3, ConnectIs DEF Alarm
  <2>2. held' = held
    BY <2>1 DEF Become
  <2> QED
    BY <2>2, StaysHeld
<1>4. CASE Reconnect
  <2>1. PICK c : c = [chan EXCEPT !.timer = FALSE]
    OBVIOUS
  <2>2. c \in ChannelType /\ c.connection = chan.connection
    BY <2>1, NetIs DEF EInv, ChannelType
  <2>3. PICK a : a = [Net EXCEPT !.chan = c]
    OBVIOUS
  <2>4. a \in NetType /\ a.held = held
    BY <2>2, <2>3, ChannelChanges DEF EInv, Steady
  <2>5. PICK n : n = Connect(a)
    OBVIOUS
  <2>6. n.held = held
    BY <2>4, <2>5, ConnectIs
  <2>7. a = [Net EXCEPT !.chan.timer = FALSE]
    BY <1>1, <2>1, <2>3
  <2>8. held' = n.held
    BY <1>4, <2>5, <2>7 DEF Reconnect, Become
  <2> QED
    BY <2>6, <2>8, StaysHeld
<1>5. CASE ReconnectOrder
  <2>1. PICK a, out : a = Disconnect(Net) /\ out = Connect(a)
    OBVIOUS
  <2>2. a \in NetType /\ a.held = held
    BY <1>1, <2>1, DisconnectIs
  <2>3. out.held = held
    BY <2>1, <2>2, ConnectIs
  <2>4. held' = out.held
    BY <1>5, <2>1 DEF ReconnectOrder, Become
  <2> QED
    BY <2>3, <2>4, StaysHeld
<1>6. CASE Forget
  <2>1. past'.commands = past.commands + 1
    BY <1>1, <1>6 DEF Forget, PastType
  <2>2. past.commands \in Nat
    BY <1>1 DEF PastType
  <2>3. past'.commands > past.commands
    BY <2>1, <2>2
  <2> QED
    BY <2>3 DEF Leaves
<1>7. CASE Loaded
  <2>1. PICK n : Become(n) /\ Sends(held, n)
    BY <1>7, LoadedIs
  <2> QED
    BY <2>1, SentFirst
<1>8. CASE Written
  <2>1. held.load # "loading"
    BY <1>8 DEF EInv, Reading, Written
  <2>2. held' = [held EXCEPT !.stored = Head(held.writes), !.writes = Tail(@)]
    BY <1>8 DEF Written
  <2>3. held'.load = held.load /\ held'.pending = held.pending /\ held'.queued = held.queued
    BY <1>1, <2>2 DEF HeldType
  <2>4. Holds(held') = Holds(held)
    BY <2>1, <2>3 DEF Holds
  <2> QED
    BY <2>4 DEF Leaves
<1>9. CASE Restart
  <2>1. past'.restarts = past.restarts + 1
    BY <1>1, <1>9 DEF Restart, PastType
  <2>2. past.restarts \in Nat
    BY <1>1 DEF PastType
  <2>3. past'.restarts # past.restarts
    BY <2>1, <2>2
  <2> QED
    BY <2>3 DEF Leaves
<1> QED
  BY <1>2, <1>3, <1>4, <1>5, <1>6, <1>7, <1>8, <1>9

\* What the worker holds is sent before it is given up (background.ts enqueue,
\* flush, loadPending).
THEOREM WhatIsHeldIsSent == Spec => HeldUntilSent
<1>1. EInv /\ [Next]_vars => [Leaves]_vars
  <2> SUFFICES ASSUME EInv, [Next]_vars PROVE [Leaves]_vars
    OBVIOUS
  <2>1. ASSUME NEW s \in Sockets, OfSocket(s) PROVE Leaves
    BY <2>1, SocketLeaves
  <2>2. ASSUME NEW i \in Items, OfItem(i) PROVE Leaves
    BY <2>2, ItemLeaves
  <2>3. ASSUME NEW r \in Reports, Report(r) PROVE Leaves
    <3>1. Net \in NetType /\ Net.held = held /\ r \in Things
      BY NetIs DEF EInv, Things
    <3>2. PICK n : n = ReportCandidate(Net, r)
      OBVIOUS
    <3>3. Become(n) /\ Sends(held, n)
      BY <2>3, <3>1, <3>2, ReportIs DEF Report
    <3> QED
      BY <3>3, SentFirst
  <2>4. CASE Unpaired \/ Reconnect \/ Alarm \/ ReconnectOrder \/ Forget \/ Loaded \/ Written \/ Restart
    BY <2>4, WorkerLeaves
  <2> QED
    BY <2>1, <2>2, <2>3, <2>4 DEF Next
<1>2. [Leaves]_vars <=>
        [past'.restarts = past.restarts =>
           \A r \in Holds(held) \ Holds(held') :
              r \in SentOn(sock') \/ past'.commands > past.commands \/ Held(held) >= MaxHeld]_vars
  BY DEF Leaves
<1> HIDE DEF EInv, Leaves
<1>3. Spec => [][Leaves]_vars
  BY <1>1, ExtensionInvariance, PTL DEF Spec
<1> QED
  BY <1>2, <1>3, PTL DEF HeldUntilSent
================================================================================
