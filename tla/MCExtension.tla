------------------------------ MODULE MCExtension ------------------------------
(* Extension on small instances. The worker begins with what the session held *)
(* still unread, and has reports, an order and a restart to come; or with one *)
(* download and an order; or with two downloads. The properties of downloads  *)
(* say nothing of a worker that ended, so no download is combined with a      *)
(* restart. Sockets, items and reports stand for each other.                  *)
EXTENDS Extension

Symmetry == Permutations(Sockets) \cup Permutations(Items) \cup Permutations(Reports)

Begin(h, fresh, restarts, commands) ==
    /\ sock = [s \in Sockets |-> FreshSocket]
    /\ chan = FreshChannel
    /\ held = h
    /\ waiting = <<>>
    /\ item = [i \in Items |-> IF i \in fresh THEN FreshItem ELSE [FreshItem EXCEPT !.copy = "running"]]
    /\ jobs = {}
    /\ past = [restarts |-> restarts, commands |-> commands, ended |-> FALSE, dropped |-> FALSE, forgotten |-> {}]

Stores == {<<>>} \cup {<<x>> : x \in Reports \cup Items} \cup {<<i, r>> : i \in Items, r \in Reports}

Reported == [FreshHeld(<<>>) EXCEPT !.load = "done", !.seen = Reports]
MCInit ==
    \/ \E stored \in Stores : Begin(FreshHeld(stored), {}, 0, 0)
    \/ \E i \in Items : Begin(Reported, {i}, MaxRestarts, 0)
    \/ Begin(Reported, Items, MaxRestarts, MaxCommands)
MCSpec == MCInit /\ [][Next]_vars
================================================================================
