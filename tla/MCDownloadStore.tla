---------------------------- MODULE MCDownloadStore ----------------------------
(***************************************************************************)
(* Small instances of the repository: a download of the desktop, one of a   *)
(* browser with headers and a selection, one that may not be stored, and    *)
(* the databases of the first schema and of no earlier version.             *)
(***************************************************************************)
EXTENDS DownloadStore, TLC

StoreSymmetry == Permutations(Clients)

Plain ==
    [url |-> "u", headers |-> <<>>, selection |-> None, origin |-> "Desktop",
     page |-> None, title |-> None, directory |-> "d", filename |-> None, policy |-> "Rename"]

Captured ==
    [Plain EXCEPT !.headers = <<[name |-> "a", sensitive |-> FALSE], [name |-> "b", sensitive |-> FALSE]>>,
                  !.selection = Some("hls"), !.origin = "Browser", !.page = Some("p"), !.policy = "Fail"]

Secret == [Plain EXCEPT !.headers = <<[name |-> "cookie", sensitive |-> TRUE]>>]

MCDownloads == {Plain, Captured, Secret}
MCResources ==
    {[kind |-> "File", name |-> Some("n"), type |-> None],
     [kind |-> "Hls", name |-> None, type |-> Some("t")]}
MCStoredFailures ==
    {[kind |-> "Network", message |-> "m", retryable |-> TRUE],
     [kind |-> "DiskFull", message |-> "m", retryable |-> FALSE]}

NoDatabase == [db |-> [schema |-> 0, rows |-> <<>>, headers |-> {}, last |-> 0], records |-> <<>>]

(* One completed download, as the first version stored it, and the record it *)
(* is to the present one.                                                    *)
FirstVersion ==
    [db |-> [schema |-> 1, headers |-> {}, last |-> 1,
             rows |-> <<[url |-> "u", origin |-> "cli", page |-> None, title |-> None,
                         directory |-> "d", filename |-> None, policy |-> "overwrite",
                         state |-> "completed", done |-> 1, total |-> Some(1),
                         created |-> 0, updated |-> 1]>>],
     records |-> <<[id |-> 1, download |-> [Plain EXCEPT !.origin = "Cli", !.policy = "Overwrite"],
                    resolved |-> None, resource |-> None, state |-> "Completed", done |-> 1, total |-> 1,
                    failure |-> None, created |-> 0, updated |-> 2]>>]

MCOldDatabases == {NoDatabase, FirstVersion}
===============================================================================
