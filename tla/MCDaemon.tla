------------------------------- MODULE MCDaemon -------------------------------
(* Instances of Daemon for TLC. *)
EXTENDS Daemon

Plan(total, start, estimated, rewind, pausable) ==
  [total |-> total, start |-> start, estimated |-> estimated,
   rewind |-> rewind, pausable |-> pausable]

\* The least that tells a pausable transfer from one that is not.
MCPlans == {Plan(0, 0, FALSE, FALSE, TRUE), Plan(Unknown, 0, FALSE, FALSE, FALSE)}
MCOnePlan == {Plan(0, 0, FALSE, FALSE, TRUE)}

OneDownload == {1}
TwoDownloads == {1, 2}
=============================================================================
