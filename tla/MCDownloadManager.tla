-------------------------- MODULE MCDownloadManager --------------------------
(* Instances of DownloadManager for TLC. *)
EXTENDS DownloadManager

Plan(total, start, estimated, rewind, pausable) ==
  [total |-> total, start |-> start, estimated |-> estimated,
   rewind |-> rewind, pausable |-> pausable]

\* HTTP of known and unknown size, fresh or resumed; segmented media whose
\* total is measured, estimated (a resumed one may start past it) or unknown.
MCPlans == {Plan(1, 0, FALSE, FALSE, TRUE), Plan(2, 1, FALSE, FALSE, TRUE),
            Plan(Unknown, 0, FALSE, FALSE, FALSE),
            Plan(2, 1, FALSE, TRUE, TRUE), Plan(1, 0, TRUE, TRUE, TRUE),
            Plan(1, 2, TRUE, TRUE, TRUE), Plan(Unknown, 0, FALSE, TRUE, TRUE)}

\* A transfer that keeps failing, at first pausable and then no longer.
MCChangingPlans == {Plan(0, 0, FALSE, FALSE, TRUE), Plan(Unknown, 0, FALSE, FALSE, FALSE)}

\* Segmented media of two bytes, which its playlist makes the planner guess at one.
MCEstimatedPlans == {Plan(1, start, TRUE, TRUE, TRUE) : start \in 0..2}

OneDownload == {1}

---------------------------------------------------------------------------
(* An executor and a repository that never fail.  The executor resumes from *)
(* the durable bytes, reports them without going back, and stops at the     *)
(* last ones when it is asked to.                                           *)

ResumingStep(e) ==
  \/ \E plan \in Plans : plan.start = exec[e].job.done /\ Prepare(e, plan)
  \/ \E written \in Bytes : written >= exec[e].reported /\ Report(e, written)
  \/ /\ request[e] # "none"
     /\ TransferEnds(e, [kind |-> "stopped", written |-> exec[e].reported,
                         failure |-> "none"])

ResumingNext ==
  \/ \E e \in Executions : Step(e) \/ ResumingStep(e) \/ CallerStep(e)
  \/ ClientStep
  \/ Start \/ Started

ResumingSpec == Init /\ [][ResumingNext]_vars
=============================================================================
