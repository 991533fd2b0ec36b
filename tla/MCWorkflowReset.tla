--------------------------- MODULE MCWorkflowReset ---------------------------
(***************************************************************************)
(* Command lines for TLC.                                                   *)
(***************************************************************************)
EXTENDS WorkflowReset

Single(t, run) ==
  [workflowId |-> TRUE, runId |-> run, eventId |-> 0, type |-> t, buildId |-> FALSE,
   yes |-> FALSE, json |-> FALSE, override |-> "none", reapplyType |-> "All",
   reapplyExclude |-> FALSE]

Batch(t, yes, json) ==
  [Single(t, 0) EXCEPT !.workflowId = FALSE, !.buildId = TRUE, !.yes = yes, !.json = json]

\* Every search of every run, every other kind of command line, except the
\* batch types that are never filtered.
AllOptions ==
  {Single(t, n) : t \in {"FirstWorkflowTask", "LastWorkflowTask", "LastContinuedAsNew"}, n \in 0..MaxRuns} \cup
  {[Single("FirstWorkflowTask", 1) EXCEPT !.reapplyType = "Signal", !.reapplyExclude = x,
                                          !.override = v] :
     x \in BOOLEAN, v \in {"valid", "invalid"}} \cup
  {[Single("", 1) EXCEPT !.eventId = e] : e \in {0, 4}} \cup
  {Single("BuildId", 1)} \cup
  {Batch("BuildId", yes, json) : yes \in BOOLEAN, json \in BOOLEAN}

LastOptions == {Single("LastWorkflowTask", 1)}
=============================================================================
