---------------------------- MODULE TraceSession ----------------------------
(***************************************************************************)
(* What `temporal workflow trace` promises, without its jobs, pool,        *)
(* channels and printer: the set of executions it has learnt of grows, each *)
(* of them is at some point settled (its whole history read, or folded     *)
(* away), and the command ends normally only when everything it knows is   *)
(* settled.  It may give up at any moment with an error or an interrupt.   *)
(* WorkflowTrace implements this specification.                            *)
(***************************************************************************)
CONSTANT Workflow

VARIABLES
  known,     \* executions whose job exists
  settled,   \* executions whose job has finished, or that were folded away
  outcome    \* how the command ended

vars == <<known, settled, outcome>>

Outcome == {"running", "done", "error", "interrupted"}

TypeOK ==
  /\ known \subseteq Workflow
  /\ settled \subseteq known
  /\ outcome \in Outcome

Init ==
  /\ known = {}
  /\ settled = {}
  /\ outcome = "running"

\* Nothing is ever forgotten, and nothing settled becomes unsettled.
Learn ==
  /\ outcome = "running"
  /\ known' \in SUBSET Workflow
  /\ settled' \in SUBSET known'
  /\ known \subseteq known'
  /\ settled \subseteq settled'
  /\ UNCHANGED outcome

\* The only normal end: everything known is settled.
Complete ==
  /\ outcome = "running"
  /\ known # {}
  /\ settled = known
  /\ outcome' = "done"
  /\ UNCHANGED <<known, settled>>

Abort ==
  /\ outcome = "running"
  /\ outcome' \in {"error", "interrupted"}
  /\ UNCHANGED <<known, settled>>

Next == Learn \/ Complete \/ Abort

Spec == Init /\ [][Next]_vars
=============================================================================
