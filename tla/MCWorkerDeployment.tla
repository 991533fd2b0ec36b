-------------------------- MODULE MCWorkerDeployment --------------------------
(***************************************************************************)
(* Processes for TLC.                                                       *)
(***************************************************************************)
EXTENDS WorkerDeployment, TLC

CONSTANTS c1, c2, c3, c4, c5, c6, c7

Cmd(kind) ==
  [kind |-> kind, buildId |-> "b1", unversioned |-> FALSE, percentage |-> 10, remove |-> FALSE,
   identity |-> "me", manager |-> "you", self |-> FALSE, yes |-> TRUE, json |-> FALSE,
   allowNoPollers |-> FALSE]

\* Changes of the routing and of the manager, one that asks first, one that
\* asks or creates the deployment, one that cannot ask (JSON), one with
\* contradictory flags; the deployment may vanish and come back meanwhile.
Mixed == (c1 :> [Cmd("current") EXCEPT !.yes = FALSE]) @@
         (c2 :> [Cmd("ramping") EXCEPT !.remove = TRUE, !.yes = FALSE, !.allowNoPollers = TRUE]) @@
         (c3 :> Cmd("delete")) @@
         (c4 :> Cmd("create")) @@
         (c5 :> Cmd("manager")) @@
         (c6 :> [Cmd("manager") EXCEPT !.self = TRUE, !.yes = FALSE, !.json = TRUE]) @@
         (c7 :> [Cmd("current") EXCEPT !.unversioned = TRUE])

Existing == Fresh
=============================================================================
