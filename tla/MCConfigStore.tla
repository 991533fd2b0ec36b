----------------------------- MODULE MCConfigStore -----------------------------
(***************************************************************************)
(* Processes for TLC.                                                       *)
(***************************************************************************)
EXTENDS ConfigStore, TLC

CONSTANTS p1, p2, p3, t1, t2, t3, t4

Todo(kind, f, a) == [kind |-> kind, profile |-> f, address |-> a]

\* A command with two requests at a time, one that logs in to the same profile
\* again and one that changes a property of the other profile.
Owners == (t1 :> p1) @@ (t2 :> p1) @@ (t3 :> p2) @@ (t4 :> p3)
Tasks == (p1 :> Todo("use", "f", Unset)) @@ (p2 :> Todo("login", "f", "b")) @@
         (p3 :> Todo("delete", "g", Unset))

\* The command with two requests alone.
TwoRequests == (t1 :> p1) @@ (t2 :> p1)
OneUser == p1 :> Todo("use", "f", Unset)

TwoProfiles == [f \in Profile |-> [address |-> "a", oauth |-> IF f = "f" THEN 1 ELSE 2]]

\* The two requests differ in nothing.
Requests == Permutations({t1, t2})
=============================================================================
