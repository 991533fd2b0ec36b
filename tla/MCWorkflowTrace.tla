--------------------------- MODULE MCWorkflowTrace ---------------------------
(***************************************************************************)
(* Instances of WorkflowTrace for TLC: small families of executions.        *)
(***************************************************************************)
EXTENDS WorkflowTraceInv, TLC

CONSTANTS r, a, b, g

Started      == [type |-> "Started", child |-> r, status |-> "Unspecified"]
Other        == [type |-> "Other", child |-> r, status |-> "Unspecified"]
Closed(s)    == [type |-> "Closed", child |-> r, status |-> s]
Init_(w)     == [type |-> "ChildInitiated", child |-> w, status |-> "Unspecified"]
Start_(w)    == [type |-> "ChildStarted", child |-> w, status |-> "Unspecified"]
End_(w, s)   == [type |-> "ChildClosed", child |-> w, status |-> s]

\* Two children whose histories grow while the tracer reads them.
TwoChildren == {r, a, b}
TwoChildrenHistory ==
  (r :> <<Started, Init_(a), Init_(b), Start_(a), Start_(b), End_(a, "Completed"),
          End_(b, "Failed"), Closed("Completed")>>) @@
  (a :> <<Started, Closed("Completed")>>) @@
  (b :> <<Started, Other, Closed("Failed")>>)

\* The same, and one of them has a child of its own that ran before.
Growing == {r, a, b, g}
GrowingHistory ==
  (r :> TwoChildrenHistory[r]) @@ (a :> TwoChildrenHistory[a]) @@
  (b :> <<Started, Init_(g), Start_(g), Closed("Failed")>>) @@ (g :> <<Started>>)
GrowingNow == (r :> 3) @@ (a :> 0) @@ (b :> 0) @@ (g :> 1)

\* A grandchild: r starts a and b, and a starts g.
Nested == {r, a, b, g}
NestedHistory ==
  (r :> <<Started, Init_(a), Start_(a), Init_(b), Start_(b), End_(a, "Failed"),
          Closed("Failed")>>) @@
  (a :> <<Started, Init_(g), Start_(g), Closed("Failed")>>) @@
  (b :> <<Started, Closed("Terminated")>>) @@
  (g :> <<Started, Closed("Completed")>>)

\* The root has closed without waiting for its children.
AbandonedHistory ==
  (r :> <<Started, Init_(a), Start_(a), Init_(b), Start_(b), Closed("Completed")>>) @@
  (a :> <<Started, Closed("Completed")>>) @@
  (b :> <<Started, Closed("Failed")>>)

Complete(h)  == [w \in DOMAIN h |-> Len(h[w])]

TwoChildrenNow == Complete(TwoChildrenHistory)
NestedNow == Complete(NestedHistory)

AbandonedNow == (r :> 6) @@ (a :> 2) @@ (b :> 1)

Unlimited == -1
=============================================================================
