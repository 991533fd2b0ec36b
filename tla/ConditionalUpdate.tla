-------------------------- MODULE ConditionalUpdate --------------------------
(***************************************************************************)
(* What the commands that change a record of the server under a conflict    *)
(* token or a version promise: whoever decides on a change by looking at    *)
(* the record changes exactly what it looked at.                            *)
(***************************************************************************)
CONSTANTS
  Client,  \* the running commands
  Careful, \* those that look at the record before they change it
  Value    \* the values of the record

VARIABLES
  value, \* the record
  seen,  \* seen[c]: what c saw when it last looked, as a set with at most one value
  author \* who changed the record last, as a set with at most one member

Init == value \in Value /\ seen = [c \in Client |-> {}] /\ author = {}

Look(c) ==
  /\ seen' = [seen EXCEPT ![c] = {value}]
  /\ UNCHANGED <<value, author>>

Change(c) ==
  /\ c \in Careful => value \in seen[c]
  /\ value' \in Value
  /\ author' = {c}
  /\ UNCHANGED seen

Next == \E c \in Client : Look(c) \/ Change(c)

Spec == Init /\ [][Next]_<<value, seen, author>>
=============================================================================
