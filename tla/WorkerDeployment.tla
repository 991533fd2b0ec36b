--------------------------- MODULE WorkerDeployment ---------------------------
(***************************************************************************)
(* `temporal worker deployment` (commands.worker.deployment.go): several     *)
(* CLI processes change one deployment.  Set-current-version, set-ramping-   *)
(* version and manager-identity set/unset first describe the deployment for  *)
(* its conflict token, show it and ask for a confirmation, and send the      *)
(* token with the change.                                                    *)
(*                                                                         *)
(* The deployment and the server's check of the token are external; the      *)
(* server's other reasons to refuse a change (pollers, task queues, manager  *)
(* identity) are a call that may fail.                                       *)
(***************************************************************************)
EXTENDS Naturals

CONSTANTS
  Client,   \* running CLI processes
  Command,  \* Command[c]: what c was asked to do
  BuildId,  \* build IDs
  Identity, \* identities of users
  Percent,  \* percentages
  Initial   \* the deployment at the start

Unversioned == "unversioned"
Nobody == "nobody"
Absent == [exists |-> FALSE]

\* The routing configuration and the manager of the deployment.
Deployment ==
  {Absent} \cup
  [exists : {TRUE}, current : BuildId \cup {Unversioned}, ramping : BuildId \cup {Unversioned},
   percentage : Percent, manager : Identity \cup {Nobody}]

Fresh == [exists |-> TRUE, current |-> Unversioned, ramping |-> Unversioned, percentage |-> 0,
          manager |-> Nobody]

TokenKind == {"current", "ramping", "manager", "unmanage"}

ASSUME CommandAssumption ==
  Command \in [Client -> [kind : TokenKind \cup {"create", "delete"},
                          buildId : BuildId \cup {Unversioned}, \* Unversioned: not given
                          unversioned : BOOLEAN, percentage : Percent, remove : BOOLEAN,
                          identity : Identity, manager : Identity, self : BOOLEAN,
                          yes : BOOLEAN, json : BOOLEAN, allowNoPollers : BOOLEAN]]

ASSUME ValueAssumption == Initial \in Deployment /\ 0 \in Percent
-----------------------------------------------------------------------------
VARIABLES
  deployment, \* the server's record
  author,     \* whose request changed it last (LastModifierIdentity), as a set
  version,    \* the token it would hand out
  pc,         \* where each process is
  token,      \* the token it was given, 0 for none
  seen,       \* the deployment it was given then, as a set
  confirmed   \* has its user said yes?

vars == <<deployment, author, version, pc, token, seen, confirmed>>

Init ==
  /\ deployment = Initial
  /\ author = {}
  /\ version = 1
  /\ pc = [c \in Client |-> "check"]
  /\ token = [c \in Client |-> 0]
  /\ seen = [c \in Client |-> {}]
  /\ confirmed = [c \in Client |-> FALSE]

Goto(c, l) == pc' = [pc EXCEPT ![c] = l]
-----------------------------------------------------------------------------
\* set-current-version takes a build ID or --unversioned.
Refused(cmd) == cmd.kind = "current" /\ cmd.buildId # Unversioned /\ cmd.unversioned

Check(c) ==
  /\ pc[c] = "check"
  /\ IF Refused(Command[c]) THEN Goto(c, "failed")
     ELSE IF Command[c].kind \in TokenKind THEN Goto(c, "describe") ELSE Goto(c, "send")
  /\ UNCHANGED <<deployment, author, version, token, seen, confirmed>>

AfterDescribe_JsonSkips(cmd) == IF cmd.yes \/ cmd.json THEN "send" ELSE "prompt"

\* Safe mode shows the deployment and asks; it cannot with JSON output.
AfterDescribe(cmd) == IF cmd.yes THEN "send" ELSE IF cmd.json THEN "failed" ELSE "prompt"

\* getConflictToken
Describe(c) ==
  /\ pc[c] = "describe"
  /\ deployment # Absent
  /\ token' = [token EXCEPT ![c] = version]
  /\ seen' = [seen EXCEPT ![c] = {deployment}]
  /\ Goto(c, AfterDescribe(Command[c]))
  /\ UNCHANGED <<deployment, author, version, confirmed>>

\* A missing deployment is an error of getConflictToken, ignored by
\* set-current-version and set-ramping-version with --allow-no-pollers.
MayCreate(cmd) == cmd.kind \in {"current", "ramping"} /\ cmd.allowNoPollers

DescribeNotFound_Ignored(c) ==
  /\ pc[c] = "describe"
  /\ deployment = Absent
  /\ seen' = [seen EXCEPT ![c] = {Absent}]
  /\ Goto(c, "send")
  /\ UNCHANGED <<deployment, author, version, token, confirmed>>

DescribeNotFound(c) ==
  /\ pc[c] = "describe"
  /\ deployment = Absent
  /\ seen' = [seen EXCEPT ![c] = {Absent}]
  /\ IF MayCreate(Command[c]) THEN Goto(c, "send") ELSE Goto(c, "failed")
  /\ UNCHANGED <<deployment, author, version, token, confirmed>>

Answer(c, yes) ==
  /\ pc[c] = "prompt"
  /\ confirmed' = [confirmed EXCEPT ![c] = yes]
  /\ IF yes THEN Goto(c, "send") ELSE Goto(c, "failed")
  /\ UNCHANGED <<deployment, author, version, token, seen>>

\* A call fails, or its answer never arrives.
CallFails(c) ==
  /\ pc[c] \in {"describe", "send"}
  /\ Goto(c, "failed")
  /\ UNCHANGED <<deployment, author, version, token, seen, confirmed>>
-----------------------------------------------------------------------------
Requested_Emptied(cmd, d) ==
  CASE cmd.kind = "current"  -> [d EXCEPT !.current = cmd.buildId]
    [] cmd.kind = "ramping"  -> [d EXCEPT !.ramping = cmd.buildId]
    [] cmd.kind = "manager"  -> [d EXCEPT !.manager = IF cmd.self THEN cmd.identity ELSE ""]
    [] cmd.kind = "unmanage" -> [d EXCEPT !.manager = ""]
    [] cmd.kind = "create"   -> Fresh
    [] cmd.kind = "delete"   -> Absent

\* The record that a request leaves behind.
Requested(cmd, d) ==
  CASE cmd.kind = "current"  -> [d EXCEPT !.current = cmd.buildId]
    [] cmd.kind = "ramping"  -> [d EXCEPT !.ramping = cmd.buildId,
                                          !.percentage = IF cmd.remove THEN 0 ELSE cmd.percentage]
    [] cmd.kind = "manager"  -> [d EXCEPT !.manager = IF cmd.self THEN cmd.identity ELSE cmd.manager]
    [] cmd.kind = "unmanage" -> [d EXCEPT !.manager = Nobody]
    [] cmd.kind = "create"   -> Fresh
    [] cmd.kind = "delete"   -> Absent

\* The token that goes with the request.
SentToken_None(c) == 0

SentToken(c) == token[c]

\* The server applies a request whose token is current or empty.  Only some
\* requests are for a deployment that does not exist.
Accepts(c) ==
  /\ SentToken(c) \in {0, version}
  /\ Command[c].kind = "create" => deployment = Absent
  /\ Command[c].kind # "create" => deployment # Absent \/ MayCreate(Command[c])

\* The change is applied, and the process learns of it or not.
Send(c) ==
  /\ pc[c] = "send"
  /\ Accepts(c)
  /\ deployment' = Requested(Command[c], IF deployment = Absent THEN Fresh ELSE deployment)
  /\ author' = {c}
  /\ version' = version + 1
  /\ \/ Goto(c, "done")
     \/ Goto(c, "failed")
  /\ UNCHANGED <<token, seen, confirmed>>

Ended == \A c \in Client : pc[c] \in {"done", "failed"}

Exited == Ended /\ UNCHANGED vars

Next ==
  \/ \E c \in Client :
       \/ Check(c) \/ Describe(c) \/ DescribeNotFound(c) \/ CallFails(c) \/ Send(c)
       \/ \E yes \in BOOLEAN : Answer(c, yes)
  \/ Exited

Spec == Init /\ [][Next]_vars
-----------------------------------------------------------------------------
(* Properties *)

\* The type of every variable.
TypeOK ==
  /\ deployment \in Deployment
  /\ author \in SUBSET Client
  /\ version \in Nat \ {0}
  /\ pc \in [Client -> {"check", "describe", "prompt", "send", "done", "failed"}]
  /\ token \in [Client -> Nat]
  /\ seen \in [Client -> SUBSET Deployment]
  /\ confirmed \in [Client -> BOOLEAN]

\* A token that is still current stands for the deployment its holder
\* saw: nothing changed in between, not even to and fro.
TokenMeansSeen ==
  \A c \in Client :
    /\ token[c] <= version
    /\ token[c] = version => seen[c] = {deployment}

\* Of the processes that looked at the same state of the deployment at most
\* one has succeeded in changing it.
OneWinner ==
  \A c, d \in Client :
    c # d /\ pc[c] = "done" /\ pc[d] = "done" /\ token[c] # 0 => token[c] # token[d]

\* Who sends a change without --yes was asked first: "--yes: Don't prompt to
\* confirm set Current Version." The one exception is a command that
\* --allow-no-pollers lets create the deployment, when there was none to show.
ChangesConfirmed ==
  \A c \in Client :
    pc[c] = "done" /\ Command[c].kind \in TokenKind =>
      \/ Command[c].yes \/ confirmed[c]
      \/ MayCreate(Command[c]) /\ seen[c] = {Absent}

\* The commands that only change a deployment they have looked at: all that
\* take a token, unless --allow-no-pollers lets them create the deployment.
Careful == {c \in Client : Command[c].kind \in TokenKind /\ ~ MayCreate(Command[c])}

Record == INSTANCE ConditionalUpdate WITH Value <- Deployment, value <- deployment

\* Such a process changes the deployment it looked at, or nothing, even if the
\* deployment is deleted and created again in between.
ImplementsConditionalUpdate == Record!Spec
=============================================================================
