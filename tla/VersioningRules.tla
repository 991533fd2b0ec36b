----------------------------- MODULE VersioningRules ----------------------------
(***************************************************************************)
(* `temporal task-queue versioning` (commands.taskqueue_versioning_rules.  *)
(* go): several CLI processes change the rules of one task queue. Each     *)
(* reads the rules for their conflict token, shows them and asks its user, *)
(* and sends the token with one change. Assignment rules are named by      *)
(* their place in the list, so a change is right only for the list that    *)
(* the user has seen.                                                      *)
(*                                                                         *)
(* The rules and what the server makes of a change are external.           *)
(***************************************************************************)
EXTENDS Naturals, SequenceOperators

CONSTANTS
  User,      \* running CLI processes
  Changes,   \* what a process may be asked to do
  FirstRules \* the rules at the start

VARIABLES
  wants,    \* wants[u]: what u was asked to do; it never changes
  rules,    \* the assignment rules, in order, and the redirect rules
  ruler,    \* whose request changed them last, as a set
  edition,  \* counts the changes; the conflict token stands for one
  stage,    \* where each process is
  token,    \* the token each process has been given, 0 for none
  shown     \* the rules it was given with it, as a set

rulesVars == <<wants, rules, ruler, edition, stage, token, shown>>

\* An assignment rule sends new workflows to a build ID, or a percentage of
\* them; a redirect rule sends those of a build ID to another.
Assign(buildId, ramp) == [target |-> buildId, ramp |-> ramp]
Full == 100

Init ==
  /\ wants \in [User -> Changes]
  /\ rules = FirstRules /\ ruler = {} /\ edition = 1
  /\ stage = [u \in User |-> "read"]
  /\ token = [u \in User |-> 0]
  /\ shown = [u \in User |-> {}]

Move(u, there) == stage' = [stage EXCEPT ![u] = there]

-----------------------------------------------------------------------------
(* getConflictToken.                                                       *)

\* In safe mode, which is without --yes, JSON is refused after the rules have
\* been read.
ReadRules(u) ==
  /\ stage[u] = "read"
  /\ token' = [token EXCEPT ![u] = edition]
  /\ shown' = [shown EXCEPT ![u] = {rules}]
  /\ Move(u, IF wants[u].yes THEN "send" ELSE IF wants[u].json THEN "failed" ELSE "ask")
  /\ UNCHANGED <<wants, rules, ruler, edition>>

Answer(u) ==
  /\ stage[u] = "ask"
  /\ Move(u, "send") \/ Move(u, "failed")
  /\ UNCHANGED <<wants, rules, ruler, edition, token, shown>>

-----------------------------------------------------------------------------
(* The change that each command asks the server for.                       *)

\* Indexes of the server start at 0, and inserting goes to the end at most.
InsertAssignmentRule(r, change) ==
  [r EXCEPT !.assign = InsertAt(@, IF change.index > Len(@) THEN Len(@) + 1 ELSE change.index + 1,
                                Assign(change.buildId, change.percentage))]

ReplaceAssignmentRule(r, change) ==
  [r EXCEPT !.assign[change.index + 1] = Assign(change.buildId, change.percentage)]

DeleteAssignmentRule(r, change) == [r EXCEPT !.assign = RemoveAt(@, change.index + 1)]

\* The rules without one for a source, and with one.
DeleteRedirectRule(r, change) ==
  [r EXCEPT !.redirect = {d \in @ : d.source # change.source}]

SetRedirectRule(r, change) ==
  [r EXCEPT !.redirect =
     {d \in @ : d.source # change.source} \cup {[source |-> change.source, target |-> change.buildId]}]

\* The build ID gets all new workflows; its other rules and the other full ones
\* go away.
CommitBuildId(r, change) ==
  [r EXCEPT !.assign =
     Append(Filtered(@, {rule \in ToSet(@) : rule.target # change.buildId /\ rule.ramp # Full}),
            Assign(change.buildId, Full))]

InRange(r, change) == change.index < Len(r.assign)
HasSource(r, change) == \E d \in r.redirect : d.source = change.source

\* Whether the server can do what it is asked for, and what it then does.
Possible(r, change) ==
  CASE change.kind \in {"replaceAssignment", "deleteAssignment"} -> InRange(r, change)
    [] change.kind = "addRedirect" -> ~HasSource(r, change)
    [] change.kind \in {"replaceRedirect", "deleteRedirect"} -> HasSource(r, change)
    [] OTHER -> TRUE

Changed(r, change) ==
  CASE change.kind = "insertAssignment" -> InsertAssignmentRule(r, change)
    [] change.kind = "replaceAssignment" -> ReplaceAssignmentRule(r, change)
    [] change.kind = "deleteAssignment" -> DeleteAssignmentRule(r, change)
    [] change.kind \in {"addRedirect", "replaceRedirect"} -> SetRedirectRule(r, change)
    [] change.kind = "deleteRedirect" -> DeleteRedirectRule(r, change)
    [] change.kind = "commit" -> CommitBuildId(r, change)

\* Mutant: the change is sent without the token.
UpdateBuildIdRules_Tokenless(u) ==
  /\ stage[u] = "send" /\ Possible(rules, wants[u])
  /\ rules' = Changed(rules, wants[u]) /\ ruler' = {u} /\ edition' = edition + 1
  /\ Move(u, "done") \/ Move(u, "failed")
  /\ UNCHANGED <<wants, token, shown>>

\* updateBuildIdRules: the change is carried out under its token. The process
\* may not hear of it.
UpdateBuildIdRules(u) ==
  /\ stage[u] = "send" /\ token[u] = edition /\ Possible(rules, wants[u])
  /\ rules' = Changed(rules, wants[u]) /\ ruler' = {u} /\ edition' = edition + 1
  /\ Move(u, "done") \/ Move(u, "failed")
  /\ UNCHANGED <<wants, token, shown>>

\* A call is refused, by the server's own rules too, or lost.
Fail(u) ==
  /\ stage[u] \in {"read", "send"}
  /\ Move(u, "failed")
  /\ UNCHANGED <<wants, rules, ruler, edition, token, shown>>

Next == \E u \in User : ReadRules(u) \/ Answer(u) \/ UpdateBuildIdRules(u) \/ Fail(u)

Spec == Init /\ [][Next]_rulesVars

-----------------------------------------------------------------------------

BuildIds ==
  {c.buildId : c \in Changes} \cup {c.source : c \in Changes}
    \cup {FirstRules.assign[i].target : i \in DOMAIN FirstRules.assign}
    \cup UNION {{d.source, d.target} : d \in FirstRules.redirect}

Rules ==
  [assign : Seq([target : BuildIds, ramp : 0..Full]),
   redirect : SUBSET [source : BuildIds, target : BuildIds]]

TypeOK ==
  /\ wants \in [User -> Changes]
  /\ rules \in Rules
  /\ edition \in Nat \ {0}
  /\ stage \in [User -> {"read", "ask", "send", "done", "failed"}]
  /\ \A u \in User : token[u] \in 0..edition /\ (token[u] = 0 <=> shown[u] = {})

\* The constants are of their types.
ConstantsTyped ==
  /\ FirstRules \in Rules
  /\ Changes \subseteq
       [kind : {"insertAssignment", "replaceAssignment", "deleteAssignment", "addRedirect",
                "replaceRedirect", "deleteRedirect", "commit"},
        index : Nat, percentage : 0..Full, buildId : BuildIds, source : BuildIds,
        yes : BOOLEAN, json : BOOLEAN]

Record ==
  INSTANCE ConditionalUpdate WITH
    Client <- User, Careful <- User, Value <- Rules, value <- rules, seen <- shown,
    author <- ruler

\* The list of rules that a command changes is the list its user was shown, so
\* that an index means the rule it meant to the user.
ChangedAsShown == Record!Spec
==============================================================================
