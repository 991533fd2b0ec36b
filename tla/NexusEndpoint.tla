----------------------------- MODULE NexusEndpoint -----------------------------
(***************************************************************************)
(* `temporal operator nexus endpoint` (commands.operator_nexus.go): several *)
(* CLI processes create, update and delete one endpoint. Update and delete *)
(* look the endpoint up by name and send its version with the change, and  *)
(* update sends a whole endpoint of which it changes only some parts.      *)
(*                                                                         *)
(* The endpoint and the server's check of the version are external; other  *)
(* reasons to refuse a request are a call that may fail.                   *)
(***************************************************************************)
EXTENDS Naturals

CONSTANTS
  Editor,    \* processes that update or delete the endpoint
  Creator,   \* processes that create it
  Edits,     \* what an editor may be asked to do
  Creation,  \* what the creators are asked to do
  Description, Namespace, TaskQueue, Url,  \* their values
  Initial    \* the endpoint at the start

VARIABLES
  asks,      \* asks[c]: what c was asked to do; it never changes
  endpoint,  \* the server's endpoint
  version,   \* stands for its ID and its version: an endpoint made anew has a new ID
  maker,     \* whose request changed it last, as a set
  place,     \* where each process is
  looked,    \* the version each process has been given, 0 for none
  held       \* the endpoint it was given with it, as a set

endpointVars == <<asks, endpoint, version, maker, place, looked, held>>

Process == Editor \cup Creator

\* No description, no task queue, no URL. A target has either a URL or a
\* namespace and a task queue.
None == "none"
Absent == [exists |-> FALSE]
Endpoint(description, target) ==
  [exists |-> TRUE, description |-> description, target |-> target]
External(url) == [namespace |-> None, taskQueue |-> None, url |-> url]
Worker(namespace, taskQueue) == [namespace |-> namespace, taskQueue |-> taskQueue, url |-> None]

Init ==
  /\ asks \in {a \in [Process -> Edits \cup {Creation}] :
                 \A c \in Process : a[c] = Creation <=> c \in Creator}
  /\ endpoint = Initial /\ version = 1 /\ maker = {}
  /\ place = [c \in Process |-> "check"]
  /\ looked = [c \in Process |-> 0]
  /\ held = [c \in Process |-> {}]

Goto(c, there) == place' = [place EXCEPT ![c] = there]

-----------------------------------------------------------------------------

\* endpointTargetFromArgs, of create.
ValidTarget(ask) ==
  IF ask.namespace # None THEN ask.url = None /\ ask.taskQueue # None ELSE ask.url # None

\* What update refuses before it connects.
ValidUpdate(ask) ==
  /\ ~(ask.description # None /\ ask.unset)
  /\ ~(ask.namespace # None /\ ask.url # None)
  /\ ~(ask.taskQueue # None /\ ask.url # None)

Check(c) ==
  /\ place[c] = "check"
  /\ CASE asks[c].kind = "create" -> Goto(c, IF ValidTarget(asks[c]) THEN "send" ELSE "failed")
       [] asks[c].kind = "update" -> Goto(c, IF ValidUpdate(asks[c]) THEN "look" ELSE "failed")
       [] asks[c].kind = "delete" -> Goto(c, "look")
  /\ UNCHANGED <<asks, endpoint, version, maker, looked, held>>

\* A URL makes the target external; half a worker's target cannot replace one
\* that is external.
HalfTarget(ask, target) ==
  target.url # None /\ (ask.namespace = None <=> ask.taskQueue # None)

\* getEndpointByName finds the endpoint, or fails.
GetEndpointByName(c) ==
  /\ place[c] = "look"
  /\ IF endpoint = Absent
       THEN Goto(c, "failed") /\ UNCHANGED <<looked, held>>
       ELSE /\ looked' = [looked EXCEPT ![c] = version]
            /\ held' = [held EXCEPT ![c] = {endpoint}]
            /\ Goto(c, IF asks[c].kind = "update" /\ HalfTarget(asks[c], endpoint.target)
                       THEN "failed" ELSE "send")
  /\ UNCHANGED <<asks, endpoint, version, maker>>

\* The endpoint that update sends: what was read, but for what was asked.
Patched(ask, old) ==
  LET given(new, kept) == IF new # None THEN new ELSE kept
      description == IF ask.unset THEN None ELSE given(ask.description, old.description)
      target ==
        CASE ask.url # None -> External(ask.url)
          [] ask.url = None /\ (ask.namespace # None \/ ask.taskQueue # None) ->
               Worker(given(ask.namespace, old.target.namespace),
                      given(ask.taskQueue, old.target.taskQueue))
          [] OTHER -> old.target
  IN Endpoint(description, target)

\* The server carries out a request; the process may not hear of it.
Accept(c, new) ==
  /\ endpoint' = new /\ version' = version + 1 /\ maker' = {c}
  /\ Goto(c, "done") \/ Goto(c, "failed")
  /\ UNCHANGED <<asks, looked, held>>

Create(c) ==
  /\ place[c] = "send" /\ asks[c].kind = "create" /\ endpoint = Absent
  /\ Accept(c, Endpoint(asks[c].description,
                 IF asks[c].url # None THEN External(asks[c].url)
                 ELSE Worker(asks[c].namespace, asks[c].taskQueue)))

\* Mutant: the version is that of the moment, not of the endpoint that was read.
Update_VersionOfNow(c) ==
  /\ place[c] = "send" /\ asks[c].kind = "update" /\ endpoint # Absent
  /\ \E old \in held[c] : Accept(c, Patched(asks[c], old))

Update(c) ==
  /\ place[c] = "send" /\ asks[c].kind = "update" /\ endpoint # Absent /\ looked[c] = version
  /\ \E old \in held[c] : Accept(c, Patched(asks[c], old))

Delete(c) ==
  /\ place[c] = "send" /\ asks[c].kind = "delete" /\ endpoint # Absent /\ looked[c] = version
  /\ Accept(c, Absent)

\* A request that is refused, or is lost: any call may be.
Fail(c) ==
  /\ place[c] \in {"look", "send"}
  /\ Goto(c, "failed")
  /\ UNCHANGED <<asks, endpoint, version, maker, looked, held>>

Step(c) ==
  Check(c) \/ GetEndpointByName(c) \/ Create(c) \/ Update(c) \/ Delete(c) \/ Fail(c)

Next == \E c \in Process : Step(c)

Spec == Init /\ [][Next]_endpointVars

-----------------------------------------------------------------------------

TypeOK ==
  /\ \A c \in Creator : asks[c] = Creation
  /\ version \in Nat \ {0}
  /\ place \in [Process -> {"check", "look", "send", "done", "failed"}]
  /\ \A c \in Process : looked[c] \in 0..version /\ (looked[c] = 0 <=> held[c] = {})
  /\ endpoint = Absent \/ endpoint.target.url = None \/ endpoint.target = External(endpoint.target.url)

\* What an update does not name stays as it stood just before the update, also
\* when others have changed it since the update looked.
UnnamedStays ==
  \A c \in Process :
    maker' = {c} /\ version' # version /\ asks[c].kind = "update" =>
      /\ asks[c].description = None /\ ~asks[c].unset =>
           endpoint'.description = endpoint.description
      /\ asks[c].namespace = None /\ asks[c].taskQueue = None /\ asks[c].url = None =>
           endpoint'.target = endpoint.target
      /\ asks[c].namespace = None /\ asks[c].taskQueue # None =>
           endpoint'.target.namespace = endpoint.target.namespace
      /\ asks[c].namespace # None /\ asks[c].taskQueue = None =>
           endpoint'.target.taskQueue = endpoint.target.taskQueue

Endpoints ==
  {Endpoint(d, t) : d \in Description \cup {None},
                    t \in {External(u) : u \in Url}
                           \cup {Worker(n, q) : n \in Namespace, q \in TaskQueue}}

Asks(kinds) ==
  [kind : kinds, description : Description \cup {None}, unset : BOOLEAN,
   namespace : Namespace \cup {None}, taskQueue : TaskQueue \cup {None}, url : Url \cup {None}]

\* The constants are of their types, and a process has one thing to do.
ConstantsTyped ==
  /\ Editor \cap Creator = {}
  /\ None \notin Description \cup Namespace \cup TaskQueue \cup Url
  /\ Edits \subseteq Asks({"update", "delete"})
  /\ Creation \in Asks({"create"})
  /\ Initial \in Endpoints \cup {Absent}

Record ==
  INSTANCE ConditionalUpdate WITH
    Client <- Process, Careful <- Editor, value <- endpoint, seen <- held, author <- maker,
    Value <- Endpoints \cup {Absent}

\* Updates and deletions change the endpoint that was looked up, or nothing,
\* even if it is deleted and made again in between; and an update changes only
\* what it names.
ChangedAsSeen == Record!Spec /\ [][UnnamedStays]_endpointVars
==============================================================================
