------------------------------ MODULE MCAnswers ------------------------------
(* Commands, histories, requests and terminals for TLC. *)
EXTENDS Answers, FiniteSets, TLC

\* Only some commands know a limit, and only workers may have no heartbeat.
ListsGiven ==
  {c \in [kind : {"paged", "cluster", "batch", "worker", "iterator", "all", "endpoint"},
          form : {"text", "json", "jsonl"}, limit : 0..2, blank : {{}, {2}}] :
     /\ c.limit > 0 => c.kind \in {"paged", "cluster", "batch", "worker"}
     /\ c.blank # {} => c.kind = "worker"}

ReadersGiven ==
  [command : {"execute"}, form : {"table", "detailed", "json", "json details"},
   follow : {TRUE}, reverse : {FALSE}]
  \cup [command : {"result"}, form : {"table"}, follow : {FALSE}, reverse : {FALSE}]
  \cup {r \in [command : {"show"}, form : {"table", "detailed", "json"},
               follow : BOOLEAN, reverse : BOOLEAN] : ~(r.follow /\ r.reverse)}

Open == [length |-> 1, closing |-> "open"]
RunsGiven == {<<Open>>, <<[length |-> 2, closing |-> "continued"], Open>>}

Script(of, whats) == [i \in DOMAIN whats |-> [of |-> of, what |-> whats[i]]]

ActivityScripts(a) ==
  {Script(a, <<"scheduled">> \o whats) :
     whats \in {<<"started", "completed">>, <<"started", "failed">>, <<"timedOut">>,
               <<"cancelRequested", "started", "completed">>,
               <<"cancelRequested", "started", "canceled">>}}

OtherScripts ==
  {Script("timer", <<"timerStarted", end>>) : end \in {"fired", "canceled"}}
    \cup {Script(Child, <<"initiated", "notStarted">>)}
    \cup {Script(Child, <<"initiated", "started", end>>) :
            end \in {"completed", "failed", "timedOut", "canceled", "terminated"}}

\* The events of two scripts, in every order that keeps theirs.
Merges(s, t) ==
  LET all == 1..(Len(s) + Len(t)) IN
  {[i \in all |-> IF i \in first THEN s[Cardinality(first \cap 1..i)]
                 ELSE t[Cardinality(1..i \ first)]] :
     first \in {f \in SUBSET all : Cardinality(f) = Len(s)}}

Around(events, end) ==
  Script("workflow", <<"started", "cancelRequested">>) \o events \o Script("workflow", <<end>>)

\* The child's own history: of a run that was the last of its chain, or of one
\* that was continued or retried.
OwnHistories(end) ==
  {Script(Child, <<"started">> \o asked \o <<own>>) :
     asked \in {<<>>, <<"cancelRequested">>}, own \in {end, "continued", "failed"}}

HistoriesGiven ==
  UNION {{[events |-> Around(events, "completed"), own |-> <<>>] : events \in Merges(s, t)} :
           s \in ActivityScripts("a"),
           t \in ActivityScripts("b") \cup {o \in OtherScripts : Len(o) = 2}}
    \cup
  UNION {{[events |-> Around(events, "failed"), own |-> own] :
            events \in Merges(s, t), own \in OwnHistories(t[3].what)} :
           s \in {Script("timer", <<"timerStarted", "fired">>)},
           t \in {o \in OtherScripts : Len(o) = 3}}

Nothing == [kind |-> "update", description |-> "none", unset |-> FALSE, namespace |-> "none",
            taskQueue |-> "none", url |-> "none"]
EditsGiven ==
  {[Nothing EXCEPT !.description = d, !.unset = u] : d \in {"none", "text"}, u \in BOOLEAN}
    \cup {[Nothing EXCEPT !.namespace = n, !.taskQueue = q, !.url = l] :
            n \in {"none", "ns"}, q \in {"none", "queue"}, l \in {"none", "url"}}
    \cup {[Nothing EXCEPT !.kind = "delete"]}
CreationGiven == [Nothing EXCEPT !.kind = "create", !.url = "url"]
InitialEndpoint ==
  [exists |-> TRUE, description |-> "old text",
   target |-> [namespace |-> "old ns", taskQueue |-> "old queue", url |-> "none"]]

Change(kind) ==
  [kind |-> kind, index |-> 0, buildId |-> "b", source |-> "a", percentage |-> 50, yes |-> TRUE,
   json |-> FALSE]
ChangesGiven ==
  {Change(kind) : kind \in {"commit", "addRedirect", "replaceRedirect", "deleteRedirect",
                           "deleteAssignment"}}
    \cup {[Change(kind) EXCEPT !.index = i] :
            kind \in {"insertAssignment", "replaceAssignment"}, i \in {1, 2}}
    \cup {[Change("deleteAssignment") EXCEPT !.yes = FALSE, !.json = j] : j \in BOOLEAN}
RulesGiven ==
  [assign |-> <<[target |-> "b", ramp |-> 20], [target |-> "c", ramp |-> 100]>>,
   redirect |-> {[source |-> "a", target |-> "c"]}]

\* Lines that are empty, that just fit, and that wrap.
TerminalSizes == [width : {2, 3}, height : 1..5, above : {0, 3}]
FrameShapes == UNION {[1..n -> {0, 2, 3}] : n \in 1..3}
==============================================================================
