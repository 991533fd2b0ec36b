----------------------------- MODULE ExecutionState -----------------------------
(***************************************************************************)
(* What workflow trace knows of one workflow: a state that is brought up   *)
(* to date event by event, with the activities, timers and child workflows *)
(* under it (execution_state.go). The state of a child workflow has two    *)
(* writers, the job that reads the parent's history and the one that reads *)
(* the child's own, each at its own pace. WorkflowTrace has the jobs of a  *)
(* whole tree; here is what their events do to the states.                 *)
(*                                                                         *)
(* An event is what happened and to what: "workflow" for the one itself.   *)
(***************************************************************************)
EXTENDS Naturals, SequenceOperators

CONSTANTS
  Histories,    \* pairs: the history of a workflow, and its child's own
  Activities, Timers,
  Child         \* the child workflow

VARIABLES
  history,      \* the workflow's history and the child's; they never change
  applied,      \* how many events of the workflow's the parent's job has applied
  ownApplied,   \* how many events of the child's the child's job has applied
  writing,      \* the field of the child's state that the parent's job writes
                \* next for an event it has begun to apply, or "none"
  ownWriting,   \* the field that the child's job writes next, or "none"
  workflow,     \* the workflow's state
  entries       \* ChildStates: what is under it, in the order of its events

stateVars == <<history, applied, ownApplied, writing, ownWriting, workflow, entries>>

\* What a state tells of: what it is of, its status, whether it has a start
\* and a close time (and of a child, which history has set it), its failure
\* and a request to cancel it.
State(of, status) ==
  [of |-> of, status |-> status, started |-> FALSE, closeTime |-> "none", failure |-> FALSE,
   cancel |-> FALSE]

Init ==
  /\ history \in Histories
  /\ applied = 0 /\ ownApplied = 0 /\ writing = "none" /\ ownWriting = "none"
  /\ workflow = State("workflow", "unspecified") /\ entries = <<>>

-----------------------------------------------------------------------------
(* Update, of each kind of state.                                          *)

Closed(s, status, failed) ==
  [s EXCEPT !.status = status, !.closeTime = "own", !.failure = IF failed THEN TRUE ELSE @]

\* WorkflowExecutionState.Update, for the events about the workflow itself.
UpdateWorkflow(s, what) ==
  CASE what = "started" ->
         [s EXCEPT !.status = "running", !.started = TRUE, !.failure = FALSE, !.cancel = FALSE]
    [] what = "cancelRequested" -> [s EXCEPT !.cancel = TRUE]
    [] OTHER -> Closed(s, what, what = "failed")

\* ActivityExecutionState.Update.
UpdateActivity(s, what) ==
  CASE what = "started" -> [s EXCEPT !.status = "running", !.started = TRUE, !.failure = FALSE]
    [] what = "cancelRequested" -> [s EXCEPT !.status = what]
    [] OTHER -> Closed(s, what, what \in {"failed", "timedOut"})

\* TimerExecutionState.Update.
UpdateTimer(s, what) == Closed(s, what, FALSE)

\* newActivityFromEvent, newTimerFromEvent and newChildWorkflowFromEvent.
Begins(event) == event.what \in {"scheduled", "timerStarted", "initiated"}

NewEntry(event) ==
  CASE event.of \in Activities -> State(event.of, "scheduled")
    [] event.of \in Timers -> [State(event.of, "waiting") EXCEPT !.started = TRUE]
    [] OTHER -> State(event.of, "unspecified")

\* Mutant: an event goes to the last entry.
UpdateEntry_Last(event) ==
  [i \in DOMAIN entries |->
     IF i # Len(entries) THEN entries[i]
     ELSE CASE event.of \in Activities -> UpdateActivity(entries[i], event.what)
            [] event.of \in Timers -> UpdateTimer(entries[i], event.what)
            [] OTHER -> entries[i]]

\* updateActivity and updateTimer find an entry by the event that began it. A
\* child that could not be started is left as it is.
UpdateEntry(event) ==
  [i \in DOMAIN entries |->
     IF entries[i].of # event.of THEN entries[i]
     ELSE CASE event.of \in Activities -> UpdateActivity(entries[i], event.what)
            [] event.of \in Timers -> UpdateTimer(entries[i], event.what)
            [] OTHER -> entries[i]]

-----------------------------------------------------------------------------
(* The state of a child is written field by field: nothing is held while a *)
(* job writes it, so the two jobs may take turns between any two writes.   *)

\* A write to one field, by the child's job ("own") or by the parent's. A test
\* writes nothing.
Written(s, field, what, by) ==
  CASE field = "status" -> [s EXCEPT !.status = IF what = "started" THEN "running" ELSE what]
    [] field = "start" -> [s EXCEPT !.started = TRUE]
    [] field = "failure" -> [s EXCEPT !.failure = what = "failed"]
    [] field = "cancel" -> [s EXCEPT !.cancel = what = "cancelRequested"]
    [] field = "close" -> [s EXCEPT !.closeTime = by]
    [] OTHER -> s

\* GetChildWorkflowByEventId finds the child.
Write(field, what, by) ==
  entries' = [i \in DOMAIN entries |->
                IF entries[i].of = Child THEN Written(entries[i], field, what, by) ELSE entries[i]]

NoCloseTime == \A i \in DOMAIN entries : entries[i].of = Child => entries[i].closeTime = "none"

\* The parent's job sets the close time if it has found none just before. It
\* sets the start time in the same way, but before the child has a job.
FieldAfter(field, what) ==
  CASE field = "status" /\ what = "started" -> "start"
    [] field = "status" /\ what = "failed" -> "failure"
    [] field = "failure" \/ (field = "status" /\ what \notin {"started", "failed"}) -> "test"
    [] field = "test" /\ NoCloseTime -> "close"
    [] OTHER -> "none"

\* The child's job, for an event about the workflow itself.
OwnFieldAfter(field, what) ==
  CASE field = "status" /\ what = "started" -> "start"
    [] field = "start" \/ (field = "status" /\ what = "failed") -> "failure"
    [] field = "failure" /\ what = "started" -> "cancel"
    [] \/ field = "failure" /\ what # "started"
       \/ field = "status" /\ what \notin {"started", "failed"} -> "close"
    [] OTHER -> "none"

-----------------------------------------------------------------------------
(* The two jobs.                                                           *)

Endings == {"completed", "failed", "timedOut", "canceled", "terminated", "continued", "fired"}

\* An event of the parent's history that changes a child that has begun.
OfBegunChild(event) == event.of = Child /\ event.what \in {"started"} \cup Endings

\* Update, of any other event of the workflow's history.
Update ==
  /\ applied < Len(history.events)
  /\ LET event == history.events[applied + 1] IN
     /\ ~OfBegunChild(event)
     /\ IF event.of = "workflow"
          THEN workflow' = UpdateWorkflow(workflow, event.what) /\ entries' = entries
          ELSE /\ entries' = (IF Begins(event) THEN Append(entries, NewEntry(event))
                              ELSE UpdateEntry(event))
               /\ workflow' = workflow
  /\ applied' = applied + 1
  /\ UNCHANGED <<history, ownApplied, writing, ownWriting>>

\* Update, of such an event: one write.
UpdateChild ==
  /\ applied < Len(history.events)
  /\ LET event == history.events[applied + 1]
         field == IF writing = "none" THEN "status" ELSE writing IN
     /\ OfBegunChild(event)
     /\ Write(field, event.what, "parent")
     /\ writing' = FieldAfter(field, event.what)
  /\ applied' = IF writing' = "none" THEN applied + 1 ELSE applied
  /\ UNCHANGED <<history, ownApplied, ownWriting, workflow>>

\* Update, of an event of the child's history: one write. The child's job
\* starts once the parent's has seen the child start.
UpdateOwn ==
  /\ ownApplied < Len(history.own)
  /\ [of |-> Child, what |-> "started"] \in ToSet(SubSeq(history.events, 1, applied))
  /\ LET what == history.own[ownApplied + 1].what
         field == IF ownWriting # "none" THEN ownWriting
                  ELSE IF what = "cancelRequested" THEN "cancel" ELSE "status" IN
     /\ Write(field, what, "own")
     /\ ownWriting' = OwnFieldAfter(field, what)
  /\ ownApplied' = IF ownWriting' = "none" THEN ownApplied + 1 ELSE ownApplied
  /\ UNCHANGED <<history, applied, writing, workflow>>

Next == Update \/ UpdateChild \/ UpdateOwn

Spec == Init /\ [][Next]_stateVars

-----------------------------------------------------------------------------

States ==
  [of : {"workflow", Child} \cup Activities \cup Timers,
   status : {"unspecified", "running", "scheduled", "waiting", "cancelRequested"} \cup Endings,
   started : BOOLEAN, closeTime : {"none", "own", "parent"}, failure : BOOLEAN, cancel : BOOLEAN]

Events ==
  [of : {"workflow"}, what : {"started", "cancelRequested"} \cup Endings]
    \cup [of : Activities, what : {"scheduled", "started", "cancelRequested"} \cup Endings]
    \cup [of : Timers, what : {"timerStarted"} \cup Endings]
    \cup [of : {Child}, what : {"initiated", "started", "notStarted"} \cup Endings]

\* A history says of each thing first that it begins and last that it ends.
OneLife(events) ==
  \A i, j \in DOMAIN events :
    i < j /\ events[i].of = events[j].of =>
      /\ events[i].what \notin Endings /\ ~Begins(events[j])
      /\ events[j].of = Child => events[j] # events[i]

\* A run's own history says that it starts first, and that it ends last if it
\* has ended.
OneRun(own) ==
  \A i \in DOMAIN own :
    /\ own[i].what = "started" <=> i = 1
    /\ own[i].what \in Endings => i = Len(own)

\* The constants are of their types.
ConstantsTyped ==
  /\ "workflow" \notin Activities \cup Timers \cup {Child}
  /\ Child \notin Activities \cup Timers /\ Activities \cap Timers = {}
  /\ \A h \in Histories :
       /\ h.events \in Seq(Events) /\ OneLife(h.events)
       /\ h.own \in Seq([of : {Child}, what : {"started", "cancelRequested"} \cup Endings])
       /\ OneRun(h.own)

TypeOK ==
  /\ applied \in 0..Len(history.events) /\ ownApplied \in 0..Len(history.own)
  /\ writing \in {"none", "start", "failure", "test", "close"}
  /\ ownWriting \in {"none", "start", "failure", "cancel", "close"}
  /\ workflow \in States
  /\ entries \in Seq({s \in States : s.of # "workflow"})

Past == SubSeq(history.events, 1, applied)
PastOf(name) == Filtered(Past, {event \in ToSet(history.events) : event.of = name})
Begun == Filtered(Past, {event \in ToSet(history.events) : Begins(event)})

\* Everything that has begun is shown once, in its order.
EntriesInOrder ==
  [i \in DOMAIN entries |-> entries[i].of] = [i \in DOMAIN Begun |-> Begun[i].of]

\* An activity, a timer and the workflow itself are shown as closed, with a
\* close time, when and as their history says, and with a failure only if
\* that is how they ended.
ShownAsEnded(s) ==
  LET past == PastOf(s.of)
      ended == past # <<>> /\ Last(past).what \in Endings IN
  /\ ended <=> s.closeTime # "none"
  /\ ended => s.status = Last(past).what
  /\ s.failure => s.status \in {"failed", "timedOut"}

\* When both histories of a child have been read, in whatever order and with
\* whatever turns, the child is shown as closed and with a close time, which
\* may be its own or its parent's. If its run was the last of its chain it is
\* shown as it ended, with a failure if it failed and only then; a run that was
\* continued or retried is shown as its own end or its chain's.
ChildShownAsEnded(s) ==
  applied = Len(history.events) /\ ownApplied = Len(history.own)
      /\ PastOf(Child) # <<>> /\ Last(PastOf(Child)).what \in Endings
      /\ history.own # <<>> /\ Last(history.own).what \in Endings =>
    /\ s.status \in {Last(PastOf(Child)).what, Last(history.own).what}
    /\ s.closeTime # "none"
    /\ Last(PastOf(Child)).what = Last(history.own).what => (s.failure <=> s.status = "failed")

\* The states say what the histories say, whatever the pace of the two jobs.
StateMatchesHistory ==
  /\ EntriesInOrder
  /\ ShownAsEnded(workflow)
  /\ \A i \in DOMAIN entries :
       IF entries[i].of = Child THEN ChildShownAsEnded(entries[i]) ELSE ShownAsEnded(entries[i])
==============================================================================
