----------------------------- MODULE HistoryFollow -----------------------------
(***************************************************************************)
(* Reading a workflow's history while the workflow runs and continues as   *)
(* new: workflow execute, result and show (commands.workflow_exec.go and   *)
(* commands.workflow_view.go). The iterator of the client library and the  *)
(* workflow at the server are external.                                    *)
(***************************************************************************)
EXTENDS Naturals, SequenceOperators

CONSTANTS
  Readers,    \* command, form, and whether it follows or reads in reverse
  FirstRuns,  \* the runs there are when the command starts
  MaxRuns,    \* bound on runs
  MaxEvents   \* bound on the events of a run

VARIABLES
  runs,         \* the runs of the workflow, each with its events
  reader,       \* the command; it never changes
  step,         \* where the command is
  run,          \* the run the command reads
  next,         \* the event of it that comes next, 0 when there is none
  printed,      \* the events printed or collected, as pairs of a run and an event
  wfResult,     \* the close event for the results, as such a pair, or none
  interrupted,  \* a signal or the command's timeout
  ending        \* how the command ended

historyVars == <<runs, reader, step, run, next, printed, wfResult, interrupted, ending>>

\* How runs end. A retried run has failed and been followed by another run, as
\* a continued one has.
Closings == {"completed", "failed", "terminated", "continued", "retried"}
Followed == {"continued", "retried"}

None == <<>>
Kind(event) ==
  IF event[2] = runs[event[1]].length THEN runs[event[1]].closing ELSE "open"
ClosedRun(r) == runs[r].closing # "open"

ShowsText == reader.form \in {"table", "detailed"}
Executes == reader.command \in {"execute", "result"}

-----------------------------------------------------------------------------
(* The workflow.                                                           *)

\* workflow execute starts the first run; show and result may name any.
Init ==
  /\ reader \in Readers
  /\ runs \in (IF reader.command = "execute" THEN {<<[length |-> 1, closing |-> "open"]>>}
               ELSE FirstRuns)
  /\ run \in DOMAIN runs
  /\ step = CASE reader.command = "result" \/ (reader.command = "execute" /\ ~ShowsText) -> "close"
              [] reader.command = "show" /\ reader.reverse -> "reverse"
              [] OTHER -> "history"
  /\ next = 1 /\ printed = <<>> /\ wfResult = None /\ interrupted = FALSE /\ ending = "none"

LastRun == runs[Len(runs)]

Grow ==
  /\ ~ClosedRun(Len(runs)) /\ LastRun.length < MaxEvents - 1
  /\ runs' = [runs EXCEPT ![Len(runs)].length = @ + 1]
  /\ UNCHANGED <<reader, step, run, next, printed, wfResult, interrupted, ending>>

CloseRun ==
  /\ ~ClosedRun(Len(runs))
  /\ \E closing \in Closings :
       /\ closing \in Followed => Len(runs) < MaxRuns
       /\ LET closed == [runs EXCEPT ![Len(runs)] = [length |-> @.length + 1, closing |-> closing]] IN
          runs' = (IF closing \in Followed
                   THEN Append(closed, [length |-> 1, closing |-> "open"]) ELSE closed)
  /\ UNCHANGED <<reader, step, run, next, printed, wfResult, interrupted, ending>>

Interrupt ==
  /\ step # "ended" /\ ~interrupted /\ interrupted' = TRUE
  /\ UNCHANGED <<runs, reader, step, run, next, printed, wfResult, ending>>

-----------------------------------------------------------------------------
(* structuredHistoryIter.                                                  *)

\* isWorkflowTerminatingEvent: continued and terminated runs are not among
\* them, and the library does not tell a retried run from a failed one.
IsWorkflowTerminatingEvent(kind) == kind \in {"completed", "failed", "retried"}

\* The event is printed, or collected for a JSON document.
NextRawEvent ==
  /\ printed' = Append(printed, <<run, next>>)
  /\ wfResult' = (IF IsWorkflowTerminatingEvent(Kind(<<run, next>>)) THEN <<run, next>> ELSE wfResult)

\* Mutant: the iterator of the old run is kept.
NextForward_SameRun ==
  /\ step = "history" /\ next \in 1..runs[run].length
  /\ NextRawEvent
  /\ run' = run /\ next' = next + 1
  /\ UNCHANGED <<runs, reader, step, interrupted, ending>>

\* Next, of a table, goes on in the next run after an event that continues as
\* new, whether or not the command was asked to follow. With --detailed, and
\* under JSON, raw events are read, and those stay in one run.
NextForward ==
  /\ step = "history" /\ next \in 1..runs[run].length
  /\ NextRawEvent
  /\ IF reader.form = "table" /\ Kind(<<run, next>>) = "continued"
       THEN run' = run + 1 /\ next' = 1
       ELSE run' = run /\ next' = next + 1
  /\ UNCHANGED <<runs, reader, step, interrupted, ending>>

\* The iterator has no more events: a command that follows waits for the end
\* of the run.
HistoryEnds ==
  /\ step = "history" /\ next > runs[run].length
  /\ reader.follow => ClosedRun(run)
  /\ step' = "print"
  /\ UNCHANGED <<runs, reader, run, next, printed, wfResult, interrupted, ending>>

\* nextRawEventReverse: from the last event there is, when the first page is
\* read, to the first, in this run only.
ReverseBegins ==
  /\ step = "reverse"
  /\ next' = runs[run].length /\ step' = "reversed"
  /\ UNCHANGED <<runs, reader, run, printed, wfResult, interrupted, ending>>

NextRawEventReverse ==
  /\ step = "reversed" /\ next > 0
  /\ NextRawEvent
  /\ next' = next - 1
  /\ UNCHANGED <<runs, reader, step, run, interrupted, ending>>

ReverseEnds ==
  /\ step = "reversed" /\ next = 0
  /\ step' = "print"
  /\ UNCHANGED <<runs, reader, run, next, printed, wfResult, interrupted, ending>>

\* A failure ends the command, but execute ignores one that comes with the end
\* of its context, and meets it again when it reads the close event.
ReadFails ==
  /\ step \in {"history", "reverse", "reversed", "close"}
  /\ IF reader.command = "execute" /\ step = "history" /\ interrupted
       THEN step' = "print" /\ ending' = ending
       ELSE step' = "ended" /\ ending' = "error"
  /\ UNCHANGED <<runs, reader, run, next, printed, wfResult, interrupted>>

-----------------------------------------------------------------------------
(* The results.                                                            *)

\* After its progress execute looks for the close event, from the first run;
\* show prints what its iterator has met, if anything.
PrintHistory ==
  /\ step = "print"
  /\ IF reader.command = "execute"
       THEN step' = "close" /\ run' = 1 /\ ending' = ending /\ wfResult' = None
       ELSE step' = "ended" /\ ending' = "ok" /\ UNCHANGED <<run, wfResult>>
  /\ UNCHANGED <<runs, reader, next, printed, interrupted>>

\* The long poll for a run's close event, over all runs that continue as new.
ReadCloseEvent ==
  /\ step = "close" /\ ~interrupted /\ ClosedRun(run)
  /\ IF runs[run].closing = "continued"
       THEN run' = run + 1 /\ UNCHANGED <<step, wfResult>>
       ELSE wfResult' = <<run, runs[run].length>> /\ step' = "result" /\ run' = run
  /\ UNCHANGED <<runs, reader, next, printed, interrupted, ending>>

\* printTextResult and printJSONResult, and then the command's own success. The
\* details of a JSON document are the history of the first run, whatever run
\* has the result; when they cannot be read nothing is printed.
PrintResult ==
  /\ step = "result" /\ step' = "ended"
  /\ \/ /\ printed' = (IF reader.form = "json details"
                       THEN [i \in 1..runs[1].length |-> <<1, i>>] ELSE printed)
        /\ ending' = (IF Kind(wfResult) = "completed" THEN "ok" ELSE "workflow failed")
     \/ /\ reader.form = "json details" /\ printed' = printed
        /\ ending' = (IF Kind(wfResult) = "completed" THEN "error" ELSE "workflow failed")
  /\ UNCHANGED <<runs, reader, run, next, wfResult, interrupted>>

Next ==
  \/ Grow \/ CloseRun \/ Interrupt
  \/ NextForward \/ HistoryEnds \/ ReverseBegins \/ NextRawEventReverse \/ ReverseEnds
  \/ ReadFails \/ PrintHistory \/ ReadCloseEvent \/ PrintResult

Spec == Init /\ [][Next]_historyVars

-----------------------------------------------------------------------------

\* A chain of runs: each but the last was followed by another.
Chain(rs) ==
  /\ rs \in Seq([length : 1..MaxEvents, closing : {"open"} \cup Closings])
  /\ Len(rs) \in 1..MaxRuns
  /\ \A r \in DOMAIN rs :
       /\ rs[r].closing \in Followed <=> r < Len(rs)
       /\ rs[r].closing = "open" => rs[r].length < MaxEvents

\* The constants are of their types.
ConstantsTyped ==
  /\ MaxRuns \in Nat \ {0} /\ MaxEvents \in Nat \ {0, 1}
  /\ \A rs \in FirstRuns : Chain(rs)
  /\ Readers \subseteq
       [command : {"execute", "result", "show"},
        form : {"table", "detailed", "json", "json details"},
        follow : BOOLEAN, reverse : BOOLEAN]
  /\ \A r \in Readers :
       /\ r.command = "execute" => r.follow
       /\ r.command = "result" => ~r.follow
       /\ r.reverse => r.command = "show" /\ ~r.follow

TypeOK ==
  /\ Chain(runs)
  /\ run \in DOMAIN runs /\ next \in 0..(MaxEvents + 1)
  /\ step \in {"history", "reverse", "reversed", "print", "close", "result", "ended"}
  /\ interrupted \in BOOLEAN
  /\ ending \in {"none", "ok", "workflow failed", "error"}

\* The events of a history forward: each comes after the one before it, in its
\* run or over a run that continued as new.
Forward(events) ==
  \A i \in 1..(Len(events) - 1) :
    LET this == events[i]
        that == events[i + 1] IN
    \/ that = <<this[1], this[2] + 1>>
    \/ reader.form = "table" /\ Kind(this) = "continued" /\ that = <<this[1] + 1, 1>>

\* No event is left out and none is shown twice, and a command that follows a
\* table to its end has come to a run that is not continued as new.
HistoryWhole ==
  LET events == IF reader.reverse THEN Reverse(printed) ELSE printed IN
  /\ Forward(events)
  /\ printed # <<>> /\ ~reader.reverse => printed[1][2] = 1
  /\ ending \in {"ok", "workflow failed"} /\ reader.follow /\ reader.form = "table" =>
       Kind(Last(printed)) \notin {"open", "continued"}

\* The result is that of the run at which a chain of continue-as-new ends (a run
\* that failed and is retried counts as its end, as in the code), succeeds only
\* when that run completed, and closes the history that was shown above it.
LastRunShown ==
  /\ HistoryWhole
  /\ Executes /\ ending = "ok" => Kind(wfResult) = "completed"
  /\ Executes /\ ending = "workflow failed" =>
       Kind(wfResult) \in {"failed", "terminated", "retried"}
  /\ ending \in {"ok", "workflow failed"} /\ wfResult # None /\ printed # <<>> /\ ~interrupted =>
       IF reader.reverse THEN wfResult = printed[1]
       ELSE reader.form = "table" => wfResult = Last(printed)
==============================================================================
