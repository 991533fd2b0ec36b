---------------------------- MODULE WorkflowReset ----------------------------
(***************************************************************************)
(* `temporal workflow reset` (commands.workflow_reset.go): finding the      *)
(* reset point in a paged history that another party keeps appending to,    *)
(* and the reset request; or, for several executions, the confirmation and  *)
(* the batch request.                                                       *)
(*                                                                         *)
(* One workflow ID is modelled.  Its runs are numbered: run n continues as  *)
(* new as run n+1.  0 is the empty run ID, which the server resolves to the *)
(* current run.  Histories and page tokens are the server's (external).     *)
(***************************************************************************)
EXTENDS Integers, Sequences

CONSTANTS
  MaxRuns,    \* bound: runs of the workflow
  MaxEvents,  \* bound: events of one run
  PageSize,   \* MaximumPageSize (250 in the source)
  Option      \* the command lines to try

\* Started is the first event of a run.  A workflow task is Scheduled, then
\* TaskStarted, then Completed or Failed.  Other is any other event.
EventType == {"Started", "Scheduled", "TaskStarted", "Completed", "Failed",
              "Other", "ContinuedAsNew"}

ResetType == {"", "FirstWorkflowTask", "LastWorkflowTask", "LastContinuedAsNew", "BuildId"}

ASSUME BoundAssumption ==
  /\ MaxRuns \in Nat \ {0}
  /\ MaxEvents \in Nat
  /\ PageSize \in Nat \ {0}

ASSUME OptionAssumption ==
  Option \subseteq [workflowId : BOOLEAN, runId : 0..MaxRuns, eventId : Int,
                    type : ResetType, buildId : BOOLEAN, yes : BOOLEAN, json : BOOLEAN,
                    override : {"none", "valid", "invalid"},
                    reapplyType : {"All", "Signal", "None"}, reapplyExclude : BOOLEAN]
-----------------------------------------------------------------------------
VARIABLES
  history,  \* the server: history[n] is the event types of run n
  options,  \* the command line
  pc,       \* where the command is
  base,     \* resetBaseRunID
  eventId,  \* eventID, workflowTaskEventID, workflowTaskCompletedID
  read,     \* the run and the length the page token stands for
  pos,      \* the event the loop over a page has reached
  pageEnd,  \* the last event of that page
  request   \* what the server was asked to do

serverVars  == <<history>>
commandVars == <<options, pc, base, eventId, read, pos, pageEnd, request>>
vars == <<serverVars, commandVars>>

Run == 1..MaxRuns

CurrentRun == CHOOSE n \in Run : /\ history[n] # <<>>
                                 /\ n + 1 \in Run => history[n + 1] = <<>>

\* The run a run ID stands for.
Resolved(n) == IF n = 0 THEN CurrentRun ELSE n

NoRead == [run |-> 0, length |-> 0]
NoRequest == [kind |-> "none", run |-> 0, eventId |-> 0]

Init ==
  /\ history = [n \in Run |-> IF n = 1 THEN <<"Started">> ELSE <<>>]
  /\ options \in Option
  /\ pc = "validate"
  /\ base = 0
  /\ eventId = 0
  /\ read = NoRead
  /\ pos = 0
  /\ pageEnd = 0
  /\ request = NoRequest
-----------------------------------------------------------------------------
(* The server *)

Last(h) == h[Len(h)]

\* Between the start and the end of a workflow task nothing is appended; a
\* task is scheduled if none is pending; a run continues as new by a command
\* of a completed task.
CanAppend(h, e) ==
  LET tasks == SelectSeq(h, LAMBDA k : k \in {"Scheduled", "TaskStarted", "Completed", "Failed"})
      state == IF tasks = <<>> THEN "Completed" ELSE Last(tasks)
  IN CASE e = "Scheduled"      -> state \in {"Completed", "Failed"}
       [] e = "TaskStarted"    -> state = "Scheduled"
       [] e \in {"Completed", "Failed"} -> state = "TaskStarted"
       [] e = "ContinuedAsNew" -> tasks # <<>> /\ state = "Completed"
       [] e = "Other"          -> state # "TaskStarted"
       [] OTHER                -> FALSE

ServerAppend ==
  \E e \in EventType :
    LET n == CurrentRun IN
    /\ Len(history[n]) < MaxEvents
    /\ Last(history[n]) # "ContinuedAsNew"
    /\ CanAppend(history[n], e)
    /\ IF e = "ContinuedAsNew"
       THEN /\ n + 1 \in Run
            /\ history' = [history EXCEPT ![n] = Append(@, e), ![n + 1] = <<"Started">>]
       ELSE history' = [history EXCEPT ![n] = Append(@, e)]
    /\ UNCHANGED commandVars
-----------------------------------------------------------------------------
(* The command *)

Goto(l) == pc' = l /\ UNCHANGED <<serverVars, options>>

\* validateWorkflowResetArguments, validateBatchResetArguments
ArgumentsValid(o) ==
  IF o.workflowId
  THEN o.type # "" \/ o.eventId > 0
  ELSE /\ o.type # ""
       /\ o.runId = 0
       /\ o.eventId = 0
       /\ o.type = "BuildId" => o.buildId

\* The command that also updates the workflow's options checks them in between.
Validate ==
  /\ pc = "validate"
  /\ IF ArgumentsValid(options) /\ options.override # "invalid" THEN Goto("dial") ELSE Goto("failed")
  /\ UNCHANGED <<base, eventId, read, pos, pageEnd, request>>

\* A single reset needs a reset point, given or searched for by type; a batch
\* is reset by the server.
AfterDial(o) ==
  CASE ~ o.workflowId -> "batch"
    [] o.workflowId /\ o.type = "" -> "options"
    [] o.workflowId /\ o.type \in {"FirstWorkflowTask", "LastWorkflowTask"} -> "fetch"
    [] o.workflowId /\ o.type = "LastContinuedAsNew" -> "firstEvent"
    [] o.workflowId /\ o.type = "BuildId" -> "failed"

\* After dialClient.
Dial ==
  /\ pc = "dial"
  /\ base' = options.runId
  /\ eventId' = IF options.type = "" THEN options.eventId ELSE 0
  /\ Goto(AfterDial(options))
  /\ UNCHANGED <<read, pos, pageEnd, request>>

\* Any call to the server may fail, and so does a reading of the run ID when
\* the execution does not exist.
CallFails ==
  /\ pc \in {"dial", "firstEvent", "fetch", "reset", "count", "start"}
  /\ Goto("failed")
  /\ UNCHANGED <<base, eventId, read, pos, pageEnd, request>>

ReadFirstEvent_SameRun ==
  /\ pc = "firstEvent"
  /\ history[Resolved(base)] # <<>>
  /\ base' = Resolved(base)
  /\ IF base' = 1 THEN Goto("failed") ELSE Goto("fetch")
  /\ UNCHANGED <<eventId, read, pos, pageEnd, request>>

\* getLastContinueAsNewID looks at the first event for the run it continues.
ReadFirstEvent ==
  /\ pc = "firstEvent"
  /\ history[Resolved(base)] # <<>>
  /\ base' = Resolved(base) - 1
  /\ IF base' = 0 THEN Goto("failed") ELSE Goto("fetch")
  /\ UNCHANGED <<eventId, read, pos, pageEnd, request>>

Backwards == options.type = "LastWorkflowTask"

FetchPage_Unbounded ==
  /\ pc = "fetch"
  /\ read' = IF read = NoRead
             THEN [run |-> Resolved(base), length |-> Len(history[Resolved(base)])]
             ELSE read
  /\ history[read'.run] # <<>>
  /\ pos' = IF Backwards THEN read'.length ELSE 1
  /\ pageEnd' = IF Backwards THEN pos' - PageSize + 1 ELSE pos' + PageSize - 1
  /\ Goto("scan")
  /\ UNCHANGED <<base, eventId, request>>

\* One page of GetWorkflowExecutionHistory(Reverse).  The first request fixes
\* the run and the length that the tokens of the following pages stand for.
FetchPage ==
  /\ pc = "fetch"
  /\ read' = IF read = NoRead
             THEN [run |-> Resolved(base), length |-> Len(history[Resolved(base)])]
             ELSE read
  /\ history[read'.run] # <<>>
  /\ pos' = IF read = NoRead THEN (IF Backwards THEN read'.length ELSE 1)
            ELSE IF Backwards THEN pageEnd - 1 ELSE pageEnd + 1
  /\ pageEnd' = IF Backwards
                THEN IF pos' > PageSize THEN pos' - PageSize + 1 ELSE 1
                ELSE IF pos' + PageSize <= read'.length THEN pos' + PageSize - 1 ELSE read'.length
  /\ Goto("scan")
  /\ UNCHANGED <<base, eventId, request>>

MorePages == IF Backwards THEN pageEnd > 1 ELSE pageEnd < read.length

PastPage == IF Backwards THEN pos < pageEnd ELSE pos > pageEnd

\* The break of getLastWorkflowTaskEventID leaves the loop over the events of
\* the page only.
AfterBreak == pageEnd - 1

Scanned == history[read.run][pos]

ScanLast_NoBreak ==
  /\ pos' = pos - 1
  /\ eventId' = CASE Scanned = "Completed" -> pos
                  [] Scanned = "Scheduled" -> pos + 1
                  [] OTHER -> eventId
  /\ Goto("scan")

ScanLast ==
  /\ Scanned # "Completed" => pos' = pos - 1
  /\ Scanned = "Completed" => pos' = AfterBreak
  /\ eventId' = CASE Scanned = "Completed" -> pos
                  [] Scanned = "Scheduled" -> pos + 1
                  [] OTHER -> eventId
  /\ Goto("scan")

ScanFirst_Overwrites ==
  /\ pos' = pos + 1
  /\ eventId' = CASE Scanned = "Completed" -> pos
                  [] Scanned = "Scheduled" -> pos + 1
                  [] OTHER -> eventId
  /\ IF Scanned = "Completed" THEN Goto("options") ELSE Goto("scan")

ScanFirst ==
  /\ pos' = pos + 1
  /\ eventId' = CASE Scanned = "Completed" -> pos
                  [] Scanned = "Scheduled" /\ eventId = 0 -> pos + 1
                  [] OTHER -> eventId
  /\ IF Scanned = "Completed" THEN Goto("options") ELSE Goto("scan")

ScanPrevious ==
  /\ pos' = pos + 1
  /\ eventId' = IF Scanned = "Completed" THEN pos ELSE eventId
  /\ Goto("scan")

\* The body of the loop over the events of a page.
ScanEvent ==
  /\ pc = "scan"
  /\ ~ PastPage
  /\ \/ options.type = "LastWorkflowTask" /\ ScanLast
     \/ options.type = "FirstWorkflowTask" /\ ScanFirst
     \/ options.type = "LastContinuedAsNew" /\ ScanPrevious
  /\ UNCHANGED <<base, read, pageEnd, request>>

EndPage ==
  /\ pc = "scan"
  /\ PastPage
  /\ IF MorePages THEN Goto("fetch")
     ELSE IF eventId = 0 THEN Goto("failed") ELSE Goto("options")
  /\ UNCHANGED <<base, eventId, read, pos, pageEnd, request>>

\* getResetReapplyAndExcludeTypes
ReapplyValid(o) == o.reapplyType # "All" => ~ o.reapplyExclude

CheckReapply ==
  /\ pc = "options"
  /\ IF ReapplyValid(options) THEN Goto("reset") ELSE Goto("failed")
  /\ UNCHANGED <<base, eventId, read, pos, pageEnd, request>>

Reset_RunOption ==
  /\ pc = "reset"
  /\ request' = [kind |-> "reset", run |-> Resolved(options.runId), eventId |-> eventId]
  /\ Goto("done")
  /\ UNCHANGED <<base, eventId, read, pos, pageEnd>>

Reset ==
  /\ pc = "reset"
  /\ request' = [kind |-> "reset", run |-> Resolved(base), eventId |-> eventId]
  /\ Goto("done")
  /\ UNCHANGED <<base, eventId, read, pos, pageEnd>>
-----------------------------------------------------------------------------
(* Batch *)

\* batchResetOptions
BatchOptions ==
  /\ pc = "batch"
  /\ CASE ~ ReapplyValid(options) -> Goto("failed")
       [] ReapplyValid(options) /\ options.type \notin {"FirstWorkflowTask", "LastWorkflowTask", "BuildId"}
            -> Goto("panic")
       [] OTHER -> IF options.yes THEN Goto("start") ELSE Goto("count")
  /\ UNCHANGED <<base, eventId, read, pos, pageEnd, request>>

\* CountWorkflow for the prompt; promptYes refuses to ask when the output is
\* JSON.
Count ==
  /\ pc = "count"
  /\ IF options.json THEN Goto("failed") ELSE Goto("prompt")
  /\ UNCHANGED <<base, eventId, read, pos, pageEnd, request>>

Prompt(answer) ==
  /\ pc = "prompt"
  /\ IF answer THEN Goto("start") ELSE Goto("failed")
  /\ UNCHANGED <<base, eventId, read, pos, pageEnd, request>>

StartBatch ==
  /\ pc = "start"
  /\ request' = [kind |-> "batch", run |-> 0, eventId |-> 0]
  /\ Goto("done")
  /\ UNCHANGED <<base, eventId, read, pos, pageEnd>>

Ended == pc \in {"done", "failed", "panic"}

Exited == Ended /\ UNCHANGED vars

Next ==
  \/ ServerAppend
  \/ Validate \/ Dial \/ CallFails \/ ReadFirstEvent
  \/ FetchPage \/ ScanEvent \/ EndPage
  \/ CheckReapply \/ Reset
  \/ BatchOptions \/ Count \/ StartBatch
  \/ \E answer \in BOOLEAN : Prompt(answer)
  \/ Exited

Spec == Init /\ [][Next]_vars
-----------------------------------------------------------------------------
(* Properties *)

\* The type of every variable.
TypeOK ==
  /\ history \in [Run -> Seq(EventType)]
  /\ options \in Option
  /\ pc \in {"validate", "dial", "batch", "options", "fetch", "firstEvent", "scan", "reset",
             "count", "prompt", "start", "done", "failed", "panic"}
  /\ base \in 0..MaxRuns
  /\ eventId \in Int
  /\ read \in [run : 0..MaxRuns, length : Nat]
  /\ pos \in Nat
  /\ pageEnd \in Nat
  /\ request \in [kind : {"none", "reset", "batch"}, run : 0..MaxRuns, eventId : Int]

\* The search for a reset point by type has ended with success.
Found == pc \in {"options", "reset", "done"} /\ read # NoRead

\* The history as it was when its first page was read.
ReadHistory == SubSeq(history[read.run], 1, read.length)

IsFirst(h, kind, i) == i \in DOMAIN h /\ h[i] = kind /\ \A j \in DOMAIN h : h[j] = kind => i <= j
IsLast(h, kind, i)  == i \in DOMAIN h /\ h[i] = kind /\ \A j \in DOMAIN h : h[j] = kind => j <= i

\* getLastWorkflowTaskEventID "Returns event id of the last completed task or id
\* of the next event after scheduled task" (the first scheduled one), for any
\* way the history is cut into pages.
LastTaskIsLast ==
  Found /\ options.type = "LastWorkflowTask" =>
    IF \E i \in DOMAIN ReadHistory : ReadHistory[i] = "Completed"
    THEN IsLast(ReadHistory, "Completed", eventId)
    ELSE IsFirst(ReadHistory, "Scheduled", eventId - 1)

\* The same of histories that fit into one page.
LastTaskOfShortHistory == read.length <= PageSize => LastTaskIsLast

\* getFirstWorkflowTaskEventID returns the first completed task, or the event
\* after the first scheduled one, for any way the history is cut into pages
\* and however it grows meanwhile.
FirstTaskIsFirst ==
  Found /\ options.type = "FirstWorkflowTask" =>
    IF \E i \in DOMAIN ReadHistory : ReadHistory[i] = "Completed"
    THEN IsFirst(ReadHistory, "Completed", eventId)
    ELSE IsFirst(ReadHistory, "Scheduled", eventId - 1)

\* getLastContinueAsNewID: the run is the one that continued as the run asked
\* for, and the event is the last task it completed: the one that continued it
\* as new.
PreviousRunAtItsEnd ==
  Found /\ options.type = "LastContinuedAsNew" =>
    /\ base = read.run
    /\ options.runId # 0 => base + 1 = options.runId
    /\ Last(history[base]) = "ContinuedAsNew"
    /\ IsLast(history[base], "Completed", eventId)

\* An event ID found by reading a run is only sent for that run, although the
\* workflow may continue as new in between, if the command line names a run or
\* the search does.
ResetOfRunRead ==
  /\ request.kind = "reset" /\ read # NoRead
  /\ options.runId # 0 \/ options.type = "LastContinuedAsNew"
  => request.run = read.run
=============================================================================
