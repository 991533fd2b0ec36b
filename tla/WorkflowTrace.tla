---------------------------- MODULE WorkflowTrace ----------------------------
(***************************************************************************)
(* The concurrent core of `temporal workflow trace` (internal/tracer): one  *)
(* job per workflow execution reads that execution's history from the       *)
(* server, updates the shared execution states and spawns jobs for child    *)
(* workflows; the jobs run on a worker pool with a bounded queue; they       *)
(* signal an iterator goroutine over an unbuffered channel; the command's   *)
(* own goroutine prints progress and decides how the command ends.          *)
(*                                                                         *)
(* The server (histories, DescribeWorkflowExecution), the pool library and  *)
(* the operating system's signals are external: they are modelled from how  *)
(* the tracer uses them.                                                    *)
(***************************************************************************)
EXTENDS Integers, Sequences, FiniteSets, Functions

CONSTANTS
  Workflow,     \* the workflow executions on the server
  Root,         \* the execution the command was asked to trace
  History,      \* History[w]: every event execution w will ever have
  InitialLength,\* InitialLength[w]: the events w already has at the start
  Archived,     \* executions for which the server describes no history length
  Concurrency,  \* --concurrency
  QueueCap,     \* capacity of the pool's task queue (1000 in the source)
  Depth,        \* --depth, -1 for unlimited
  FetchAll,     \* --no-fold
  FoldStatus,   \* --fold
  MayFail,      \* may a server call or a terminal write return an error?
  MayInterrupt  \* may the process receive a signal?

Status == {"Unspecified", "Running", "Completed", "Failed", "Terminated"}

EventType == {"Started", "ChildInitiated", "ChildStarted", "ChildClosed",
              "Closed", "Other"}

\* An event: "child" is the execution a child event is about, "status" the
\* closing status of a Closed or ChildClosed event.
Event == [type : EventType, child : Workflow, status : Status]

ASSUME RootAssumption == Root \in Workflow

ASSUME HistoryAssumption ==
  /\ History \in [Workflow -> Seq(Event)]
  /\ InitialLength \in [Workflow -> Nat]
  /\ \A w \in Workflow : InitialLength[w] <= Len(History[w])

\* There is something to trace: finitely many executions, and the root's has
\* begun.
ASSUME TreeAssumption ==
  /\ IsFiniteSet(Workflow)
  /\ InitialLength[Root] > 0

\* An execution closes, if it ever does, with the last event of its history.
IsClosed(w) == /\ History[w] # <<>>
               /\ History[w][Len(History[w])].type = "Closed"

FinalStatus(w) == History[w][Len(History[w])].status

\* Only closed executions are archived.
ASSUME ServerAssumption ==
  \A w \in Archived : IsClosed(w) /\ InitialLength[w] = Len(History[w])

\* A parent reports the end of a child with the status the child's own
\* history ends with: no child continues as new or is retried.
ASSUME ClosingAssumption ==
  \A p \in Workflow : \A i \in DOMAIN History[p] :
    History[p][i].type = "ChildClosed" =>
      /\ IsClosed(History[p][i].child)
      /\ History[p][i].status = FinalStatus(History[p][i].child)

\* An execution is started at most once, by one event of one parent; the
\* root's own parent is not traced.
ASSUME ParentAssumption ==
  \A p, q \in Workflow : \A i \in DOMAIN History[p], j \in DOMAIN History[q] :
    /\ History[p][i].type = "ChildStarted" => History[p][i].child # Root
    /\ /\ History[p][i].type = "ChildStarted"
       /\ History[q][j].type = "ChildStarted"
       /\ History[p][i].child = History[q][j].child
       => p = q /\ i = j

ASSUME OptionAssumption ==
  /\ Archived \subseteq Workflow
  /\ Concurrency \in Nat \ {0}
  /\ QueueCap \in Nat \ {0}
  /\ Depth \in Int
  /\ FetchAll \in BOOLEAN
  /\ FoldStatus \subseteq Status
  /\ MayFail \in BOOLEAN
  /\ MayInterrupt \in BOOLEAN
-----------------------------------------------------------------------------
VARIABLES
  \* the server
  available,     \* available[w]: number of events of w on the server
  \* WorkflowExecutionState, shared by all goroutines
  status,        \* Status
  lastEventId,   \* LastEventId
  historyLength, \* HistoryLength
  \* WorkflowStateJob
  pc,            \* where the job of each execution is
  depth,         \* depth
  childJobs,     \* childJobs
  nextChild,     \* the index the loop over childJobs has reached
  isUpToDate,    \* isUpToDate
  \* the pool, its task group and the goroutine waiting for it
  queue,         \* tasks submitted and not yet taken by a worker
  groupError,    \* has a task returned an error?
  ctxDone,       \* is the group's context cancelled?
  group,         \* where the goroutine of GetWorkflowExecutionUpdates is
  \* the iterator goroutine of GetExecutionUpdates
  iter,          \* where it is
  hasUpdate,     \* t.update # nil
  \* PrintUpdates and the process
  counted,       \* counters read by the current tick, NotCounted between ticks
  upToDate,      \* PrintUpdates' isUpToDate
  signalled,     \* a signal is buffered in sigChan
  cancelled,     \* the command's context was cancelled by a signal
  printed,       \* the final tree was written
  outcome        \* how the command ended

serverVars == <<available>>
stateVars  == <<status, lastEventId, historyLength>>
jobVars    == <<pc, depth, childJobs, nextChild, isUpToDate>>
poolVars   == <<queue, groupError, ctxDone, group>>
iterVars   == <<iter, hasUpdate>>
printVars  == <<counted, upToDate, signalled, cancelled, printed, outcome>>
vars == <<serverVars, stateVars, jobVars, poolVars, iterVars, printVars>>

\* A job waiting in the pool's queue, or being executed by a worker: at
\* historyIterator.HasNext/Next, sending on updateChan, handling an event,
\* in the loop over childJobs, or in the Submit of a late child.
Working == {"fetch", "send", "handle", "dispatch", "submit"}
Active  == {"queued"} \cup Working

\* "none": no job object; "created": in its parent's childJobs; "skipped":
\* ShouldStart was false; "dropped": the pool did not run the task because
\* the context was cancelled.
JobState == Active \cup {"none", "created", "skipped", "dropped", "failed", "done"}

Children == Workflow \ {Root}

NotCounted == [idle |-> TRUE]

Busy == {w \in Workflow : pc[w] \in Working}

Init ==
  /\ available = InitialLength
  /\ status = [w \in Workflow |-> "Unspecified"]
  /\ lastEventId = [w \in Workflow |-> 0]
  /\ historyLength = [w \in Workflow |-> 0]
  /\ pc = [w \in Workflow |-> "none"]
  /\ depth = [w \in Workflow |-> 0]
  /\ childJobs = [w \in Workflow |-> <<>>]
  /\ nextChild = [w \in Workflow |-> 1]
  /\ isUpToDate = [w \in Workflow |-> FALSE]
  /\ queue = <<>>
  /\ groupError = FALSE
  /\ ctxDone = FALSE
  /\ group = "start"
  /\ iter = "wait"
  /\ hasUpdate = FALSE
  /\ counted = NotCounted
  /\ upToDate = FALSE
  /\ signalled = FALSE
  /\ cancelled = FALSE
  /\ printed = FALSE
  /\ outcome = "running"
-----------------------------------------------------------------------------
(***************************************************************************)
(* The server.  Events of a parent and a child respect causality: a child's *)
(* first event follows its initiation, its parent learns of its start and   *)
(* of its end afterwards.                                                   *)
(***************************************************************************)
Initiated(c) == \E p \in Workflow : \E i \in 1..available[p] :
                  History[p][i].type = "ChildInitiated" /\ History[p][i].child = c

CanHappen(w) ==
  LET e == History[w][available[w] + 1]
  IN  /\ (e.type = "Started" /\ w # Root) => Initiated(w)
      /\ e.type = "ChildStarted" => available[e.child] > 0
      /\ e.type = "ChildClosed"  => available[e.child] = Len(History[e.child])

ServerAppend(w) ==
  /\ available[w] < Len(History[w])
  /\ CanHappen(w)
  /\ available' = [available EXCEPT ![w] = @ + 1]
  /\ UNCHANGED <<stateVars, jobVars, poolVars, iterVars, printVars>>

\* Mutant: the length of an archived execution is unknown rather than zero.
Describe_Unknown(w) == IF w \in Archived THEN -1 ELSE available[w]

\* The HistoryLength a DescribeWorkflowExecution of w returns now.
Describe(w) == IF w \in Archived THEN 0 ELSE available[w]

\* How the tracer recognises an archived execution; it does not long poll it.
IsArchived(w) == historyLength[w] = 0
-----------------------------------------------------------------------------
(***************************************************************************)
(* GetWorkflowExecutionUpdates: create the root job, start the goroutine    *)
(* that submits it, waits for the task group and reports the result.        *)
(***************************************************************************)
StartTrace ==
  /\ group = "start"
  /\ ~ ctxDone
  /\ pc' = [pc EXCEPT ![Root] = "created"]
  /\ depth' = [depth EXCEPT ![Root] = Depth]
  /\ historyLength' = [historyLength EXCEPT ![Root] = Describe(Root)]
  /\ group' = "submit"
  /\ UNCHANGED <<serverVars, status, lastEventId, childJobs, nextChild, isUpToDate,
                 queue, groupError, ctxDone, iterVars, printVars>>

\* Describing the root failed: the command returns the error at once.
StartFails ==
  /\ group = "start"
  /\ MayFail \/ ctxDone
  /\ outcome' = "error"
  /\ UNCHANGED <<serverVars, stateVars, jobVars, poolVars, iterVars, counted,
                 upToDate, signalled, cancelled, printed>>

SubmitRoot ==
  /\ group = "submit"
  /\ Len(queue) < QueueCap
  /\ queue' = Append(queue, Root)
  /\ pc' = [pc EXCEPT ![Root] = "queued"]
  /\ group' = "wait"
  /\ UNCHANGED <<serverVars, stateVars, depth, childJobs, nextChild, isUpToDate,
                 groupError, ctxDone, iterVars, printVars>>

AllFinished == \A w \in Workflow : pc[w] \notin Active

\* Mutant: the goroutine does not wait for the tasks.
GroupWait_Early ==
  /\ group = "wait"
  /\ group' = "sendDone"
  /\ ctxDone' = TRUE
  /\ UNCHANGED <<serverVars, stateVars, jobVars, queue, groupError, iterVars, printVars>>

\* Mutant: the error group.Wait returns is dropped.
GroupWait_NoError ==
  /\ group = "wait"
  /\ AllFinished \/ ctxDone
  /\ group' = "sendDone"
  /\ ctxDone' = TRUE
  /\ UNCHANGED <<serverVars, stateVars, jobVars, queue, groupError, iterVars, printVars>>

\* group.Wait returns when every submitted task has finished or when the
\* context is done, and cancels the context.  When only the command's own
\* context was cancelled, the library may report that or nothing.
GroupWait ==
  /\ group = "wait"
  /\ AllFinished \/ ctxDone
  /\ group' \in IF groupError THEN {"sendError"}
                ELSE IF cancelled THEN {"sendError", "sendDone"}
                ELSE {"sendDone"}
  /\ ctxDone' = TRUE
  /\ UNCHANGED <<serverVars, stateVars, jobVars, queue, groupError, iterVars, printVars>>
-----------------------------------------------------------------------------
(***************************************************************************)
(* The pool: at most Concurrency workers; a task whose context is already   *)
(* cancelled is not run.                                                    *)
(***************************************************************************)
TakeTask ==
  /\ queue # <<>>
  /\ Cardinality(Busy) < Concurrency
  /\ pc' = [pc EXCEPT ![Head(queue)] = IF ctxDone THEN "dropped" ELSE "fetch"]
  /\ queue' = Tail(queue)
  /\ UNCHANGED <<serverVars, stateVars, depth, childJobs, nextChild, isUpToDate,
                 groupError, ctxDone, group, iterVars, printVars>>

\* Mutant: an error does not cancel the other tasks.
FailJob_NoCancel(w) ==
  /\ pc' = [pc EXCEPT ![w] = "failed"]
  /\ groupError' = TRUE
  /\ UNCHANGED <<serverVars, stateVars, depth, childJobs, nextChild, isUpToDate,
                 queue, ctxDone, group, iterVars, printVars>>

\* The first error of a task is recorded and cancels the group's context.
FailJob(w) ==
  /\ pc' = [pc EXCEPT ![w] = "failed"]
  /\ groupError' = TRUE
  /\ ctxDone' = TRUE
  /\ UNCHANGED <<serverVars, stateVars, depth, childJobs, nextChild, isUpToDate,
                 queue, group, iterVars, printVars>>
-----------------------------------------------------------------------------
(***************************************************************************)
(* WorkflowStateJob.Run                                                     *)
(***************************************************************************)
\* WorkflowExecutionState.Update, as far as the job of another execution or
\* the printer can tell.
UpdatedStatus(w, e) ==
  CASE e.type = "Started"      -> [status EXCEPT ![w] = "Running"]
    [] e.type = "Closed"       -> [status EXCEPT ![w] = e.status]
    [] e.type = "ChildStarted" -> [status EXCEPT ![e.child] = "Running"]
    [] e.type = "ChildClosed"  -> [status EXCEPT ![e.child] = e.status]
    [] OTHER                   -> status

\* historyIterator.Next returned an event: state.Update(event).
Fetch(w) ==
  /\ pc[w] = "fetch"
  /\ lastEventId[w] < available[w]
  /\ lastEventId' = [lastEventId EXCEPT ![w] = @ + 1]
  /\ status' = UpdatedStatus(w, History[w][lastEventId[w] + 1])
  /\ pc' = [pc EXCEPT ![w] = "send"]
  /\ UNCHANGED <<serverVars, historyLength, depth, childJobs, nextChild, isUpToDate,
                 poolVars, iterVars, printVars>>

FetchFails(w) ==
  /\ pc[w] = "fetch"
  /\ MayFail \/ ctxDone
  /\ FailJob(w)

\* Mutant: the history is not long polled.
FetchEnds_NoLongPoll(w) ==
  /\ pc[w] = "fetch"
  /\ lastEventId[w] = available[w]
  /\ pc' = [pc EXCEPT ![w] = "done"]
  /\ UNCHANGED <<serverVars, stateVars, depth, childJobs, nextChild, isUpToDate,
                 poolVars, iterVars, printVars>>

\* Mutant: a long poll goes on after the closing event.
FetchEnds_Endless(w) ==
  /\ pc[w] = "fetch"
  /\ lastEventId[w] = available[w]
  /\ w \in Archived
  /\ pc' = [pc EXCEPT ![w] = "done"]
  /\ UNCHANGED <<serverVars, stateVars, depth, childJobs, nextChild, isUpToDate,
                 poolVars, iterVars, printVars>>

\* historyIterator.HasNext is false: after the closing event of a long poll,
\* or at the end of what an archived execution has.
FetchEnds(w) ==
  /\ pc[w] = "fetch"
  /\ lastEventId[w] = available[w]
  /\ \/ w \in Archived
     \/ lastEventId[w] = Len(History[w]) /\ IsClosed(w)
  /\ pc' = [pc EXCEPT ![w] = "done"]
  /\ UNCHANGED <<serverVars, stateVars, depth, childJobs, nextChild, isUpToDate,
                 poolVars, iterVars, printVars>>

CurrentEvent(w) == History[w][lastEventId[w]]

\* Mutant: the depth is not looked at.
SpawnsChild_AnyDepth(w) == CurrentEvent(w).type = "ChildStarted"

SpawnsChild(w) == CurrentEvent(w).type = "ChildStarted" /\ depth[w] # 0

\* Mutant: off by one at the described length.
CatchesUp_Beyond(w) ==
  /\ ~ isUpToDate[w]
  /\ lastEventId[w] > historyLength[w]
  /\ depth[w] # 0

\* Mutant: the loop over childJobs runs again at every later event.
CatchesUp_Again(w) == lastEventId[w] >= historyLength[w] /\ depth[w] # 0

CatchesUp(w) ==
  /\ ~ isUpToDate[w]
  /\ lastEventId[w] >= historyLength[w]
  /\ depth[w] # 0

\* Mutant: every child is submitted as soon as it starts.
AfterEvent_AtOnce(w) ==
  IF SpawnsChild(w) THEN "submit"
  ELSE IF CatchesUp(w) THEN "dispatch"
  ELSE "fetch"

\* Mutant: a child that starts late is not submitted.
AfterEvent_NotLate(w) == IF CatchesUp(w) THEN "dispatch" ELSE "fetch"

\* Where the job goes after an event: into the loop over all its childJobs
\* when it catches up, into the Submit of the child it just created when it
\* had caught up before, else back to the history.
AfterEvent(w) ==
  IF CatchesUp(w) THEN "dispatch"
  ELSE IF SpawnsChild(w) /\ isUpToDate[w] THEN "submit"
  ELSE "fetch"

\* An event that creates no child job.
HandleEvent(w) ==
  /\ pc[w] = "handle"
  /\ ~ SpawnsChild(w)
  /\ pc' = [pc EXCEPT ![w] = AfterEvent(w)]
  /\ isUpToDate' = [isUpToDate EXCEPT ![w] = @ \/ CatchesUp(w)]
  /\ nextChild' = [nextChild EXCEPT ![w] = IF CatchesUp(w) THEN 1 ELSE @]
  /\ UNCHANGED <<serverVars, stateVars, depth, childJobs, poolVars, iterVars, printVars>>

\* GetChildJob describes the child and creates its job, one level less deep.
HandleChildStarted(w) ==
  LET c == CurrentEvent(w).child
  IN  /\ pc[w] = "handle"
      /\ SpawnsChild(w)
      /\ ~ ctxDone
      /\ historyLength' = [historyLength EXCEPT ![c] = Describe(c)]
      /\ depth' = [depth EXCEPT ![c] = depth[w] - 1]
      /\ childJobs' = [childJobs EXCEPT ![w] = Append(@, c)]
      /\ pc' = [pc EXCEPT ![c] = "created", ![w] = AfterEvent(w)]
      /\ isUpToDate' = [isUpToDate EXCEPT ![w] = @ \/ CatchesUp(w)]
      /\ nextChild' = [nextChild EXCEPT ![w] =
                         IF CatchesUp(w) THEN 1
                         ELSE IF isUpToDate[w] THEN Len(childJobs[w]) + 1
                         ELSE @]
      /\ UNCHANGED <<serverVars, status, lastEventId, poolVars, iterVars, printVars>>

HandleChildFails(w) ==
  /\ pc[w] = "handle"
  /\ SpawnsChild(w)
  /\ MayFail \/ ctxDone
  /\ FailJob(w)

\* Mutant: whatever has not closed is folded away.
ShouldStart_NotRunning(c) == FetchAll \/ status[c] # "Running"

ShouldStart(c) == FetchAll \/ status[c] \notin FoldStatus

\* group.Submit blocks the worker that calls it while the queue is full.
Submit(w, back) ==
  LET c == childJobs[w][nextChild[w]]
  IN  /\ Len(queue) < QueueCap
      /\ queue' = Append(queue, c)
      /\ pc' = [pc EXCEPT ![w] = back, ![c] = "queued"]
      /\ nextChild' = [nextChild EXCEPT ![w] = @ + 1]
      /\ UNCHANGED <<serverVars, stateVars, depth, childJobs, isUpToDate, groupError,
                     ctxDone, group, iterVars, printVars>>

DispatchSubmit(w) ==
  /\ pc[w] = "dispatch"
  /\ nextChild[w] <= Len(childJobs[w])
  /\ ShouldStart(childJobs[w][nextChild[w]])
  /\ Submit(w, "dispatch")

\* A folded child counts as read.
DispatchSkip(w) ==
  LET c == childJobs[w][nextChild[w]]
  IN  /\ pc[w] = "dispatch"
      /\ nextChild[w] <= Len(childJobs[w])
      /\ ~ ShouldStart(c)
      /\ pc' = [pc EXCEPT ![c] = "skipped"]
      /\ lastEventId' = [lastEventId EXCEPT ![c] = historyLength[c]]
      /\ nextChild' = [nextChild EXCEPT ![w] = @ + 1]
      /\ UNCHANGED <<serverVars, status, historyLength, depth, childJobs, isUpToDate,
                     poolVars, iterVars, printVars>>

DispatchEnds(w) ==
  /\ pc[w] = "dispatch"
  /\ nextChild[w] > Len(childJobs[w])
  /\ pc' = [pc EXCEPT ![w] = "fetch"]
  /\ UNCHANGED <<serverVars, stateVars, depth, childJobs, nextChild, isUpToDate,
                 poolVars, iterVars, printVars>>

\* A child that started after its parent had caught up is submitted at once.
SubmitLateChild(w) ==
  /\ pc[w] = "submit"
  /\ Submit(w, "fetch")
-----------------------------------------------------------------------------
(***************************************************************************)
(* The iterator: HasNext selects between the unbuffered updateChan,         *)
(* errorChan and doneChan; Next's result is stored in t.update.             *)
(***************************************************************************)
IterUpdate(w) ==
  /\ iter = "wait"
  /\ pc[w] = "send"
  /\ pc' = [pc EXCEPT ![w] = "handle"]
  /\ hasUpdate' = TRUE
  /\ UNCHANGED <<serverVars, stateVars, depth, childJobs, nextChild, isUpToDate,
                 poolVars, iter, printVars>>

\* Next returns a nil update with the error.
IterError ==
  /\ iter = "wait"
  /\ group = "sendError"
  /\ group' = "end"
  /\ iter' = "error"
  /\ hasUpdate' = FALSE
  /\ UNCHANGED <<serverVars, stateVars, jobVars, queue, groupError, ctxDone, printVars>>

IterDone ==
  /\ iter = "wait"
  /\ group = "sendDone"
  /\ group' = "end"
  /\ iter' = "done"
  /\ UNCHANGED <<serverVars, stateVars, jobVars, queue, groupError, ctxDone, hasUpdate,
                 printVars>>
-----------------------------------------------------------------------------
(***************************************************************************)
(* PrintUpdates: a loop over the ticker, doneChan, sigChan and errChan.     *)
(***************************************************************************)
Printing == group # "start"

\* A tick with a progress line calls GetNumberOfEvents, which reads the
\* children's counters first and the root's own last, without a lock.
TickCount ==
  /\ Printing
  /\ counted = NotCounted
  /\ hasUpdate
  /\ ~ upToDate
  /\ counted' = [current |-> [w \in Children |-> lastEventId[w]],
                 total   |-> [w \in Children |-> historyLength[w]]]
  /\ UNCHANGED <<serverVars, stateVars, jobVars, poolVars, iterVars, upToDate, signalled,
                 cancelled, printed, outcome>>

\* Mutant: the root's own length is not counted.
TickProgress_NoRoot ==
  LET current == SumFunction(counted.current) + lastEventId[Root]
      total   == SumFunction(counted.total)
  IN  /\ counted # NotCounted
      /\ upToDate' = (total > 0 /\ current >= total /\ ~ IsArchived(Root))
      /\ counted' = NotCounted
      /\ UNCHANGED <<serverVars, stateVars, jobVars, poolVars, iterVars, signalled,
                     cancelled, printed, outcome>>

\* Mutant: up to date only beyond the described length.
TickProgress_Strict ==
  LET current == SumFunction(counted.current) + lastEventId[Root]
      total   == SumFunction(counted.total) + historyLength[Root]
  IN  /\ counted # NotCounted
      /\ upToDate' = (total > 0 /\ current > total /\ ~ IsArchived(Root))
      /\ counted' = NotCounted
      /\ UNCHANGED <<serverVars, stateVars, jobVars, poolVars, iterVars, signalled,
                     cancelled, printed, outcome>>

TickProgress ==
  LET current == SumFunction(counted.current) + lastEventId[Root]
      total   == SumFunction(counted.total) + historyLength[Root]
  IN  /\ counted # NotCounted
      /\ upToDate' = (total > 0 /\ current >= total /\ ~ IsArchived(Root))
      /\ counted' = NotCounted
      /\ UNCHANGED <<serverVars, stateVars, jobVars, poolVars, iterVars, signalled,
                     cancelled, printed, outcome>>

\* Writing to the terminal failed during a tick.
TickFails ==
  /\ Printing
  /\ counted = NotCounted
  /\ hasUpdate
  /\ MayFail
  /\ outcome' = "error"
  /\ UNCHANGED <<serverVars, stateVars, jobVars, poolVars, iterVars, counted, upToDate,
                 signalled, cancelled, printed>>

\* PrintAndExit: nothing is printed when the last update is nil.
PrintAndExit(how) ==
  /\ \/ outcome' = how /\ printed' = hasUpdate
     \/ MayFail /\ hasUpdate /\ outcome' = "error" /\ printed' = FALSE
  /\ UNCHANGED <<serverVars, stateVars, jobVars, poolVars, iterVars, counted, upToDate,
                 signalled, cancelled>>

ReceiveDone ==
  /\ Printing
  /\ counted = NotCounted
  /\ iter = "done"
  /\ PrintAndExit("done")

ReceiveSignal ==
  /\ Printing
  /\ counted = NotCounted
  /\ signalled
  /\ PrintAndExit("interrupted")

ReceiveError ==
  /\ Printing
  /\ counted = NotCounted
  /\ iter = "error"
  /\ outcome' = "error"
  /\ UNCHANGED <<serverVars, stateVars, jobVars, poolVars, iterVars, counted, upToDate,
                 signalled, cancelled, printed>>

\* SIGINT and SIGTERM go to sigChan and cancel the command's context; SIGHUP
\* only cancels the context.
Interrupt(toTracer) ==
  /\ MayInterrupt
  /\ ~ cancelled
  /\ cancelled' = TRUE
  /\ ctxDone' = TRUE
  /\ signalled' = toTracer
  /\ UNCHANGED <<serverVars, stateVars, jobVars, queue, groupError, group, iterVars,
                 counted, upToDate, printed, outcome>>
-----------------------------------------------------------------------------
JobStep(w) ==
  \/ Fetch(w)
  \/ FetchFails(w)
  \/ FetchEnds(w)
  \/ HandleEvent(w)
  \/ HandleChildStarted(w)
  \/ HandleChildFails(w)
  \/ DispatchSubmit(w)
  \/ DispatchSkip(w)
  \/ DispatchEnds(w)
  \/ SubmitLateChild(w)

GroupStep == StartTrace \/ StartFails \/ SubmitRoot \/ GroupWait

IterStep == IterError \/ IterDone \/ \E w \in Workflow : IterUpdate(w)

PrintStep ==
  TickCount \/ TickProgress \/ TickFails \/ ReceiveDone \/ ReceiveSignal \/ ReceiveError

Step ==
  \/ GroupStep
  \/ TakeTask
  \/ IterStep
  \/ PrintStep
  \/ \E w \in Workflow : JobStep(w) \/ ServerAppend(w)
  \/ \E toTracer \in BOOLEAN : Interrupt(toTracer)

\* The other goroutines die with the process.
Exited == outcome # "running" /\ UNCHANGED vars

Next == (outcome = "running" /\ Step) \/ Exited

Spec == Init /\ [][Next]_vars

\* Go runs every runnable goroutine, and a select with a ready case that stays
\* ready takes it: no step that stays possible is put off for ever.  Nothing
\* is assumed of the server, of errors or of signals.
JobProgress(w) ==
  \/ Fetch(w) \/ FetchEnds(w) \/ HandleEvent(w) \/ HandleChildStarted(w)
  \/ DispatchSubmit(w) \/ DispatchSkip(w) \/ DispatchEnds(w) \/ SubmitLateChild(w)
  \/ ctxDone /\ (FetchFails(w) \/ HandleChildFails(w))

Running == outcome = "running"

Fairness ==
  /\ \A w \in Workflow : WF_vars(Running /\ JobProgress(w))
  /\ \A w \in Workflow : WF_vars(Running /\ IterUpdate(w))
  /\ WF_vars(Running /\ (StartTrace \/ (ctxDone /\ StartFails)))
  /\ WF_vars(Running /\ SubmitRoot)
  /\ WF_vars(Running /\ GroupWait)
  /\ WF_vars(Running /\ TakeTask)
  /\ WF_vars(Running /\ IterError)
  /\ WF_vars(Running /\ IterDone)
  /\ WF_vars(Running /\ TickCount)
  /\ WF_vars(Running /\ TickProgress)
  /\ SF_vars(Running /\ (ReceiveDone \/ ReceiveSignal \/ ReceiveError))

FairSpec == Spec /\ Fairness
-----------------------------------------------------------------------------
TypeOK ==
  /\ available \in [Workflow -> Nat]
  /\ status \in [Workflow -> Status]
  /\ lastEventId \in [Workflow -> Nat]
  /\ historyLength \in [Workflow -> Nat]
  /\ pc \in [Workflow -> JobState]
  /\ depth \in [Workflow -> Int]
  /\ childJobs \in [Workflow -> Seq(Workflow)]
  /\ nextChild \in [Workflow -> Nat \ {0}]
  /\ isUpToDate \in [Workflow -> BOOLEAN]
  /\ queue \in Seq(Workflow)
  /\ groupError \in BOOLEAN
  /\ ctxDone \in BOOLEAN
  /\ group \in {"start", "submit", "wait", "sendError", "sendDone", "end"}
  /\ iter \in {"wait", "error", "done"}
  /\ hasUpdate \in BOOLEAN
  /\ counted = NotCounted \/ counted \in [current : [Children -> Nat], total : [Children -> Nat]]
  /\ upToDate \in BOOLEAN
  /\ signalled \in BOOLEAN
  /\ cancelled \in BOOLEAN
  /\ printed \in BOOLEAN
  /\ outcome \in {"running", "done", "error", "interrupted"}

\* When the command ends normally, every execution whose job was created is
\* settled: its job ran to the end of its history or it was folded away.  No
\* child job is left unsubmitted in its parent's childJobs, in the pool's
\* queue, or half read (the task group counts a child before its parent ends).
DoneMeansSettled ==
  outcome = "done" /\ ~ cancelled =>
    /\ pc[Root] = "done"
    /\ \A w \in Workflow : pc[w] \in {"none", "skipped", "done"}

\* At a normal end the tree is complete down to --depth: every child a fetched
\* history starts has been fetched too or folded away, unless it is too deep,
\* and then it has no job.  Children found before, at and after the moment the
\* parent catches up take different paths to the pool.
DoneCoversTree ==
  outcome = "done" /\ ~ cancelled =>
    \A p \in Workflow : pc[p] = "done" =>
      \A i \in DOMAIN History[p] : History[p][i].type = "ChildStarted" =>
        IF depth[p] = 0 THEN pc[History[p][i].child] = "none"
        ELSE pc[History[p][i].child] \in {"skipped", "done"}

\* The tree printed at a normal end shows, for every execution whose history
\* was fetched, all of its events and the status its own history ends with,
\* whatever the order in which its parent's events and its own were applied.
DoneShowsFinalState ==
  outcome = "done" /\ ~ cancelled =>
    /\ printed
    /\ \A w \in Workflow :
         pc[w] = "done" => /\ lastEventId[w] = Len(History[w])
                           /\ status[w] = FinalStatus(w)

\* An error of any job ends the command with an error: a normal end, unless
\* the user interrupted, means no job failed and none was dropped.
DoneMeansNoError ==
  outcome = "done" /\ ~ cancelled =>
    ~ groupError /\ \A w \in Workflow : pc[w] \notin {"failed", "dropped"}

\* A job is submitted to the pool at most once: the submissions made when the
\* parent catches up and those of children that start later never overlap.
SubmittedOnce ==
  /\ \A i \in DOMAIN queue : pc[queue[i]] = "queued"
  /\ \A i, j \in DOMAIN queue : queue[i] = queue[j] => i = j

\* A job that has ended in any way, or was folded away, never moves again.
EndedJobsStayEnded ==
  [][\A w \in Workflow :
       pc[w] \in {"skipped", "dropped", "failed", "done"} => pc'[w] = pc[w]]_vars

\* No child's history is read before its parent has caught up with the length
\* described when the parent's job was created.
ParentFirst ==
  \A p \in Workflow : \A i \in DOMAIN childJobs[p] :
    pc[childJobs[p][i]] # "created" =>
      isUpToDate[p] /\ lastEventId[p] >= historyLength[p]

\* Although counters are summed over the tree and read without a lock, the
\* progress line never gives way to the tree before the root has caught up.
UpToDateCoversRoot == upToDate => lastEventId[Root] >= historyLength[Root]

\* What was folded away is folded in the final tree: the status that made
\* ShouldStart false is still one of the fold statuses at a normal end.
SkippedStayFolded ==
  outcome = "done" /\ ~ cancelled =>
    \A w \in Workflow : pc[w] = "skipped" => status[w] \in FoldStatus

\* The pool can always make progress: its workers are never all blocked in a
\* Submit of their own to a full queue.
SubmittersNotWedged ==
  ~ /\ Len(queue) = QueueCap
    /\ Cardinality(Busy) = Concurrency
    /\ \A w \in Busy : \/ pc[w] = "submit"
                       \/ /\ pc[w] = "dispatch"
                          /\ nextChild[w] <= Len(childJobs[w])
                          /\ ShouldStart(childJobs[w][nextChild[w]])

\* Once every execution of the tree has closed, the command ends.
TraceEnds ==
  (\A w \in Workflow : IsClosed(w) /\ available[w] = Len(History[w])) ~> (outcome # "running")

\* The progress line gives way to the tree, or the command ends, even if
\* executions stay open for ever and keep their workers: all that is needed is
\* that no job waits for ever for a worker.  If one does, the line stays, as
\* the TODO in PrintUpdates says.  (An archived root is shown at the end only.)
EventuallyUpToDate ==
  Root \notin Archived /\ (\A w \in Workflow : []<>(pc[w] # "queued")) =>
    <>(upToDate \/ outcome # "running")

\* An error of a job, or a signal, ends the command even if no execution ever
\* moves again and goroutines are blocked on the channels.
FailureEnds == (groupError \/ cancelled) ~> (outcome # "running")
-----------------------------------------------------------------------------
\* The session seen from outside.  An end that follows a signal is a giving
\* up, whichever channel PrintUpdates happened to receive from.
known == {w \in Workflow : pc[w] # "none"}
settled == {w \in Workflow : pc[w] \in {"skipped", "done"}}
sessionOutcome == IF outcome = "done" /\ cancelled THEN "interrupted" ELSE outcome

Session == INSTANCE TraceSession WITH outcome <- sessionOutcome

\* The trace implements the abstract session.
ImplementsSession == Session!Spec
=============================================================================
