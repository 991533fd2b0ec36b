-------------------------- MODULE WorkflowTraceInv --------------------------
(***************************************************************************)
(* The inductive invariant behind the theorems of WorkflowTrace_proofs.     *)
(***************************************************************************)
EXTENDS WorkflowTrace

\* The root job exists once the trace has started, and only it before the
\* group goroutine has submitted it.
RootInv ==
  /\ group = "start" => \A w \in Workflow : pc[w] = "none"
  /\ group = "submit" => /\ pc[Root] = "created"
                         /\ \A w \in Children : pc[w] = "none"
  /\ group \notin {"start", "submit"} => pc[Root] \notin {"none", "created", "skipped"}

\* Server and job counters stay within the history.
LengthOf(w) ==
  /\ InitialLength[w] <= available[w]
  /\ available[w] <= Len(History[w])
  /\ historyLength[w] <= Len(History[w])
  /\ lastEventId[w] <= Len(History[w])
  /\ pc[w] \in {"none", "created", "queued", "dropped"} => lastEventId[w] = 0
  /\ pc[w] \in {"send", "handle"} => lastEventId[w] > 0
  /\ pc[w] = "done" => lastEventId[w] = Len(History[w])

LengthInv == \A w \in Workflow : LengthOf(w)

\* Only a job that has run has children, and a job that ran has caught up as
\* soon as it has handled an event at or beyond the described length.
CatchUpOf(w) ==
  /\ pc[w] \in {"none", "created", "queued", "skipped", "dropped"} =>
       childJobs[w] = <<>> /\ ~ isUpToDate[w]
  /\ childJobs[w] # <<>> => depth[w] # 0 /\ lastEventId[w] > 0
  /\ isUpToDate[w] => lastEventId[w] >= historyLength[w]
  /\ /\ pc[w] \in {"fetch", "done"}
     /\ depth[w] # 0
     /\ lastEventId[w] > 0
     /\ lastEventId[w] >= historyLength[w]
     => isUpToDate[w]

CatchUpInv == \A w \in Workflow : CatchUpOf(w)

\* Where the loop over childJobs stands.
LoopOf(w) ==
  /\ pc[w] \in {"fetch", "send", "handle", "done"} /\ isUpToDate[w] =>
       nextChild[w] = Len(childJobs[w]) + 1
  /\ pc[w] = "submit" => isUpToDate[w] /\ nextChild[w] = Len(childJobs[w])
  /\ pc[w] = "dispatch" => isUpToDate[w] /\ nextChild[w] <= Len(childJobs[w]) + 1

LoopInv == \A w \in Workflow : LoopOf(w)

\* A child job is waiting to be submitted exactly when its parent has not
\* caught up, or the parent's loop has not reached it.
ChildOf(p, i) ==
  /\ childJobs[p][i] # Root
  /\ pc[childJobs[p][i]] # "none"
  /\ pc[childJobs[p][i]] = "created" <=> (~ isUpToDate[p] \/ i >= nextChild[p])

ChildInv == \A p \in Workflow : \A i \in DOMAIN childJobs[p] : ChildOf(p, i)

\* Every job but the root's is in the childJobs of a parent,
HasParent ==
  \A c \in Children : pc[c] # "none" =>
    \E p \in Workflow : \E i \in DOMAIN childJobs[p] : childJobs[p][i] = c

\* of one parent, once,
OneParent ==
  \A p, q \in Workflow : \A i \in DOMAIN childJobs[p], j \in DOMAIN childJobs[q] :
    childJobs[p][i] = childJobs[q][j] => p = q /\ i = j

\* because of an event that parent has handled.
StartHandled(p, i) ==
  \E k \in DOMAIN History[p] :
    /\ History[p][k].type = "ChildStarted"
    /\ History[p][k].child = childJobs[p][i]
    /\ k <= lastEventId[p]
    /\ pc[p] \in {"send", "handle"} => k < lastEventId[p]

EventInv == \A p \in Workflow : \A i \in DOMAIN childJobs[p] : StartHandled(p, i)

\* The context is done only for a reason, and a normal end of the task group
\* is reported only when all tasks have finished without an error.
GroupInv ==
  /\ \A w \in Workflow : pc[w] = "failed" => groupError
  /\ \A w \in Workflow : pc[w] = "dropped" => groupError \/ cancelled
  /\ ctxDone /\ ~ cancelled /\ ~ groupError => group \in {"sendDone", "end"}
  /\ group \in {"sendError", "sendDone", "end"} =>
       groupError \/ cancelled \/ AllFinished
  /\ (group = "sendDone" \/ iter = "done") /\ groupError => cancelled
  /\ iter = "done" => group = "end"
  /\ outcome = "done" => iter = "done"

IInv ==
  /\ TypeOK
  /\ RootInv
  /\ LengthInv
  /\ CatchUpInv
  /\ LoopInv
  /\ ChildInv
  /\ HasParent
  /\ OneParent
  /\ EventInv
  /\ SubmittedOnce
  /\ GroupInv
-----------------------------------------------------------------------------
(***************************************************************************)
(* What the tree and the progress line show, on top of IInv.                *)
(***************************************************************************)
\* A job that runs, or ran to its end, has created the job of every child
\* whose start it has handled, unless the tree is deep enough there.
CoveredOf(p) ==
  pc[p] \in Working \cup {"done"} /\ depth[p] # 0 =>
    \A k \in DOMAIN History[p] :
      /\ History[p][k].type = "ChildStarted"
      /\ k <= lastEventId[p]
      /\ pc[p] \in {"send", "handle"} => k < lastEventId[p]
      => \E i \in DOMAIN childJobs[p] : childJobs[p][i] = History[p][k].child

CoverInv == \A p \in Workflow : CoveredOf(p)

\* An execution read to its closing event shows its final status; of one not
\* read its parent has told the start, the end or neither.
StatusOf(w) ==
  /\ pc[w] = "done" => IsClosed(w)
  /\ /\ pc[w] \in Working \cup {"done"}
     /\ lastEventId[w] = Len(History[w])
     /\ IsClosed(w)
     => status[w] = FinalStatus(w)
  /\ pc[w] \in {"none", "created", "queued", "dropped", "skipped"} =>
       \/ status[w] \in {"Unspecified", "Running"}
       \/ IsClosed(w) /\ status[w] = FinalStatus(w)

StatusInv == \A w \in Workflow : StatusOf(w)

\* Only statuses of closed executions are folded.
FoldsClosedOnly == FoldStatus \cap {"Unspecified", "Running"} = {}

FoldInv == FoldsClosedOnly => \A w \in Workflow : pc[w] = "skipped" => status[w] \in FoldStatus

\* Before the root has caught up no child has been submitted, and a count
\* taken then is of jobs that have read nothing.
BehindRoot == lastEventId[Root] < historyLength[Root]

CountInv ==
  /\ BehindRoot => \A w \in Children : pc[w] \in {"none", "created"}
  /\ BehindRoot /\ counted # NotCounted => \A w \in Children : counted.current[w] = 0
  /\ group = "start" => counted = NotCounted /\ ~ upToDate
  /\ UpToDateCoversRoot

\* The iterator has an update once some job has gone on from its first event.
ShownInv ==
  /\ iter # "error" =>
       \A w \in Workflow :
         pc[w] \in {"fetch", "handle", "dispatch", "submit", "done"} /\ lastEventId[w] > 0 =>
           hasUpdate
  /\ outcome = "done" => printed = hasUpdate

TreeInv ==
  /\ IInv
  /\ CoverInv
  /\ StatusInv
  /\ FoldInv
  /\ CountInv
  /\ ShownInv
=============================================================================
