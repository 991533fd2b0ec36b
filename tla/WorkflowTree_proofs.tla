------------------------- MODULE WorkflowTree_proofs -------------------------
(***************************************************************************)
(* What the trace shows, for every family of executions, every history and  *)
(* every option: the tree at a normal end and the progress line before it.  *)
(* TreeInv is shown to be inductive on top of IInv; the steps of one job    *)
(* are summed up first, so that each conjunct need only look at those.      *)
(***************************************************************************)
EXTENDS WorkflowTrace_proofs, FiniteSetTheorems

\* Where the job of w is, what it has read and how deep it is stay the same.
Stays(w) ==
  /\ pc'[w] = pc[w]
  /\ lastEventId'[w] = lastEventId[w]
  /\ depth'[w] = depth[w]

\* The job moves without reading anything.
Moves(w, from, to) ==
  /\ pc[w] \in from
  /\ pc'[w] \in to
  /\ lastEventId'[w] = lastEventId[w]
  /\ depth'[w] = depth[w]

\* The job is created.
IsCreated(w) ==
  /\ pc[w] = "none"
  /\ pc'[w] = "created"
  /\ lastEventId'[w] = lastEventId[w]

\* The job is folded away by its parent's.
IsFolded(w) ==
  /\ pc[w] = "created"
  /\ pc'[w] = "skipped"
  /\ w \in Children
  /\ status[w] \in FoldStatus
  /\ status' = status

\* The job reads its next event.
Reads(w) ==
  /\ Fetch(w)
  /\ pc[w] = "fetch"
  /\ pc'[w] = "send"
  /\ lastEventId'[w] = lastEventId[w] + 1
  /\ depth'[w] = depth[w]

\* All that one step can do to the job of w.
JobMove(w) ==
  \/ Stays(w)
  \/ IsCreated(w)
  \/ Moves(w, {"created"}, {"queued"}) /\ w = Root
  \/ Moves(w, {"created"}, {"queued"}) /\ \E p \in Workflow : Submits(p, w)
  \/ Moves(w, {"queued"}, {"dropped", "fetch"})
  \/ IsFolded(w) /\ \E p \in Workflow : Skips(p, w)
  \/ Reads(w)
  \/ Moves(w, {"send"}, {"handle"}) /\ hasUpdate'
  \/ Moves(w, {"handle"}, {"fetch", "dispatch", "submit"})
       /\ (HandleEvent(w) \/ \E x \in Children : Spawns(w, x))
  \/ Moves(w, {"dispatch", "submit"}, {"fetch"})
  \/ Moves(w, {"fetch"}, {"done"}) /\ FetchEnds(w)
  \/ Moves(w, {"fetch", "handle"}, {"failed"})

\* What is folded away has one of the statuses to fold.
LEMMA FoldedStatus ==
  ASSUME IInv, NEW p \in Workflow, DispatchSkip(p)
  PROVE  \E x \in Children : Skips(p, x) /\ status[x] \in FoldStatus /\ status' = status
<1>. DEFINE x == childJobs[p][nextChild[p]]
<1>1. AtChild(p) /\ pc[p] = "dispatch" /\ ~ ShouldStart(x) /\ status' = status
  BY DEF AtChild, DispatchSkip
<1>2. isUpToDate[p]
  BY <1>1 DEF IInv, LoopInv, LoopOf
<1>3. x \in Children /\ Skips(p, x)
  BY <1>1, <1>2, NextChildIsCreated DEF Children, Skips, DispatchSkip, serverVars, poolVars
<1>. QED
  BY <1>1, <1>3 DEF ShouldStart

\* Every step of the trace moves the job of w in one of those ways.
LEMMA JobMoves ==
  ASSUME IInv, Step, NEW w \in Workflow
  PROVE  JobMove(w)
<1>0. /\ pc \in [Workflow -> JobState]
      /\ lastEventId \in [Workflow -> Nat]
      /\ depth \in [Workflow -> Int]
      /\ Root \in Workflow
  BY JobTypes, RootAssumption DEF IInv
<1>1. CASE Quiet
  BY <1>1 DEF Quiet, JobMove, Stays
<1>2. CASE StartTrace
  BY <1>0, <1>2, StartTraceEffect DEF JobMove, Stays, IsCreated
<1>3. CASE SubmitRoot
  BY <1>0, <1>3, SubmitRootEffect DEF JobMove, Stays, Moves
<1>4. CASE TakeTask
  <2>1. PICK v \in Workflow, s \in {"dropped", "fetch"} : Takes(v, s)
    BY <1>4, TakeTaskEffect
  <2>. QED
    BY <1>0, <2>1 DEF Takes, JobMove, Stays, Moves
<1>5. ASSUME NEW v \in Workflow, IterUpdate(v)
      PROVE  JobMove(w)
  BY <1>0, <1>5, IterUpdateEffect DEF IterUpdate, JobMove, Stays, Moves
<1>6. ASSUME NEW v \in Workflow, ServerAppend(v)
      PROVE  JobMove(w)
  BY <1>6, ServerAppendEffect DEF JobMove, Stays
<1>7. ASSUME NEW v \in Workflow, Fetch(v)
      PROVE  JobMove(w)
  BY <1>0, <1>7, FetchEffect DEF JobMove, Stays, Reads
<1>8. ASSUME NEW v \in Workflow, FetchFails(v) \/ HandleChildFails(v)
      PROVE  JobMove(w)
  BY <1>0, <1>8, FailEffect DEF JobMove, Stays, Moves
<1>9. ASSUME NEW v \in Workflow, FetchEnds(v)
      PROVE  JobMove(w)
  BY <1>0, <1>9, FetchEndsEffect DEF JobMove, Stays, Moves
<1>10. ASSUME NEW v \in Workflow, DispatchEnds(v)
       PROVE  JobMove(w)
  BY <1>0, <1>10, DispatchEndsEffect DEF JobMove, Stays, Moves
<1>11. ASSUME NEW v \in Workflow, HandleEvent(v)
       PROVE  JobMove(w)
  BY <1>0, <1>11, HandleEventEffect DEF JobMove, Stays, Moves
<1>12. ASSUME NEW v \in Workflow, HandleChildStarted(v)
       PROVE  JobMove(w)
  <2>1. PICK x \in Children : Spawns(v, x)
    BY <1>12, HandleChildStartedEffect
  <2>2. x \in Workflow /\ x # v /\ pc[v] = "handle" /\ pc[x] = "none"
    BY <2>1 DEF Spawns, Children
  <2>3. CASE w = v
    <3>1. Moves(w, {"handle"}, {"fetch", "dispatch", "submit"})
      BY <1>0, <2>1, <2>2, <2>3 DEF Spawns, Moves
    <3>. QED
      BY <2>1, <2>3, <3>1 DEF JobMove
  <2>4. CASE w = x
    BY <1>0, <2>1, <2>2, <2>4 DEF Spawns, JobMove, IsCreated
  <2>5. CASE w # v /\ w # x
    BY <1>0, <2>1, <2>2, <2>5 DEF Spawns, JobMove, Stays
  <2>. QED
    BY <2>3, <2>4, <2>5
<1>13. ASSUME NEW v \in Workflow, DispatchSubmit(v) \/ SubmitLateChild(v)
       PROVE  JobMove(w)
  <2>1. PICK x \in Children : Submits(v, x)
    BY <1>13, SubmitEffect
  <2>. QED
    BY <1>0, <2>1 DEF Submits, Children, JobMove, Stays, Moves
<1>14. ASSUME NEW v \in Workflow, DispatchSkip(v)
       PROVE  JobMove(w)
  <2>1. PICK x \in Children : Skips(v, x) /\ status[x] \in FoldStatus /\ status' = status
    BY <1>14, FoldedStatus
  <2>2. CASE w = x
    <3>1. IsFolded(w)
      BY <1>0, <2>1, <2>2 DEF Skips, IsFolded, Children
    <3>. QED
      BY <2>1, <2>2, <3>1 DEF JobMove
  <2>3. CASE w # x
    BY <1>0, <2>1, <2>3 DEF Skips, Children, JobMove, Stays
  <2>. QED
    BY <2>2, <2>3
<1>. QED
  BY <1>1, <1>2, <1>3, <1>4, <1>5, <1>6, <1>7, <1>8, <1>9, <1>10, <1>11, <1>12, <1>13, <1>14,
     QuietSteps
  DEF Step, GroupStep, IterStep, JobStep

\* The job is with a worker or was read to its end.
IsRun(w) == pc[w] \in Working \cup {"done"}

\* An event a job has handled after a step it had handled before, or handles
\* in this step.
LEMMA HandledBefore ==
  ASSUME IInv, Step, NEW p \in Workflow, NEW k \in 1..Len(History[p]),
         IsRun(p)', Handled(p, k)', depth'[p] # 0
  PROVE  /\ depth[p] # 0
         /\ \/ IsRun(p) /\ Handled(p, k)
            \/ /\ pc[p] = "handle"
               /\ k = lastEventId[p]
               /\ HandleEvent(p) \/ \E x \in Children : Spawns(p, x)
<1>0. /\ lastEventId[p] \in Nat
      /\ k \in Nat /\ k > 0
      /\ pc[p] \in {"none", "created", "queued"} => lastEventId[p] = 0
  BY JobTypes, HistoryAssumption DEF IInv, LengthInv, LengthOf
<1>1. CASE Stays(p)
  BY <1>1 DEF Stays, IsRun, Handled
<1>2. CASE IsCreated(p) \/ IsFolded(p)
  BY <1>2 DEF IsCreated, IsFolded, IsRun, Working
<1>3. CASE Moves(p, {"created"}, {"queued"})
  BY <1>3 DEF Moves, IsRun, Working
<1>4. CASE Moves(p, {"queued"}, {"dropped", "fetch"})
  BY <1>0, <1>4 DEF Moves, Handled
<1>5. CASE Reads(p)
  BY <1>0, <1>5 DEF Reads, IsRun, Working, Handled
<1>6. CASE Moves(p, {"send"}, {"handle"})
  BY <1>0, <1>6 DEF Moves, IsRun, Working, Handled
<1>7. CASE /\ Moves(p, {"handle"}, {"fetch", "dispatch", "submit"})
           /\ HandleEvent(p) \/ \E x \in Children : Spawns(p, x)
  BY <1>0, <1>7 DEF Moves, IsRun, Working, Handled
<1>8. CASE Moves(p, {"dispatch", "submit"}, {"fetch"}) \/ Moves(p, {"fetch"}, {"done"})
  BY <1>0, <1>8 DEF Moves, IsRun, Working, Handled
<1>9. CASE Moves(p, {"fetch", "handle"}, {"failed"})
  BY <1>9 DEF Moves, IsRun, Working
<1>. QED
  BY <1>1, <1>2, <1>3, <1>4, <1>5, <1>6, <1>7, <1>8, <1>9, JobMoves DEF JobMove

\* Every step keeps the tree covered.
LEMMA CoverStep ==
  ASSUME IInv, CoverInv, Step
  PROVE  CoverInv'
<1>. SUFFICES ASSUME NEW p \in Workflow, IsRun(p)', depth'[p] # 0,
                     NEW k \in DOMAIN History[p], History[p][k].type = "ChildStarted",
                     Handled(p, k)'
              PROVE  \E i \in DOMAIN childJobs'[p] : childJobs'[p][i] = History[p][k].child
  BY DEF CoverInv, CoveredOf, IsRun, Handled
<1>1. k \in 1..Len(History[p])
  BY HistoryAssumption
<1>2. CASE IsRun(p) /\ Handled(p, k)
  <2>1. PICK i \in DOMAIN childJobs[p] : childJobs[p][i] = History[p][k].child
    BY <1>1, <1>2, HandledBefore DEF CoverInv, CoveredOf, IsRun, Handled
  <2>2. i \in DOMAIN childJobs'[p] /\ childJobs'[p][i] = childJobs[p][i]
    <3>1. CASE childJobs' = childJobs
      BY <2>1, <3>1
    <3>2. ASSUME NEW w \in Workflow, NEW x \in Children, Spawns(w, x)
          PROVE  i \in DOMAIN childJobs'[p] /\ childJobs'[p][i] = childJobs[p][i]
      BY <2>1, <3>2, SpawnAppends
    <3>. QED
      BY <3>1, <3>2, SpawnOrNot
  <2>. QED
    BY <2>1, <2>2
<1>3. CASE pc[p] = "handle" /\ k = lastEventId[p] /\ depth[p] # 0 /\ HandleEvent(p)
  <2>1. ~ SpawnsChild(p)
    BY <1>3, HandleEventEffect
  <2>. QED
    BY <1>3, <2>1 DEF SpawnsChild, CurrentEvent
<1>4. ASSUME k = lastEventId[p], NEW x \in Children, Spawns(p, x)
      PROVE  \E i \in DOMAIN childJobs'[p] : childJobs'[p][i] = History[p][k].child
  <2>1. x = History[p][k].child
    BY <1>4 DEF Spawns, CurrentEvent
  <2>. QED
    BY <1>4, <2>1, SpawnAppends
<1>. QED
  BY <1>1, <1>2, <1>3, <1>4, HandledBefore

\* The event a job is about to read.
NextEvent(v) == History[v][lastEventId[v] + 1]

\* It is an event of the history.
LEMMA NextEventTyped ==
  ASSUME IInv, NEW v \in Workflow, Fetch(v)
  PROVE  /\ lastEventId[v] + 1 \in DOMAIN History[v]
         /\ lastEventId[v] + 1 \in 1..Len(History[v])
         /\ NextEvent(v).type \in EventType
         /\ NextEvent(v).child \in Workflow
<1>1. /\ lastEventId[v] \in Nat
      /\ available[v] \in Nat
      /\ lastEventId[v] < available[v]
      /\ available[v] <= Len(History[v])
      /\ History[v] \in Seq(Event)
  BY JobTypes, HistoryAssumption DEF IInv, LengthInv, LengthOf, Fetch
<1>2. lastEventId[v] + 1 \in 1..Len(History[v])
  BY <1>1
<1>. QED
  BY <1>1, <1>2, HistoryTyped DEF NextEvent

\* A child whose start is about to be read has no job.
LEMMA StartIsNew ==
  ASSUME IInv, NEW v \in Workflow, Fetch(v), NextEvent(v).type = "ChildStarted"
  PROVE  pc[NextEvent(v).child] = "none"
<1>. DEFINE c == NextEvent(v).child
            n == lastEventId[v] + 1
<1>1. n \in DOMAIN History[v] /\ c \in Workflow
  BY NextEventTyped
<1>2. c \in Children
  BY <1>1, ParentAssumption DEF NextEvent, Children
<1>. SUFFICES ASSUME pc[c] # "none" PROVE FALSE
  OBVIOUS
<1>3. PICK p \in Workflow : \E i \in DOMAIN childJobs[p] : childJobs[p][i] = c
  BY <1>2 DEF IInv, HasParent
<1>4. PICK i \in DOMAIN childJobs[p] : childJobs[p][i] = c
  BY <1>3
<1>5. PICK k \in DOMAIN History[p] :
        /\ History[p][k].type = "ChildStarted"
        /\ History[p][k].child = c
        /\ k <= lastEventId[p]
  BY <1>4 DEF IInv, EventInv, StartHandled
<1>6. p = v /\ k = n
  BY <1>1, <1>5, ParentAssumption DEF NextEvent
<1>7. lastEventId[v] \in Nat
  BY JobTypes DEF IInv
<1>. QED
  BY <1>5, <1>6, <1>7

\* Only reading an event changes a status.
LEMMA StatusEffect ==
  ASSUME IInv, Step
  PROVE  \/ status' = status
         \/ \E v \in Workflow : Fetch(v) /\ status' = UpdatedStatus(v, NextEvent(v))
<1>1. CASE StartTrace \/ StartFails \/ SubmitRoot \/ GroupWait
  BY <1>1 DEF StartTrace, StartFails, SubmitRoot, GroupWait, stateVars
<1>2. CASE TakeTask \/ IterError \/ IterDone
  BY <1>2 DEF TakeTask, IterError, IterDone, stateVars
<1>3. CASE PrintStep
  BY <1>3 DEF PrintStep, TickCount, TickProgress, TickFails, ReceiveDone, ReceiveSignal,
              ReceiveError, PrintAndExit, stateVars
<1>4. ASSUME NEW v \in Workflow, ServerAppend(v) \/ IterUpdate(v)
      PROVE  status' = status
  BY <1>4 DEF ServerAppend, IterUpdate, stateVars
<1>5. ASSUME NEW v \in Workflow, FetchFails(v) \/ HandleChildFails(v)
      PROVE  status' = status
  BY <1>5 DEF FetchFails, HandleChildFails, FailJob, stateVars
<1>6. ASSUME NEW v \in Workflow, FetchEnds(v) \/ HandleEvent(v) \/ DispatchEnds(v)
      PROVE  status' = status
  BY <1>6 DEF FetchEnds, HandleEvent, DispatchEnds, stateVars
<1>7. ASSUME NEW v \in Workflow, HandleChildStarted(v) \/ DispatchSkip(v)
      PROVE  status' = status
  BY <1>7 DEF HandleChildStarted, DispatchSkip
<1>8. ASSUME NEW v \in Workflow, DispatchSubmit(v) \/ SubmitLateChild(v)
      PROVE  status' = status
  BY <1>8 DEF DispatchSubmit, SubmitLateChild, Submit, stateVars
<1>9. ASSUME NEW v \in Workflow, Fetch(v)
      PROVE  status' = UpdatedStatus(v, NextEvent(v))
  BY <1>9 DEF Fetch, NextEvent
<1>10. ASSUME NEW toTracer \in BOOLEAN, Interrupt(toTracer)
       PROVE  status' = status
  BY <1>10 DEF Interrupt, stateVars
<1>. QED
  BY <1>1, <1>2, <1>3, <1>4, <1>5, <1>6, <1>7, <1>8, <1>9, <1>10
  DEF Step, GroupStep, IterStep, JobStep

\* What reading an event of v says of an execution w that is not v: that it
\* started, and then its job does not exist yet, or how it closed.
LEMMA StatusOfOther ==
  ASSUME IInv, NEW v \in Workflow, Fetch(v), status' = UpdatedStatus(v, NextEvent(v)),
         NEW w \in Workflow, w # v
  PROVE  \/ status'[w] = status[w]
         \/ status'[w] = "Running" /\ pc[w] = "none"
         \/ status'[w] = FinalStatus(w) /\ IsClosed(w)
<1>. DEFINE e == NextEvent(v)
<1>0. /\ status \in [Workflow -> Status]
      /\ e.type \in EventType
      /\ e.child \in Workflow
      /\ lastEventId[v] + 1 \in DOMAIN History[v]
  BY NextEventTyped DEF IInv, TypeOK
<1>. HIDE DEF e
<1>1. CASE e.type = "ChildStarted"
  BY <1>0, <1>1, StartIsNew DEF UpdatedStatus, e
<1>2. CASE e.type = "ChildClosed"
  <2>1. IsClosed(e.child) /\ e.status = FinalStatus(e.child)
    BY <1>0, <1>2, ClosingAssumption DEF e, NextEvent
  <2>2. status' = [status EXCEPT ![e.child] = e.status]
    BY <1>2 DEF UpdatedStatus, e
  <2>. QED
    BY <1>0, <2>1, <2>2
<1>3. CASE e.type \in {"Started", "Closed"}
  BY <1>0, <1>3 DEF UpdatedStatus, e
<1>4. CASE e.type \in {"ChildInitiated", "Other"}
  BY <1>0, <1>4 DEF UpdatedStatus, e
<1>. QED
  BY <1>0, <1>1, <1>2, <1>3, <1>4 DEF EventType

\* Every step keeps the account of the statuses.
LEMMA StatusStep ==
  ASSUME IInv, StatusInv, Step
  PROVE  StatusInv'
<1>. DEFINE Unread == {"none", "created", "queued", "dropped", "skipped"}
<1>. SUFFICES ASSUME NEW w \in Workflow
              PROVE  StatusOf(w)'
  BY DEF StatusInv
<1>0. /\ lastEventId[w] \in Nat
      /\ pc[w] \in Unread \ {"skipped"} => lastEventId[w] = 0
      /\ IsClosed(w) => Len(History[w]) > 0
      /\ StatusOf(w)
  BY JobTypes, HistoryAssumption DEF IInv, LengthInv, LengthOf, StatusInv, IsClosed
<1>1. CASE status'[w] = status[w] /\ ~ Fetch(w)
  <2>1. /\ IsRun(w)' => (IsRun(w) \/ lastEventId[w] = 0) /\ lastEventId'[w] = lastEventId[w]
        /\ pc'[w] \in Unread => pc[w] \in Unread
        /\ pc'[w] = "done" => pc[w] = "done" \/ FetchEnds(w)
    BY <1>0, <1>1, JobMoves
    DEF JobMove, Stays, IsCreated, IsFolded, Moves, Reads, IsRun, Working
  <2>2. FetchEnds(w) => IsClosed(w)
    BY ServerAssumption DEF FetchEnds
  <2>3. pc'[w] = "done" => IsClosed(w)
    BY <1>0, <2>1, <2>2 DEF StatusOf
  <2>4. IsRun(w)' /\ lastEventId'[w] = Len(History[w]) /\ IsClosed(w) =>
          status'[w] = FinalStatus(w)
    BY <1>0, <1>1, <2>1 DEF StatusOf, IsRun
  <2>5. pc'[w] \in Unread =>
          \/ status'[w] \in {"Unspecified", "Running"}
          \/ IsClosed(w) /\ status'[w] = FinalStatus(w)
    BY <1>0, <1>1, <2>1 DEF StatusOf
  <2>. QED
    BY <2>3, <2>4, <2>5 DEF StatusOf, IsRun
<1>2. CASE Fetch(w)
  <2>1. /\ pc'[w] = "send"
        /\ lastEventId'[w] = lastEventId[w] + 1
        /\ status' = UpdatedStatus(w, NextEvent(w))
        /\ status \in [Workflow -> Status]
    BY <1>0, <1>2, FetchEffect, JobTypes DEF IInv, TypeOK, Fetch, NextEvent
  <2>2. ASSUME lastEventId'[w] = Len(History[w]), IsClosed(w)
        PROVE  status'[w] = FinalStatus(w)
    <3>1. NextEvent(w).type = "Closed" /\ NextEvent(w).status = FinalStatus(w)
      BY <2>1, <2>2 DEF NextEvent, IsClosed, FinalStatus
    <3>. QED
      BY <2>1, <3>1 DEF UpdatedStatus
  <2>. QED
    BY <2>1, <2>2 DEF StatusOf
<1>3. ASSUME NEW v \in Workflow, Fetch(v), v # w, status' = UpdatedStatus(v, NextEvent(v)),
             status'[w] # status[w]
      PROVE  StatusOf(w)'
  <2>1. pc'[w] = pc[w]
    BY <1>3, FetchEffect, JobTypes DEF IInv
  <2>2. \/ status'[w] = "Running" /\ pc'[w] = "none"
        \/ status'[w] = FinalStatus(w) /\ IsClosed(w)
    BY <1>3, <2>1, StatusOfOther
  <2>3. pc'[w] = "done" => IsClosed(w)
    BY <1>0, <2>1 DEF StatusOf
  <2>. QED
    BY <2>2, <2>3 DEF StatusOf, Working
<1>. QED
  BY <1>1, <1>2, <1>3, StatusEffect

\* Every step keeps what was folded away in a status to fold.
LEMMA FoldStep ==
  ASSUME IInv, StatusInv, FoldInv, Step
  PROVE  FoldInv'
<1>. SUFFICES ASSUME FoldsClosedOnly, NEW w \in Workflow, pc'[w] = "skipped"
              PROVE  status'[w] \in FoldStatus
  BY DEF FoldInv
<1>1. pc[w] = "skipped" \/ IsFolded(w)
  BY JobMoves DEF JobMove, Stays, IsCreated, Moves, Reads
<1>2. CASE pc[w] = "skipped"
  <2>1. status[w] \in FoldStatus
    BY <1>2 DEF FoldInv
  <2>2. status[w] = FinalStatus(w)
    BY <1>2, <2>1 DEF StatusInv, StatusOf, FoldsClosedOnly
  <2>3. CASE status' = status
    BY <2>1, <2>3
  <2>4. ASSUME NEW v \in Workflow, Fetch(v), status' = UpdatedStatus(v, NextEvent(v))
        PROVE  status'[w] \in FoldStatus
    <3>1. v # w
      BY <1>2, <2>4 DEF Fetch
    <3>. QED
      BY <1>2, <2>1, <2>2, <2>4, <3>1, StatusOfOther
  <2>. QED
    BY <2>3, <2>4, StatusEffect
<1>3. CASE IsFolded(w)
  BY <1>3 DEF IsFolded
<1>. QED
  BY <1>1, <1>2, <1>3
-----------------------------------------------------------------------------
(***************************************************************************)
(* Sums over the executions, as GetNumberOfEvents forms them.  The library's *)
(* SumFunction is recursive; what it computes is proved by taking a smallest *)
(* counterexample among the subsets of its domain.                          *)
(***************************************************************************)
\* The element of a set that a fold takes out first.
Pick(u) == CHOOSE x \in u : TRUE

\* g sums f over every subset of s, taking its elements out one by one.
SumsOver(g, f, s) ==
  g = [u \in SUBSET s |-> IF u = {} THEN 0 ELSE f[Pick(u)] + g[u \ {Pick(u)}]]

\* SumFunction takes such a function, if there is one.
LEMMA SumIsPicked ==
  ASSUME NEW f
  PROVE  SumFunction(f) = (CHOOSE g : SumsOver(g, f, DOMAIN f))[DOMAIN f]
BY DEF SumFunction, SumFunctionOnSet, FoldFunctionOnSet, MapThenFoldSet, SumsOver, Pick

\* Of the subsets of a finite set that have a property, one has no smaller one.
LEMMA SmallestSubset ==
  ASSUME NEW S, IsFiniteSet(S), NEW D \in SUBSET SUBSET S, D # {}
  PROVE  \E s \in D : \A t \in D : t \subseteq s => t = s
<1>1. FiniteSubsetsOf(S) = SUBSET S
  BY FS_FiniteSubsetsOfFinite
<1>2. IsWellFoundedOn(StrictSubsetOrdering(S), SUBSET S)
  BY <1>1, FS_StrictSubsetOrderingWellFounded
<1>3. PICK s \in D : \A t \in D : <<t, s>> \notin StrictSubsetOrdering(S)
  BY <1>2, WFMin
<1>. QED
  BY <1>3 DEF StrictSubsetOrdering

\* Two such functions agree where both are defined.
LEMMA SumUnique ==
  ASSUME NEW S, IsFiniteSet(S), NEW f, NEW s \in SUBSET S, NEW t \in SUBSET S,
         NEW g, SumsOver(g, f, s), NEW h, SumsOver(h, f, t),
         NEW u \in SUBSET s, u \in SUBSET t
  PROVE  g[u] = h[u]
<1>. DEFINE D == {v \in SUBSET S : v \subseteq s /\ v \subseteq t /\ g[v] # h[v]}
<1>. SUFFICES ASSUME D # {} PROVE FALSE
  OBVIOUS
<1>1. PICK v \in D : \A w \in D : w \subseteq v => w = v
  <2>1. D \in SUBSET SUBSET S
    OBVIOUS
  <2>. HIDE DEF D
  <2>. QED
    BY <2>1, SmallestSubset
<1>2. v \in SUBSET s /\ v \in SUBSET t /\ g[v] # h[v]
  BY <1>1
<1>3. /\ g[v] = IF v = {} THEN 0 ELSE f[Pick(v)] + g[v \ {Pick(v)}]
      /\ h[v] = IF v = {} THEN 0 ELSE f[Pick(v)] + h[v \ {Pick(v)}]
  BY <1>2 DEF SumsOver
<1>4. v # {}
  BY <1>2, <1>3
<1>5. Pick(v) \in v
  BY <1>4 DEF Pick
<1>6. g[v \ {Pick(v)}] = h[v \ {Pick(v)}]
  BY <1>1, <1>2, <1>5
<1>. QED
  BY <1>2, <1>3, <1>6

\* There is one for every finite set.
LEMMA SumExists ==
  ASSUME NEW S, IsFiniteSet(S), NEW f
  PROVE  \E g : SumsOver(g, f, S)
<1>. DEFINE D == {s \in SUBSET S : ~ \E g : SumsOver(g, f, s)}
            Sum(s) == CHOOSE g : SumsOver(g, f, s)
<1>. SUFFICES ASSUME D # {} PROVE FALSE
  OBVIOUS
<1>1. PICK s \in D : \A t \in D : t \subseteq s => t = s
  <2>1. D \in SUBSET SUBSET S
    OBVIOUS
  <2>. HIDE DEF D
  <2>. QED
    BY <2>1, SmallestSubset
<1>2. \A t \in SUBSET s : t # s => SumsOver(Sum(t), f, t)
  BY <1>1
<1>. DEFINE Rest(u) == u \ {Pick(u)}
            G == [u \in SUBSET s |-> IF u = {} THEN 0 ELSE f[Pick(u)] + Sum(Rest(u))[Rest(u)]]
<1>. HIDE DEF Sum
<1>3. \A u \in SUBSET s : u # {} => Rest(u) \in SUBSET s /\ Rest(u) # s /\ Rest(u) # u
  BY DEF Pick
<1>4. ASSUME NEW w \in SUBSET s, w # s
      PROVE  G[w] = Sum(w)[w]
  <2>1. SumsOver(Sum(w), f, w)
    BY <1>2, <1>4
  <2>2. Sum(w)[w] = IF w = {} THEN 0 ELSE f[Pick(w)] + Sum(w)[Rest(w)]
    BY <2>1 DEF SumsOver
  <2>3. w # {} => Sum(w)[Rest(w)] = Sum(Rest(w))[Rest(w)]
    <3>1. SUFFICES ASSUME w # {} PROVE Sum(w)[Rest(w)] = Sum(Rest(w))[Rest(w)]
      OBVIOUS
    <3>2. Rest(w) \in SUBSET w /\ Rest(w) \in SUBSET s /\ Rest(w) # s
      BY <1>3, <3>1
    <3>3. SumsOver(Sum(Rest(w)), f, Rest(w))
      BY <1>2, <3>2
    <3>4. w \in SUBSET S /\ Rest(w) \in SUBSET S
      BY <1>1, <3>2
    <3>. HIDE DEF Rest
    <3>. QED
      BY <2>1, <3>2, <3>3, <3>4, SumUnique
  <2>. QED
    BY <2>2, <2>3
<1>5. G = [u \in SUBSET s |-> IF u = {} THEN 0 ELSE f[Pick(u)] + G[Rest(u)]]
  <2>1. \A u \in SUBSET s : u # {} => G[Rest(u)] = Sum(Rest(u))[Rest(u)]
    <3>. HIDE DEF G, Rest
    <3>. QED
      BY <1>3, <1>4
  <2>. HIDE DEF Rest
  <2>. QED
    BY <2>1
<1>6. SumsOver(G, f, s)
  <2>. HIDE DEF G
  <2>. QED
    BY <1>5 DEF SumsOver
<1>. QED
  BY <1>1, <1>6

\* A sum of natural numbers is one, and a sum of zeros is zero.
LEMMA SumProperties ==
  ASSUME NEW S, IsFiniteSet(S), NEW f \in [S -> Nat]
  PROVE  /\ SumFunction(f) \in Nat
         /\ (\A x \in S : f[x] = 0) => SumFunction(f) = 0
<1>. DEFINE g == CHOOSE h : SumsOver(h, f, S)
            Wrong(u) == g[u] \notin Nat \/ ((\A x \in S : f[x] = 0) /\ g[u] # 0)
            D == {u \in SUBSET S : Wrong(u)}
<1>1. SumFunction(f) = g[S]
  BY SumIsPicked
<1>2. SumsOver(g, f, S)
  BY SumExists
<1>. HIDE DEF g
<1>3. D = {}
  <2>. SUFFICES ASSUME D # {} PROVE FALSE
    OBVIOUS
  <2>1. PICK u \in D : \A t \in D : t \subseteq u => t = u
    <3>1. D \in SUBSET SUBSET S
      OBVIOUS
    <3>. HIDE DEF D
    <3>. QED
      BY <3>1, SmallestSubset
  <2>2. u \in SUBSET S /\ Wrong(u)
    BY <2>1
  <2>3. g[u] = IF u = {} THEN 0 ELSE f[Pick(u)] + g[u \ {Pick(u)}]
    BY <1>2, <2>2 DEF SumsOver
  <2>4. u # {}
    BY <2>2, <2>3
  <2>5. Pick(u) \in u
    BY <2>4 DEF Pick
  <2>6. ~ Wrong(u \ {Pick(u)})
    BY <2>1, <2>2, <2>5
  <2>7. f[Pick(u)] \in Nat /\ ((\A x \in S : f[x] = 0) => f[Pick(u)] = 0)
    BY <2>2, <2>5
  <2>. QED
    BY <2>2, <2>3, <2>4, <2>6, <2>7
<1>. QED
  BY <1>1, <1>3
-----------------------------------------------------------------------------
\* The described length of the root is known once the trace has started, and
\* what the root has read only grows.
LEMMA RootCounters ==
  ASSUME IInv, Step, ~ StartTrace, BehindRoot'
  PROVE  BehindRoot
<1>0. /\ historyLength \in [Workflow -> Nat]
      /\ lastEventId[Root] \in Nat
      /\ Root \in Workflow \ Children
  BY JobTypes, RootAssumption DEF IInv, Children
<1>1. historyLength'[Root] = historyLength[Root]
  <2>1. CASE Quiet
    BY <2>1 DEF Quiet
  <2>2. CASE SubmitRoot \/ TakeTask
    BY <2>2 DEF SubmitRoot, TakeTask, stateVars
  <2>3. ASSUME NEW w \in Workflow, ServerAppend(w) \/ Job(w), ~ HandleChildStarted(w)
        PROVE  historyLength'[Root] = historyLength[Root]
    BY <2>3 DEF Job, JobStep, ServerAppend, IterUpdate, Fetch, FetchFails, HandleChildFails,
                FailJob, FetchEnds, HandleEvent, DispatchSubmit, SubmitLateChild, Submit,
                DispatchSkip, DispatchEnds, stateVars
  <2>4. ASSUME NEW w \in Workflow, HandleChildStarted(w)
        PROVE  historyLength'[Root] = historyLength[Root]
    <3>1. PICK x \in Children : Spawns(w, x)
      BY <2>4, HandleChildStartedEffect
    <3>. QED
      BY <1>0, <3>1 DEF Spawns
  <2>. QED
    BY <2>1, <2>2, <2>3, <2>4, QuietSteps DEF Step, GroupStep, IterStep, Job
<1>2. lastEventId'[Root] >= lastEventId[Root] /\ lastEventId'[Root] \in Nat
  BY <1>0, JobMoves DEF JobMove, Stays, IsCreated, IsFolded, Moves, Reads
<1>. QED
  BY <1>0, <1>1, <1>2 DEF BehindRoot

\* Before the root has caught up no child leaves childJobs.
LEMMA RootFirstStep ==
  ASSUME IInv, CountInv, Step, BehindRoot', NEW c \in Children
  PROVE  pc'[c] \in {"none", "created"}
<1>1. CASE StartTrace
  <2>1. pc \in [Workflow -> JobState]
    BY JobTypes DEF IInv
  <2>. QED
    BY <1>1, <2>1, StartTraceEffect, RootAssumption DEF Children
<1>2. CASE ~ StartTrace
  <2>1. BehindRoot /\ \A w \in Children : pc[w] \in {"none", "created"}
    BY <1>2, RootCounters DEF CountInv
  <2>2. ASSUME NEW p \in Workflow, pc[p] \in {"dispatch", "submit"}, isUpToDate[p]
        PROVE  FALSE
    <3>1. p = Root
      BY <2>1, <2>2 DEF Children
    <3>2. lastEventId[Root] >= historyLength[Root]
      BY <2>2, <3>1 DEF IInv, CatchUpInv, CatchUpOf
    <3>3. lastEventId[Root] \in Nat /\ historyLength[Root] \in Nat
      BY JobTypes, RootAssumption DEF IInv
    <3>. QED
      BY <2>1, <3>2, <3>3 DEF BehindRoot
  <2>3. \A p \in Workflow : ~ Submits(p, c) /\ ~ Skips(p, c)
    BY <2>2 DEF Submits, Skips
  <2>4. c \in Workflow /\ c # Root /\ pc[c] \in {"none", "created"}
    BY <2>1 DEF Children
  <2>5. \/ Stays(c) \/ IsCreated(c)
        \/ pc[c] \in {"queued", "fetch", "send", "handle", "dispatch", "submit"}
    <3>1. JobMove(c)
      BY <2>4, JobMoves
    <3>. QED
      BY <2>3, <2>4, <3>1 DEF JobMove, Moves, Reads
  <2>. QED
    BY <2>4, <2>5 DEF Stays, IsCreated
<1>. QED
  BY <1>1, <1>2

\* Only a tick of the printer, after the start, counts.
LEMMA CountEffect ==
  ASSUME Step
  PROVE  /\ UNCHANGED <<counted, upToDate>> \/ TickCount \/ TickProgress
         /\ group' = "start" => group = "start"
<1>1. CASE StartTrace \/ StartFails \/ SubmitRoot \/ GroupWait
  BY <1>1 DEF StartTrace, StartFails, SubmitRoot, GroupWait, printVars, poolVars
<1>2. CASE TakeTask \/ IterError \/ IterDone
  BY <1>2 DEF TakeTask, IterError, IterDone, printVars
<1>3. CASE PrintStep
  BY <1>3 DEF PrintStep, TickCount, TickProgress, TickFails, ReceiveDone, ReceiveSignal,
              ReceiveError, PrintAndExit, poolVars
<1>4. ASSUME NEW w \in Workflow, ServerAppend(w) \/ Job(w)
      PROVE  UNCHANGED <<counted, upToDate, group>>
  BY <1>4 DEF Job, JobStep, ServerAppend, IterUpdate, Fetch, FetchFails, HandleChildFails,
              FailJob, FetchEnds, HandleEvent, HandleChildStarted, DispatchSubmit,
              SubmitLateChild, Submit, DispatchSkip, DispatchEnds, printVars, poolVars
<1>5. ASSUME NEW toTracer \in BOOLEAN, Interrupt(toTracer)
      PROVE  UNCHANGED <<counted, upToDate, group>>
  BY <1>5 DEF Interrupt
<1>. QED
  BY <1>1, <1>2, <1>3, <1>4, <1>5 DEF Step, GroupStep, IterStep, Job

\* Every step keeps the progress line from overtaking the root.
LEMMA CountStep ==
  ASSUME IInv, CountInv, Step
  PROVE  CountInv'
<1>0. /\ lastEventId \in [Workflow -> Nat]
      /\ historyLength \in [Workflow -> Nat]
      /\ Root \in Workflow
      /\ Children \subseteq Workflow
  BY JobTypes, RootAssumption DEF IInv, Children
<1>1. BehindRoot' => \A w \in Children : pc'[w] \in {"none", "created"}
  BY RootFirstStep
<1>2. CASE UNCHANGED <<counted, upToDate>>
  <2>1. StartTrace => counted = NotCounted /\ ~ upToDate
    BY DEF StartTrace, CountInv
  <2>2. BehindRoot' /\ counted' # NotCounted => \A w \in Children : counted'.current[w] = 0
    BY <1>2, <2>1, RootCounters DEF CountInv
  <2>3. group' = "start" => counted' = NotCounted /\ ~ upToDate'
    BY <1>2, CountEffect DEF CountInv
  <2>4. upToDate' => ~ BehindRoot'
    <3>1. upToDate => ~ BehindRoot
      BY <1>0 DEF CountInv, UpToDateCoversRoot, BehindRoot
    <3>. QED
      BY <1>2, <2>1, <3>1, RootCounters
  <2>5. TypeOK'
    BY TypeStep
  <2>6. lastEventId'[Root] \in Nat /\ historyLength'[Root] \in Nat
    BY <1>0, <2>5 DEF TypeOK
  <2>. QED
    BY <1>1, <2>2, <2>3, <2>4, <2>6 DEF CountInv, UpToDateCoversRoot, BehindRoot
<1>3. CASE TickCount
  <2>1. /\ UNCHANGED <<lastEventId, historyLength, pc, upToDate, group>>
        /\ group # "start"
        /\ counted' = [current |-> [w \in Children |-> lastEventId[w]],
                       total   |-> [w \in Children |-> historyLength[w]]]
    BY <1>3 DEF TickCount, Printing, stateVars, jobVars, poolVars
  <2>2. BehindRoot => \A w \in Children : lastEventId[w] = 0
    BY <1>0 DEF CountInv, IInv, LengthInv, LengthOf
  <2>3. BehindRoot' => \A w \in Children : counted'.current[w] = 0
    BY <2>1, <2>2 DEF BehindRoot
  <2>. QED
    BY <1>1, <2>1, <2>3 DEF CountInv, UpToDateCoversRoot
<1>4. CASE TickProgress
  <2>. DEFINE current == SumFunction(counted.current)
              total == SumFunction(counted.total)
  <2>1. /\ UNCHANGED <<lastEventId, historyLength, pc, group>>
        /\ counted # NotCounted
        /\ counted' = NotCounted
        /\ upToDate' => current + lastEventId[Root] >= total + historyLength[Root]
    BY <1>4 DEF TickProgress, stateVars, jobVars, poolVars
  <2>2. /\ counted.current \in [Children -> Nat]
        /\ counted.total \in [Children -> Nat]
    BY <2>1 DEF IInv, TypeOK
  <2>3. IsFiniteSet(Children)
    BY <1>0, TreeAssumption, FS_Subset
  <2>4. total \in Nat /\ (BehindRoot => current = 0)
    BY <2>1, <2>2, <2>3, SumProperties DEF CountInv
  <2>5. upToDate' => ~ BehindRoot
    <3>. HIDE DEF current, total
    <3>. QED
      BY <1>0, <2>1, <2>4 DEF BehindRoot
  <2>6. upToDate' => lastEventId'[Root] >= historyLength'[Root]
    BY <1>0, <2>1, <2>5 DEF BehindRoot
  <2>7. group' # "start"
    BY <2>1 DEF CountInv
  <2>. QED
    BY <1>1, <2>1, <2>6, <2>7 DEF CountInv, UpToDateCoversRoot
<1>. QED
  BY <1>2, <1>3, <1>4, CountEffect

\* The iterator keeps the last update until an error replaces it.
LEMMA UpdateKept ==
  ASSUME IInv, Step, iter' # "error"
  PROVE  /\ iter # "error"
         /\ hasUpdate => hasUpdate'
<1>1. CASE StartTrace \/ StartFails \/ SubmitRoot \/ GroupWait
  BY <1>1 DEF StartTrace, StartFails, SubmitRoot, GroupWait, iterVars
<1>2. CASE TakeTask \/ IterError \/ IterDone
  BY <1>2 DEF TakeTask, IterError, IterDone, iterVars
<1>3. CASE PrintStep
  BY <1>3 DEF PrintStep, TickCount, TickProgress, TickFails, ReceiveDone, ReceiveSignal,
              ReceiveError, PrintAndExit, iterVars
<1>4. ASSUME NEW w \in Workflow, ServerAppend(w) \/ Job(w)
      PROVE  iter' = iter /\ (hasUpdate => hasUpdate')
  BY <1>4 DEF Job, JobStep, ServerAppend, IterUpdate, Fetch, FetchFails, HandleChildFails,
              FailJob, FetchEnds, HandleEvent, HandleChildStarted, DispatchSubmit,
              SubmitLateChild, Submit, DispatchSkip, DispatchEnds, iterVars
<1>5. ASSUME NEW toTracer \in BOOLEAN, Interrupt(toTracer)
      PROVE  UNCHANGED <<iter, hasUpdate>>
  BY <1>5 DEF Interrupt, iterVars
<1>. QED
  BY <1>1, <1>2, <1>3, <1>4, <1>5 DEF Step, GroupStep, IterStep, Job

\* The command ends well only by printing what the iterator has.
LEMMA DoneEffect ==
  ASSUME Step, outcome = "running", outcome' = "done"
  PROVE  printed' = hasUpdate'
<1>1. CASE StartTrace \/ StartFails \/ SubmitRoot \/ GroupWait
  BY <1>1 DEF StartTrace, StartFails, SubmitRoot, GroupWait, printVars
<1>2. CASE TakeTask \/ IterError \/ IterDone
  BY <1>2 DEF TakeTask, IterError, IterDone, printVars
<1>3. CASE PrintStep
  BY <1>3 DEF PrintStep, TickCount, TickProgress, TickFails, ReceiveDone, ReceiveSignal,
              ReceiveError, PrintAndExit, iterVars
<1>4. ASSUME NEW w \in Workflow, ServerAppend(w) \/ Job(w)
      PROVE  outcome' = outcome
  BY <1>4 DEF Job, JobStep, ServerAppend, IterUpdate, Fetch, FetchFails, HandleChildFails,
              FailJob, FetchEnds, HandleEvent, HandleChildStarted, DispatchSubmit,
              SubmitLateChild, Submit, DispatchSkip, DispatchEnds, printVars
<1>5. ASSUME NEW toTracer \in BOOLEAN, Interrupt(toTracer)
      PROVE  outcome' = outcome
  BY <1>5 DEF Interrupt
<1>. QED
  BY <1>1, <1>2, <1>3, <1>4, <1>5 DEF Step, GroupStep, IterStep, Job

\* Every step keeps the iterator supplied with an update.
LEMMA ShownStep ==
  ASSUME IInv, ShownInv, Step, outcome = "running"
  PROVE  ShownInv'
<1>. DEFINE Going == {"fetch", "handle", "dispatch", "submit", "done"}
<1>1. ASSUME iter' # "error", NEW w \in Workflow, pc'[w] \in Going, lastEventId'[w] > 0
      PROVE  hasUpdate'
  <2>0. pc[w] = "queued" => lastEventId[w] = 0
    BY DEF IInv, LengthInv, LengthOf
  <2>1. (pc[w] \in Going /\ lastEventId[w] > 0) \/ hasUpdate'
    BY <1>1, <2>0, JobMoves DEF JobMove, Stays, IsCreated, IsFolded, Moves, Reads
  <2>. QED
    BY <1>1, <2>1, UpdateKept DEF ShownInv
<1>2. outcome' = "done" => printed' = hasUpdate'
  BY DoneEffect
<1>. QED
  BY <1>1, <1>2 DEF ShownInv

\* TreeInv holds initially,
LEMMA InitTreeInv ==
  ASSUME Init
  PROVE  TreeInv
<1>1. IInv
  BY InitIInv
<1>2. CoverInv
  BY DEF Init, CoverInv, CoveredOf, Working
<1>3. StatusInv
  <2>1. ASSUME NEW w \in Workflow PROVE pc[w] = "none" /\ status[w] = "Unspecified"
    BY <2>1 DEF Init
  <2>. QED
    BY <2>1 DEF StatusInv, StatusOf, Working
<1>4. FoldInv
  BY DEF Init, FoldInv
<1>5. CountInv
  BY RootAssumption DEF Init, CountInv, UpToDateCoversRoot, Children
<1>6. ShownInv
  BY DEF Init, ShownInv
<1>. QED
  BY <1>1, <1>2, <1>3, <1>4, <1>5, <1>6 DEF TreeInv

\* it survives stuttering,
LEMMA StutterTreeInv ==
  ASSUME TreeInv, UNCHANGED vars
  PROVE  TreeInv'
<1>. USE DEF TreeInv, vars, serverVars, stateVars, jobVars, poolVars, iterVars, printVars
<1>1. IInv'
  BY StutterIInv
<1>2. CoverInv' /\ StatusInv'
  BY DEF CoverInv, CoveredOf, StatusInv, StatusOf
<1>3. FoldInv'
  BY DEF FoldInv
<1>4. CountInv'
  BY DEF CountInv, BehindRoot, UpToDateCoversRoot
<1>5. ShownInv'
  BY DEF ShownInv
<1>. QED
  BY <1>1, <1>2, <1>3, <1>4, <1>5

\* The invariant of the tree and of the progress line: the account of children,
\* statuses, counters and updates that Run, Update, GetNumberOfEvents and
\* PrintUpdates keep between them.
THEOREM TreeInvariance == Spec => []TreeInv
<1>1. Init => TreeInv
  BY InitTreeInv
<1>2. TreeInv /\ [Next]_vars => TreeInv'
  <2>1. ASSUME TreeInv, outcome = "running", Step
        PROVE  TreeInv'
    BY <2>1, StepIInv, CoverStep, StatusStep, FoldStep, CountStep, ShownStep DEF TreeInv
  <2>. QED
    BY <2>1, StutterTreeInv DEF Next, Exited
<1>. QED
  BY <1>1, <1>2, PTL DEF Spec

\* At a normal end the tree is complete down to --depth, whichever of the three
\* ways from handleEvent to the pool a child took.
THEOREM TreeIsCovered == Spec => []DoneCoversTree
<1>1. TreeInv => DoneCoversTree
  <2>. SUFFICES ASSUME TreeInv, outcome = "done", ~ cancelled,
                       NEW p \in Workflow, pc[p] = "done",
                       NEW k \in DOMAIN History[p], History[p][k].type = "ChildStarted"
                PROVE  IF depth[p] = 0 THEN pc[History[p][k].child] = "none"
                       ELSE pc[History[p][k].child] \in {"skipped", "done"}
    BY DEF DoneCoversTree
  <2>. DEFINE c == History[p][k].child
  <2>0. /\ IInv
        /\ k \in 1..Len(History[p])
        /\ k <= lastEventId[p]
        /\ c \in Children
    <3>1. IInv /\ k \in 1..Len(History[p])
      BY HistoryAssumption DEF TreeInv
    <3>2. lastEventId[p] = Len(History[p])
      BY <3>1 DEF IInv, LengthInv, LengthOf
    <3>3. c \in Workflow /\ c # Root
      BY <3>1, HistoryTyped, ParentAssumption
    <3>. QED
      BY <3>1, <3>2, <3>3 DEF Children
  <2>1. CASE depth[p] # 0
    <3>1. PICK i \in DOMAIN childJobs[p] : childJobs[p][i] = c
      BY <2>0, <2>1 DEF TreeInv, CoverInv, CoveredOf
    <3>2. pc[c] # "none"
      BY <2>0, <3>1 DEF IInv, ChildInv, ChildOf
    <3>3. pc[c] \in {"none", "skipped", "done"}
      BY <2>0, NormalEnd DEF Children
    <3>. QED
      BY <2>1, <3>2, <3>3
  <2>2. CASE depth[p] = 0
    <3>. SUFFICES ASSUME pc[c] # "none" PROVE FALSE
      BY <2>2
    <3>1. PICK q \in Workflow : \E i \in DOMAIN childJobs[q] : childJobs[q][i] = c
      BY <2>0 DEF IInv, HasParent
    <3>2. PICK i \in DOMAIN childJobs[q] : childJobs[q][i] = c
      BY <3>1
    <3>3. PICK j \in DOMAIN History[q] : /\ History[q][j].type = "ChildStarted"
                                         /\ History[q][j].child = c
      BY <2>0, <3>2 DEF IInv, EventInv, StartHandled
    <3>4. q = p
      BY <3>3, ParentAssumption
    <3>5. childJobs[p] \in Seq(Workflow) /\ childJobs[p] # <<>>
      BY <2>0, <3>2, <3>4, JobTypes DEF IInv
    <3>. QED
      BY <2>0, <2>2, <3>5 DEF IInv, CatchUpInv, CatchUpOf
  <2>. QED
    BY <2>1, <2>2
<1>. QED
  BY <1>1, TreeInvariance, PTL

\* The tree printed at a normal end is of the final states: all events of what
\* was fetched, and the closing status, in whatever order the updates of parent
\* and child reached the shared state.
THEOREM TreeIsFinal == Spec => []DoneShowsFinalState
<1>1. TreeInv => DoneShowsFinalState
  <2>. SUFFICES ASSUME TreeInv, outcome = "done", ~ cancelled
                PROVE  /\ printed
                       /\ \A w \in Workflow : pc[w] = "done" =>
                            /\ lastEventId[w] = Len(History[w])
                            /\ status[w] = FinalStatus(w)
    BY DEF DoneShowsFinalState
  <2>1. IInv
    BY DEF TreeInv
  <2>2. \A w \in Workflow : pc[w] = "done" => lastEventId[w] = Len(History[w])
    BY <2>1 DEF IInv, LengthInv, LengthOf
  <2>3. \A w \in Workflow : pc[w] = "done" => status[w] = FinalStatus(w)
    BY <2>2 DEF TreeInv, StatusInv, StatusOf
  <2>4. pc[Root] = "done" /\ iter = "done" /\ Root \in Workflow
    BY <2>1, NormalEnd, RootAssumption DEF IInv, GroupInv
  <2>5. lastEventId[Root] > 0
    <3>1. /\ lastEventId[Root] = Len(History[Root])
          /\ InitialLength[Root] \in Nat
          /\ InitialLength[Root] <= Len(History[Root])
          /\ Len(History[Root]) \in Nat
      BY <2>2, <2>4, HistoryAssumption
    <3>. QED
      BY <3>1, TreeAssumption
  <2>6. hasUpdate /\ printed = hasUpdate
    BY <2>4, <2>5 DEF TreeInv, ShownInv
  <2>. QED
    BY <2>2, <2>3, <2>6
<1>. QED
  BY <1>1, TreeInvariance, PTL

\* GetNumberOfEvents sums counters that move while it reads them, and still the
\* progress line gives way to the tree only when the root has caught up.
THEOREM ProgressCoversRoot == Spec => []UpToDateCoversRoot
<1>1. TreeInv => UpToDateCoversRoot
  BY DEF TreeInv, CountInv
<1>. QED
  BY <1>1, TreeInvariance, PTL

\* ShouldStart decided on a status that is final: what was folded away is folded
\* in the printed tree too, if only statuses of closed executions are folded,
\* as by default.
THEOREM FoldedStaysFolded ==
  ASSUME FoldsClosedOnly
  PROVE  Spec => []SkippedStayFolded
<1>1. TreeInv => SkippedStayFolded
  BY DEF TreeInv, FoldInv, SkippedStayFolded
<1>. QED
  BY <1>1, TreeInvariance, PTL
=============================================================================
