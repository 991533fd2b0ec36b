------------------------ MODULE WorkflowTrace_proofs ------------------------
(***************************************************************************)
(* Theorems about WorkflowTrace, for every family of executions, every      *)
(* history, pool size, queue capacity, depth and fold option.  First the    *)
(* lemmas that each conjunct of IInv is kept by every step, then the        *)
(* theorems.                                                                *)
(***************************************************************************)
EXTENDS WorkflowTraceLemmas

\* Every step keeps the types.
LEMMA TypeStep ==
  ASSUME IInv, Step
  PROVE  TypeOK'
<1>0. TypeOK
  BY DEF IInv
<1>1. CASE StartTrace
  BY <1>0, <1>1, JobStates, RootAssumption, OptionAssumption
  DEF TypeOK, StartTrace, Describe, serverVars, iterVars, printVars
<1>2. CASE StartFails
  BY <1>0, <1>2
  DEF TypeOK, StartFails, serverVars, stateVars, jobVars, poolVars, iterVars
<1>3. CASE SubmitRoot
  BY <1>0, <1>3, JobStates, RootAssumption
  DEF TypeOK, SubmitRoot, serverVars, stateVars, iterVars, printVars
<1>4. CASE GroupWait
  BY <1>0, <1>4
  DEF TypeOK, GroupWait, serverVars, stateVars, jobVars, iterVars, printVars
<1>5. CASE TakeTask
  <2>1. pc' \in [Workflow -> JobState]
    BY <1>0, <1>5, JobStates DEF TypeOK, TakeTask
  <2>2. queue' \in Seq(Workflow)
    BY <1>0, <1>5 DEF TypeOK, TakeTask
  <2>3. UNCHANGED <<serverVars, stateVars, depth, childJobs, nextChild, isUpToDate,
                    groupError, ctxDone, group, iterVars, printVars>>
    BY <1>5 DEF TakeTask
  <2>. QED
    BY <1>0, <2>1, <2>2, <2>3 DEF TypeOK, serverVars, stateVars, iterVars, printVars
<1>6. CASE IterStep
  <2>1. ASSUME NEW w \in Workflow, IterUpdate(w) PROVE TypeOK'
    BY <1>0, <2>1, JobStates DEF TypeOK, IterUpdate, serverVars, stateVars, poolVars, printVars
  <2>2. CASE IterError
    BY <1>0, <2>2 DEF TypeOK, IterError, serverVars, stateVars, jobVars, printVars
  <2>3. CASE IterDone
    BY <1>0, <2>3 DEF TypeOK, IterDone, serverVars, stateVars, jobVars, printVars
  <2>. QED
    BY <1>6, <2>1, <2>2, <2>3 DEF IterStep
<1>7. CASE PrintStep
  <2>1. CASE TickCount
    <3>1. counted' \in [current : [Children -> Nat], total : [Children -> Nat]]
      BY <1>0, <2>1 DEF TypeOK, TickCount, Children
    <3>2. UNCHANGED <<serverVars, stateVars, jobVars, poolVars, iterVars, upToDate, signalled,
                      cancelled, printed, outcome>>
      BY <2>1 DEF TickCount
    <3>. QED
      BY <1>0, <3>1, <3>2 DEF TypeOK, serverVars, stateVars, jobVars, poolVars, iterVars
  <2>2. CASE TickProgress
    BY <1>0, <2>2 DEF TypeOK, TickProgress, serverVars, stateVars, jobVars, poolVars, iterVars
  <2>3. CASE TickFails \/ ReceiveError
    BY <1>0, <2>3
    DEF TypeOK, TickFails, ReceiveError, serverVars, stateVars, jobVars, poolVars, iterVars
  <2>4. CASE ReceiveDone
    BY <1>0, <2>4
    DEF TypeOK, ReceiveDone, PrintAndExit, serverVars, stateVars, jobVars, poolVars, iterVars
  <2>5. CASE ReceiveSignal
    BY <1>0, <2>5
    DEF TypeOK, ReceiveSignal, PrintAndExit, serverVars, stateVars, jobVars, poolVars, iterVars
  <2>. QED
    BY <1>7, <2>1, <2>2, <2>3, <2>4, <2>5 DEF PrintStep
<1>8. ASSUME NEW toTracer \in BOOLEAN, Interrupt(toTracer)
      PROVE  TypeOK'
  BY <1>0, <1>8 DEF TypeOK, Interrupt, serverVars, stateVars, jobVars, iterVars
<1>9. ASSUME NEW w \in Workflow, ServerAppend(w)
      PROVE  TypeOK'
  BY <1>0, <1>9
  DEF TypeOK, ServerAppend, stateVars, jobVars, poolVars, iterVars, printVars
<1>10. ASSUME NEW w \in Workflow, Fetch(w)
       PROVE  TypeOK'
  <2>1. lastEventId[w] + 1 \in 1..Len(History[w])
    BY <1>0, <1>10, HistoryAssumption DEF IInv, LengthInv, LengthOf, TypeOK, Fetch
  <2>2. status' \in [Workflow -> Status]
    BY <1>0, <1>10, <2>1, HistoryTyped DEF TypeOK, Fetch, UpdatedStatus, Status
  <2>3. pc' \in [Workflow -> JobState] /\ lastEventId' \in [Workflow -> Nat]
    BY <1>0, <1>10, JobStates DEF TypeOK, Fetch
  <2>4. UNCHANGED <<serverVars, historyLength, depth, childJobs, nextChild, isUpToDate,
                    poolVars, iterVars, printVars>>
    BY <1>10 DEF Fetch
  <2>. QED
    BY <1>0, <2>2, <2>3, <2>4 DEF TypeOK, serverVars, poolVars, iterVars, printVars
<1>11. ASSUME NEW w \in Workflow, FetchFails(w) \/ HandleChildFails(w)
       PROVE  TypeOK'
  <2>1. FailJob(w)
    BY <1>11 DEF FetchFails, HandleChildFails
  <2>. QED
    BY <1>0, <2>1, JobStates DEF TypeOK, FailJob, serverVars, stateVars, iterVars, printVars
<1>12. ASSUME NEW w \in Workflow, FetchEnds(w) \/ DispatchEnds(w)
       PROVE  TypeOK'
  <2>1. pc' \in [Workflow -> JobState]
    BY <1>0, <1>12, JobStates DEF TypeOK, FetchEnds, DispatchEnds
  <2>2. UNCHANGED <<serverVars, stateVars, depth, childJobs, nextChild, isUpToDate,
                    poolVars, iterVars, printVars>>
    BY <1>12 DEF FetchEnds, DispatchEnds
  <2>. QED
    BY <1>0, <2>1, <2>2 DEF TypeOK, serverVars, stateVars, poolVars, iterVars, printVars
<1>13. ASSUME NEW w \in Workflow, HandleEvent(w)
       PROVE  TypeOK'
  <2>1. AfterEvent(w) \in JobState
    BY JobStates DEF AfterEvent
  <2>2. pc' \in [Workflow -> JobState]
    BY <1>0, <1>13, <2>1 DEF TypeOK, HandleEvent
  <2>3. nextChild' \in [Workflow -> Nat \ {0}]
    BY <1>0, <1>13 DEF TypeOK, HandleEvent
  <2>4. isUpToDate' \in [Workflow -> BOOLEAN]
    <3>1. isUpToDate[w] \in BOOLEAN /\ CatchesUp(w) \in BOOLEAN
      BY <1>0 DEF TypeOK, CatchesUp
    <3>. QED
      BY <1>0, <1>13, <3>1 DEF TypeOK, HandleEvent
  <2>5. UNCHANGED <<serverVars, stateVars, depth, childJobs, poolVars, iterVars, printVars>>
    BY <1>13 DEF HandleEvent
  <2>. QED
    BY <1>0, <2>2, <2>3, <2>4, <2>5
    DEF TypeOK, serverVars, stateVars, poolVars, iterVars, printVars
<1>14. ASSUME NEW w \in Workflow, HandleChildStarted(w)
       PROVE  TypeOK'
  <2>. DEFINE c == CurrentEvent(w).child
  <2>1. c \in Workflow
    <3>1. pc[w] = "handle"
      BY <1>14 DEF HandleChildStarted
    <3>. QED
      BY <3>1, CurrentEventTyped DEF IInv
  <2>2. AfterEvent(w) \in JobState
    BY JobStates DEF AfterEvent
  <2>3. childJobs' \in [Workflow -> Seq(Workflow)]
    BY <1>0, <1>14, <2>1 DEF TypeOK, HandleChildStarted
  <2>4. nextChild' \in [Workflow -> Nat \ {0}]
    <3>1. Len(childJobs[w]) + 1 \in Nat \ {0}
      BY <1>0 DEF TypeOK
    <3>. QED
      BY <1>0, <1>14, <3>1 DEF TypeOK, HandleChildStarted
  <2>5. historyLength' \in [Workflow -> Nat]
    BY <1>0, <1>14, <2>1 DEF TypeOK, HandleChildStarted, Describe
  <2>6. depth' \in [Workflow -> Int]
    BY <1>0, <1>14, <2>1 DEF TypeOK, HandleChildStarted
  <2>7. pc' \in [Workflow -> JobState]
    BY <1>0, <1>14, <2>1, <2>2, JobStates DEF TypeOK, HandleChildStarted
  <2>8. isUpToDate' \in [Workflow -> BOOLEAN]
    <3>1. isUpToDate[w] \in BOOLEAN /\ CatchesUp(w) \in BOOLEAN
      BY <1>0 DEF TypeOK, CatchesUp
    <3>. QED
      BY <1>0, <1>14, <3>1 DEF TypeOK, HandleChildStarted
  <2>9. UNCHANGED <<serverVars, status, lastEventId, poolVars, iterVars, printVars>>
    BY <1>14 DEF HandleChildStarted
  <2>. QED
    BY <1>0, <2>3, <2>4, <2>5, <2>6, <2>7, <2>8, <2>9
    DEF TypeOK, serverVars, poolVars, iterVars, printVars
<1>15. ASSUME NEW w \in Workflow, DispatchSubmit(w) \/ SubmitLateChild(w)
       PROVE  TypeOK'
  <2>1. childJobs[w][nextChild[w]] \in Workflow
    BY <1>15, NextChildIsCreated DEF Children, AtChild, DispatchSubmit, SubmitLateChild
  <2>2. PICK back \in {"dispatch", "fetch"} : Submit(w, back)
    BY <1>15 DEF DispatchSubmit, SubmitLateChild
  <2>3. pc' \in [Workflow -> JobState]
    BY <1>0, <2>1, <2>2, JobStates DEF TypeOK, Submit
  <2>4. queue' \in Seq(Workflow)
    BY <1>0, <2>1, <2>2 DEF TypeOK, Submit
  <2>5. nextChild' \in [Workflow -> Nat \ {0}]
    BY <1>0, <2>2 DEF TypeOK, Submit
  <2>6. UNCHANGED <<serverVars, stateVars, depth, childJobs, isUpToDate, groupError, ctxDone,
                    group, iterVars, printVars>>
    BY <2>2 DEF Submit
  <2>. QED
    BY <1>0, <2>3, <2>4, <2>5, <2>6 DEF TypeOK, serverVars, stateVars, iterVars, printVars
<1>16. ASSUME NEW w \in Workflow, DispatchSkip(w)
       PROVE  TypeOK'
  <2>1. childJobs[w][nextChild[w]] \in Workflow
    BY <1>16, NextChildIsCreated DEF Children, AtChild, DispatchSkip
  <2>2. pc' \in [Workflow -> JobState]
    BY <1>0, <1>16, <2>1, JobStates DEF TypeOK, DispatchSkip
  <2>3. lastEventId' \in [Workflow -> Nat]
    <3>1. historyLength[childJobs[w][nextChild[w]]] \in Nat
      BY <1>0, <2>1 DEF TypeOK
    <3>. QED
      BY <1>0, <1>16, <3>1 DEF TypeOK, DispatchSkip
  <2>4. nextChild' \in [Workflow -> Nat \ {0}]
    <3>1. nextChild' = [nextChild EXCEPT ![w] = @ + 1]
      BY <1>16 DEF DispatchSkip
    <3>2. nextChild \in [Workflow -> Nat \ {0}]
      BY <1>0 DEF TypeOK
    <3>. QED
      BY <3>1, <3>2
  <2>5. UNCHANGED <<serverVars, status, historyLength, depth, childJobs, isUpToDate,
                    poolVars, iterVars, printVars>>
    BY <1>16 DEF DispatchSkip
  <2>. QED
    BY <1>0, <2>2, <2>3, <2>4, <2>5 DEF TypeOK, serverVars, poolVars, iterVars, printVars
<1>. QED
  BY <1>1, <1>2, <1>3, <1>4, <1>5, <1>6, <1>7, <1>8, <1>9, <1>10, <1>11, <1>12, <1>13, <1>14,
     <1>15, <1>16
  DEF Step, GroupStep, JobStep

\* The job steps: everything but the group goroutine, the server, the
\* iterator's ends, the printer and the signals.
Job(w) ==
  \/ IterUpdate(w)
  \/ JobStep(w)

\* A job that takes a step has been submitted.
LEMMA JobIsWorking ==
  ASSUME IInv, NEW w \in Workflow, Job(w)
  PROVE  /\ pc[w] \notin {"none", "created", "queued", "skipped", "dropped", "failed", "done"}
         /\ group' = group
<1>1. /\ pc[w] \in {"fetch", "send", "handle", "dispatch", "submit"}
      /\ group' = group
  BY DEF Job, IterUpdate, JobStep, Fetch, FetchFails, FetchEnds, HandleEvent, HandleChildStarted,
         HandleChildFails, FailJob, DispatchSubmit, DispatchSkip, DispatchEnds, SubmitLateChild,
         Submit, poolVars
<1>. QED
  BY <1>1

\* Every step keeps the root's job where the group goroutine left it.
LEMMA RootStep ==
  ASSUME IInv, Step
  PROVE  RootInv'
<1>0. RootInv /\ pc \in [Workflow -> JobState] /\ Root \in Workflow
  BY JobTypes, RootAssumption DEF IInv
<1>1. ASSUME NEW w \in Workflow, Job(w)
      PROVE  RootInv'
  <2>1. group' \notin {"start", "submit"}
    <3>1. pc[w] \notin {"none", "created"} /\ group' = group
      BY <1>1, JobIsWorking
    <3>2. group # "start"
      BY <1>0, <3>1 DEF RootInv
    <3>3. group # "submit"
      BY <1>0, <3>1 DEF RootInv, Children
    <3>. QED
      BY <3>1, <3>2, <3>3
  <2>2. pc[Root] \notin {"none", "created", "skipped"}
    BY <1>0, <1>1, <2>1, JobIsWorking DEF RootInv
  <2>3. pc'[Root] \notin {"none", "created", "skipped"}
    <3>1. CASE IterUpdate(w)
      BY <1>0, <2>2, <3>1, IterUpdateEffect
    <3>2. CASE Fetch(w)
      BY <1>0, <2>2, <3>2, FetchEffect
    <3>3. CASE FetchFails(w) \/ HandleChildFails(w)
      BY <1>0, <2>2, <3>3, FailEffect
    <3>4. CASE FetchEnds(w)
      BY <1>0, <2>2, <3>4, FetchEndsEffect
    <3>5. CASE DispatchEnds(w)
      BY <1>0, <2>2, <3>5, DispatchEndsEffect
    <3>6. CASE HandleEvent(w)
      BY <1>0, <2>2, <3>6, HandleEventEffect
    <3>7. CASE HandleChildStarted(w)
      <4>1. PICK x \in Children : Spawns(w, x)
        BY <3>7, HandleChildStartedEffect
      <4>. QED
        BY <1>0, <2>2, <4>1 DEF Spawns, Children
    <3>8. CASE DispatchSubmit(w) \/ SubmitLateChild(w)
      <4>1. PICK x \in Children : Submits(w, x)
        BY <3>8, SubmitEffect
      <4>. QED
        BY <1>0, <2>2, <4>1 DEF Submits, Children
    <3>9. CASE DispatchSkip(w)
      <4>1. PICK x \in Children : Skips(w, x)
        BY <3>9, DispatchSkipEffect
      <4>. QED
        BY <1>0, <2>2, <4>1 DEF Skips, Children
    <3>. QED
      BY <1>1, <3>1, <3>2, <3>3, <3>4, <3>5, <3>6, <3>7, <3>8, <3>9 DEF Job, JobStep
  <2>. QED
    BY <2>1, <2>3 DEF RootInv
<1>2. CASE StartTrace
  <2>1. group' = "submit"
    BY <1>2 DEF StartTrace
  <2>. QED
    BY <1>0, <1>2, <2>1, StartTraceEffect DEF RootInv, Children
<1>3. CASE SubmitRoot
  <2>1. group' = "wait"
    BY <1>3 DEF SubmitRoot
  <2>. QED
    BY <1>0, <1>3, <2>1, SubmitRootEffect DEF RootInv
<1>4. CASE TakeTask
  <2>1. PICK w \in Workflow, s \in {"dropped", "fetch"} : Takes(w, s)
    BY <1>4, TakeTaskEffect
  <2>2. pc[w] = "queued" /\ pc' = [pc EXCEPT ![w] = s] /\ group' = group
    BY <1>4, <2>1 DEF Takes, TakeTask
  <2>. QED
    BY <1>0, <2>2 DEF RootInv, Children
<1>5. CASE pc' = pc /\ group' = group
  BY <1>0, <1>5 DEF RootInv
<1>6. CASE /\ pc' = pc
           /\ group \notin {"start", "submit"}
           /\ group' \notin {"start", "submit"}
  BY <1>0, <1>6 DEF RootInv
<1>7. CASE GroupWait \/ IterError \/ IterDone
  BY <1>6, <1>7, QuietSteps DEF GroupWait, IterError, IterDone, Quiet
<1>8. CASE StartFails \/ PrintStep
  <2>1. group' = group
    BY <1>8 DEF StartFails, PrintStep, TickCount, TickProgress, TickFails, ReceiveDone,
                ReceiveSignal, ReceiveError, PrintAndExit, poolVars
  <2>. QED
    BY <1>5, <1>8, <2>1, QuietSteps DEF Quiet
<1>9. CASE \E toTracer \in BOOLEAN : Interrupt(toTracer)
  BY <1>5, <1>9, QuietSteps DEF Interrupt, Quiet
<1>10. ASSUME NEW w \in Workflow, ServerAppend(w)
       PROVE  RootInv'
  BY <1>5, <1>10, ServerAppendEffect DEF ServerAppend, poolVars
<1>. QED
  BY <1>1, <1>2, <1>3, <1>4, <1>7, <1>8, <1>9, <1>10 DEF Step, GroupStep, IterStep, Job

\* Every step keeps the counters within the histories.
LEMMA LengthStep ==
  ASSUME IInv, Step
  PROVE  LengthInv'
<1>0. /\ \A w \in Workflow : LengthOf(w)
      /\ available \in [Workflow -> Nat]
      /\ lastEventId \in [Workflow -> Nat]
      /\ historyLength \in [Workflow -> Nat]
      /\ pc \in [Workflow -> JobState]
      /\ InitialLength \in [Workflow -> Nat]
      /\ \A w \in Workflow : Len(History[w]) \in Nat
  BY JobTypes, HistoryAssumption DEF IInv, LengthInv
<1>1. CASE Quiet
  BY <1>0, <1>1 DEF LengthInv, LengthOf, Quiet
<1>2. CASE StartTrace
  BY <1>0, <1>2, StartTraceEffect, RootAssumption DEF LengthInv, LengthOf, Describe
<1>3. CASE SubmitRoot
  BY <1>0, <1>3, SubmitRootEffect, RootAssumption DEF LengthInv, LengthOf
<1>4. CASE TakeTask
  <2>1. PICK w \in Workflow, s \in {"dropped", "fetch"} : Takes(w, s)
    BY <1>4, TakeTaskEffect
  <2>. QED
    BY <1>0, <2>1 DEF LengthInv, LengthOf, Takes
<1>5. ASSUME NEW w \in Workflow, IterUpdate(w)
      PROVE  LengthInv'
  BY <1>0, <1>5, IterUpdateEffect DEF LengthInv, LengthOf
<1>6. ASSUME NEW w \in Workflow, ServerAppend(w)
      PROVE  LengthInv'
  <2>1. /\ available[w] < Len(History[w])
        /\ available' = [available EXCEPT ![w] = @ + 1]
        /\ UNCHANGED <<pc, historyLength, lastEventId>>
    BY <1>6, ServerAppendEffect
  <2>. QED
    BY <1>0, <2>1 DEF LengthInv, LengthOf
<1>7. ASSUME NEW w \in Workflow, Fetch(w)
      PROVE  LengthInv'
  BY <1>0, <1>7, FetchEffect DEF LengthInv, LengthOf
<1>8. ASSUME NEW w \in Workflow, FetchFails(w) \/ HandleChildFails(w)
      PROVE  LengthInv'
  BY <1>0, <1>8, FailEffect DEF LengthInv, LengthOf
<1>9. ASSUME NEW w \in Workflow, FetchEnds(w)
      PROVE  LengthInv'
  BY <1>0, <1>9, FetchEndsEffect DEF LengthInv, LengthOf
<1>10. ASSUME NEW w \in Workflow, DispatchEnds(w)
       PROVE  LengthInv'
  BY <1>0, <1>10, DispatchEndsEffect DEF LengthInv, LengthOf
<1>11. ASSUME NEW w \in Workflow, HandleEvent(w)
       PROVE  LengthInv'
  BY <1>0, <1>11, HandleEventEffect DEF LengthInv, LengthOf
<1>12. ASSUME NEW w \in Workflow, HandleChildStarted(w)
       PROVE  LengthInv'
  <2>1. PICK x \in Children : Spawns(w, x)
    BY <1>12, HandleChildStartedEffect
  <2>. QED
    BY <1>0, <2>1 DEF LengthInv, LengthOf, Spawns, Children, Describe
<1>13. ASSUME NEW w \in Workflow, DispatchSubmit(w) \/ SubmitLateChild(w)
       PROVE  LengthInv'
  <2>1. PICK x \in Children : Submits(w, x)
    BY <1>13, SubmitEffect
  <2>. QED
    BY <1>0, <2>1 DEF LengthInv, LengthOf, Submits, Children
<1>14. ASSUME NEW w \in Workflow, DispatchSkip(w)
       PROVE  LengthInv'
  <2>1. PICK x \in Children : Skips(w, x)
    BY <1>14, DispatchSkipEffect
  <2>. QED
    BY <1>0, <2>1 DEF LengthInv, LengthOf, Skips, Children
<1>. QED
  BY <1>1, <1>2, <1>3, <1>4, <1>5, <1>6, <1>7, <1>8, <1>9, <1>10, <1>11, <1>12, <1>13, <1>14,
     QuietSteps
  DEF Step, GroupStep, IterStep, JobStep

\* Every step keeps what is known of jobs that have caught up.
LEMMA CatchUpStep ==
  ASSUME IInv, Step
  PROVE  CatchUpInv'
<1>0. /\ \A w \in Workflow : CatchUpOf(w) /\ LengthOf(w) /\ LoopOf(w)
      /\ lastEventId \in [Workflow -> Nat]
      /\ historyLength \in [Workflow -> Nat]
      /\ pc \in [Workflow -> JobState]
      /\ depth \in [Workflow -> Int]
      /\ childJobs \in [Workflow -> Seq(Workflow)]
      /\ nextChild \in [Workflow -> Nat \ {0}]
      /\ isUpToDate \in [Workflow -> BOOLEAN]
  BY JobTypes DEF IInv, CatchUpInv, LengthInv, LoopInv
<1>1. CASE Quiet
  BY <1>0, <1>1 DEF CatchUpInv, CatchUpOf, Quiet
<1>2. CASE StartTrace
  BY <1>0, <1>2, StartTraceEffect, RootAssumption DEF CatchUpInv, CatchUpOf
<1>3. CASE SubmitRoot
  BY <1>0, <1>3, SubmitRootEffect, RootAssumption DEF CatchUpInv, CatchUpOf
<1>4. CASE TakeTask
  <2>1. PICK w \in Workflow, s \in {"dropped", "fetch"} : Takes(w, s)
    BY <1>4, TakeTaskEffect
  <2>. QED
    BY <1>0, <2>1 DEF CatchUpInv, CatchUpOf, Takes, LengthOf
<1>5. ASSUME NEW w \in Workflow, IterUpdate(w)
      PROVE  CatchUpInv'
  BY <1>0, <1>5, IterUpdateEffect DEF CatchUpInv, CatchUpOf
<1>6. ASSUME NEW w \in Workflow, ServerAppend(w)
      PROVE  CatchUpInv'
  BY <1>0, <1>6, ServerAppendEffect DEF CatchUpInv, CatchUpOf
<1>7. ASSUME NEW w \in Workflow, Fetch(w)
      PROVE  CatchUpInv'
  <2>. SUFFICES ASSUME NEW v \in Workflow PROVE CatchUpOf(v)'
    BY DEF CatchUpInv
  <2>1. CASE v # w
    <3>1. UNCHANGED <<pc[v], lastEventId[v]>>
      BY <1>0, <1>7, <2>1, FetchEffect
    <3>. QED
      BY <1>0, <1>7, <3>1, FetchEffect DEF CatchUpOf
  <2>2. CASE v = w
    <3>1. pc[v] = "fetch" /\ pc'[v] = "send" /\ lastEventId'[v] = lastEventId[v] + 1
      BY <1>0, <1>7, <2>2, FetchEffect
    <3>2. UNCHANGED <<childJobs, depth, historyLength, isUpToDate>>
      BY <1>7, FetchEffect
    <3>. QED
      BY <1>0, <3>1, <3>2 DEF CatchUpOf
  <2>. QED
    BY <2>1, <2>2
<1>8. ASSUME NEW w \in Workflow, FetchFails(w) \/ HandleChildFails(w)
      PROVE  CatchUpInv'
  BY <1>0, <1>8, FailEffect DEF CatchUpInv, CatchUpOf
<1>9. ASSUME NEW w \in Workflow, FetchEnds(w)
      PROVE  CatchUpInv'
  BY <1>0, <1>9, FetchEndsEffect DEF CatchUpInv, CatchUpOf
<1>10. ASSUME NEW w \in Workflow, DispatchEnds(w)
       PROVE  CatchUpInv'
  BY <1>0, <1>10, DispatchEndsEffect DEF CatchUpInv, CatchUpOf, LoopOf
<1>11. ASSUME NEW w \in Workflow, HandleEvent(w)
       PROVE  CatchUpInv'
  <2>. SUFFICES ASSUME NEW v \in Workflow PROVE CatchUpOf(v)'
    BY DEF CatchUpInv
  <2>1. CASE v # w
    <3>1. UNCHANGED <<pc[v], isUpToDate[v], nextChild[v]>>
      BY <1>0, <1>11, <2>1, HandleEventEffect
    <3>. QED
      BY <1>0, <1>11, <3>1, HandleEventEffect DEF CatchUpOf
  <2>2. CASE v = w /\ CatchesUp(w)
    <3>1. pc'[v] = "dispatch" /\ isUpToDate'[v] /\ nextChild'[v] = 1
      BY <1>0, <1>11, <2>2, HandleEventEffect
    <3>. QED
      BY <1>0, <1>11, <2>2, <3>1, HandleEventEffect DEF CatchUpOf, CatchesUp, LengthOf
  <2>3. CASE v = w /\ ~ CatchesUp(w)
    <3>1. pc'[v] = "fetch" /\ isUpToDate'[v] = isUpToDate[v] /\ nextChild'[v] = nextChild[v]
      BY <1>0, <1>11, <2>3, HandleEventEffect
    <3>. QED
      BY <1>0, <1>11, <2>3, <3>1, HandleEventEffect DEF CatchUpOf, CatchesUp, LengthOf
  <2>. QED
    BY <2>1, <2>2, <2>3
<1>12. ASSUME NEW w \in Workflow, HandleChildStarted(w)
       PROVE  CatchUpInv'
  <2>1. PICK x \in Children : Spawns(w, x)
    BY <1>12, HandleChildStartedEffect
  <2>. QED
    BY <1>0, <2>1 DEF CatchUpInv, CatchUpOf, Spawns, Children, CatchesUp, LengthOf
<1>13. ASSUME NEW w \in Workflow, DispatchSubmit(w) \/ SubmitLateChild(w)
       PROVE  CatchUpInv'
  <2>1. PICK x \in Children : Submits(w, x)
    BY <1>13, SubmitEffect
  <2>. QED
    BY <1>0, <2>1 DEF CatchUpInv, CatchUpOf, Submits, Children
<1>14. ASSUME NEW w \in Workflow, DispatchSkip(w)
       PROVE  CatchUpInv'
  <2>1. PICK x \in Children : Skips(w, x)
    BY <1>14, DispatchSkipEffect
  <2>. QED
    BY <1>0, <2>1 DEF CatchUpInv, CatchUpOf, Skips, Children, LengthOf
<1>. QED
  BY <1>1, <1>2, <1>3, <1>4, <1>5, <1>6, <1>7, <1>8, <1>9, <1>10, <1>11, <1>12, <1>13, <1>14,
     QuietSteps
  DEF Step, GroupStep, IterStep, JobStep

\* Every step keeps the loop over childJobs in its bounds.
LEMMA LoopStep ==
  ASSUME IInv, Step
  PROVE  LoopInv'
<1>0. /\ \A w \in Workflow : LoopOf(w) /\ CatchUpOf(w)
      /\ pc \in [Workflow -> JobState]
      /\ childJobs \in [Workflow -> Seq(Workflow)]
      /\ nextChild \in [Workflow -> Nat \ {0}]
      /\ isUpToDate \in [Workflow -> BOOLEAN]
  BY JobTypes DEF IInv, LoopInv, CatchUpInv
<1>1. CASE Quiet
  BY <1>0, <1>1 DEF LoopInv, LoopOf, Quiet
<1>2. CASE StartTrace
  BY <1>0, <1>2, StartTraceEffect, RootAssumption DEF LoopInv, LoopOf
<1>3. CASE SubmitRoot
  BY <1>0, <1>3, SubmitRootEffect, RootAssumption DEF LoopInv, LoopOf
<1>4. CASE TakeTask
  <2>1. PICK w \in Workflow, s \in {"dropped", "fetch"} : Takes(w, s)
    BY <1>4, TakeTaskEffect
  <2>. QED
    BY <1>0, <2>1 DEF LoopInv, LoopOf, Takes, CatchUpOf
<1>5. ASSUME NEW w \in Workflow, IterUpdate(w)
      PROVE  LoopInv'
  BY <1>0, <1>5, IterUpdateEffect DEF LoopInv, LoopOf
<1>6. ASSUME NEW w \in Workflow, ServerAppend(w)
      PROVE  LoopInv'
  BY <1>0, <1>6, ServerAppendEffect DEF LoopInv, LoopOf
<1>7. ASSUME NEW w \in Workflow, Fetch(w)
      PROVE  LoopInv'
  BY <1>0, <1>7, FetchEffect DEF LoopInv, LoopOf
<1>8. ASSUME NEW w \in Workflow, FetchFails(w) \/ HandleChildFails(w)
      PROVE  LoopInv'
  BY <1>0, <1>8, FailEffect DEF LoopInv, LoopOf
<1>9. ASSUME NEW w \in Workflow, FetchEnds(w)
      PROVE  LoopInv'
  BY <1>0, <1>9, FetchEndsEffect DEF LoopInv, LoopOf
<1>10. ASSUME NEW w \in Workflow, DispatchEnds(w)
       PROVE  LoopInv'
  <2>1. nextChild[w] \in Nat /\ Len(childJobs[w]) \in Nat
    BY <1>0
  <2>2. nextChild[w] = Len(childJobs[w]) + 1
    BY <1>0, <1>10, <2>1, DispatchEndsEffect DEF LoopOf
  <2>. QED
    BY <1>0, <1>10, <2>2, DispatchEndsEffect DEF LoopInv, LoopOf
<1>11. ASSUME NEW w \in Workflow, HandleEvent(w)
       PROVE  LoopInv'
  <2>. SUFFICES ASSUME NEW v \in Workflow PROVE LoopOf(v)'
    BY DEF LoopInv
  <2>1. CASE v # w
    <3>1. UNCHANGED <<pc[v], isUpToDate[v], nextChild[v]>>
      BY <1>0, <1>11, <2>1, HandleEventEffect
    <3>. QED
      BY <1>0, <1>11, <3>1, HandleEventEffect DEF LoopOf
  <2>2. CASE v = w /\ CatchesUp(w)
    <3>1. pc'[v] = "dispatch" /\ isUpToDate'[v] /\ nextChild'[v] = 1
      BY <1>0, <1>11, <2>2, HandleEventEffect
    <3>. QED
      BY <1>0, <1>11, <2>2, <3>1, HandleEventEffect DEF LoopOf, CatchesUp
  <2>3. CASE v = w /\ ~ CatchesUp(w)
    <3>1. pc'[v] = "fetch" /\ isUpToDate'[v] = isUpToDate[v] /\ nextChild'[v] = nextChild[v]
      BY <1>0, <1>11, <2>3, HandleEventEffect
    <3>. QED
      BY <1>0, <1>11, <2>3, <3>1, HandleEventEffect DEF LoopOf, CatchesUp
  <2>. QED
    BY <2>1, <2>2, <2>3
<1>12. ASSUME NEW w \in Workflow, HandleChildStarted(w)
       PROVE  LoopInv'
  <2>1. PICK x \in Children : Spawns(w, x)
    BY <1>12, HandleChildStartedEffect
  <2>. SUFFICES ASSUME NEW v \in Workflow PROVE LoopOf(v)'
    BY DEF LoopInv
  <2>2. /\ pc[w] = "handle" /\ pc[x] = "none" /\ x # w /\ x \in Workflow
        /\ childJobs[w] \in Seq(Workflow)
        /\ childJobs' = [childJobs EXCEPT ![w] = Append(childJobs[w], x)]
    BY <1>0, <2>1 DEF Spawns, Children
  <2>3. Len(childJobs'[w]) = Len(childJobs[w]) + 1 /\ Len(childJobs[w]) \in Nat
    BY <1>0, <2>2
  <2>4. CASE v \notin {w, x}
    <3>1. UNCHANGED <<pc[v], isUpToDate[v], nextChild[v], childJobs[v]>>
      BY <1>0, <2>1, <2>4 DEF Spawns
    <3>. QED
      BY <1>0, <3>1 DEF LoopOf
  <2>5. CASE v = x
    <3>1. pc'[v] = "created"
      BY <1>0, <2>1, <2>2, <2>5 DEF Spawns
    <3>. QED
      BY <3>1 DEF LoopOf
  <2>6. CASE v = w /\ CatchesUp(w)
    <3>1. pc'[v] = "dispatch" /\ isUpToDate'[v] /\ nextChild'[v] = 1
      BY <1>0, <2>1, <2>2, <2>6 DEF Spawns
    <3>. QED
      BY <2>3, <2>6, <3>1 DEF LoopOf
  <2>7. CASE v = w /\ ~ CatchesUp(w) /\ isUpToDate[w]
    <3>1. pc'[v] = "submit" /\ isUpToDate'[v] /\ nextChild'[v] = Len(childJobs[w]) + 1
      BY <1>0, <2>1, <2>2, <2>7 DEF Spawns
    <3>. QED
      BY <2>3, <2>7, <3>1 DEF LoopOf
  <2>8. CASE v = w /\ ~ CatchesUp(w) /\ ~ isUpToDate[w]
    <3>1. pc'[v] = "fetch" /\ ~ isUpToDate'[v]
      BY <1>0, <2>1, <2>2, <2>8 DEF Spawns
    <3>. QED
      BY <3>1 DEF LoopOf
  <2>. QED
    BY <2>4, <2>5, <2>6, <2>7, <2>8
<1>13. ASSUME NEW w \in Workflow, DispatchSubmit(w) \/ SubmitLateChild(w)
       PROVE  LoopInv'
  <2>1. PICK x \in Children : Submits(w, x)
    BY <1>13, SubmitEffect
  <2>. QED
    BY <1>0, <2>1 DEF LoopInv, LoopOf, Submits, Children
<1>14. ASSUME NEW w \in Workflow, DispatchSkip(w)
       PROVE  LoopInv'
  <2>1. PICK x \in Children : Skips(w, x)
    BY <1>14, DispatchSkipEffect
  <2>. QED
    BY <1>0, <2>1 DEF LoopInv, LoopOf, Skips, Children
<1>. QED
  BY <1>1, <1>2, <1>3, <1>4, <1>5, <1>6, <1>7, <1>8, <1>9, <1>10, <1>11, <1>12, <1>13, <1>14,
     QuietSteps
  DEF Step, GroupStep, IterStep, JobStep

\* Every step keeps the children waiting for their submission apart
\* from the others.
LEMMA ChildStep ==
  ASSUME IInv, Step
  PROVE  ChildInv'
<1>0. /\ ChildInv /\ OneParent /\ LoopInv /\ CatchUpInv
      /\ pc \in [Workflow -> JobState]
      /\ childJobs \in [Workflow -> Seq(Workflow)]
      /\ nextChild \in [Workflow -> Nat \ {0}]
      /\ isUpToDate \in [Workflow -> BOOLEAN]
  BY JobTypes DEF IInv
<1>1. CASE Quiet
  BY <1>0, <1>1 DEF ChildInv, ChildOf, Quiet
<1>2. CASE StartTrace
  BY <1>0, <1>2, StartTraceEffect DEF ChildInv, ChildOf
<1>3. CASE SubmitRoot
  BY <1>0, <1>3, SubmitRootEffect DEF ChildInv, ChildOf
<1>4. CASE TakeTask
  <2>1. PICK w \in Workflow, s \in {"dropped", "fetch"} : Takes(w, s)
    BY <1>4, TakeTaskEffect
  <2>. QED
    BY <1>0, <2>1 DEF ChildInv, ChildOf, Takes
<1>5. ASSUME NEW w \in Workflow, IterUpdate(w)
      PROVE  ChildInv'
  BY <1>0, <1>5, IterUpdateEffect DEF ChildInv, ChildOf
<1>6. ASSUME NEW w \in Workflow, ServerAppend(w)
      PROVE  ChildInv'
  BY <1>0, <1>6, ServerAppendEffect DEF ChildInv, ChildOf
<1>7. ASSUME NEW w \in Workflow, Fetch(w)
      PROVE  ChildInv'
  BY <1>0, <1>7, FetchEffect DEF ChildInv, ChildOf
<1>8. ASSUME NEW w \in Workflow, FetchFails(w) \/ HandleChildFails(w)
      PROVE  ChildInv'
  <2>1. \A x \in Workflow : \/ pc'[x] = pc[x]
          \/ {pc[x], pc'[x]} \cap {"none", "created"} = {}
    BY <1>0, <1>8, FailEffect
  <2>2. UNCHANGED <<childJobs, isUpToDate, nextChild>>
    BY <1>8, FailEffect
  <2>. SUFFICES ASSUME NEW p \in Workflow, NEW i \in DOMAIN childJobs'[p]
                 PROVE  ChildOf(p, i)'
    BY DEF ChildInv
  <2>3. childJobs[p][i] \in Workflow /\ ChildOf(p, i)
    BY <1>0, <2>2 DEF ChildInv
  <2>. QED
    BY <2>1, <2>2, <2>3 DEF ChildOf
<1>9. ASSUME NEW w \in Workflow, FetchEnds(w)
      PROVE  ChildInv'
  BY <1>0, <1>9, FetchEndsEffect DEF ChildInv, ChildOf
<1>10. ASSUME NEW w \in Workflow, DispatchEnds(w)
       PROVE  ChildInv'
  BY <1>0, <1>10, DispatchEndsEffect DEF ChildInv, ChildOf
<1>11. ASSUME NEW w \in Workflow, HandleEvent(w)
       PROVE  ChildInv'
  <2>1. \A x \in Workflow : \/ pc'[x] = pc[x]
          \/ {pc[x], pc'[x]} \cap {"none", "created"} = {}
    BY <1>0, <1>11, HandleEventEffect
  <2>2. childJobs' = childJobs
    BY <1>11, HandleEventEffect
  <2>. SUFFICES ASSUME NEW p \in Workflow, NEW i \in DOMAIN childJobs'[p]
                 PROVE  ChildOf(p, i)'
    BY DEF ChildInv
  <2>3. childJobs[p][i] \in Workflow /\ ChildOf(p, i) /\ i \in Nat \ {0}
    BY <1>0, <2>2 DEF ChildInv
  <2>4. (~ isUpToDate'[p] \/ i >= nextChild'[p]) <=> (~ isUpToDate[p] \/ i >= nextChild[p])
    <3>1. CASE p = w /\ CatchesUp(w)
      <4>1. isUpToDate'[p] /\ nextChild'[p] = 1
        BY <1>0, <1>11, <3>1, HandleEventEffect
      <4>2. ~ isUpToDate[p]
        BY <3>1 DEF CatchesUp
      <4>. QED
        BY <2>3, <4>1, <4>2
    <3>2. CASE p # w \/ ~ CatchesUp(w)
      <4>1. isUpToDate'[p] = isUpToDate[p] /\ nextChild'[p] = nextChild[p]
        BY <1>0, <1>11, <3>2, HandleEventEffect
      <4>. QED
        BY <4>1
    <3>. QED
      BY <3>1, <3>2
  <2>. QED
    BY <2>1, <2>2, <2>3, <2>4 DEF ChildOf
<1>12. ASSUME NEW w \in Workflow, HandleChildStarted(w)
       PROVE  ChildInv'
  <2>1. PICK x \in Children : Spawns(w, x)
    BY <1>12, HandleChildStartedEffect
  <2>2. /\ x \in Workflow /\ x # Root /\ x # w
        /\ pc[w] = "handle" /\ pc[x] = "none"
        /\ childJobs[w] \in Seq(Workflow)
        /\ nextChild[w] \in Nat \ {0}
    BY <1>0, <2>1 DEF Spawns, Children
  <2>3. /\ childJobs'[w] = Append(childJobs[w], x)
        /\ \A p \in Workflow \ {w} : UNCHANGED <<childJobs[p], isUpToDate[p], nextChild[p]>>
    BY <1>0, <2>1 DEF Spawns
  <2>4. \A y \in Workflow \ {x} : \/ pc'[y] = pc[y]
          \/ {pc[y], pc'[y]} \cap {"none", "created"} = {}
    BY <1>0, <2>1, <2>2 DEF Spawns
  <2>5. pc'[x] = "created"
    BY <1>0, <2>1, <2>2 DEF Spawns
  <2>6. isUpToDate[w] => nextChild[w] = Len(childJobs[w]) + 1
    BY <1>0, <2>2 DEF LoopInv, LoopOf
  <2>7. /\ CatchesUp(w) => ~ isUpToDate[w] /\ isUpToDate'[w] /\ nextChild'[w] = 1
        /\ ~ CatchesUp(w) => UNCHANGED <<isUpToDate[w], nextChild[w]>>
    <3>1. CASE CatchesUp(w)
      BY <1>0, <2>1, <3>1 DEF Spawns, CatchesUp
    <3>2. CASE ~ CatchesUp(w)
      BY <1>0, <2>1, <2>6, <3>2 DEF Spawns
    <3>. QED
      BY <3>1, <3>2
  <2>. SUFFICES ASSUME NEW p \in Workflow, NEW i \in DOMAIN childJobs'[p]
                 PROVE  ChildOf(p, i)'
    BY DEF ChildInv
  <2>8. CASE p # w
    <3>1. ChildOf(p, i) /\ i \in DOMAIN childJobs[p] /\ childJobs[p][i] \in Workflow
      BY <1>0, <2>3, <2>8 DEF ChildInv
    <3>2. childJobs[p][i] # x
      BY <2>2, <3>1 DEF ChildOf
    <3>. QED
      BY <2>3, <2>4, <2>8, <3>1, <3>2 DEF ChildOf
  <2>9. CASE p = w /\ i \in DOMAIN childJobs[w]
    <3>1. /\ ChildOf(w, i) /\ childJobs[w][i] \in Workflow
          /\ childJobs'[w][i] = childJobs[w][i]
          /\ i \in Nat \ {0}
      BY <1>0, <2>2, <2>3, <2>9 DEF ChildInv
    <3>2. childJobs[w][i] # x
      BY <2>2, <3>1 DEF ChildOf
    <3>3. (~ isUpToDate'[w] \/ i >= nextChild'[w]) <=> (~ isUpToDate[w] \/ i >= nextChild[w])
      BY <2>7, <3>1
    <3>. QED
      BY <2>4, <2>9, <3>1, <3>2, <3>3 DEF ChildOf
  <2>10. CASE p = w /\ i = Len(childJobs[w]) + 1
    <3>1. childJobs'[w][i] = x
      BY <2>2, <2>3, <2>10
    <3>2. ~ isUpToDate'[w] \/ i >= nextChild'[w]
      BY <2>2, <2>6, <2>7, <2>10
    <3>. QED
      BY <2>2, <2>5, <2>10, <3>1, <3>2 DEF ChildOf
  <2>11. p = w => i \in DOMAIN childJobs[w] \/ i = Len(childJobs[w]) + 1
    BY <2>2, <2>3
  <2>. QED
    BY <2>8, <2>9, <2>10, <2>11
<1>13. ASSUME NEW w \in Workflow, DispatchSubmit(w) \/ SubmitLateChild(w)
       PROVE  ChildInv'
  <2>1. PICK x \in Children : Submits(w, x)
    BY <1>13, SubmitEffect
  <2>2. /\ x \in Workflow /\ x # w /\ pc[x] = "created"
        /\ nextChild[w] \in DOMAIN childJobs[w] /\ x = childJobs[w][nextChild[w]]
        /\ isUpToDate[w]
        /\ nextChild[w] \in Nat
    BY <1>0, <2>1 DEF Submits, Children
  <2>3. /\ UNCHANGED <<childJobs, isUpToDate>>
        /\ nextChild'[w] = nextChild[w] + 1
        /\ \A p \in Workflow \ {w} : nextChild'[p] = nextChild[p]
    BY <1>0, <2>1 DEF Submits
  <2>4. /\ pc'[x] = "queued"
        /\ \A y \in Workflow \ {x} : \/ pc'[y] = pc[y]
          \/ {pc[y], pc'[y]} \cap {"none", "created"} = {}
    BY <1>0, <2>1, <2>2 DEF Submits
  <2>. SUFFICES ASSUME NEW p \in Workflow, NEW i \in DOMAIN childJobs'[p]
                 PROVE  ChildOf(p, i)'
    BY DEF ChildInv
  <2>5. /\ i \in DOMAIN childJobs[p] /\ i \in Nat
        /\ ChildOf(p, i)
        /\ childJobs[p][i] \in Workflow
    BY <1>0, <2>3 DEF ChildInv
  <2>6. CASE childJobs[p][i] = x
    <3>1. p = w /\ i = nextChild[w]
      BY <1>0, <2>2, <2>5, <2>6 DEF OneParent
    <3>. QED
      BY <2>2, <2>3, <2>4, <2>5, <2>6, <3>1 DEF ChildOf
  <2>7. CASE childJobs[p][i] # x
    <3>1. CASE p = w
      <4>1. i # nextChild[w]
        BY <2>2, <2>7, <3>1
      <4>2. i >= nextChild[w] <=> i >= nextChild[w] + 1
        BY <2>2, <2>5, <4>1
      <4>. QED
        BY <2>2, <2>3, <2>4, <2>5, <2>7, <3>1, <4>2 DEF ChildOf
    <3>2. CASE p # w
      BY <2>3, <2>4, <2>5, <2>7, <3>2 DEF ChildOf
    <3>. QED
      BY <3>1, <3>2
  <2>. QED
    BY <2>6, <2>7
<1>14. ASSUME NEW w \in Workflow, DispatchSkip(w)
       PROVE  ChildInv'
  <2>1. PICK x \in Children : Skips(w, x)
    BY <1>14, DispatchSkipEffect
  <2>2. /\ x \in Workflow /\ x # w /\ pc[x] = "created"
        /\ nextChild[w] \in DOMAIN childJobs[w] /\ x = childJobs[w][nextChild[w]]
        /\ isUpToDate[w]
        /\ nextChild[w] \in Nat
    BY <1>0, <2>1 DEF Skips, Children
  <2>3. /\ UNCHANGED <<childJobs, isUpToDate>>
        /\ nextChild'[w] = nextChild[w] + 1
        /\ \A p \in Workflow \ {w} : nextChild'[p] = nextChild[p]
    BY <1>0, <2>1 DEF Skips
  <2>4. /\ pc'[x] = "skipped"
        /\ \A y \in Workflow \ {x} : \/ pc'[y] = pc[y]
          \/ {pc[y], pc'[y]} \cap {"none", "created"} = {}
    BY <1>0, <2>1, <2>2 DEF Skips
  <2>. SUFFICES ASSUME NEW p \in Workflow, NEW i \in DOMAIN childJobs'[p]
                 PROVE  ChildOf(p, i)'
    BY DEF ChildInv
  <2>5. /\ i \in DOMAIN childJobs[p] /\ i \in Nat
        /\ ChildOf(p, i)
        /\ childJobs[p][i] \in Workflow
    BY <1>0, <2>3 DEF ChildInv
  <2>6. CASE childJobs[p][i] = x
    <3>1. p = w /\ i = nextChild[w]
      BY <1>0, <2>2, <2>5, <2>6 DEF OneParent
    <3>. QED
      BY <2>2, <2>3, <2>4, <2>5, <2>6, <3>1 DEF ChildOf
  <2>7. CASE childJobs[p][i] # x
    <3>1. CASE p = w
      <4>1. i # nextChild[w]
        BY <2>2, <2>7, <3>1
      <4>2. i >= nextChild[w] <=> i >= nextChild[w] + 1
        BY <2>2, <2>5, <4>1
      <4>. QED
        BY <2>2, <2>3, <2>4, <2>5, <2>7, <3>1, <4>2 DEF ChildOf
    <3>2. CASE p # w
      BY <2>3, <2>4, <2>5, <2>7, <3>2 DEF ChildOf
    <3>. QED
      BY <3>1, <3>2
  <2>. QED
    BY <2>6, <2>7
<1>. QED
  BY <1>1, <1>2, <1>3, <1>4, <1>5, <1>6, <1>7, <1>8, <1>9, <1>10, <1>11, <1>12, <1>13, <1>14,
     QuietSteps
  DEF Step, GroupStep, IterStep, JobStep

\* A step creates one child's job, or it creates none.
LEMMA SpawnOrNot ==
  ASSUME IInv, Step
  PROVE  \/ \E w \in Workflow : \E x \in Children : Spawns(w, x)
         \/ /\ childJobs' = childJobs
            /\ \A x \in Children : pc[x] = "none" => pc'[x] = "none"
<1>. DEFINE None == /\ childJobs' = childJobs
                    /\ \A x \in Children : pc[x] = "none" => pc'[x] = "none"
<1>0. pc \in [Workflow -> JobState] /\ Root \in Workflow
  BY JobTypes, RootAssumption DEF IInv
<1>1. CASE Quiet
  BY <1>1 DEF Quiet
<1>2. CASE StartTrace
  BY <1>0, <1>2, StartTraceEffect DEF Children
<1>3. CASE SubmitRoot
  BY <1>0, <1>3, SubmitRootEffect DEF Children
<1>4. CASE TakeTask
  <2>1. PICK w \in Workflow, s \in {"dropped", "fetch"} : Takes(w, s)
    BY <1>4, TakeTaskEffect
  <2>. QED
    BY <1>0, <2>1 DEF Takes, Children
<1>5. ASSUME NEW w \in Workflow, IterUpdate(w)
      PROVE  None
  BY <1>0, <1>5, IterUpdateEffect DEF Children
<1>6. ASSUME NEW w \in Workflow, ServerAppend(w)
      PROVE  None
  BY <1>6, ServerAppendEffect
<1>7. ASSUME NEW w \in Workflow, Fetch(w)
      PROVE  None
  BY <1>0, <1>7, FetchEffect DEF Children
<1>8. ASSUME NEW w \in Workflow, FetchFails(w) \/ HandleChildFails(w)
      PROVE  None
  BY <1>0, <1>8, FailEffect DEF Children
<1>9. ASSUME NEW w \in Workflow, FetchEnds(w)
      PROVE  None
  BY <1>0, <1>9, FetchEndsEffect DEF Children
<1>10. ASSUME NEW w \in Workflow, DispatchEnds(w)
       PROVE  None
  BY <1>0, <1>10, DispatchEndsEffect DEF Children
<1>11. ASSUME NEW w \in Workflow, HandleEvent(w)
       PROVE  None
  BY <1>0, <1>11, HandleEventEffect DEF Children
<1>12. ASSUME NEW w \in Workflow, HandleChildStarted(w)
       PROVE  \E x \in Children : Spawns(w, x)
  BY <1>12, HandleChildStartedEffect
<1>13. ASSUME NEW w \in Workflow, DispatchSubmit(w) \/ SubmitLateChild(w)
       PROVE  None
  <2>1. PICK x \in Children : Submits(w, x)
    BY <1>13, SubmitEffect
  <2>. QED
    BY <1>0, <2>1 DEF Submits, Children
<1>14. ASSUME NEW w \in Workflow, DispatchSkip(w)
       PROVE  None
  <2>1. PICK x \in Children : Skips(w, x)
    BY <1>14, DispatchSkipEffect
  <2>. QED
    BY <1>0, <2>1 DEF Skips, Children
<1>. QED
  BY <1>1, <1>2, <1>3, <1>4, <1>5, <1>6, <1>7, <1>8, <1>9, <1>10, <1>11, <1>12, <1>13, <1>14,
     QuietSteps
  DEF Step, GroupStep, IterStep, JobStep

\* What a spawned child adds to its parent's childJobs.
LEMMA SpawnAppends ==
  ASSUME IInv, NEW w \in Workflow, NEW x \in Children, Spawns(w, x)
  PROVE  /\ pc[x] = "none"
         /\ x \in Workflow
         /\ \A p \in Workflow \ {w} : childJobs'[p] = childJobs[p]
         /\ DOMAIN childJobs'[w] = DOMAIN childJobs[w] \cup {Len(childJobs[w]) + 1}
         /\ \A i \in DOMAIN childJobs[w] : childJobs'[w][i] = childJobs[w][i]
         /\ childJobs'[w][Len(childJobs[w]) + 1] = x
<1>1. childJobs \in [Workflow -> Seq(Workflow)]
  BY JobTypes DEF IInv
<1>2. childJobs' = [childJobs EXCEPT ![w] = Append(childJobs[w], x)] /\ pc[x] = "none"
  BY DEF Spawns
<1>3. childJobs'[w] = Append(childJobs[w], x) /\ childJobs[w] \in Seq(Workflow) /\ x \in Workflow
  BY <1>1, <1>2 DEF Children
<1>4. \A p \in Workflow \ {w} : childJobs'[p] = childJobs[p]
  BY <1>1, <1>2
<1>5. DOMAIN childJobs'[w] = DOMAIN childJobs[w] \cup {Len(childJobs[w]) + 1}
  BY <1>3
<1>6. /\ \A i \in DOMAIN childJobs[w] : childJobs'[w][i] = childJobs[w][i]
      /\ childJobs'[w][Len(childJobs[w]) + 1] = x
  BY <1>3
<1>. QED
  BY <1>2, <1>3, <1>4, <1>5, <1>6

\* Every step keeps a parent for every child job.
LEMMA HasParentStep ==
  ASSUME IInv, Step
  PROVE  HasParent'
<1>0. HasParent
  BY DEF IInv
<1>1. CASE /\ childJobs' = childJobs
           /\ \A x \in Children : pc[x] = "none" => pc'[x] = "none"
  BY <1>0, <1>1 DEF HasParent
<1>2. ASSUME NEW w \in Workflow, NEW x \in Children, Spawns(w, x)
      PROVE  HasParent'
  <2>. SUFFICES ASSUME NEW c \in Children, pc'[c] # "none"
                PROVE  \E p \in Workflow : \E i \in DOMAIN childJobs'[p] : childJobs'[p][i] = c
    BY DEF HasParent
  <2>1. CASE c = x
    BY <1>2, <2>1, SpawnAppends
  <2>2. CASE c # x /\ c # w
    <3>1. pc[c] # "none"
      <4>1. pc \in [Workflow -> JobState] /\ c \in Workflow
        BY JobTypes DEF IInv, Children
      <4>. QED
        BY <1>2, <2>2, <4>1 DEF Spawns
    <3>2. PICK p \in Workflow : \E i \in DOMAIN childJobs[p] : childJobs[p][i] = c
      BY <1>0, <3>1 DEF HasParent
    <3>. QED
      BY <1>2, <3>2, SpawnAppends
  <2>3. CASE c = w
    <3>1. pc[w] # "none"
      BY <1>2 DEF Spawns
    <3>2. PICK p \in Workflow : \E i \in DOMAIN childJobs[p] : childJobs[p][i] = c
      BY <1>0, <2>3, <3>1 DEF HasParent
    <3>. QED
      BY <1>2, <3>2, SpawnAppends
  <2>. QED
    BY <2>1, <2>2, <2>3
<1>. QED
  BY <1>1, <1>2, SpawnOrNot

\* No step puts a child into a second childJobs, or twice into one.
LEMMA OneParentStep ==
  ASSUME IInv, Step
  PROVE  OneParent'
<1>0. OneParent
  BY DEF IInv
<1>1. CASE childJobs' = childJobs
  BY <1>0, <1>1 DEF OneParent
<1>2. ASSUME NEW w \in Workflow, NEW x \in Children, Spawns(w, x)
      PROVE  OneParent'
  <2>. DEFINE n == Len(childJobs[w]) + 1
  <2>1. \A p \in Workflow : \A i \in DOMAIN childJobs[p] : childJobs[p][i] # x
    BY <1>2, SpawnAppends DEF IInv, ChildInv, ChildOf
  <2>2. \A p \in Workflow : \A i \in DOMAIN childJobs'[p] :
          \/ i \in DOMAIN childJobs[p] /\ childJobs'[p][i] = childJobs[p][i]
          \/ p = w /\ i = n /\ childJobs'[p][i] = x
    BY <1>2, SpawnAppends
  <2>. QED
    BY <1>0, <2>1, <2>2 DEF OneParent
<1>. QED
  BY <1>1, <1>2, SpawnOrNot

\* An event a job has handled stays handled.
Handled(p, k) ==
  /\ k <= lastEventId[p]
  /\ pc[p] \in {"send", "handle"} => k < lastEventId[p]

\* No step takes the handling of an event back.
LEMMA HandledKept ==
  ASSUME IInv, Step, NEW p \in Workflow, NEW k \in Nat, Handled(p, k)
  PROVE  Handled(p, k)'
<1>0. /\ lastEventId \in [Workflow -> Nat]
      /\ historyLength \in [Workflow -> Nat]
      /\ pc \in [Workflow -> JobState]
      /\ Root \in Workflow
  BY JobTypes, RootAssumption DEF IInv
<1>1. CASE Quiet
  BY <1>1 DEF Handled, Quiet
<1>2. CASE StartTrace
  BY <1>0, <1>2, StartTraceEffect DEF Handled
<1>3. CASE SubmitRoot
  BY <1>0, <1>3, SubmitRootEffect DEF Handled
<1>4. CASE TakeTask
  <2>1. PICK w \in Workflow, s \in {"dropped", "fetch"} : Takes(w, s)
    BY <1>4, TakeTaskEffect
  <2>. QED
    BY <1>0, <2>1 DEF Handled, Takes
<1>5. ASSUME NEW w \in Workflow, IterUpdate(w)
      PROVE  Handled(p, k)'
  BY <1>0, <1>5, IterUpdateEffect DEF Handled
<1>6. ASSUME NEW w \in Workflow, ServerAppend(w)
      PROVE  Handled(p, k)'
  BY <1>6, ServerAppendEffect DEF Handled
<1>7. ASSUME NEW w \in Workflow, Fetch(w)
      PROVE  Handled(p, k)'
  BY <1>0, <1>7, FetchEffect DEF Handled
<1>8. ASSUME NEW w \in Workflow, FetchFails(w) \/ HandleChildFails(w)
      PROVE  Handled(p, k)'
  BY <1>0, <1>8, FailEffect DEF Handled
<1>9. ASSUME NEW w \in Workflow, FetchEnds(w)
      PROVE  Handled(p, k)'
  BY <1>0, <1>9, FetchEndsEffect DEF Handled
<1>10. ASSUME NEW w \in Workflow, DispatchEnds(w)
       PROVE  Handled(p, k)'
  BY <1>0, <1>10, DispatchEndsEffect DEF Handled
<1>11. ASSUME NEW w \in Workflow, HandleEvent(w)
       PROVE  Handled(p, k)'
  BY <1>0, <1>11, HandleEventEffect DEF Handled
<1>12. ASSUME NEW w \in Workflow, NEW x \in Children, Spawns(w, x)
       PROVE  Handled(p, k)'
  BY <1>0, <1>12 DEF Handled, Spawns, Children
<1>13. ASSUME NEW w \in Workflow, NEW x \in Children, Submits(w, x)
       PROVE  Handled(p, k)'
  BY <1>0, <1>13 DEF Handled, Submits, Children
<1>14. ASSUME NEW w \in Workflow, NEW x \in Children, Skips(w, x)
       PROVE  Handled(p, k)'
  <2>1. lastEventId[x] = 0
    BY <1>14 DEF Skips, Children, IInv, LengthInv, LengthOf
  <2>. QED
    BY <1>0, <1>14, <2>1 DEF Handled, Skips, Children
<1>. QED
  BY <1>1, <1>2, <1>3, <1>4, <1>5, <1>6, <1>7, <1>8, <1>9, <1>10, <1>11, <1>12, <1>13, <1>14,
     QuietSteps, HandleChildStartedEffect, SubmitEffect, DispatchSkipEffect
  DEF Step, GroupStep, IterStep, JobStep

\* Every child job comes from an event its parent has handled.
LEMMA EventStep ==
  ASSUME IInv, Step
  PROVE  EventInv'
<1>. SUFFICES ASSUME NEW p \in Workflow, NEW i \in DOMAIN childJobs'[p]
              PROVE  StartHandled(p, i)'
  BY DEF EventInv
<1>1. CASE i \in DOMAIN childJobs[p] /\ childJobs'[p][i] = childJobs[p][i]
  <2>1. PICK k \in DOMAIN History[p] :
          /\ History[p][k].type = "ChildStarted"
          /\ History[p][k].child = childJobs[p][i]
          /\ k <= lastEventId[p]
          /\ pc[p] \in {"send", "handle"} => k < lastEventId[p]
    BY <1>1 DEF IInv, EventInv, StartHandled
  <2>2. k \in Nat
    BY <2>1, HistoryAssumption
  <2>3. Handled(p, k)'
    BY <2>1, <2>2, HandledKept DEF Handled
  <2>. QED
    BY <1>1, <2>1, <2>3 DEF StartHandled, Handled
<1>2. ASSUME NEW x \in Children, Spawns(p, x), childJobs'[p][i] = x
      PROVE  StartHandled(p, i)'
  <2>. DEFINE k == lastEventId[p]
  <2>1. /\ k \in DOMAIN History[p]
        /\ History[p][k].type = "ChildStarted"
        /\ History[p][k].child = x
    <3>1. /\ pc[p] = "handle"
          /\ CurrentEvent(p).type = "ChildStarted"
          /\ CurrentEvent(p).child = x
      BY <1>2 DEF Spawns
    <3>2. k \in 1..Len(History[p]) /\ History[p] \in Seq(Event)
      BY <3>1, CurrentEventTyped, HistoryAssumption DEF IInv
    <3>. QED
      BY <3>1, <3>2 DEF CurrentEvent
  <2>2. lastEventId'[p] = k /\ pc'[p] \notin {"send", "handle"}
    <3>1. pc \in [Workflow -> JobState] /\ x # p /\ x \in Workflow
      BY <1>2, JobTypes DEF IInv, Spawns, Children
    <3>. QED
      BY <1>2, <3>1 DEF Spawns
  <2>3. k \in Nat
    BY JobTypes DEF IInv
  <2>. QED
    BY <1>2, <2>1, <2>2, <2>3 DEF StartHandled
<1>. QED
  <2>1. CASE childJobs' = childJobs
    BY <1>1, <2>1
  <2>2. ASSUME NEW w \in Workflow, NEW x \in Children, Spawns(w, x)
        PROVE  StartHandled(p, i)'
    BY <1>1, <1>2, <2>2, SpawnAppends
  <2>. QED
    BY <2>1, <2>2, SpawnOrNot

\* No step submits a job twice.
LEMMA SubmittedOnceStep ==
  ASSUME IInv, Step
  PROVE  SubmittedOnce'
<1>0. /\ SubmittedOnce /\ Root \in Workflow
      /\ pc \in [Workflow -> JobState]
      /\ queue \in Seq(Workflow)
  BY JobTypes, RootAssumption DEF IInv
<1>1. CASE Quiet
  BY <1>0, <1>1 DEF SubmittedOnce, Quiet
<1>2. CASE StartTrace
  BY <1>0, <1>2, StartTraceEffect DEF SubmittedOnce
<1>3. CASE SubmitRoot
  BY <1>0, <1>3, SubmitRootEffect DEF SubmittedOnce
<1>4. CASE TakeTask
  <2>1. PICK w \in Workflow, s \in {"dropped", "fetch"} : Takes(w, s)
    BY <1>4, TakeTaskEffect
  <2>. QED
    BY <1>0, <2>1 DEF SubmittedOnce, Takes
<1>5. ASSUME NEW w \in Workflow, IterUpdate(w)
      PROVE  SubmittedOnce'
  BY <1>0, <1>5, IterUpdateEffect DEF SubmittedOnce
<1>6. ASSUME NEW w \in Workflow, ServerAppend(w)
      PROVE  SubmittedOnce'
  BY <1>0, <1>6, ServerAppendEffect DEF SubmittedOnce
<1>7. ASSUME NEW w \in Workflow, Fetch(w)
      PROVE  SubmittedOnce'
  BY <1>0, <1>7, FetchEffect DEF SubmittedOnce
<1>8. ASSUME NEW w \in Workflow, FetchFails(w) \/ HandleChildFails(w)
      PROVE  SubmittedOnce'
  BY <1>0, <1>8, FailEffect DEF SubmittedOnce
<1>9. ASSUME NEW w \in Workflow, FetchEnds(w)
      PROVE  SubmittedOnce'
  BY <1>0, <1>9, FetchEndsEffect DEF SubmittedOnce
<1>10. ASSUME NEW w \in Workflow, DispatchEnds(w)
       PROVE  SubmittedOnce'
  BY <1>0, <1>10, DispatchEndsEffect DEF SubmittedOnce
<1>11. ASSUME NEW w \in Workflow, HandleEvent(w)
       PROVE  SubmittedOnce'
  BY <1>0, <1>11, HandleEventEffect DEF SubmittedOnce
<1>12. ASSUME NEW w \in Workflow, HandleChildStarted(w)
       PROVE  SubmittedOnce'
  <2>1. PICK x \in Children : Spawns(w, x)
    BY <1>12, HandleChildStartedEffect
  <2>. QED
    BY <1>0, <2>1 DEF SubmittedOnce, Spawns, Children
<1>13. ASSUME NEW w \in Workflow, DispatchSubmit(w) \/ SubmitLateChild(w)
       PROVE  SubmittedOnce'
  <2>1. PICK x \in Children : Submits(w, x)
    BY <1>13, SubmitEffect
  <2>. QED
    BY <1>0, <2>1 DEF SubmittedOnce, Submits, Children
<1>14. ASSUME NEW w \in Workflow, DispatchSkip(w)
       PROVE  SubmittedOnce'
  <2>1. PICK x \in Children : Skips(w, x)
    BY <1>14, DispatchSkipEffect
  <2>. QED
    BY <1>0, <2>1 DEF SubmittedOnce, Skips, Children
<1>. QED
  BY <1>1, <1>2, <1>3, <1>4, <1>5, <1>6, <1>7, <1>8, <1>9, <1>10, <1>11, <1>12, <1>13, <1>14,
     QuietSteps
  DEF Step, GroupStep, IterStep, JobStep

\* What the task group and the end of the command depend on.
groupVars == <<groupError, ctxDone, group, iter, cancelled, outcome>>

\* A job that does not fail changes nothing of its group.
LEMMA JobFrame ==
  ASSUME NEW w \in Workflow, Job(w)
  PROVE  UNCHANGED groupVars \/ FailJob(w)
<1>1. CASE IterUpdate(w)
  BY <1>1 DEF IterUpdate, groupVars, poolVars, printVars
<1>2. CASE FetchFails(w) \/ HandleChildFails(w)
  BY <1>2 DEF FetchFails, HandleChildFails
<1>3. CASE Fetch(w) \/ FetchEnds(w) \/ HandleEvent(w) \/ HandleChildStarted(w) \/ DispatchEnds(w)
  BY <1>3 DEF Fetch, FetchEnds, HandleEvent, HandleChildStarted, DispatchEnds, groupVars,
              poolVars, iterVars, printVars
<1>4. CASE DispatchSkip(w)
  BY <1>4 DEF DispatchSkip, groupVars, poolVars, iterVars, printVars
<1>5. CASE DispatchSubmit(w) \/ SubmitLateChild(w)
  <2>1. PICK back \in {"dispatch", "fetch"} : Submit(w, back)
    BY <1>5 DEF DispatchSubmit, SubmitLateChild
  <2>. QED
    BY <2>1 DEF Submit, groupVars, iterVars, printVars
<1>. QED
  BY <1>1, <1>2, <1>3, <1>4, <1>5 DEF Job, JobStep

\* No job step, unless it is a failure, makes a job failed or dropped.
LEMMA JobEndsWell ==
  ASSUME IInv, NEW w \in Workflow, Job(w), ~ FailJob(w), NEW v \in Workflow,
         pc'[v] \in {"failed", "dropped"}
  PROVE  pc[v] = pc'[v]
<1>0. pc \in [Workflow -> JobState]
  BY JobTypes DEF IInv
<1>1. CASE IterUpdate(w)
  BY <1>0, <1>1, IterUpdateEffect
<1>2. CASE Fetch(w)
  BY <1>0, <1>2, FetchEffect
<1>3. CASE FetchFails(w) \/ HandleChildFails(w)
  BY <1>3 DEF FetchFails, HandleChildFails
<1>4. CASE FetchEnds(w)
  BY <1>0, <1>4, FetchEndsEffect
<1>5. CASE DispatchEnds(w)
  BY <1>0, <1>5, DispatchEndsEffect
<1>6. CASE HandleEvent(w)
  BY <1>0, <1>6, HandleEventEffect
<1>7. CASE HandleChildStarted(w)
  <2>1. PICK x \in Children : Spawns(w, x)
    BY <1>7, HandleChildStartedEffect
  <2>. QED
    BY <1>0, <2>1 DEF Spawns, Children
<1>8. CASE DispatchSubmit(w) \/ SubmitLateChild(w)
  <2>1. PICK x \in Children : Submits(w, x)
    BY <1>8, SubmitEffect
  <2>. QED
    BY <1>0, <2>1 DEF Submits, Children
<1>9. CASE DispatchSkip(w)
  <2>1. PICK x \in Children : Skips(w, x)
    BY <1>9, DispatchSkipEffect
  <2>. QED
    BY <1>0, <2>1 DEF Skips, Children
<1>. QED
  BY <1>1, <1>2, <1>3, <1>4, <1>5, <1>6, <1>7, <1>8, <1>9 DEF Job, JobStep

\* While a job can move, the tasks of the group have not all finished.
LEMMA JobMeansUnfinished ==
  ASSUME IInv, NEW w \in Workflow, Job(w)
  PROVE  ~ AllFinished
<1>1. pc[w] \in JobState \ {"none", "created", "queued", "skipped", "dropped", "failed", "done"}
  BY JobIsWorking, JobTypes DEF IInv
<1>. QED
  BY <1>1 DEF AllFinished, JobState

\* Every step keeps the task group's account of errors and cancellation.
LEMMA GroupStepKeeps ==
  ASSUME IInv, Step
  PROVE  GroupInv'
<1>0. /\ GroupInv
      /\ pc \in [Workflow -> JobState]
      /\ Root \in Workflow
  BY JobTypes, RootAssumption DEF IInv
<1>1. ASSUME pc' = pc, UNCHANGED groupVars
      PROVE  GroupInv'
  BY <1>0, <1>1 DEF GroupInv, AllFinished, groupVars
<1>2. ASSUME NEW w \in Workflow, Job(w), UNCHANGED groupVars, ~ FailJob(w)
      PROVE  GroupInv'
  <2>1. ~ AllFinished
    BY <1>2, JobMeansUnfinished
  <2>2. \A v \in Workflow : pc'[v] \in {"failed", "dropped"} => pc[v] = pc'[v]
    BY <1>2, JobEndsWell
  <2>. QED
    BY <1>0, <1>2, <2>1, <2>2 DEF GroupInv, groupVars
<1>3. ASSUME NEW w \in Workflow, Job(w), FailJob(w)
      PROVE  GroupInv'
  <2>1. ~ AllFinished
    BY <1>3, JobMeansUnfinished
  <2>2. groupError' /\ UNCHANGED <<group, iter, cancelled, outcome>>
    BY <1>3 DEF FailJob, iterVars, printVars
  <2>. QED
    BY <1>0, <2>1, <2>2 DEF GroupInv
<1>4. CASE StartTrace
  <2>1. group = "start" /\ group' = "submit" /\ ~ ctxDone
        /\ UNCHANGED <<groupError, ctxDone, iter, cancelled, outcome>>
    BY <1>4 DEF StartTrace, iterVars, printVars
  <2>2. \A v \in Workflow : pc'[v] \notin {"failed", "dropped"}
    BY <1>0, <1>4, StartTraceEffect
  <2>. QED
    BY <1>0, <2>1, <2>2 DEF GroupInv
<1>5. CASE SubmitRoot
  <2>1. group = "submit" /\ group' = "wait"
        /\ UNCHANGED <<groupError, ctxDone, iter, cancelled, outcome>>
    BY <1>5 DEF SubmitRoot, iterVars, printVars
  <2>2. \A v \in Workflow : pc'[v] \in {"failed", "dropped"} => pc'[v] = pc[v]
    BY <1>0, <1>5, SubmitRootEffect
  <2>. QED
    BY <1>0, <2>1, <2>2 DEF GroupInv
<1>6. CASE TakeTask
  <2>1. PICK w \in Workflow, s \in {"dropped", "fetch"} : Takes(w, s)
    BY <1>6, TakeTaskEffect
  <2>2. ~ AllFinished
    BY <2>1 DEF Takes, AllFinished, Active
  <2>3. UNCHANGED groupVars
    BY <1>6 DEF TakeTask, groupVars, iterVars, printVars
  <2>4. \A v \in Workflow : pc'[v] \in {"failed", "dropped"} =>
                              pc'[v] = pc[v] \/ (pc'[v] = "dropped" /\ ctxDone)
    BY <1>0, <2>1 DEF Takes
  <2>. QED
    BY <1>0, <2>2, <2>3, <2>4 DEF GroupInv, groupVars
<1>7. CASE GroupWait
  <2>1. /\ group = "wait"
        /\ AllFinished \/ ctxDone
        /\ group' \in IF groupError THEN {"sendError"}
                      ELSE IF cancelled THEN {"sendError", "sendDone"}
                      ELSE {"sendDone"}
        /\ UNCHANGED <<pc, groupError, iter, cancelled, outcome>>
    BY <1>7 DEF GroupWait, jobVars, iterVars, printVars
  <2>2. AllFinished' <=> AllFinished
    BY <2>1 DEF AllFinished
  <2>. QED
    BY <1>0, <2>1, <2>2 DEF GroupInv
<1>8. CASE IterError
  BY <1>0, <1>8 DEF GroupInv, IterError, AllFinished, jobVars, printVars
<1>9. CASE IterDone
  BY <1>0, <1>9 DEF GroupInv, IterDone, AllFinished, jobVars, printVars
<1>10. CASE StartFails
  BY <1>0, <1>10 DEF GroupInv, StartFails, AllFinished, jobVars, poolVars, iterVars
<1>11. CASE PrintStep
  <2>1. /\ UNCHANGED <<pc, groupError, ctxDone, group, iter, cancelled>>
        /\ outcome' # "done" \/ iter = "done" \/ outcome' = outcome
    BY <1>11 DEF PrintStep, TickCount, TickProgress, TickFails, ReceiveDone, ReceiveSignal,
                 ReceiveError, PrintAndExit, jobVars, poolVars, iterVars
  <2>. QED
    BY <1>0, <2>1 DEF GroupInv, AllFinished
<1>12. ASSUME NEW toTracer \in BOOLEAN, Interrupt(toTracer)
       PROVE  GroupInv'
  BY <1>0, <1>12 DEF GroupInv, Interrupt, AllFinished, jobVars, iterVars
<1>13. ASSUME NEW w \in Workflow, ServerAppend(w)
       PROVE  GroupInv'
  BY <1>1, <1>13 DEF ServerAppend, groupVars, jobVars, poolVars, iterVars, printVars
<1>. QED
  BY <1>2, <1>3, <1>4, <1>5, <1>6, <1>7, <1>8, <1>9, <1>10, <1>11, <1>12, <1>13, JobFrame
  DEF Step, GroupStep, IterStep, Job
-----------------------------------------------------------------------------
\* The invariant holds when the command starts,
LEMMA InitIInv ==
  ASSUME Init
  PROVE  IInv
<1>0. /\ Root \in Workflow
      /\ InitialLength \in [Workflow -> Nat]
      /\ \A w \in Workflow : InitialLength[w] <= Len(History[w]) /\ Len(History[w]) \in Nat
  BY RootAssumption, HistoryAssumption
<1>1. TypeOK
  <2>1. /\ available \in [Workflow -> Nat]
        /\ lastEventId \in [Workflow -> Nat]
        /\ historyLength \in [Workflow -> Nat]
        /\ depth \in [Workflow -> Int]
    BY <1>0 DEF Init
  <2>2. /\ status \in [Workflow -> Status]
        /\ pc \in [Workflow -> JobState]
    BY JobStates DEF Init, Status
  <2>3. /\ childJobs \in [Workflow -> Seq(Workflow)]
        /\ nextChild \in [Workflow -> Nat \ {0}]
        /\ isUpToDate \in [Workflow -> BOOLEAN]
        /\ queue \in Seq(Workflow)
    BY DEF Init
  <2>. QED
    BY <2>1, <2>2, <2>3 DEF Init, TypeOK
<1>2. RootInv
  BY <1>0 DEF Init, RootInv
<1>3. LengthInv
  BY <1>0 DEF Init, LengthInv, LengthOf
<1>4. CatchUpInv
  BY DEF Init, CatchUpInv, CatchUpOf
<1>5. LoopInv
  BY DEF Init, LoopInv, LoopOf
<1>6. ChildInv /\ EventInv /\ OneParent
  BY DEF Init, ChildInv, EventInv, OneParent
<1>7. HasParent
  BY DEF Init, HasParent, Children
<1>8. SubmittedOnce
  BY DEF Init, SubmittedOnce
<1>9. GroupInv
  BY DEF Init, GroupInv
<1>. QED
  BY <1>1, <1>2, <1>3, <1>4, <1>5, <1>6, <1>7, <1>8, <1>9 DEF IInv

\* it survives stuttering,
LEMMA StutterIInv ==
  ASSUME IInv, UNCHANGED vars
  PROVE  IInv'
<1>. USE DEF IInv, vars, serverVars, stateVars, jobVars, poolVars, iterVars, printVars
<1>1. TypeOK'
  BY DEF TypeOK
<1>2. RootInv'
  BY DEF RootInv
<1>3. LengthInv'
  BY DEF LengthInv, LengthOf
<1>4. CatchUpInv'
  BY DEF CatchUpInv, CatchUpOf
<1>5. LoopInv'
  BY DEF LoopInv, LoopOf
<1>6. ChildInv'
  BY DEF ChildInv, ChildOf
<1>7. HasParent' /\ OneParent'
  BY DEF HasParent, OneParent
<1>8. EventInv'
  BY DEF EventInv, StartHandled
<1>9. SubmittedOnce'
  BY DEF SubmittedOnce
<1>10. GroupInv'
  BY DEF GroupInv, AllFinished
<1>. QED
  BY <1>1, <1>2, <1>3, <1>4, <1>5, <1>6, <1>7, <1>8, <1>9, <1>10

\* and every step: it is inductive.
LEMMA StepIInv ==
  ASSUME IInv, Step
  PROVE  IInv'
BY TypeStep, RootStep, LengthStep, CatchUpStep, LoopStep, ChildStep, HasParentStep,
   OneParentStep, EventStep, SubmittedOnceStep, GroupStepKeeps
DEF IInv

\* The inductive invariant holds in every reachable state.
THEOREM Invariance == Spec => []IInv
<1>1. Init => IInv
  BY InitIInv
<1>2. IInv /\ [Next]_vars => IInv'
  BY StepIInv, StutterIInv DEF Next, Exited
<1>. QED
  BY <1>1, <1>2, PTL DEF Spec

\* Type correctness of the trace, for all families of executions and options.
THEOREM TypeCorrect == Spec => []TypeOK
BY Invariance, PTL DEF IInv

\* group.Submit is called at most once per job, whether the child started
\* before or after its parent had caught up.
THEOREM SubmittedOnceHolds == Spec => []SubmittedOnce
BY Invariance, PTL DEF IInv

\* A created child of a finished job would be a child its loop passed over.
LEMMA NormalEnd ==
  ASSUME IInv, outcome = "done", ~ cancelled
  PROVE  /\ ~ groupError
         /\ pc[Root] = "done"
         /\ \A w \in Workflow : pc[w] \in {"none", "skipped", "done"}
<1>1. iter = "done" /\ group = "end" /\ ~ groupError /\ AllFinished
  BY DEF IInv, GroupInv
<1>2. \A w \in Workflow : pc[w] \in {"none", "created", "skipped", "done"}
  <2>. SUFFICES ASSUME NEW w \in Workflow
                PROVE  pc[w] \in {"none", "created", "skipped", "done"}
    OBVIOUS
  <2>1. pc[w] \in JobState /\ pc[w] \notin Active
    BY <1>1, JobTypes DEF IInv, AllFinished
  <2>2. pc[w] \notin {"failed", "dropped"}
    BY <1>1 DEF IInv, GroupInv
  <2>. QED
    BY <2>1, <2>2 DEF JobState
<1>3. pc[Root] = "done"
  BY <1>1, <1>2, RootAssumption DEF IInv, RootInv
<1>4. ASSUME NEW c \in Workflow, pc[c] = "created"
      PROVE  FALSE
  <2>1. c \in Children
    BY <1>3, <1>4 DEF Children
  <2>2. PICK p \in Workflow : \E i \in DOMAIN childJobs[p] : childJobs[p][i] = c
    BY <1>4, <2>1 DEF IInv, HasParent
  <2>3. PICK i \in DOMAIN childJobs[p] : childJobs[p][i] = c
    BY <2>2
  <2>4. ~ isUpToDate[p] \/ i >= nextChild[p]
    BY <1>4, <2>3 DEF IInv, ChildInv, ChildOf
  <2>5. childJobs[p] \in Seq(Workflow) /\ childJobs[p] # <<>>
    BY <2>3, JobTypes DEF IInv
  <2>6. pc[p] = "done" /\ depth[p] # 0 /\ lastEventId[p] > 0
    BY <1>2, <2>5 DEF IInv, CatchUpInv, CatchUpOf
  <2>7. lastEventId[p] >= historyLength[p]
    <3>1. lastEventId[p] = Len(History[p]) /\ historyLength[p] <= Len(History[p])
      BY <2>6 DEF IInv, LengthInv, LengthOf
    <3>2. historyLength[p] \in Nat /\ Len(History[p]) \in Nat
      BY JobTypes, HistoryAssumption DEF IInv
    <3>. QED
      BY <3>1, <3>2
  <2>8. isUpToDate[p]
    BY <2>6, <2>7 DEF IInv, CatchUpInv, CatchUpOf
  <2>9. nextChild[p] = Len(childJobs[p]) + 1
    BY <2>6, <2>8 DEF IInv, LoopInv, LoopOf
  <2>. QED
    BY <2>3, <2>4, <2>5, <2>8, <2>9
<1>. QED
  BY <1>1, <1>2, <1>3, <1>4

\* A normal end leaves no execution half read: every known execution was read
\* to its end or folded away (the doneChan case of PrintUpdates).
THEOREM NormalEndIsSettled == Spec => []DoneMeansSettled
<1>1. IInv => DoneMeansSettled
  BY NormalEnd DEF DoneMeansSettled
<1>. QED
  BY <1>1, Invariance, PTL

\* A normal end hides no error: an error of any job, or a task the pool dropped,
\* ends the command with an error unless it was interrupted.
THEOREM NormalEndHasNoError == Spec => []DoneMeansNoError
<1>1. IInv => DoneMeansNoError
  BY NormalEnd DEF DoneMeansNoError
<1>. QED
  BY <1>1, Invariance, PTL

\* No child job leaves childJobs before its parent has caught up with the length
\* described when its own job was created.
THEOREM ChildrenFollowParents == Spec => []ParentFirst
<1>1. IInv => ParentFirst
  BY DEF IInv, ParentFirst, ChildInv, ChildOf, CatchUpInv, CatchUpOf
<1>. QED
  BY <1>1, Invariance, PTL

\* The ways a job can end.
Ended == {"skipped", "dropped", "failed", "done"}

\* A job that exists never ceases to, and one that has ended does not move.
LEMMA JobsMoveOn ==
  ASSUME IInv, Step, NEW v \in Workflow
  PROVE  \/ pc'[v] = pc[v]
         \/ pc'[v] # "none" /\ pc[v] \notin Ended
<1>0. pc \in [Workflow -> JobState] /\ Root \in Workflow
  BY JobTypes, RootAssumption DEF IInv
<1>. DEFINE MovesOn == \/ pc'[v] = pc[v]
                       \/ pc'[v] # "none" /\ pc[v] \notin Ended
<1>1. CASE Quiet
  BY <1>1 DEF Quiet
<1>2. CASE StartTrace
  BY <1>0, <1>2, StartTraceEffect DEF Ended
<1>3. CASE SubmitRoot
  BY <1>0, <1>3, SubmitRootEffect DEF Ended
<1>4. CASE TakeTask
  <2>1. PICK w \in Workflow, s \in {"dropped", "fetch"} : Takes(w, s)
    BY <1>4, TakeTaskEffect
  <2>. QED
    BY <1>0, <2>1 DEF Takes, Ended
<1>5. ASSUME NEW w \in Workflow, IterUpdate(w)
      PROVE  MovesOn
  BY <1>0, <1>5, IterUpdateEffect DEF Ended
<1>6. ASSUME NEW w \in Workflow, ServerAppend(w)
      PROVE  MovesOn
  BY <1>6, ServerAppendEffect
<1>7. ASSUME NEW w \in Workflow, Fetch(w)
      PROVE  MovesOn
  BY <1>0, <1>7, FetchEffect DEF Ended
<1>8. ASSUME NEW w \in Workflow, FetchFails(w) \/ HandleChildFails(w)
      PROVE  MovesOn
  BY <1>0, <1>8, FailEffect DEF Ended
<1>9. ASSUME NEW w \in Workflow, FetchEnds(w)
      PROVE  MovesOn
  BY <1>0, <1>9, FetchEndsEffect DEF Ended
<1>10. ASSUME NEW w \in Workflow, DispatchEnds(w)
       PROVE  MovesOn
  BY <1>0, <1>10, DispatchEndsEffect DEF Ended
<1>11. ASSUME NEW w \in Workflow, HandleEvent(w)
       PROVE  MovesOn
  BY <1>0, <1>11, HandleEventEffect DEF Ended
<1>12. ASSUME NEW w \in Workflow, NEW x \in Children, Spawns(w, x)
       PROVE  MovesOn
  BY <1>0, <1>12 DEF Spawns, Children, Ended
<1>13. ASSUME NEW w \in Workflow, NEW x \in Children, Submits(w, x)
       PROVE  MovesOn
  BY <1>0, <1>13 DEF Submits, Children, Ended
<1>14. ASSUME NEW w \in Workflow, NEW x \in Children, Skips(w, x)
       PROVE  MovesOn
  BY <1>0, <1>14 DEF Skips, Children, Ended
<1>. QED
  BY <1>1, <1>2, <1>3, <1>4, <1>5, <1>6, <1>7, <1>8, <1>9, <1>10, <1>11, <1>12, <1>13, <1>14,
     QuietSteps, HandleChildStartedEffect, SubmitEffect, DispatchSkipEffect
  DEF Step, GroupStep, IterStep, JobStep

\* An ended job is never revived by a later event of its parent, by the pool or
\* by the group's cancellation.
THEOREM EndedStaysEnded == Spec => EndedJobsStayEnded
<1>1. IInv /\ [Next]_vars =>
        [\A w \in Workflow :
           pc[w] \in {"skipped", "dropped", "failed", "done"} => pc'[w] = pc[w]]_vars
  BY JobsMoveOn DEF Next, Exited, Ended
<1>. QED
  BY <1>1, Invariance, PTL DEF Spec, EndedJobsStayEnded

\* The end of the command, seen from outside.
LEMMA OutcomeSteps ==
  ASSUME Step, outcome = "running"
  PROVE  \/ outcome' = "running"
         \/ /\ outcome' \in {"done", "error", "interrupted"}
            /\ UNCHANGED <<pc, cancelled>>
<1>1. CASE PrintStep
  BY <1>1 DEF PrintStep, TickCount, TickProgress, TickFails, ReceiveDone, ReceiveSignal,
              ReceiveError, PrintAndExit, jobVars
<1>2. CASE StartFails
  BY <1>2 DEF StartFails, jobVars
<1>3. CASE StartTrace \/ SubmitRoot \/ GroupWait \/ TakeTask \/ IterError \/ IterDone
  BY <1>3 DEF StartTrace, SubmitRoot, GroupWait, TakeTask, IterError, IterDone, printVars
<1>4. ASSUME NEW w \in Workflow, Job(w)
      PROVE  outcome' = "running"
  BY <1>4, JobFrame DEF groupVars, FailJob, printVars
<1>5. ASSUME NEW w \in Workflow, ServerAppend(w)
      PROVE  outcome' = "running"
  BY <1>5 DEF ServerAppend, printVars
<1>6. ASSUME NEW toTracer \in BOOLEAN, Interrupt(toTracer)
      PROVE  outcome' = "running"
  BY <1>6 DEF Interrupt
<1>. QED
  BY <1>1, <1>2, <1>3, <1>4, <1>5, <1>6 DEF Step, GroupStep, IterStep, Job

\* The trace, with its jobs, pool, channels and printer, implements the abstract
\* session: it forgets and unsettles nothing, and completes only when settled.
THEOREM TraceImplementsSession == Spec => ImplementsSession
<1>1. Init => Session!Init
  BY DEF Init, Session!Init, known, settled, sessionOutcome
<1>0. IInv => DoneMeansSettled
  BY NormalEnd DEF DoneMeansSettled
<1>2. ASSUME IInv, DoneMeansSettled', Step, outcome = "running"
      PROVE  [Session!Next]_(Session!vars)
  <2>1. known \subseteq known' /\ settled \subseteq settled'
    BY <1>2, JobsMoveOn DEF known, settled, Ended
  <2>2. /\ known' \in SUBSET Workflow
        /\ settled' \in SUBSET known'
    BY DEF known, settled
  <2>3. sessionOutcome = "running"
    BY <1>2 DEF sessionOutcome
  <2>4. CASE outcome' = "running"
    <3>1. sessionOutcome' = "running"
      BY <2>4 DEF sessionOutcome
    <3>. QED
      BY <2>1, <2>2, <2>3, <3>1 DEF Session!Next, Session!Learn
  <2>5. CASE /\ UNCHANGED <<pc, cancelled>>
             /\ \/ outcome' \in {"error", "interrupted"}
                \/ outcome' = "done" /\ cancelled
    <3>1. sessionOutcome' \in {"error", "interrupted"} /\ UNCHANGED <<known, settled>>
      BY <2>5 DEF sessionOutcome, known, settled
    <3>. QED
      BY <2>3, <3>1 DEF Session!Next, Session!Abort
  <2>6. CASE UNCHANGED <<pc, cancelled>> /\ outcome' = "done" /\ ~ cancelled
    <3>1. sessionOutcome' = "done" /\ UNCHANGED <<known, settled>>
      BY <2>6 DEF sessionOutcome, known, settled
    <3>2. pc'[Root] = "done" /\ \A w \in Workflow : pc'[w] \in {"none", "skipped", "done"}
      BY <1>2, <2>6 DEF DoneMeansSettled
    <3>3. known # {} /\ settled = known
      BY <2>6, <3>2, RootAssumption DEF known, settled
    <3>. QED
      BY <2>3, <3>1, <3>3 DEF Session!Next, Session!Complete
  <2>. QED
    BY <1>2, <2>4, <2>5, <2>6, OutcomeSteps
<1>3. UNCHANGED vars => UNCHANGED Session!vars
  BY DEF vars, jobVars, printVars, Session!vars, known, settled, sessionOutcome
<1>4. IInv /\ DoneMeansSettled' /\ [Next]_vars => [Session!Next]_(Session!vars)
  BY <1>2, <1>3 DEF Next, Exited
<1>. QED
  BY <1>0, <1>1, <1>4, Invariance, PTL DEF Spec, ImplementsSession, Session!Spec
=============================================================================
