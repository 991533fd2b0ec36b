------------------------- MODULE WorkflowTraceLemmas -------------------------
(***************************************************************************)
(* Lemmas about WorkflowTrace: the types, the events a job handles, the     *)
(* children it creates, and what each step does to the job variables.       *)
(***************************************************************************)
EXTENDS WorkflowTraceInv, TLAPS

\* Every event of a history is an event.
LEMMA HistoryTyped ==
  ASSUME NEW w \in Workflow, NEW i \in 1..Len(History[w])
  PROVE  /\ History[w][i].type \in EventType
         /\ History[w][i].child \in Workflow
         /\ History[w][i].status \in Status
<1>1. History[w] \in Seq(Event)
  BY HistoryAssumption
<1>2. History[w][i] \in Event
  BY <1>1
<1>. QED
  BY <1>2 DEF Event

\* The event a job handles is an event of its history.
LEMMA CurrentEventTyped ==
  ASSUME TypeOK, LengthInv, NEW w \in Workflow, pc[w] = "handle"
  PROVE  /\ lastEventId[w] \in 1..Len(History[w])
         /\ CurrentEvent(w).child \in Workflow
<1>1. History[w] \in Seq(Event)
  BY HistoryAssumption
<1>2. lastEventId[w] \in 1..Len(History[w])
  BY <1>1 DEF TypeOK, LengthInv, LengthOf
<1>. QED
  BY <1>2, HistoryTyped DEF CurrentEvent

\* The child an event tells a job to spawn has no job yet: its start is told
\* by one event only.
LEMMA SpawnedIsNew ==
  ASSUME IInv, NEW w \in Workflow, pc[w] = "handle", SpawnsChild(w)
  PROVE  /\ CurrentEvent(w).child \in Children
         /\ pc[CurrentEvent(w).child] = "none"
         /\ CurrentEvent(w).child # w
<1> DEFINE c == CurrentEvent(w).child
<1>1. /\ lastEventId[w] \in 1..Len(History[w])
      /\ c \in Workflow
      /\ lastEventId[w] \in DOMAIN History[w]
      /\ History[w][lastEventId[w]].type = "ChildStarted"
      /\ History[w][lastEventId[w]].child = c
  <2>1. lastEventId[w] \in 1..Len(History[w]) /\ c \in Workflow
    BY CurrentEventTyped DEF IInv
  <2>2. History[w] \in Seq(Event)
    BY HistoryAssumption
  <2>. QED
    BY <2>1, <2>2 DEF SpawnsChild, CurrentEvent
<1>2. c # Root
  BY <1>1, ParentAssumption
<1>3. pc[c] = "none"
  <2> SUFFICES ASSUME pc[c] # "none" PROVE FALSE
    OBVIOUS
  <2>1. PICK p \in Workflow : \E i \in DOMAIN childJobs[p] : childJobs[p][i] = c
    BY <1>1, <1>2 DEF IInv, HasParent, Children
  <2>2. PICK i \in DOMAIN childJobs[p] : childJobs[p][i] = c
    BY <2>1
  <2>3. PICK k \in DOMAIN History[p] :
          /\ History[p][k].type = "ChildStarted"
          /\ History[p][k].child = c
          /\ pc[p] \in {"send", "handle"} => k < lastEventId[p]
    BY <2>2 DEF IInv, EventInv, StartHandled
  <2>4. p = w /\ k = lastEventId[w]
    BY <1>1, <2>3, ParentAssumption
  <2>. QED
    BY <2>3, <2>4, <1>1
<1>. QED
  BY <1>1, <1>2, <1>3 DEF Children

\* A job in its loop over childJobs, or in the Submit of a late child, is at
\* a child whose job was created and never submitted.
AtChild(w) == \/ pc[w] = "submit"
              \/ pc[w] = "dispatch" /\ nextChild[w] <= Len(childJobs[w])

\* That child is new: the loop has not passed it.
LEMMA NextChildIsCreated ==
  ASSUME IInv, NEW w \in Workflow, AtChild(w)
  PROVE  /\ nextChild[w] \in DOMAIN childJobs[w]
         /\ childJobs[w][nextChild[w]] \in Children
         /\ pc[childJobs[w][nextChild[w]]] = "created"
         /\ childJobs[w][nextChild[w]] # w
<1>1. childJobs[w] \in Seq(Workflow) /\ nextChild[w] \in Nat \ {0}
  BY DEF IInv, TypeOK
<1>2. isUpToDate[w] /\ nextChild[w] <= Len(childJobs[w])
  BY <1>1 DEF IInv, LoopInv, LoopOf, AtChild
<1>3. nextChild[w] \in DOMAIN childJobs[w]
  BY <1>1, <1>2
<1>4. childJobs[w][nextChild[w]] \in Workflow
  BY <1>1, <1>3
<1>5. childJobs[w][nextChild[w]] # Root /\ pc[childJobs[w][nextChild[w]]] = "created"
  BY <1>1, <1>3 DEF IInv, ChildInv, ChildOf
<1>. QED
  BY <1>3, <1>4, <1>5 DEF AtChild, Children

\* The names of the job states, so that JobState need not be expanded.
LEMMA JobStates ==
  /\ {"queued", "fetch", "send", "handle", "dispatch", "submit"} \subseteq JobState
  /\ {"none", "created", "skipped", "dropped", "failed", "done"} \subseteq JobState
BY DEF JobState, Active, Working

\* The types of the variables the jobs work on.
LEMMA JobTypes ==
  ASSUME TypeOK
  PROVE  /\ available \in [Workflow -> Nat]
         /\ lastEventId \in [Workflow -> Nat]
         /\ historyLength \in [Workflow -> Nat]
         /\ pc \in [Workflow -> JobState]
         /\ depth \in [Workflow -> Int]
         /\ childJobs \in [Workflow -> Seq(Workflow)]
         /\ nextChild \in [Workflow -> Nat \ {0}]
         /\ isUpToDate \in [Workflow -> BOOLEAN]
         /\ queue \in Seq(Workflow)
BY DEF TypeOK

\* Steps of the printer, of the iterator's two ends, of the waiting group
\* goroutine and of the operating system change nothing the jobs work on.
Quiet ==
  UNCHANGED <<available, lastEventId, historyLength, pc, depth, childJobs, nextChild,
              isUpToDate, queue>>

\* All of those steps are quiet.
LEMMA QuietSteps ==
  ASSUME StartFails \/ GroupWait \/ IterError \/ IterDone \/ PrintStep
           \/ \E toTracer \in BOOLEAN : Interrupt(toTracer)
  PROVE  Quiet
<1>1. CASE StartFails
  BY <1>1 DEF StartFails, Quiet, serverVars, stateVars, jobVars, poolVars
<1>2. CASE GroupWait
  BY <1>2 DEF GroupWait, Quiet, serverVars, stateVars, jobVars
<1>3. CASE IterError
  BY <1>3 DEF IterError, Quiet, serverVars, stateVars, jobVars
<1>4. CASE IterDone
  BY <1>4 DEF IterDone, Quiet, serverVars, stateVars, jobVars
<1>5. CASE PrintStep
  <2>1. UNCHANGED <<serverVars, stateVars, jobVars, poolVars, iterVars>>
    BY <1>5 DEF PrintStep, TickCount, TickProgress, TickFails, ReceiveDone, ReceiveSignal,
                ReceiveError, PrintAndExit
  <2>. QED
    BY <2>1 DEF Quiet, serverVars, stateVars, jobVars, poolVars
<1>6. CASE \E toTracer \in BOOLEAN : Interrupt(toTracer)
  BY <1>6 DEF Interrupt, Quiet, serverVars, stateVars, jobVars
<1>. QED
  BY <1>1, <1>2, <1>3, <1>4, <1>5, <1>6

\* What each step does to the variables the jobs work on: starting the trace
\* creates the root's job, the first one.
LEMMA StartTraceEffect ==
  ASSUME IInv, StartTrace
  PROVE  /\ \A w \in Workflow : pc[w] = "none"
         /\ pc' = [pc EXCEPT ![Root] = "created"]
         /\ depth' = [depth EXCEPT ![Root] = Depth]
         /\ historyLength' = [historyLength EXCEPT ![Root] = Describe(Root)]
         /\ UNCHANGED <<available, lastEventId, childJobs, nextChild, isUpToDate, queue>>
BY DEF IInv, RootInv, StartTrace, serverVars

\* Submitting the root queues the only job there is.
LEMMA SubmitRootEffect ==
  ASSUME IInv, SubmitRoot
  PROVE  /\ pc[Root] = "created"
         /\ \A w \in Children : pc[w] = "none"
         /\ pc' = [pc EXCEPT ![Root] = "queued"]
         /\ queue' = Append(queue, Root)
         /\ UNCHANGED <<available, lastEventId, historyLength, depth, childJobs, nextChild,
                        isUpToDate>>
BY DEF IInv, RootInv, SubmitRoot, serverVars, stateVars

\* A worker takes the task of job w, which runs or is dropped.
Takes(w, s) ==
  /\ pc[w] = "queued"
  /\ queue # <<>>
  /\ queue[1] = w
  /\ s = "dropped" => ctxDone
  /\ pc' = [pc EXCEPT ![w] = s]
  /\ queue' = Tail(queue)
  /\ UNCHANGED <<available, lastEventId, historyLength, depth, childJobs, nextChild,
                 isUpToDate>>

\* TakeTask takes the task of a queued job.
LEMMA TakeTaskEffect ==
  ASSUME IInv, TakeTask
  PROVE  \E w \in Workflow, s \in {"dropped", "fetch"} : Takes(w, s)
<1>1. queue \in Seq(Workflow) /\ queue # <<>>
  BY JobTypes DEF IInv, TakeTask
<1>2. /\ 1 \in DOMAIN queue
      /\ Head(queue) = queue[1]
      /\ Head(queue) \in Workflow
  BY <1>1
<1>3. pc[Head(queue)] = "queued"
  BY <1>2 DEF IInv, SubmittedOnce
<1>. QED
  BY <1>1, <1>2, <1>3 DEF Takes, TakeTask, serverVars, stateVars

\* A job's update is received: it goes on to handle the event.
LEMMA IterUpdateEffect ==
  ASSUME IInv, NEW w \in Workflow, IterUpdate(w)
  PROVE  /\ pc[w] = "send"
         /\ pc' = [pc EXCEPT ![w] = "handle"]
         /\ UNCHANGED <<available, lastEventId, historyLength, depth, childJobs, nextChild,
                        isUpToDate, queue>>
BY DEF IterUpdate, serverVars, stateVars, poolVars

\* The server adds one event.
LEMMA ServerAppendEffect ==
  ASSUME IInv, NEW w \in Workflow, ServerAppend(w)
  PROVE  /\ available[w] < Len(History[w])
         /\ available' = [available EXCEPT ![w] = @ + 1]
         /\ UNCHANGED <<lastEventId, historyLength, pc, depth, childJobs, nextChild,
                        isUpToDate, queue>>
BY DEF ServerAppend, stateVars, jobVars, poolVars

\* A job reads one event.
LEMMA FetchEffect ==
  ASSUME IInv, NEW w \in Workflow, Fetch(w)
  PROVE  /\ pc[w] = "fetch"
         /\ lastEventId[w] < available[w]
         /\ lastEventId' = [lastEventId EXCEPT ![w] = @ + 1]
         /\ pc' = [pc EXCEPT ![w] = "send"]
         /\ UNCHANGED <<available, historyLength, depth, childJobs, nextChild, isUpToDate,
                        queue>>
BY DEF Fetch, serverVars, poolVars

\* A job that fails leaves its counters.
LEMMA FailEffect ==
  ASSUME IInv, NEW w \in Workflow, FetchFails(w) \/ HandleChildFails(w)
  PROVE  /\ pc[w] \in {"fetch", "handle"}
         /\ pc' = [pc EXCEPT ![w] = "failed"]
         /\ UNCHANGED <<available, lastEventId, historyLength, depth, childJobs, nextChild,
                        isUpToDate, queue>>
BY DEF FetchFails, HandleChildFails, FailJob, serverVars, stateVars

\* A job ends only at the end of its history, archived or not.
LEMMA FetchEndsEffect ==
  ASSUME IInv, NEW w \in Workflow, FetchEnds(w)
  PROVE  /\ pc[w] = "fetch"
         /\ lastEventId[w] = Len(History[w])
         /\ pc' = [pc EXCEPT ![w] = "done"]
         /\ UNCHANGED <<available, lastEventId, historyLength, depth, childJobs, nextChild,
                        isUpToDate, queue>>
<1>1. /\ pc[w] = "fetch"
      /\ lastEventId[w] = available[w]
      /\ w \in Archived \/ lastEventId[w] = Len(History[w])
      /\ pc' = [pc EXCEPT ![w] = "done"]
      /\ UNCHANGED <<available, lastEventId, historyLength, depth, childJobs, nextChild,
                     isUpToDate, queue>>
  BY DEF FetchEnds, serverVars, stateVars, poolVars
<1>2. /\ InitialLength[w] <= available[w]
      /\ available[w] <= Len(History[w])
      /\ available[w] \in Nat
      /\ InitialLength[w] \in Nat
      /\ Len(History[w]) \in Nat
  BY JobTypes, HistoryAssumption DEF IInv, LengthInv, LengthOf
<1>. QED
  BY <1>1, <1>2, ServerAssumption

\* The loop over childJobs ends past its last element.
LEMMA DispatchEndsEffect ==
  ASSUME IInv, NEW w \in Workflow, DispatchEnds(w)
  PROVE  /\ pc[w] = "dispatch"
         /\ nextChild[w] > Len(childJobs[w])
         /\ pc' = [pc EXCEPT ![w] = "fetch"]
         /\ UNCHANGED <<available, lastEventId, historyLength, depth, childJobs, nextChild,
                        isUpToDate, queue>>
BY DEF DispatchEnds, serverVars, stateVars, poolVars

\* An event without a child job may make the job catch up.
LEMMA HandleEventEffect ==
  ASSUME IInv, NEW w \in Workflow, HandleEvent(w)
  PROVE  /\ pc[w] = "handle"
         /\ ~ SpawnsChild(w)
         /\ pc' = [pc EXCEPT ![w] = IF CatchesUp(w) THEN "dispatch" ELSE "fetch"]
         /\ isUpToDate' = [isUpToDate EXCEPT ![w] = @ \/ CatchesUp(w)]
         /\ nextChild' = [nextChild EXCEPT ![w] = IF CatchesUp(w) THEN 1 ELSE @]
         /\ UNCHANGED <<available, lastEventId, historyLength, depth, childJobs, queue>>
BY DEF HandleEvent, AfterEvent, serverVars, stateVars, poolVars

\* Job w creates the job of its child x.
Spawns(w, x) ==
  /\ pc[w] = "handle"
  /\ pc[x] = "none"
  /\ x # w
  /\ x = CurrentEvent(w).child
  /\ CurrentEvent(w).type = "ChildStarted"
  /\ depth[w] # 0
  /\ historyLength' = [historyLength EXCEPT ![x] = Describe(x)]
  /\ depth' = [depth EXCEPT ![x] = depth[w] - 1]
  /\ childJobs' = [childJobs EXCEPT ![w] = Append(@, x)]
  /\ pc' = [pc EXCEPT ![x] = "created",
                      ![w] = IF CatchesUp(w) THEN "dispatch"
                             ELSE IF isUpToDate[w] THEN "submit"
                             ELSE "fetch"]
  /\ isUpToDate' = [isUpToDate EXCEPT ![w] = @ \/ CatchesUp(w)]
  /\ nextChild' = [nextChild EXCEPT ![w] =
                     IF CatchesUp(w) THEN 1
                     ELSE IF isUpToDate[w] THEN Len(childJobs[w]) + 1
                     ELSE @]
  /\ UNCHANGED <<available, lastEventId, queue>>

\* A ChildStarted event spawns a child that had no job.
LEMMA HandleChildStartedEffect ==
  ASSUME IInv, NEW w \in Workflow, HandleChildStarted(w)
  PROVE  \E x \in Children : Spawns(w, x)
<1>. DEFINE x == CurrentEvent(w).child
<1>1. pc[w] = "handle" /\ SpawnsChild(w)
  BY DEF HandleChildStarted
<1>2. x \in Children /\ pc[x] = "none" /\ x # w
  BY <1>1, SpawnedIsNew DEF Children
<1>3. /\ historyLength' = [historyLength EXCEPT ![x] = Describe(x)]
      /\ depth' = [depth EXCEPT ![x] = depth[w] - 1]
      /\ childJobs' = [childJobs EXCEPT ![w] = Append(@, x)]
      /\ pc' = [pc EXCEPT ![x] = "created", ![w] = AfterEvent(w)]
      /\ isUpToDate' = [isUpToDate EXCEPT ![w] = @ \/ CatchesUp(w)]
      /\ nextChild' = [nextChild EXCEPT ![w] =
                         IF CatchesUp(w) THEN 1
                         ELSE IF isUpToDate[w] THEN Len(childJobs[w]) + 1
                         ELSE @]
      /\ UNCHANGED <<available, lastEventId, queue>>
  BY DEF HandleChildStarted, serverVars, poolVars
<1>4. AfterEvent(w) = IF CatchesUp(w) THEN "dispatch"
                      ELSE IF isUpToDate[w] THEN "submit"
                      ELSE "fetch"
  BY <1>1 DEF AfterEvent
<1>. QED
  BY <1>1, <1>2, <1>3, <1>4 DEF Spawns, SpawnsChild

\* Job w submits the job of its child x.
Submits(w, x) ==
  /\ pc[w] \in {"dispatch", "submit"}
  /\ isUpToDate[w]
  /\ nextChild[w] \in DOMAIN childJobs[w]
  /\ x = childJobs[w][nextChild[w]]
  /\ x # w
  /\ pc[x] = "created"
  /\ pc' = [pc EXCEPT ![w] = IF pc[w] = "dispatch" THEN "dispatch" ELSE "fetch",
                      ![x] = "queued"]
  /\ nextChild' = [nextChild EXCEPT ![w] = @ + 1]
  /\ queue' = Append(queue, x)
  /\ UNCHANGED <<available, lastEventId, historyLength, depth, childJobs,
                 isUpToDate>>

\* Both submissions, in the loop and of a late child, submit a created job.
LEMMA SubmitEffect ==
  ASSUME IInv, NEW w \in Workflow, DispatchSubmit(w) \/ SubmitLateChild(w)
  PROVE  \E x \in Children : Submits(w, x)
<1>1. AtChild(w) /\ pc[w] \in {"dispatch", "submit"}
  BY DEF AtChild, DispatchSubmit, SubmitLateChild
<1>2. Submit(w, IF pc[w] = "dispatch" THEN "dispatch" ELSE "fetch")
  BY DEF DispatchSubmit, SubmitLateChild
<1>3. isUpToDate[w]
  BY <1>1 DEF IInv, LoopInv, LoopOf
<1>. QED
  BY <1>1, <1>2, <1>3, NextChildIsCreated DEF Children, Submits, Submit, serverVars, stateVars

\* Job w folds away its child x.
Skips(w, x) ==
  /\ pc[w] = "dispatch"
  /\ isUpToDate[w]
  /\ nextChild[w] \in DOMAIN childJobs[w]
  /\ x = childJobs[w][nextChild[w]]
  /\ x # w
  /\ pc[x] = "created"
  /\ pc' = [pc EXCEPT ![x] = "skipped"]
  /\ lastEventId' = [lastEventId EXCEPT ![x] = historyLength[x]]
  /\ nextChild' = [nextChild EXCEPT ![w] = @ + 1]
  /\ UNCHANGED <<available, historyLength, depth, childJobs, isUpToDate, queue>>

\* What is folded away is a created job.
LEMMA DispatchSkipEffect ==
  ASSUME IInv, NEW w \in Workflow, DispatchSkip(w)
  PROVE  \E x \in Children : Skips(w, x)
<1>1. AtChild(w) /\ pc[w] = "dispatch"
  BY DEF AtChild, DispatchSkip
<1>2. isUpToDate[w]
  BY <1>1 DEF IInv, LoopInv, LoopOf
<1>. QED
  BY <1>1, <1>2, NextChildIsCreated DEF Children, Skips, DispatchSkip, serverVars, poolVars
=============================================================================
