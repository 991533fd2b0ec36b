------------------------- MODULE WorkflowReset_proofs -------------------------
(***************************************************************************)
(* For any number and length of runs, any page size and any growth of the   *)
(* history between two pages: the types; that the search for the first      *)
(* workflow task finds it; what the backward searches have remembered at    *)
(* each event; and that the event sent in the request was read in the run   *)
(* it is sent for.                                                          *)
(***************************************************************************)
EXTENDS WorkflowReset, SequenceTheorems, TLAPS

Searches == {"FirstWorkflowTask", "LastWorkflowTask", "LastContinuedAsNew"}

\* Runs exist from the first up to the current one.
RunsInv == \E c \in Run : \A n \in Run : history[n] # <<>> <=> n <= c

\* What has been read is part of a run that has only grown since, and the
\* position is in the page, or just past it.
PageInv ==
  /\ pc \in {"fetch", "scan"} => options.type \in Searches
  /\ pc = "firstEvent" => options.type = "LastContinuedAsNew"
  /\ pc \in {"validate", "dial", "firstEvent", "batch", "count", "prompt", "start"} => read = NoRead
  /\ read # NoRead =>
       /\ read.run \in Run
       /\ read.length \in 1 .. Len(history[read.run])
  /\ pc = "scan" =>
       /\ read # NoRead
       /\ pageEnd \in 1 .. read.length
       /\ IF Backwards THEN pos \in pageEnd - 1 .. read.length ELSE pos \in 1 .. pageEnd + 1
  /\ pc = "fetch" /\ read # NoRead =>
       /\ pageEnd \in 1 .. read.length
       /\ MorePages
       /\ ~ Backwards => pos = pageEnd + 1

\* Of the first n events of h, event i is the first of its kind, or none is of
\* that kind.
FirstOfKind(kind, h, n, i) ==
  i \in 1 .. n /\ h[i] = kind /\ \A j \in 1 .. n : h[j] = kind => i <= j

NoneOfKind(kind, h, n) == \A j \in 1 .. n : h[j] # kind

RunRead == history[read.run]

\* The search forwards has passed no completed task, and remembers the event
\* after the first scheduled one.
ForwardInv ==
  options.type = "FirstWorkflowTask" =>
    /\ pc \in {"fetch", "scan"} /\ read = NoRead => eventId = 0
    /\ pc \in {"fetch", "scan"} /\ read # NoRead =>
         /\ NoneOfKind("Completed", RunRead, pos - 1)
         /\ IF eventId = 0 THEN NoneOfKind("Scheduled", RunRead, pos - 1)
            ELSE FirstOfKind("Scheduled", RunRead, pos - 1, eventId - 1)
    /\ Found =>
         \/ FirstOfKind("Completed", RunRead, read.length, eventId)
         \/ /\ NoneOfKind("Completed", RunRead, read.length)
            /\ FirstOfKind("Scheduled", RunRead, read.length, eventId - 1)

IInv == TypeOK /\ RunsInv /\ PageInv /\ ForwardInv
-----------------------------------------------------------------------------
\* The types of the parts of the command line.
LEMMA OptionType ==
  ASSUME TypeOK
  PROVE  /\ options.workflowId \in BOOLEAN /\ options.runId \in 0 .. MaxRuns
         /\ options.eventId \in Int /\ options.type \in ResetType
BY OptionAssumption DEF TypeOK

\* The empty run ID stands for a run.
LEMMA CurrentRunIsLast ==
  ASSUME TypeOK, RunsInv
  PROVE  CurrentRun \in Run /\ \A n \in Run : history[n] # <<>> <=> n <= CurrentRun
<1>1. PICK c \in Run : \A n \in Run : history[n] # <<>> <=> n <= c
  BY DEF RunsInv
<1> DEFINE IsCurrent(n) == history[n] # <<>> /\ (n + 1 \in Run => history[n + 1] = <<>>)
<1>2. c \in Nat /\ Run \subseteq Nat
  BY <1>1 DEF Run
<1>3. IsCurrent(c)
  BY <1>1, <1>2
<1>4. CurrentRun \in Run /\ IsCurrent(CurrentRun)
  BY <1>1, <1>3 DEF CurrentRun
<1>5. CurrentRun = c
  <2>1. CurrentRun <= c
    BY <1>1, <1>4
  <2>2. CASE CurrentRun < c
    <3>1. CurrentRun + 1 \in Run /\ CurrentRun + 1 <= c
      BY <1>1, <1>4, <2>2, BoundAssumption DEF Run
    <3>2. history[CurrentRun + 1] # <<>>
      BY <1>1, <3>1
    <3> QED
      BY <1>4, <3>1, <3>2
  <2> QED
    BY <1>1, <1>2, <1>4, <2>1, <2>2
<1> QED
  BY <1>1, <1>5

\* The run that a request without a run ID reaches is a run.
LEMMA ResolvedType ==
  ASSUME TypeOK, RunsInv, NEW n \in 0 .. MaxRuns
  PROVE  Resolved(n) \in Run
BY CurrentRunIsLast DEF Resolved, Run

\* A process starts in the invariant.
LEMMA InitInv == Init => IInv
<1> SUFFICES ASSUME Init PROVE IInv
  OBVIOUS
<1>1. history \in [Run -> Seq(EventType)]
  <2>1. <<"Started">> \in Seq(EventType) /\ <<>> \in Seq(EventType)
    BY DEF EventType
  <2> QED
    BY <2>1 DEF Init
<1>2. TypeOK
  BY <1>1, BoundAssumption DEF Init, TypeOK, NoRead, NoRequest
<1>3. RunsInv
  <2>1. 1 \in Run /\ \A n \in Run : n \in Nat /\ n >= 1
    BY BoundAssumption DEF Run
  <2>2. \A n \in Run : history[n] # <<>> <=> n <= 1
    BY <2>1 DEF Init
  <2> QED
    BY <2>1, <2>2 DEF RunsInv
<1>4. PageInv /\ ForwardInv
  BY DEF Init, PageInv, ForwardInv, Found
<1> QED
  BY <1>2, <1>3, <1>4 DEF IInv
-----------------------------------------------------------------------------
(* The server *)

\* A run keeps the events it has.
Grows == \A n \in Run : /\ Len(history'[n]) >= Len(history[n])
                        /\ \A i \in 1 .. Len(history[n]) : history'[n][i] = history[n][i]

\* The server adds one event to the last run, or a run with its first event.
LEMMA AppendGrows ==
  ASSUME TypeOK, RunsInv, ServerAppend
  PROVE  history' \in [Run -> Seq(EventType)] /\ RunsInv' /\ Grows
<1> DEFINE m == CurrentRun
<1>1. m \in Run /\ \A n \in Run : history[n] # <<>> <=> n <= m
  BY CurrentRunIsLast
<1>2. history \in [Run -> Seq(EventType)] /\ \A n \in Run : n \in Nat
  BY DEF TypeOK, Run
<1>3. PICK e \in EventType :
        \/ /\ m + 1 \in Run
           /\ history' = [history EXCEPT ![m] = Append(@, e), ![m + 1] = <<"Started">>]
        \/ history' = [history EXCEPT ![m] = Append(@, e)]
  BY DEF ServerAppend
<1> DEFINE h == Append(history[m], e)
<1>4. /\ h \in Seq(EventType) /\ h # <<>>
      /\ Len(h) = Len(history[m]) + 1
      /\ \A i \in 1 .. Len(history[m]) : h[i] = history[m][i]
  BY <1>1, <1>2
<1>5. <<"Started">> \in Seq(EventType) /\ <<"Started">> # <<>>
  BY DEF EventType
<1>6. CASE history' = [history EXCEPT ![m] = Append(@, e)]
  <2>1. /\ history'[m] = h
        /\ \A n \in Run \ {m} : history'[n] = history[n]
        /\ history' \in [Run -> Seq(EventType)]
    BY <1>1, <1>2, <1>4, <1>6
  <2>2. Grows
    <3> SUFFICES ASSUME NEW n \in Run
                 PROVE  /\ Len(history'[n]) >= Len(history[n])
                        /\ \A i \in 1 .. Len(history[n]) : history'[n][i] = history[n][i]
      BY DEF Grows
    <3>1. CASE n = m
      BY <1>2, <1>4, <2>1, <3>1
    <3>2. CASE n # m
      BY <1>2, <2>1, <3>2
    <3> QED
      BY <3>1, <3>2
  <2>3. \A n \in Run : history'[n] # <<>> <=> n <= m
    BY <1>1, <1>2, <1>4, <2>1
  <2> QED
    BY <1>1, <2>1, <2>2, <2>3 DEF RunsInv
<1>7. CASE /\ m + 1 \in Run
           /\ history' = [history EXCEPT ![m] = Append(@, e), ![m + 1] = <<"Started">>]
  <2>1. /\ history'[m] = h
        /\ history'[m + 1] = <<"Started">>
        /\ \A n \in Run \ {m, m + 1} : history'[n] = history[n]
        /\ history' \in [Run -> Seq(EventType)]
    <3> DEFINE first == [history EXCEPT ![m] = h]
    <3>1. /\ first \in [Run -> Seq(EventType)]
          /\ first[m] = h
          /\ \A n \in Run \ {m} : first[n] = history[n]
      BY <1>1, <1>2, <1>4
    <3>2. history' = [first EXCEPT ![m + 1] = <<"Started">>]
      BY <1>7
    <3>3. m # m + 1
      BY <1>1, <1>2
    <3> HIDE DEF first, h
    <3> QED
      BY <1>1, <1>5, <1>7, <3>1, <3>2, <3>3
  <2>2. history[m + 1] = <<>> /\ Len(history[m + 1]) = 0
    BY <1>1, <1>2, <1>7
  <2>3. Len(history'[m + 1]) \in Nat
    BY <2>1
  <2>4. Grows
    <3> SUFFICES ASSUME NEW n \in Run
                 PROVE  /\ Len(history'[n]) >= Len(history[n])
                        /\ \A i \in 1 .. Len(history[n]) : history'[n][i] = history[n][i]
      BY DEF Grows
    <3>1. CASE n = m
      <4>1. history'[n] = h /\ Len(history[n]) \in Nat
        BY <1>2, <2>1, <3>1
      <4> HIDE DEF h
      <4> QED
        BY <1>4, <3>1, <4>1
    <3>2. CASE n = m + 1
      <4>1. Len(history[n]) = 0 /\ Len(history'[n]) \in Nat
        BY <2>2, <2>3, <3>2
      <4> QED
        BY <4>1
    <3>3. CASE n \notin {m, m + 1}
      BY <1>2, <2>1, <3>3
    <3> QED
      BY <3>1, <3>2, <3>3
  <2>5. \A n \in Run : history'[n] # <<>> <=> n <= m + 1
    <3> SUFFICES ASSUME NEW n \in Run PROVE history'[n] # <<>> <=> n <= m + 1
      OBVIOUS
    <3>1. CASE n \in {m, m + 1}
      <4>1. history'[n] # <<>>
        BY <1>4, <1>5, <2>1, <3>1
      <4>2. n <= m + 1
        BY <1>1, <1>2, <3>1
      <4> QED
        BY <4>1, <4>2
    <3>2. CASE n \notin {m, m + 1}
      <4>1. history'[n] = history[n]
        BY <2>1, <3>2
      <4>2. n <= m <=> n <= m + 1
        BY <1>1, <1>2, <3>2
      <4> QED
        BY <1>1, <4>1, <4>2
    <3> QED
      BY <3>1, <3>2
  <2> QED
    BY <1>7, <2>1, <2>4, <2>5 DEF RunsInv
<1> QED
  BY <1>3, <1>6, <1>7
\* Only the first n events decide which of them is the first of its kind.
LEMMA SamePrefix ==
  ASSUME NEW g, NEW h, NEW n \in Int, NEW m \in Int, n <= m,
         \A i \in 1 .. m : g[i] = h[i], NEW kind
  PROVE  /\ NoneOfKind(kind, g, n) <=> NoneOfKind(kind, h, n)
         /\ \A i \in Int : FirstOfKind(kind, g, n, i) <=> FirstOfKind(kind, h, n, i)
<1>1. \A i \in 1 .. n : g[i] = h[i]
  OBVIOUS
<1> QED
  BY <1>1 DEF NoneOfKind, FirstOfKind

\* The server changes nothing that the command has looked at.
LEMMA ServerInv ==
  ASSUME IInv, ServerAppend
  PROVE  IInv'
<1>1. TypeOK /\ RunsInv /\ PageInv /\ ForwardInv
  BY DEF IInv
<1>2. UNCHANGED commandVars
  BY DEF ServerAppend
<1>3. history' \in [Run -> Seq(EventType)] /\ RunsInv' /\ Grows
  BY <1>1, AppendGrows
<1>4. TypeOK'
  BY <1>1, <1>2, <1>3 DEF TypeOK, commandVars
<1>5. read # NoRead =>
        /\ read.run \in Run
        /\ Len(history[read.run]) \in Nat /\ Len(history'[read.run]) \in Nat
        /\ read.length \in 1 .. Len(history[read.run])
        /\ Len(history'[read.run]) >= Len(history[read.run])
        /\ \A i \in 1 .. read.length : history'[read.run][i] = history[read.run][i]
  BY <1>1, <1>3 DEF PageInv, Grows, TypeOK
<1>6. PageInv'
  BY <1>1, <1>2, <1>5 DEF PageInv, commandVars, MorePages, Backwards
<1>7. ForwardInv'
  <2> SUFFICES ASSUME options.type = "FirstWorkflowTask", read # NoRead
               PROVE  ForwardInv'
    BY <1>1, <1>2 DEF ForwardInv, commandVars, Found
  <2>1. /\ RunRead' = history'[read.run]
        /\ \A i \in 1 .. read.length : RunRead'[i] = RunRead[i]
    BY <1>2, <1>5 DEF RunRead, commandVars
  <2>2. ASSUME NEW n \in Int, n <= read.length, NEW kind
        PROVE  /\ NoneOfKind(kind, RunRead', n) <=> NoneOfKind(kind, RunRead, n)
               /\ \A i \in Int : FirstOfKind(kind, RunRead', n, i) <=> FirstOfKind(kind, RunRead, n, i)
    <3>1. read.length \in Int
      BY <1>5
    <3>2. \A i \in 1 .. read.length : RunRead'[i] = RunRead[i]
      BY <2>1
    <3> QED
      BY <2>2, <3>1, <3>2, SamePrefix
  <2>3. pc \in {"fetch", "scan"} => pos - 1 \in Int /\ pos - 1 <= read.length
    BY <1>1, <1>5 DEF PageInv, Backwards, TypeOK
  <2>4. eventId \in Int /\ eventId - 1 \in Int /\ read.length \in Int /\ read.length <= read.length
    BY <1>1, <1>5 DEF TypeOK
  <2>5. pc \in {"fetch", "scan"} =>
          /\ NoneOfKind("Completed", RunRead', pos - 1) <=> NoneOfKind("Completed", RunRead, pos - 1)
          /\ NoneOfKind("Scheduled", RunRead', pos - 1) <=> NoneOfKind("Scheduled", RunRead, pos - 1)
          /\ FirstOfKind("Scheduled", RunRead', pos - 1, eventId - 1)
               <=> FirstOfKind("Scheduled", RunRead, pos - 1, eventId - 1)
    BY <2>2, <2>3, <2>4
  <2>6. /\ NoneOfKind("Completed", RunRead', read.length) <=> NoneOfKind("Completed", RunRead, read.length)
        /\ FirstOfKind("Completed", RunRead', read.length, eventId)
             <=> FirstOfKind("Completed", RunRead, read.length, eventId)
        /\ FirstOfKind("Scheduled", RunRead', read.length, eventId - 1)
             <=> FirstOfKind("Scheduled", RunRead, read.length, eventId - 1)
    BY <2>2, <2>4
  <2>7. UNCHANGED <<options, pc, eventId, read, pos>>
    BY <1>2 DEF commandVars
  <2> QED
    BY <1>1, <2>5, <2>6, <2>7 DEF ForwardInv, Found
<1> QED
  BY <1>3, <1>4, <1>6, <1>7 DEF IInv
-----------------------------------------------------------------------------
(* The command *)

\* Steps that look at no page and find nothing.
Passive ==
  \/ Validate \/ CallFails \/ CheckReapply \/ Reset \/ BatchOptions \/ Count \/ StartBatch
  \/ \E answer \in BOOLEAN : Prompt(answer)

\* The steps that read no history leave alone what was read.
LEMMA PassiveEffect ==
  ASSUME TypeOK, RunsInv, Passive
  PROVE  /\ UNCHANGED <<history, options, base, eventId, read, pos, pageEnd>>
         /\ request' \in [kind : {"none", "reset", "batch"}, run : 0..MaxRuns, eventId : Int]
         /\ \/ pc' \in {"dial", "failed", "panic", "start", "count", "prompt"}
            \/ pc \in {"options", "reset", "start"} /\ pc' \in {"reset", "done"}
         /\ pc' \in {"dial", "start", "count", "prompt"} => pc \in {"validate", "batch", "count", "prompt"}
<1>1. Resolved(base) \in 0 .. MaxRuns
  BY ResolvedType DEF TypeOK, Run
<1>2. CASE Validate \/ CallFails \/ CheckReapply
  BY <1>2 DEF Validate, CallFails, CheckReapply, Goto, serverVars, TypeOK
<1>3. CASE Reset
  BY <1>1, <1>3 DEF Reset, Goto, serverVars, TypeOK
<1>4. CASE BatchOptions
  BY <1>4 DEF BatchOptions, Goto, serverVars, TypeOK
<1>5. CASE Count
  BY <1>5 DEF Count, Goto, serverVars, TypeOK
<1>6. CASE StartBatch
  BY <1>6, BoundAssumption DEF StartBatch, Goto, serverVars, TypeOK
<1>7. CASE \E answer \in BOOLEAN : Prompt(answer)
  BY <1>7 DEF Prompt, Goto, serverVars, TypeOK
<1> QED
  BY <1>2, <1>3, <1>4, <1>5, <1>6, <1>7 DEF Passive

\* They keep the invariant.
LEMMA PassiveInv ==
  ASSUME IInv, Passive
  PROVE  IInv'
<1>1. TypeOK /\ RunsInv /\ PageInv /\ ForwardInv
  BY DEF IInv
<1>2. /\ UNCHANGED <<history, options, base, eventId, read, pos, pageEnd>>
      /\ request' \in [kind : {"none", "reset", "batch"}, run : 0..MaxRuns, eventId : Int]
      /\ \/ pc' \in {"dial", "failed", "panic", "start", "count", "prompt"}
         \/ pc \in {"options", "reset", "start"} /\ pc' \in {"reset", "done"}
      /\ pc' \in {"dial", "start", "count", "prompt"} => pc \in {"validate", "batch", "count", "prompt"}
  BY <1>1, PassiveEffect
<1>3. TypeOK'
  BY <1>1, <1>2 DEF TypeOK
<1>4. RunsInv'
  BY <1>1, <1>2 DEF RunsInv
<1>5. PageInv'
  BY <1>1, <1>2 DEF PageInv
<1>6. ForwardInv'
  <2>1. pc' \notin {"fetch", "scan"} /\ (Found' => Found)
    BY <1>1, <1>2 DEF Found, PageInv
  <2> QED
    BY <1>1, <1>2, <2>1 DEF ForwardInv, RunRead
<1> QED
  BY <1>3, <1>4, <1>5, <1>6 DEF IInv
\* A search by type starts with nothing found.
LEMMA DialInv ==
  ASSUME IInv, Dial
  PROVE  IInv'
<1>1. TypeOK /\ RunsInv /\ PageInv /\ ForwardInv
  BY DEF IInv
<1>2. /\ UNCHANGED <<history, options, read, pos, pageEnd, request>>
      /\ read = NoRead
      /\ base' = options.runId
      /\ eventId' = IF options.type = "" THEN options.eventId ELSE 0
      /\ pc' \in {"batch", "options", "fetch", "firstEvent", "failed"}
      /\ pc' = "fetch" => options.type \in Searches
      /\ pc' = "firstEvent" => options.type = "LastContinuedAsNew"
  <2>1. options.workflowId \in BOOLEAN /\ options.type \in ResetType
    BY <1>1, OptionType
  <2>2. /\ UNCHANGED <<history, options, read, pos, pageEnd, request>>
        /\ pc = "dial" /\ read = NoRead
        /\ base' = options.runId
        /\ eventId' = IF options.type = "" THEN options.eventId ELSE 0
    BY <1>1 DEF Dial, Goto, serverVars, PageInv
  <2>3. pc' = AfterDial(options)
    BY DEF Dial, Goto
  <2> QED
    BY <2>1, <2>2, <2>3 DEF AfterDial, ResetType, Searches
<1>3. TypeOK'
  <2>1. options.runId \in 0 .. MaxRuns /\ options.eventId \in Int
    BY <1>1, OptionType
  <2>2. base' \in 0 .. MaxRuns
    BY <1>2, <2>1
  <2>3. eventId' \in Int
    <3>1. CASE options.type = ""
      BY <1>2, <2>1, <3>1
    <3>2. CASE options.type # ""
      <4>1. eventId' = 0
        BY <1>2, <3>2
      <4> QED
        BY <4>1
    <3> QED
      BY <3>1, <3>2
  <2> QED
    BY <1>1, <1>2, <2>2, <2>3 DEF TypeOK
<1>4. RunsInv'
  BY <1>1, <1>2 DEF RunsInv
<1>5. PageInv'
  BY <1>2 DEF PageInv
<1>6. ForwardInv'
  BY <1>2 DEF ForwardInv, Found
<1> QED
  BY <1>3, <1>4, <1>5, <1>6 DEF IInv

\* Reading the first event, for the run it was continued from, keeps the
\* invariant.
LEMMA ReadFirstEventInv ==
  ASSUME IInv, ReadFirstEvent
  PROVE  IInv'
<1>1. TypeOK /\ RunsInv /\ PageInv /\ ForwardInv
  BY DEF IInv
<1>2. Resolved(base) \in Run
  BY <1>1, ResolvedType DEF TypeOK
<1>3. /\ UNCHANGED <<history, options, eventId, read, pos, pageEnd, request>>
      /\ read = NoRead
      /\ pc = "firstEvent" /\ options.type = "LastContinuedAsNew"
      /\ base' = Resolved(base) - 1
      /\ pc' \in {"failed", "fetch"}
  BY <1>1 DEF ReadFirstEvent, Goto, serverVars, PageInv
<1>4. base' \in 0 .. MaxRuns
  BY <1>2, <1>3, BoundAssumption DEF Run
<1>5. TypeOK'
  BY <1>1, <1>3, <1>4 DEF TypeOK
<1>6. RunsInv'
  BY <1>1, <1>3 DEF RunsInv
<1>7. PageInv'
  BY <1>3 DEF PageInv, Searches
<1>8. ForwardInv'
  BY <1>3 DEF ForwardInv
<1> QED
  BY <1>5, <1>6, <1>7, <1>8 DEF IInv

\* A page follows the one before it, within what was read of the run.
LEMMA FetchPageInv ==
  ASSUME IInv, FetchPage
  PROVE  IInv'
<1>1. TypeOK /\ RunsInv /\ PageInv /\ ForwardInv
  BY DEF IInv
<1>2. /\ UNCHANGED <<history, options, base, eventId, request>>
      /\ pc = "fetch" /\ pc' = "scan"
      /\ options.type \in Searches
      /\ read' = IF read = NoRead
                 THEN [run |-> Resolved(base), length |-> Len(history[Resolved(base)])]
                 ELSE read
      /\ history[read'.run] # <<>>
      /\ pos' = IF read = NoRead THEN (IF Backwards THEN read'.length ELSE 1)
                ELSE IF Backwards THEN pageEnd - 1 ELSE pageEnd + 1
      /\ pageEnd' = IF Backwards
                    THEN IF pos' > PageSize THEN pos' - PageSize + 1 ELSE 1
                    ELSE IF pos' + PageSize <= read'.length THEN pos' + PageSize - 1 ELSE read'.length
  BY <1>1 DEF FetchPage, Goto, serverVars, PageInv
<1>3. /\ read' # NoRead
      /\ read'.run \in Run
      /\ read'.length \in 1 .. Len(history[read'.run])
      /\ read' \in [run : 0 .. MaxRuns, length : Nat]
  <2>1. CASE read = NoRead
    <3>1. Resolved(base) \in Run
      BY <1>1, ResolvedType DEF TypeOK
    <3>2. history[Resolved(base)] \in Seq(EventType) /\ history[Resolved(base)] # <<>>
      BY <1>1, <1>2, <2>1, <3>1 DEF TypeOK
    <3>3. Len(history[Resolved(base)]) \in Nat \ {0}
      BY <3>2
    <3> QED
      BY <1>2, <2>1, <3>1, <3>3 DEF NoRead, Run
  <2>2. CASE read # NoRead
    BY <1>1, <1>2, <2>2 DEF PageInv, TypeOK
  <2> QED
    BY <2>1, <2>2
<1>4. read'.length \in Nat \ {0} /\ PageSize \in Nat \ {0}
  <2>1. Len(history[read'.run]) \in Nat
    BY <1>1, <1>3 DEF TypeOK
  <2> QED
    BY <1>3, <2>1, BoundAssumption
<1>5. /\ pageEnd' \in 1 .. read'.length
      /\ pos' \in 1 .. read'.length
      /\ IF Backwards THEN pos' \in pageEnd' - 1 .. read'.length ELSE pos' \in 1 .. pageEnd' + 1
  <2>1. pos' \in 1 .. read'.length
    <3>1. CASE read = NoRead
      BY <1>2, <1>4, <3>1
    <3>2. CASE read # NoRead
      BY <1>1, <1>2, <1>4, <3>2 DEF PageInv, MorePages
    <3> QED
      BY <3>1, <3>2
  <2> QED
    BY <1>2, <1>4, <2>1
<1>6. TypeOK'
  BY <1>1, <1>2, <1>3, <1>5 DEF TypeOK
<1>7. RunsInv'
  BY <1>1, <1>2 DEF RunsInv
<1>8. PageInv'
  BY <1>2, <1>3, <1>5 DEF PageInv, Backwards
<1>9. ForwardInv'
  <2> SUFFICES ASSUME options.type = "FirstWorkflowTask"
               PROVE  /\ NoneOfKind("Completed", RunRead', pos' - 1)
                      /\ IF eventId = 0 THEN NoneOfKind("Scheduled", RunRead', pos' - 1)
                         ELSE FirstOfKind("Scheduled", RunRead', pos' - 1, eventId - 1)
    BY <1>2, <1>3 DEF ForwardInv, Found
  <2>1. CASE read = NoRead
    <3>1. pos' - 1 = 0 /\ eventId = 0
      BY <1>1, <1>2, <2>1 DEF Backwards, ForwardInv
    <3> QED
      BY <3>1 DEF NoneOfKind
  <2>2. CASE read # NoRead
    <3>1. RunRead' = RunRead /\ pos' = pos
      BY <1>1, <1>2, <2>2 DEF PageInv, Backwards, RunRead
    <3> QED
      BY <1>1, <1>2, <2>2, <3>1 DEF ForwardInv
  <2> QED
    BY <2>1, <2>2
<1> QED
  BY <1>6, <1>7, <1>8, <1>9 DEF IInv

\* What one more event, or the events after it, change of what is first.
LEMMA NextEvent ==
  ASSUME NEW h, NEW kind, NEW n \in Nat \ {0}, NEW m \in Nat, n <= m
  PROVE  /\ NoneOfKind(kind, h, n - 1) /\ h[n] # kind => NoneOfKind(kind, h, n)
         /\ NoneOfKind(kind, h, n - 1) /\ h[n] = kind => FirstOfKind(kind, h, m, n)
         /\ \A i \in Int : FirstOfKind(kind, h, n - 1, i) => FirstOfKind(kind, h, m, i)
<1>1. \A j \in 1 .. n : j \in 1 .. n - 1 \/ j = n
  OBVIOUS
<1>2. \A j \in 1 .. m : j \in 1 .. n - 1 \/ j >= n
  OBVIOUS
<1>3. NoneOfKind(kind, h, n - 1) /\ h[n] # kind => NoneOfKind(kind, h, n)
  BY <1>1 DEF NoneOfKind
<1>4. NoneOfKind(kind, h, n - 1) /\ h[n] = kind => FirstOfKind(kind, h, m, n)
  BY <1>2 DEF NoneOfKind, FirstOfKind
<1>5. ASSUME NEW i \in Int, FirstOfKind(kind, h, n - 1, i)
      PROVE  FirstOfKind(kind, h, m, i)
  <2>1. i \in 1 .. n - 1 /\ h[i] = kind /\ \A j \in 1 .. n - 1 : h[j] = kind => i <= j
    BY <1>5 DEF FirstOfKind
  <2>2. i \in 1 .. m /\ \A j \in 1 .. m : h[j] = kind => i <= j
    BY <1>2, <2>1
  <2> QED
    BY <2>1, <2>2 DEF FirstOfKind
<1> QED
  BY <1>3, <1>4, <1>5

\* An event is looked at within its page.
LEMMA ScanEventInv ==
  ASSUME IInv, ScanEvent
  PROVE  IInv'
<1>1. TypeOK /\ RunsInv /\ PageInv /\ ForwardInv
  BY DEF IInv
<1>2. /\ pc = "scan" /\ ~ PastPage
      /\ UNCHANGED <<base, read, pageEnd, request>>
      /\ \/ options.type = "LastWorkflowTask" /\ ScanLast
         \/ options.type = "FirstWorkflowTask" /\ ScanFirst
         \/ options.type = "LastContinuedAsNew" /\ ScanPrevious
  BY DEF ScanEvent
<1>3. /\ read # NoRead /\ read.run \in Run
      /\ read.length \in Nat \ {0} /\ pageEnd \in 1 .. read.length
      /\ pos \in 1 .. read.length
      /\ IF Backwards THEN pos \in pageEnd .. read.length ELSE pos \in 1 .. pageEnd
  <2>1. read.length \in Nat /\ pos \in Nat /\ pageEnd \in Nat
    BY <1>1 DEF TypeOK
  <2>2. /\ read # NoRead /\ read.run \in Run
        /\ pageEnd \in 1 .. read.length
        /\ IF Backwards THEN pos \in pageEnd - 1 .. read.length ELSE pos \in 1 .. pageEnd + 1
    BY <1>1, <1>2 DEF PageInv
  <2>3. IF Backwards THEN pos >= pageEnd ELSE pos <= pageEnd
    BY <1>2, <2>1 DEF PastPage
  <2> QED
    BY <2>1, <2>2, <2>3
<1>4. /\ UNCHANGED <<history, options>>
      /\ eventId' \in {pos, pos + 1, eventId}
      /\ Backwards => pc' = "scan" /\ pos' \in {pos - 1, pageEnd - 1}
      /\ ~ Backwards => pos' = pos + 1
      /\ pc' \in {"scan", "options"}
      /\ pc' = "options" => options.type = "FirstWorkflowTask"
  <2>1. CASE options.type = "LastWorkflowTask" /\ ScanLast
    BY <2>1 DEF ScanLast, Goto, serverVars, AfterBreak, Backwards
  <2>2. CASE options.type = "FirstWorkflowTask" /\ ScanFirst
    BY <2>2 DEF ScanFirst, Goto, serverVars, Backwards
  <2>3. CASE options.type = "LastContinuedAsNew" /\ ScanPrevious
    BY <2>3 DEF ScanPrevious, Goto, serverVars, Backwards
  <2> QED
    BY <1>2, <2>1, <2>2, <2>3
<1>5. /\ pos' \in Nat
      /\ IF Backwards THEN pos' \in pageEnd - 1 .. read.length ELSE pos' \in 1 .. pageEnd + 1
  <2>1. CASE Backwards
    BY <1>3, <1>4, <2>1
  <2>2. CASE ~ Backwards
    BY <1>3, <1>4, <2>2
  <2> QED
    BY <2>1, <2>2
<1>6. TypeOK'
  <2>1. eventId' \in Int
    BY <1>1, <1>3, <1>4 DEF TypeOK
  <2> QED
    BY <1>1, <1>2, <1>4, <1>5, <2>1 DEF TypeOK
<1>7. RunsInv'
  BY <1>1, <1>4 DEF RunsInv
<1>8. PageInv'
  BY <1>1, <1>2, <1>3, <1>4, <1>5 DEF PageInv, Backwards
<1>9. ForwardInv'
  <2> SUFFICES ASSUME options.type = "FirstWorkflowTask" PROVE ForwardInv'
    BY <1>4 DEF ForwardInv
  <2>1. /\ pos' = pos + 1
        /\ eventId' = CASE Scanned = "Completed" -> pos
                        [] Scanned = "Scheduled" /\ eventId = 0 -> pos + 1
                        [] OTHER -> eventId
        /\ pc' = IF Scanned = "Completed" THEN "options" ELSE "scan"
    BY <1>2 DEF ScanFirst, Goto
  <2>2. /\ NoneOfKind("Completed", RunRead, pos - 1)
        /\ IF eventId = 0 THEN NoneOfKind("Scheduled", RunRead, pos - 1)
           ELSE FirstOfKind("Scheduled", RunRead, pos - 1, eventId - 1)
    BY <1>1, <1>2, <1>3 DEF ForwardInv
  <2>3. RunRead' = RunRead /\ RunRead[pos] = Scanned
    BY <1>2, <1>4 DEF RunRead, Scanned
  <2>4. pos \in Nat \ {0} /\ pos <= read.length /\ pos <= pos /\ eventId - 1 \in Int
    BY <1>1, <1>3 DEF TypeOK
  <2>5. CASE Scanned = "Completed"
    <3>1. eventId' = pos /\ pc' = "options"
      BY <2>1, <2>5
    <3>2. FirstOfKind("Completed", RunRead, read.length, pos)
      BY <1>3, <2>2, <2>3, <2>4, <2>5, NextEvent
    <3> QED
      BY <1>2, <2>3, <3>1, <3>2 DEF ForwardInv
  <2>6. CASE Scanned # "Completed"
    <3>1. pc' = "scan" /\ pos' - 1 = pos
      BY <1>3, <2>1, <2>6
    <3>2. NoneOfKind("Completed", RunRead, pos)
      BY <2>2, <2>3, <2>4, <2>6, NextEvent
    <3>3. IF eventId' = 0 THEN NoneOfKind("Scheduled", RunRead, pos)
          ELSE FirstOfKind("Scheduled", RunRead, pos, eventId' - 1)
      <4>1. CASE eventId = 0 /\ Scanned = "Scheduled"
        <5>1. eventId' = pos + 1 /\ eventId' # 0 /\ eventId' - 1 = pos
          BY <2>1, <2>4, <4>1
        <5>2. FirstOfKind("Scheduled", RunRead, pos, pos)
          BY <2>2, <2>3, <2>4, <4>1, NextEvent
        <5> QED
          BY <5>1, <5>2
      <4>2. CASE eventId = 0 /\ Scanned # "Scheduled"
        <5>1. eventId' = 0
          BY <2>1, <2>6, <4>2
        <5>2. NoneOfKind("Scheduled", RunRead, pos)
          BY <2>2, <2>3, <2>4, <4>2, NextEvent
        <5> QED
          BY <5>1, <5>2
      <4>3. CASE eventId # 0
        <5>1. eventId' = eventId
          BY <2>1, <2>6, <4>3
        <5>2. FirstOfKind("Scheduled", RunRead, pos, eventId - 1)
          BY <2>2, <2>4, <4>3, NextEvent
        <5> QED
          BY <4>3, <5>1, <5>2
      <4> QED
        BY <4>1, <4>2, <4>3
    <3> QED
      BY <1>2, <1>3, <2>3, <3>1, <3>2, <3>3 DEF ForwardInv, Found
  <2> QED
    BY <2>5, <2>6
<1> QED
  BY <1>6, <1>7, <1>8, <1>9 DEF IInv

\* After the last page the whole of what was read has been looked at.
LEMMA EndPageInv ==
  ASSUME IInv, EndPage
  PROVE  IInv'
<1>1. TypeOK /\ RunsInv /\ PageInv /\ ForwardInv
  BY DEF IInv
<1>2. /\ UNCHANGED <<history, options, base, eventId, read, pos, pageEnd, request>>
      /\ pc = "scan" /\ PastPage
      /\ pc' = IF MorePages THEN "fetch" ELSE IF eventId = 0 THEN "failed" ELSE "options"
  BY DEF EndPage, Goto, serverVars
<1>3. /\ read # NoRead
      /\ pageEnd \in 1 .. read.length /\ read.length \in Nat
      /\ ~ Backwards => pos = pageEnd + 1
  BY <1>1, <1>2 DEF PageInv, PastPage, TypeOK
<1>4. TypeOK'
  BY <1>1, <1>2 DEF TypeOK
<1>5. RunsInv'
  BY <1>1, <1>2 DEF RunsInv
<1>6. PageInv'
  BY <1>1, <1>2, <1>3 DEF PageInv, MorePages, Backwards
<1>7. ForwardInv'
  <2> SUFFICES ASSUME options.type = "FirstWorkflowTask" PROVE ForwardInv'
    BY <1>2 DEF ForwardInv
  <2>1. /\ NoneOfKind("Completed", RunRead, pos - 1)
        /\ IF eventId = 0 THEN NoneOfKind("Scheduled", RunRead, pos - 1)
           ELSE FirstOfKind("Scheduled", RunRead, pos - 1, eventId - 1)
    BY <1>1, <1>2, <1>3 DEF ForwardInv
  <2>2. RunRead' = RunRead
    BY <1>2 DEF RunRead
  <2>3. CASE MorePages
    BY <1>2, <1>3, <2>1, <2>2, <2>3 DEF ForwardInv, Found
  <2>4. CASE ~ MorePages
    <3>1. pos - 1 = read.length
      BY <1>3, <2>4 DEF MorePages, Backwards
    <3> QED
      BY <1>2, <2>1, <2>2, <2>4, <3>1 DEF ForwardInv, Found
  <2> QED
    BY <2>3, <2>4
<1> QED
  BY <1>4, <1>5, <1>6, <1>7 DEF IInv
-----------------------------------------------------------------------------
(* The theorems *)

\* So does nothing at all.
LEMMA StutterInv ==
  ASSUME IInv, UNCHANGED vars
  PROVE  IInv'
<1>1. UNCHANGED <<history, options, pc, base, eventId, read, pos, pageEnd, request>>
  BY DEF vars, serverVars, commandVars
<1>2. TypeOK' /\ RunsInv'
  BY <1>1 DEF IInv, TypeOK, RunsInv
<1>3. PageInv'
  BY <1>1 DEF IInv, PageInv, MorePages, Backwards
<1>4. ForwardInv'
  BY <1>1 DEF IInv, ForwardInv, Found, RunRead
<1> QED
  BY <1>2, <1>3, <1>4 DEF IInv

\* Every step of the process keeps the invariant.
LEMMA StepInv == IInv /\ [Next]_vars => IInv'
<1> SUFFICES ASSUME IInv, [Next]_vars PROVE IInv'
  OBVIOUS
<1>1. CASE ServerAppend
  BY <1>1, ServerInv
<1>2. CASE Passive
  BY <1>2, PassiveInv
<1>3. CASE Dial
  BY <1>3, DialInv
<1>4. CASE ReadFirstEvent
  BY <1>4, ReadFirstEventInv
<1>5. CASE FetchPage
  BY <1>5, FetchPageInv
<1>6. CASE ScanEvent
  BY <1>6, ScanEventInv
<1>7. CASE EndPage
  BY <1>7, EndPageInv
<1>8. CASE UNCHANGED vars
  BY <1>8, StutterInv
<1> QED
  BY <1>1, <1>2, <1>3, <1>4, <1>5, <1>6, <1>7, <1>8 DEF Next, Passive, Exited

\* The inductive invariant.
THEOREM Invariance == Spec => []IInv
<1> QED
  BY InitInv, StepInv, PTL DEF Spec

\* Every variable keeps its type: the position in a page, which the search
\* backwards counts down, never gets below zero.
THEOREM TypeCorrect == Spec => []TypeOK
<1>1. IInv => TypeOK
  BY DEF IInv
<1> QED
  BY <1>1, Invariance, PTL

\* What the forward search found is the first task that completed.
LEMMA FoundIsFirst == IInv => FirstTaskIsFirst
<1> SUFFICES ASSUME IInv, Found, options.type = "FirstWorkflowTask"
             PROVE  FirstTaskIsFirst
  BY DEF FirstTaskIsFirst
<1> DEFINE n == read.length
<1>1. TypeOK /\ PageInv /\ ForwardInv
  BY DEF IInv
<1>2. /\ RunRead \in Seq(EventType)
      /\ n \in 1 .. Len(RunRead) /\ Len(RunRead) \in Nat
      /\ ReadHistory = SubSeq(RunRead, 1, n)
  BY <1>1 DEF Found, PageInv, TypeOK, RunRead, ReadHistory
<1>3. /\ DOMAIN ReadHistory = 1 .. n
      /\ \A i \in 1 .. n : ReadHistory[i] = RunRead[i]
  BY <1>2
<1>4. \/ FirstOfKind("Completed", RunRead, n, eventId)
      \/ /\ NoneOfKind("Completed", RunRead, n)
         /\ FirstOfKind("Scheduled", RunRead, n, eventId - 1)
  BY <1>1 DEF ForwardInv
<1> HIDE DEF n
<1>5. CASE FirstOfKind("Completed", RunRead, n, eventId)
  <2>1. IsFirst(ReadHistory, "Completed", eventId)
    BY <1>3, <1>5 DEF FirstOfKind, IsFirst
  <2>2. \E i \in DOMAIN ReadHistory : ReadHistory[i] = "Completed"
    BY <2>1 DEF IsFirst
  <2> QED
    BY <2>1, <2>2 DEF FirstTaskIsFirst
<1>6. CASE /\ NoneOfKind("Completed", RunRead, n)
           /\ FirstOfKind("Scheduled", RunRead, n, eventId - 1)
  <2>1. IsFirst(ReadHistory, "Scheduled", eventId - 1)
    BY <1>3, <1>6 DEF FirstOfKind, IsFirst
  <2>2. ~ \E i \in DOMAIN ReadHistory : ReadHistory[i] = "Completed"
    BY <1>3, <1>6 DEF NoneOfKind
  <2> QED
    BY <2>1, <2>2 DEF FirstTaskIsFirst
<1> QED
  BY <1>4, <1>5, <1>6

\* getFirstWorkflowTaskEventID finds the first completed task of what it read,
\* or the event after the first scheduled one, for every page size, however
\* long the history is and however it grows between two pages.
THEOREM FirstTaskFound == Spec => []FirstTaskIsFirst
<1> QED
  BY Invariance, FoundIsFirst, PTL
-----------------------------------------------------------------------------
(* The run and the event that the other searches find.                     *)

\* The same of the events from m to n.
NoneIn(kind, h, m, n) == \A j \in m .. n : h[j] # kind

FirstIn(kind, h, m, n, i) == i \in m .. n /\ h[i] = kind /\ NoneIn(kind, h, m, i - 1)

LastIn(kind, h, m, n, i) == i \in m .. n /\ h[i] = kind /\ NoneIn(kind, h, i + 1, n)

\* A run that was continued is complete.
EndedInv ==
  \A n \in Run : n + 1 \in Run /\ history[n + 1] # <<>> =>
    history[n] # <<>> /\ Last(history[n]) = "ContinuedAsNew"

Searching == pc \in {"fetch", "scan"} \/ Found

\* The run that is searched is the one asked for, or the one before it, and
\* the request is about that run.
TargetInv ==
  /\ pc = "firstEvent" => base = options.runId
  /\ Searching /\ options.type = "LastContinuedAsNew" =>
       /\ base \in Run /\ base + 1 \in Run
       /\ history[base + 1] # <<>>
       /\ options.runId # 0 => base + 1 = options.runId
  /\ Searching /\ options.type # "LastContinuedAsNew" => base = options.runId
  /\ Searching /\ read # NoRead /\ base # 0 => read.run = base
  /\ request.kind = "reset" => pc = "done" /\ (base # 0 => request.run = base)

\* The search for the end of the previous run keeps the last completed task.
PreviousInv ==
  options.type = "LastContinuedAsNew" =>
    /\ pc \in {"firstEvent", "fetch", "scan"} /\ read = NoRead => eventId = 0
    /\ Searching /\ read # NoRead => read.length = Len(RunRead)
    /\ pc \in {"fetch", "scan"} /\ read # NoRead =>
         IF eventId = 0 THEN NoneIn("Completed", RunRead, 1, pos - 1)
         ELSE LastIn("Completed", RunRead, 1, pos - 1, eventId)
    /\ Found => LastIn("Completed", RunRead, 1, read.length, eventId)

\* The search backwards, within one page, has passed no completed task and
\* remembers the event after the first scheduled one that it passed, or it
\* has found the last completed task and left the page.
ShortInv ==
  options.type = "LastWorkflowTask" =>
    /\ pc \in {"fetch", "scan"} /\ read = NoRead => eventId = 0
    /\ pc \in {"fetch", "scan"} /\ read # NoRead /\ read.length <= PageSize =>
         /\ pageEnd = 1
         /\ \/ pos = 0 /\ LastIn("Completed", RunRead, 1, read.length, eventId)
            \/ /\ NoneIn("Completed", RunRead, pos + 1, read.length)
               /\ IF eventId = 0 THEN NoneIn("Scheduled", RunRead, pos + 1, read.length)
                  ELSE FirstIn("Scheduled", RunRead, pos + 1, read.length, eventId - 1)
    /\ Found /\ read.length <= PageSize =>
         \/ LastIn("Completed", RunRead, 1, read.length, eventId)
         \/ /\ NoneIn("Completed", RunRead, 1, read.length)
            /\ FirstIn("Scheduled", RunRead, 1, read.length, eventId - 1)

SearchInv == EndedInv /\ TargetInv /\ PreviousInv /\ ShortInv

\* What the server appends goes to the current run, and a run that is
\* continued then is complete.
LEMMA EndedKept ==
  ASSUME TypeOK, RunsInv, EndedInv, ServerAppend
  PROVE  /\ EndedInv'
         /\ \A n \in Run : n + 1 \in Run /\ history[n + 1] # <<>> =>
              history'[n] = history[n] /\ history'[n + 1] # <<>>
<1> DEFINE m == CurrentRun
<1>1. m \in Run /\ \A n \in Run : history[n] # <<>> <=> n <= m
  BY CurrentRunIsLast
<1>2. history \in [Run -> Seq(EventType)] /\ \A n \in Run : n \in Nat
  BY DEF TypeOK, Run
<1>3. PICK e \in EventType :
        \/ /\ m + 1 \in Run /\ e = "ContinuedAsNew"
           /\ history' = [history EXCEPT ![m] = Append(@, e), ![m + 1] = <<"Started">>]
        \/ history' = [history EXCEPT ![m] = Append(@, e)]
  BY DEF ServerAppend
<1> DEFINE h == Append(history[m], e)
<1>4. h # <<>> /\ Last(h) = e /\ <<"Started">> # <<>>
  BY <1>1, <1>2 DEF Last
<1>5. m # m + 1
  BY <1>1, <1>2
<1>6. /\ history'[m] = h
      /\ \A n \in Run : n < m => history'[n] = history[n]
      /\ \A n \in Run : n > m + 1 => history'[n] = <<>>
      /\ m + 1 \in Run /\ history'[m + 1] # <<>> => e = "ContinuedAsNew"
  <2>1. CASE history' = [history EXCEPT ![m] = Append(@, e)]
    <3>1. /\ history'[m] = h
          /\ \A n \in Run : n # m => history'[n] = history[n]
      BY <1>1, <1>2, <2>1
    <3> HIDE DEF h, m
    <3> QED
      BY <1>1, <1>2, <1>5, <3>1
  <2>2. CASE /\ m + 1 \in Run /\ e = "ContinuedAsNew"
             /\ history' = [history EXCEPT ![m] = Append(@, e), ![m + 1] = <<"Started">>]
    <3> DEFINE first == [history EXCEPT ![m] = h]
    <3>1. /\ first \in [Run -> Seq(EventType)]
          /\ first[m] = h
          /\ \A n \in Run : n # m => first[n] = history[n]
      BY <1>1, <1>2
    <3>2. history' = [first EXCEPT ![m + 1] = <<"Started">>]
      BY <2>2
    <3> HIDE DEF first, h
    <3>3. /\ history'[m] = h
          /\ \A n \in Run : n # m /\ n # m + 1 => history'[n] = history[n]
      BY <1>1, <1>5, <3>1, <3>2
    <3>4. e = "ContinuedAsNew"
      BY <2>2
    <3> HIDE DEF m
    <3>5. m \in Nat /\ \A n \in Run : n \in Nat /\ (history[n] = <<>> <=> ~(n <= m))
      BY <1>1, <1>2
    <3>6. \A n \in Run : n < m => history'[n] = history[n]
      BY <3>3, <3>5
    <3>7. \A n \in Run : n > m + 1 => history'[n] = <<>>
      BY <3>3, <3>5
    <3> QED
      BY <3>3, <3>4, <3>6, <3>7
  <2> QED
    BY <1>3, <2>1, <2>2
<1> HIDE DEF h, m
<1>7. \A n \in Run : n + 1 \in Run /\ history[n + 1] # <<>> => n < m /\ n + 1 <= m
  BY <1>1, <1>2
<1>8. \A n \in Run : n + 1 \in Run /\ history[n + 1] # <<>> =>
        history'[n] = history[n] /\ history'[n + 1] # <<>>
  <2> SUFFICES ASSUME NEW n \in Run, n + 1 \in Run, history[n + 1] # <<>>
               PROVE  history'[n] = history[n] /\ history'[n + 1] # <<>>
    OBVIOUS
  <2>1. n < m /\ n + 1 <= m
    BY <1>7
  <2>2. CASE n + 1 = m
    BY <1>4, <1>6, <2>1, <2>2
  <2>3. CASE n + 1 # m
    <3>1. n + 1 < m
      BY <1>1, <1>2, <2>1, <2>3
    <3> QED
      BY <1>6, <2>1, <3>1
  <2> QED
    BY <2>2, <2>3
<1>9. EndedInv'
  <2> SUFFICES ASSUME NEW n \in Run, n + 1 \in Run, history'[n + 1] # <<>>
               PROVE  history'[n] # <<>> /\ Last(history'[n]) = "ContinuedAsNew"
    BY DEF EndedInv
  <2>1. n <= m
    <3>1. ~ (n + 1 > m + 1)
      BY <1>6
    <3> QED
      BY <1>1, <1>2, <3>1
  <2>2. CASE n = m
    BY <1>4, <1>6, <2>2
  <2>3. CASE n # m
    <3>1. n < m /\ n + 1 <= m
      BY <1>1, <1>2, <2>1, <2>3
    <3>2. history[n + 1] # <<>>
      BY <1>1, <3>1
    <3> QED
      BY <1>6, <3>1, <3>2 DEF EndedInv
  <2> QED
    BY <2>2, <2>3
<1> QED
  BY <1>8, <1>9

\* Only the events from m to n decide.
LEMMA SamePart ==
  ASSUME NEW g, NEW h, NEW length \in Nat, \A i \in 1 .. length : g[i] = h[i],
         NEW kind, NEW m \in Nat \ {0}, NEW n \in Int, n <= length
  PROVE  /\ NoneIn(kind, g, m, n) <=> NoneIn(kind, h, m, n)
         /\ \A i \in Int : FirstIn(kind, g, m, n, i) <=> FirstIn(kind, h, m, n, i)
         /\ \A i \in Int : LastIn(kind, g, m, n, i) <=> LastIn(kind, h, m, n, i)
<1>1. \A i \in m .. n : i \in 1 .. length /\ g[i] = h[i]
  OBVIOUS
<1>2. \A i \in m .. n : \A j \in m .. i - 1 : j \in m .. n
  OBVIOUS
<1>3. \A i \in m .. n : \A j \in i + 1 .. n : j \in m .. n
  OBVIOUS
<1> QED
  BY <1>1, <1>2, <1>3 DEF NoneIn, FirstIn, LastIn

\* The server changes nothing of what was searched.
LEMMA ServerSearch ==
  ASSUME IInv, SearchInv, ServerAppend
  PROVE  SearchInv'
<1>1. /\ TypeOK /\ RunsInv /\ PageInv
      /\ EndedInv /\ TargetInv /\ PreviousInv /\ ShortInv
  BY DEF IInv, SearchInv
<1>2. UNCHANGED <<options, pc, base, eventId, read, pos, pageEnd, request>>
  BY DEF ServerAppend, commandVars
<1>3. /\ EndedInv'
      /\ \A n \in Run : n + 1 \in Run /\ history[n + 1] # <<>> =>
           history'[n] = history[n] /\ history'[n + 1] # <<>>
  BY <1>1, EndedKept
<1>4. read # NoRead =>
        /\ read.length \in Nat \ {0}
        /\ \A i \in 1 .. read.length : RunRead'[i] = RunRead[i]
  <2>1. Grows
    BY <1>1, AppendGrows
  <2>2. read # NoRead =>
          /\ read.run \in Run
          /\ Len(history[read.run]) \in Nat
          /\ read.length \in 1 .. Len(history[read.run])
    BY <1>1 DEF PageInv, TypeOK
  <2> QED
    BY <1>2, <2>1, <2>2 DEF Grows, RunRead
<1>5. Found' = Found /\ Searching' = Searching
  BY <1>2 DEF Found, Searching
<1>6. TargetInv'
  <2>1. base + 1 \in Run /\ base \in Run /\ history[base + 1] # <<>> => history'[base + 1] # <<>>
    BY <1>3
  <2> QED
    BY <1>1, <1>2, <1>5, <2>1 DEF TargetInv
<1>7. PreviousInv'
  <2> SUFFICES ASSUME options.type = "LastContinuedAsNew" PROVE PreviousInv'
    BY <1>2 DEF PreviousInv
  <2>1. Searching /\ read # NoRead => RunRead' = RunRead
    <3> SUFFICES ASSUME Searching, read # NoRead PROVE RunRead' = RunRead
      OBVIOUS
    <3>1. read.run = base /\ base \in Run /\ base + 1 \in Run /\ history[base + 1] # <<>>
      <4>1. base \in Run /\ base + 1 \in Run /\ history[base + 1] # <<>>
        BY <1>1 DEF TargetInv
      <4>2. base # 0
        BY <4>1 DEF Run
      <4> QED
        BY <1>1, <4>1, <4>2 DEF TargetInv
    <3> QED
      BY <1>2, <1>3, <3>1 DEF RunRead
  <2>2. Found => Searching /\ read # NoRead
    BY DEF Found, Searching
  <2>3. pc \in {"fetch", "scan"} => Searching
    BY DEF Searching
  <2> QED
    BY <1>1, <1>2, <1>5, <2>1, <2>2, <2>3 DEF PreviousInv
<1>8. ShortInv'
  <2> SUFFICES ASSUME options.type = "LastWorkflowTask", read # NoRead, read.length <= PageSize
               PROVE  ShortInv'
    <3>1. Found => read # NoRead
      BY DEF Found
    <3> QED
      BY <1>1, <1>2, <1>5, <3>1 DEF ShortInv
  <2> DEFINE n == read.length
  <2>1. /\ n \in Nat \ {0} /\ n \in Int /\ n <= n
        /\ pos + 1 \in Nat \ {0} /\ 1 \in Nat \ {0}
        /\ eventId \in Int /\ eventId - 1 \in Int
    BY <1>1, <1>4 DEF TypeOK
  <2>2. \A i \in 1 .. n : RunRead'[i] = RunRead[i]
    BY <1>4
  <2> HIDE DEF n
  <2>3. ASSUME NEW kind, NEW m \in Nat \ {0}
        PROVE  /\ NoneIn(kind, RunRead', m, n) <=> NoneIn(kind, RunRead, m, n)
               /\ FirstIn(kind, RunRead', m, n, eventId - 1) <=> FirstIn(kind, RunRead, m, n, eventId - 1)
               /\ LastIn(kind, RunRead', m, n, eventId) <=> LastIn(kind, RunRead, m, n, eventId)
    BY <2>1, <2>2, SamePart
  <2>4. /\ NoneIn("Completed", RunRead', pos + 1, n) <=> NoneIn("Completed", RunRead, pos + 1, n)
        /\ NoneIn("Scheduled", RunRead', pos + 1, n) <=> NoneIn("Scheduled", RunRead, pos + 1, n)
        /\ FirstIn("Scheduled", RunRead', pos + 1, n, eventId - 1)
             <=> FirstIn("Scheduled", RunRead, pos + 1, n, eventId - 1)
        /\ NoneIn("Completed", RunRead', 1, n) <=> NoneIn("Completed", RunRead, 1, n)
        /\ FirstIn("Scheduled", RunRead', 1, n, eventId - 1)
             <=> FirstIn("Scheduled", RunRead, 1, n, eventId - 1)
        /\ LastIn("Completed", RunRead', 1, n, eventId) <=> LastIn("Completed", RunRead, 1, n, eventId)
    BY <2>1, <2>3
  <2> QED
    BY <1>1, <1>2, <1>5, <2>4 DEF ShortInv, n
<1> QED
  BY <1>3, <1>6, <1>7, <1>8 DEF SearchInv

\* The request is about the run whose history was read.
LEMMA PassiveSearch ==
  ASSUME IInv, SearchInv, Passive
  PROVE  SearchInv'
<1>1. /\ TypeOK /\ RunsInv /\ PageInv
      /\ EndedInv /\ TargetInv /\ PreviousInv /\ ShortInv
  BY DEF IInv, SearchInv
<1>2. /\ UNCHANGED <<history, options, base, eventId, read, pos, pageEnd>>
      /\ \/ pc' \in {"dial", "failed", "panic", "start", "count", "prompt"}
         \/ pc \in {"options", "reset", "start"} /\ pc' \in {"reset", "done"}
  BY <1>1, PassiveEffect
<1>3. /\ pc # "done"
      /\ \/ request' = request
         \/ request'.kind = "batch" /\ pc' = "done"
         \/ request'.run = Resolved(base) /\ pc' = "done"
  <2>1. CASE Validate \/ CallFails \/ CheckReapply
    BY <2>1 DEF Validate, CallFails, CheckReapply
  <2>2. CASE Reset
    BY <2>2 DEF Reset, Goto
  <2>3. CASE BatchOptions \/ Count
    BY <2>3 DEF BatchOptions, Count
  <2>4. CASE StartBatch
    BY <2>4 DEF StartBatch, Goto
  <2>5. CASE \E answer \in BOOLEAN : Prompt(answer)
    BY <2>5 DEF Prompt
  <2> QED
    BY <2>1, <2>2, <2>3, <2>4, <2>5 DEF Passive
<1>4. pc' \notin {"firstEvent", "fetch", "scan"} /\ (Found' => Found) /\ RunRead' = RunRead
  BY <1>1, <1>2 DEF Found, PageInv, RunRead
<1>5. Searching' => Searching
  BY <1>4 DEF Searching
<1>6. EndedInv'
  BY <1>1, <1>2 DEF EndedInv
<1>7. TargetInv'
  <2>1. request'.kind = "reset" => pc' = "done" /\ (base # 0 => request'.run = base)
    BY <1>1, <1>3 DEF TargetInv, Resolved
  <2> QED
    BY <1>1, <1>2, <1>4, <1>5, <2>1 DEF TargetInv
<1>8. PreviousInv' /\ ShortInv'
  BY <1>1, <1>2, <1>4, <1>5 DEF PreviousInv, ShortInv
<1> QED
  BY <1>6, <1>7, <1>8 DEF SearchInv

\* The command chooses its search when it has connected.
LEMMA DialSearch ==
  ASSUME IInv, SearchInv, Dial
  PROVE  SearchInv'
<1>1. TypeOK /\ PageInv /\ EndedInv /\ TargetInv
  BY DEF IInv, SearchInv
<1>2. options.workflowId \in BOOLEAN /\ options.type \in ResetType
  BY <1>1, OptionType
<1>3. /\ UNCHANGED <<history, options, read, pos, pageEnd, request>>
      /\ pc = "dial" /\ read = NoRead
      /\ base' = options.runId
      /\ eventId' = IF options.type = "" THEN options.eventId ELSE 0
      /\ pc' = AfterDial(options)
  BY <1>1 DEF Dial, Goto, serverVars, PageInv
<1>4. /\ pc' \in {"batch", "options", "fetch", "firstEvent", "failed"}
      /\ pc' = "fetch" => options.type \in {"FirstWorkflowTask", "LastWorkflowTask"}
      /\ pc' = "firstEvent" => options.type = "LastContinuedAsNew"
  BY <1>2, <1>3 DEF AfterDial, ResetType
<1>5. ~ Found' /\ (Searching' => pc' = "fetch")
  BY <1>3, <1>4 DEF Found, Searching
<1>6. request.kind # "reset"
  BY <1>1, <1>3 DEF TargetInv
<1>7. EndedInv' /\ TargetInv'
  BY <1>1, <1>3, <1>4, <1>5, <1>6 DEF EndedInv, TargetInv
<1>8. PreviousInv' /\ ShortInv'
  BY <1>3, <1>4, <1>5 DEF PreviousInv, ShortInv
<1> QED
  BY <1>7, <1>8 DEF SearchInv

\* The run before the one asked for is the base from here on.
LEMMA ReadFirstEventSearch ==
  ASSUME IInv, SearchInv, ReadFirstEvent
  PROVE  SearchInv'
<1>1. TypeOK /\ RunsInv /\ PageInv /\ EndedInv /\ TargetInv /\ PreviousInv
  BY DEF IInv, SearchInv
<1>2. Resolved(base) \in Run
  BY <1>1, ResolvedType DEF TypeOK
<1>3. /\ UNCHANGED <<history, options, eventId, read, pos, pageEnd, request>>
      /\ read = NoRead
      /\ pc = "firstEvent" /\ options.type = "LastContinuedAsNew"
      /\ history[Resolved(base)] # <<>>
      /\ base' = Resolved(base) - 1
      /\ pc' = IF base' = 0 THEN "failed" ELSE "fetch"
  BY <1>1 DEF ReadFirstEvent, Goto, serverVars, PageInv
<1>4. ~ Found' /\ (Searching' => pc' = "fetch")
  BY <1>3 DEF Found, Searching
<1>5. pc' = "fetch" => base' \in Run /\ base' + 1 = Resolved(base)
  BY <1>2, <1>3, BoundAssumption DEF Run
<1>6. options.runId # 0 => Resolved(base) = options.runId
  BY <1>1, <1>3 DEF TargetInv, Resolved
<1>7. EndedInv' /\ TargetInv'
  BY <1>1, <1>2, <1>3, <1>4, <1>5, <1>6 DEF EndedInv, TargetInv
<1>8. PreviousInv' /\ ShortInv'
  BY <1>1, <1>3, <1>4 DEF PreviousInv, ShortInv
<1> QED
  BY <1>7, <1>8 DEF SearchInv

\* A history that fits into one page is read from its end to its beginning.
LEMMA FetchPageSearch ==
  ASSUME IInv, SearchInv, FetchPage
  PROVE  SearchInv'
<1>1. /\ TypeOK /\ RunsInv /\ PageInv
      /\ EndedInv /\ TargetInv /\ PreviousInv /\ ShortInv
  BY DEF IInv, SearchInv
<1>2. /\ UNCHANGED <<history, options, base, eventId, request>>
      /\ pc = "fetch" /\ pc' = "scan"
      /\ read' = IF read = NoRead
                 THEN [run |-> Resolved(base), length |-> Len(history[Resolved(base)])]
                 ELSE read
      /\ pos' = IF read = NoRead THEN (IF Backwards THEN read'.length ELSE 1)
                ELSE IF Backwards THEN pageEnd - 1 ELSE pageEnd + 1
      /\ pageEnd' = IF Backwards
                    THEN IF pos' > PageSize THEN pos' - PageSize + 1 ELSE 1
                    ELSE IF pos' + PageSize <= read'.length THEN pos' + PageSize - 1 ELSE read'.length
  BY DEF FetchPage, Goto, serverVars
<1>3. ~ Found' /\ Searching /\ Searching'
  BY <1>2 DEF Found, Searching
<1>4. read' # NoRead
  BY FetchPageInv, <1>2 DEF IInv, PageInv
<1>5. EndedInv'
  BY <1>1, <1>2 DEF EndedInv
<1>6. TargetInv'
  <2>1. base # 0 => read'.run = base
    BY <1>1, <1>2, <1>3 DEF TargetInv, Resolved
  <2> QED
    BY <1>1, <1>2, <1>3, <2>1 DEF TargetInv
<1>7. PreviousInv'
  <2> SUFFICES ASSUME options.type = "LastContinuedAsNew" PROVE PreviousInv'
    BY <1>2 DEF PreviousInv
  <2>1. CASE read = NoRead
    <3>1. eventId' = 0 /\ pos' - 1 = 0 /\ read'.length = Len(RunRead')
      BY <1>1, <1>2, <2>1 DEF PreviousInv, Backwards, RunRead
    <3>2. NoneIn("Completed", RunRead', 1, pos' - 1)
      BY <3>1 DEF NoneIn
    <3> QED
      BY <1>3, <1>4, <3>1, <3>2 DEF PreviousInv
  <2>2. CASE read # NoRead
    <3>1. RunRead' = RunRead /\ pos' = pos /\ read' = read
      BY <1>1, <1>2, <2>2 DEF PageInv, Backwards, RunRead
    <3> QED
      BY <1>1, <1>2, <1>3, <1>4, <3>1 DEF PreviousInv
  <2> QED
    BY <2>1, <2>2
<1>8. ShortInv'
  <2> SUFFICES ASSUME options.type = "LastWorkflowTask", read'.length <= PageSize
               PROVE  ShortInv'
    BY <1>2, <1>3, <1>4 DEF ShortInv
  <2>1. Backwards
    BY DEF Backwards
  <2>2. CASE read = NoRead
    <3>1. eventId' = 0 /\ pos' = read'.length
      BY <1>1, <1>2, <2>1, <2>2 DEF ShortInv
    <3>2. read'.length \in Nat
      BY FetchPageInv DEF IInv, TypeOK
    <3>3. pageEnd' = 1
      BY <1>2, <2>1, <3>1, <3>2, BoundAssumption
    <3>4. \A kind : NoneIn(kind, RunRead', pos' + 1, read'.length)
      BY <3>1, <3>2 DEF NoneIn
    <3> QED
      BY <1>2, <1>3, <1>4, <3>1, <3>3, <3>4 DEF ShortInv
  <2>3. CASE read # NoRead
    <3>1. pageEnd = 1 /\ MorePages
      BY <1>1, <1>2, <2>3 DEF ShortInv, PageInv
    <3> QED
      BY <2>1, <3>1 DEF MorePages
  <2> QED
    BY <2>2, <2>3
<1> QED
  BY <1>5, <1>6, <1>7, <1>8 DEF SearchInv

\* One event more, in front or behind.
LEMMA OneMore ==
  ASSUME NEW h, NEW kind, NEW n \in Nat \ {0}, NEW length \in Nat, n <= length
  PROVE  /\ NoneIn(kind, h, 1, n - 1) /\ h[n] # kind => NoneIn(kind, h, 1, n)
         /\ h[n] = kind => LastIn(kind, h, 1, n, n)
         /\ \A i \in Int : LastIn(kind, h, 1, n - 1, i) /\ h[n] # kind => LastIn(kind, h, 1, n, i)
         /\ NoneIn(kind, h, n + 1, length) /\ h[n] # kind => NoneIn(kind, h, n, length)
         /\ NoneIn(kind, h, n + 1, length) /\ h[n] = kind => LastIn(kind, h, 1, length, n)
         /\ h[n] = kind => FirstIn(kind, h, n, length, n)
         /\ \A i \in Int :
              FirstIn(kind, h, n + 1, length, i) /\ h[n] # kind => FirstIn(kind, h, n, length, i)
<1>1. NoneIn(kind, h, 1, n - 1) /\ h[n] # kind => NoneIn(kind, h, 1, n)
  <2>1. \A j \in 1 .. n : j \in 1 .. n - 1 \/ j = n
    OBVIOUS
  <2> QED
    BY <2>1 DEF NoneIn
<1>2. h[n] = kind => LastIn(kind, h, 1, n, n)
  BY DEF LastIn, NoneIn
<1>3. ASSUME NEW i \in Int, LastIn(kind, h, 1, n - 1, i), h[n] # kind
      PROVE  LastIn(kind, h, 1, n, i)
  <2>1. i \in 1 .. n /\ h[i] = kind /\ \A j \in i + 1 .. n - 1 : h[j] # kind
    BY <1>3 DEF LastIn, NoneIn
  <2>2. \A j \in i + 1 .. n : j \in i + 1 .. n - 1 \/ j = n
    OBVIOUS
  <2> QED
    BY <1>3, <2>1, <2>2 DEF LastIn, NoneIn
<1>4. NoneIn(kind, h, n + 1, length) /\ h[n] # kind => NoneIn(kind, h, n, length)
  <2>1. \A j \in n .. length : j \in n + 1 .. length \/ j = n
    OBVIOUS
  <2> QED
    BY <2>1 DEF NoneIn
<1>5. NoneIn(kind, h, n + 1, length) /\ h[n] = kind => LastIn(kind, h, 1, length, n)
  BY DEF LastIn
<1>6. h[n] = kind => FirstIn(kind, h, n, length, n)
  BY DEF FirstIn, NoneIn
<1>7. ASSUME NEW i \in Int, FirstIn(kind, h, n + 1, length, i), h[n] # kind
      PROVE  FirstIn(kind, h, n, length, i)
  <2>1. i \in n .. length /\ h[i] = kind /\ \A j \in n + 1 .. i - 1 : h[j] # kind
    BY <1>7 DEF FirstIn, NoneIn
  <2>2. \A j \in n .. i - 1 : j \in n + 1 .. i - 1 \/ j = n
    OBVIOUS
  <2> QED
    BY <1>7, <2>1, <2>2 DEF FirstIn, NoneIn
<1> QED
  BY <1>1, <1>2, <1>3, <1>4, <1>5, <1>6, <1>7

\* Every event that is looked at is accounted for.
LEMMA ScanEventSearch ==
  ASSUME IInv, SearchInv, ScanEvent
  PROVE  SearchInv'
<1>1. /\ TypeOK /\ RunsInv /\ PageInv
      /\ EndedInv /\ TargetInv /\ PreviousInv /\ ShortInv
  BY DEF IInv, SearchInv
<1>2. /\ pc = "scan" /\ ~ PastPage
      /\ UNCHANGED <<history, options, base, read, pageEnd, request>>
      /\ \/ options.type = "LastWorkflowTask" /\ ScanLast
         \/ options.type = "FirstWorkflowTask" /\ ScanFirst
         \/ options.type = "LastContinuedAsNew" /\ ScanPrevious
      /\ pc' \in {"scan", "options"}
      /\ options.type # "FirstWorkflowTask" => pc' = "scan"
  BY DEF ScanEvent, ScanLast, ScanFirst, ScanPrevious, Goto, serverVars
<1>3. /\ read # NoRead
      /\ read.length \in Nat /\ pageEnd \in 1 .. read.length
      /\ IF Backwards THEN pos \in pageEnd .. read.length ELSE pos \in 1 .. pageEnd
  <2>1. read.length \in Nat /\ pos \in Nat /\ pageEnd \in Nat
    BY <1>1 DEF TypeOK
  <2>2. /\ read # NoRead
        /\ pageEnd \in 1 .. read.length
        /\ IF Backwards THEN pos \in pageEnd - 1 .. read.length ELSE pos \in 1 .. pageEnd + 1
    BY <1>1, <1>2 DEF PageInv
  <2>3. IF Backwards THEN pos >= pageEnd ELSE pos <= pageEnd
    BY <1>2, <2>1 DEF PastPage
  <2> QED
    BY <2>1, <2>2, <2>3
<1>4. Searching /\ (Searching' => Searching) /\ RunRead' = RunRead /\ RunRead[pos] = Scanned
  BY <1>2 DEF Searching, RunRead, Scanned
<1>5. pos \in Nat \ {0} /\ pos <= read.length /\ eventId \in Int
  BY <1>1, <1>3 DEF TypeOK
<1>6. EndedInv'
  BY <1>1, <1>2 DEF EndedInv
<1>7. TargetInv'
  BY <1>1, <1>2, <1>4 DEF TargetInv
<1>8. PreviousInv'
  <2> SUFFICES ASSUME options.type = "LastContinuedAsNew" PROVE PreviousInv'
    BY <1>2 DEF PreviousInv
  <2>1. /\ pos' = pos + 1
        /\ eventId' = IF Scanned = "Completed" THEN pos ELSE eventId
        /\ pc' = "scan"
    BY <1>2 DEF ScanPrevious
  <2>2. /\ read.length = Len(RunRead)
        /\ IF eventId = 0 THEN NoneIn("Completed", RunRead, 1, pos - 1)
           ELSE LastIn("Completed", RunRead, 1, pos - 1, eventId)
    BY <1>1, <1>2, <1>3, <1>4 DEF PreviousInv
  <2>3. pos' - 1 = pos
    BY <1>5, <2>1
  <2>4. IF eventId' = 0 THEN NoneIn("Completed", RunRead, 1, pos)
        ELSE LastIn("Completed", RunRead, 1, pos, eventId')
    <3>1. CASE Scanned = "Completed"
      <4>1. LastIn("Completed", RunRead, 1, pos, pos)
        BY <1>4, <1>5, <3>1, OneMore
      <4> QED
        BY <1>5, <2>1, <3>1, <4>1
    <3>2. CASE Scanned # "Completed"
      <4>1. eventId' = eventId
        BY <2>1, <3>2
      <4>2. CASE eventId = 0
        <5>1. NoneIn("Completed", RunRead, 1, pos - 1)
          BY <2>2, <4>2
        <5>2. RunRead[pos] # "Completed" /\ read.length \in Nat
          BY <1>3, <1>4, <3>2
        <5>3. NoneIn("Completed", RunRead, 1, pos)
          BY <1>5, <5>1, <5>2, OneMore
        <5> QED
          BY <4>1, <4>2, <5>3
      <4>3. CASE eventId # 0
        <5>1. LastIn("Completed", RunRead, 1, pos - 1, eventId)
          BY <2>2, <4>3
        <5>2. RunRead[pos] # "Completed" /\ read.length \in Nat
          BY <1>3, <1>4, <3>2
        <5>3. LastIn("Completed", RunRead, 1, pos, eventId)
          BY <1>5, <5>1, <5>2, OneMore
        <5> QED
          BY <4>1, <4>3, <5>3
      <4> QED
        BY <4>2, <4>3
    <3> QED
      BY <3>1, <3>2
  <2> QED
    BY <1>2, <1>3, <1>4, <2>1, <2>2, <2>3, <2>4 DEF PreviousInv, Found
<1>9. ShortInv'
  <2> SUFFICES ASSUME options.type = "LastWorkflowTask", read.length <= PageSize
               PROVE  ShortInv'
    BY <1>2, <1>3 DEF ShortInv, Found
  <2> DEFINE n == read.length
  <2>1. /\ Scanned # "Completed" => pos' = pos - 1
        /\ Scanned = "Completed" => pos' = AfterBreak
        /\ eventId' = CASE Scanned = "Completed" -> pos
                        [] Scanned = "Scheduled" -> pos + 1
                        [] OTHER -> eventId
        /\ pc' = "scan"
    BY <1>2 DEF ScanLast
  <2>2. /\ pageEnd = 1
        /\ NoneIn("Completed", RunRead, pos + 1, n)
        /\ IF eventId = 0 THEN NoneIn("Scheduled", RunRead, pos + 1, n)
           ELSE FirstIn("Scheduled", RunRead, pos + 1, n, eventId - 1)
    BY <1>1, <1>2, <1>3, <1>5 DEF ShortInv
  <2>3. n \in Nat /\ pos <= n /\ eventId - 1 \in Int
    BY <1>3, <1>5
  <2> HIDE DEF n
  <2>4. CASE Scanned = "Completed"
    <3>1. pos' = 0 /\ eventId' = pos
      BY <2>1, <2>2, <2>4 DEF AfterBreak
    <3>2. LastIn("Completed", RunRead, 1, n, pos)
      BY <1>4, <1>5, <2>2, <2>3, <2>4, OneMore
    <3> QED
      BY <1>2, <1>3, <1>4, <2>1, <2>2, <3>1, <3>2 DEF ShortInv, Found, n
  <2>5. CASE Scanned # "Completed"
    <3>1. pos' + 1 = pos
      BY <1>5, <2>1, <2>5
    <3>2. NoneIn("Completed", RunRead, pos, n)
      BY <1>4, <1>5, <2>2, <2>3, <2>5, OneMore
    <3>3. IF eventId' = 0 THEN NoneIn("Scheduled", RunRead, pos, n)
          ELSE FirstIn("Scheduled", RunRead, pos, n, eventId' - 1)
      <4>1. CASE Scanned = "Scheduled"
        <5>1. eventId' # 0 /\ eventId' - 1 = pos
          BY <1>5, <2>1, <4>1
        <5>2. FirstIn("Scheduled", RunRead, pos, n, pos)
          BY <1>4, <1>5, <2>3, <4>1, OneMore
        <5> QED
          BY <5>1, <5>2
      <4>2. CASE Scanned # "Scheduled"
        <5>1. eventId' = eventId
          BY <2>1, <2>5, <4>2
        <5>2. CASE eventId = 0
          BY <1>4, <1>5, <2>2, <2>3, <4>2, <5>1, <5>2, OneMore
        <5>3. CASE eventId # 0
          BY <1>4, <1>5, <2>2, <2>3, <4>2, <5>1, <5>3, OneMore
        <5> QED
          BY <5>2, <5>3
      <4> QED
        BY <4>1, <4>2
    <3> QED
      BY <1>2, <1>3, <1>4, <2>1, <2>2, <3>1, <3>2, <3>3 DEF ShortInv, Found, n
  <2> QED
    BY <2>4, <2>5
<1> QED
  BY <1>6, <1>7, <1>8, <1>9 DEF SearchInv

\* At the end of the last page all that was read has been searched.
LEMMA EndPageSearch ==
  ASSUME IInv, SearchInv, EndPage
  PROVE  SearchInv'
<1>1. /\ TypeOK /\ RunsInv /\ PageInv
      /\ EndedInv /\ TargetInv /\ PreviousInv /\ ShortInv
  BY DEF IInv, SearchInv
<1>2. /\ UNCHANGED <<history, options, base, eventId, read, pos, pageEnd, request>>
      /\ pc = "scan" /\ PastPage
      /\ pc' = IF MorePages THEN "fetch" ELSE IF eventId = 0 THEN "failed" ELSE "options"
  BY DEF EndPage, Goto, serverVars
<1>3. /\ read # NoRead
      /\ pageEnd \in 1 .. read.length /\ read.length \in Nat
      /\ Backwards => pos = pageEnd - 1
      /\ ~ Backwards => pos = pageEnd + 1
  BY <1>1, <1>2 DEF PageInv, PastPage, TypeOK
<1>4. /\ Searching /\ RunRead' = RunRead
      /\ Found' => pc' = "options" /\ eventId # 0 /\ ~ MorePages
  BY <1>2 DEF Searching, Found, RunRead
<1>5. EndedInv'
  BY <1>1, <1>2 DEF EndedInv
<1>6. TargetInv'
  BY <1>1, <1>2, <1>4 DEF TargetInv
<1>7. PreviousInv'
  <2> SUFFICES ASSUME options.type = "LastContinuedAsNew" PROVE PreviousInv'
    BY <1>2 DEF PreviousInv
  <2>1. /\ read.length = Len(RunRead)
        /\ IF eventId = 0 THEN NoneIn("Completed", RunRead, 1, pos - 1)
           ELSE LastIn("Completed", RunRead, 1, pos - 1, eventId)
    BY <1>1, <1>2, <1>3, <1>4 DEF PreviousInv
  <2>2. Found' => LastIn("Completed", RunRead, 1, read.length, eventId)
    <3> SUFFICES ASSUME Found' PROVE LastIn("Completed", RunRead, 1, read.length, eventId)
      OBVIOUS
    <3>1. pos - 1 = read.length
      BY <1>3, <1>4 DEF MorePages, Backwards
    <3> QED
      BY <1>4, <2>1, <3>1
  <2> QED
    BY <1>2, <1>3, <1>4, <2>1, <2>2 DEF PreviousInv
<1>8. ShortInv'
  <2> SUFFICES ASSUME options.type = "LastWorkflowTask", read.length <= PageSize
               PROVE  ShortInv'
    BY <1>2, <1>3 DEF ShortInv, Found
  <2>1. /\ pageEnd = 1
        /\ \/ LastIn("Completed", RunRead, 1, read.length, eventId)
           \/ /\ NoneIn("Completed", RunRead, pos + 1, read.length)
              /\ IF eventId = 0 THEN NoneIn("Scheduled", RunRead, pos + 1, read.length)
                 ELSE FirstIn("Scheduled", RunRead, pos + 1, read.length, eventId - 1)
    BY <1>1, <1>2, <1>3 DEF ShortInv
  <2>2. Backwards
    BY DEF Backwards
  <2>3. pos + 1 = 1 /\ ~ MorePages
    BY <1>3, <2>1, <2>2 DEF MorePages
  <2> QED
    BY <1>2, <1>4, <2>1, <2>3 DEF ShortInv
<1> QED
  BY <1>5, <1>6, <1>7, <1>8 DEF SearchInv

\* Every step keeps what the searches of a run rely on.
LEMMA SearchStep == IInv /\ SearchInv /\ [Next]_vars => SearchInv'
<1> SUFFICES ASSUME IInv, SearchInv, [Next]_vars PROVE SearchInv'
  OBVIOUS
<1>1. CASE ServerAppend
  BY <1>1, ServerSearch
<1>2. CASE Passive
  BY <1>2, PassiveSearch
<1>3. CASE Dial
  BY <1>3, DialSearch
<1>4. CASE ReadFirstEvent
  BY <1>4, ReadFirstEventSearch
<1>5. CASE FetchPage
  BY <1>5, FetchPageSearch
<1>6. CASE ScanEvent
  BY <1>6, ScanEventSearch
<1>7. CASE EndPage
  BY <1>7, EndPageSearch
<1>8. CASE UNCHANGED vars
  <2>1. UNCHANGED <<history, options, pc, base, eventId, read, pos, pageEnd, request>>
    BY <1>8 DEF vars, serverVars, commandVars
  <2>2. Found' = Found /\ Searching' = Searching /\ RunRead' = RunRead
    BY <2>1 DEF Found, Searching, RunRead
  <2> QED
    BY <2>1, <2>2 DEF SearchInv, EndedInv, TargetInv, PreviousInv, ShortInv
<1> QED
  BY <1>1, <1>2, <1>3, <1>4, <1>5, <1>6, <1>7, <1>8 DEF Next, Passive, Exited

\* At every event of a search the remembered task is the first or the last
\* of those read so far, and the target run is the one being read (the three
\* get...TaskEventID functions).
THEOREM SearchInvariance == Spec => []SearchInv
<1>1. Init => SearchInv
  <2> SUFFICES ASSUME Init PROVE SearchInv
    OBVIOUS
  <2>1. EndedInv
    <3>1. \A n \in Run : n + 1 \in Run => n + 1 # 1
      BY DEF Run
    <3> QED
      BY <3>1 DEF Init, EndedInv
  <2>2. ~ Found /\ ~ Searching /\ pc = "validate" /\ request.kind = "none"
    BY DEF Init, Found, Searching, NoRequest
  <2>3. TargetInv /\ PreviousInv /\ ShortInv
    BY <2>2 DEF TargetInv, PreviousInv, ShortInv
  <2> QED
    BY <2>1, <2>3 DEF SearchInv
<1> QED
  BY <1>1, SearchStep, Invariance, PTL DEF Spec

\* An event found by reading a run is sent for that run only, although the
\* workflow may continue as new between the reading and the request, when the
\* command line names the run or asks for the one before the current one.
THEOREM RequestNamesRunRead == Spec => []ResetOfRunRead
<1>1. IInv /\ SearchInv => ResetOfRunRead
  <2> SUFFICES ASSUME IInv, SearchInv, request.kind = "reset", read # NoRead,
                      options.runId # 0 \/ options.type = "LastContinuedAsNew"
               PROVE  request.run = read.run
    BY DEF ResetOfRunRead
  <2>1. TargetInv
    BY DEF SearchInv
  <2>2. Searching
    BY <2>1 DEF TargetInv, Searching, Found
  <2>3. base # 0
    BY <2>1, <2>2 DEF TargetInv, Run
  <2> QED
    BY <2>1, <2>2, <2>3 DEF TargetInv
<1> QED
  BY <1>1, Invariance, SearchInvariance, PTL

\* getLastContinueAsNewID finds the run before the one asked for and the last
\* task it completed, and that run has ended by being continued as new, however
\* many runs there are and however they are cut into pages.
THEOREM PreviousRunFound == Spec => []PreviousRunAtItsEnd
<1>1. IInv /\ SearchInv => PreviousRunAtItsEnd
  <2> SUFFICES ASSUME IInv, SearchInv, Found, options.type = "LastContinuedAsNew"
               PROVE  PreviousRunAtItsEnd
    BY DEF PreviousRunAtItsEnd
  <2>1. Searching /\ read # NoRead
    BY DEF Searching, Found
  <2>2. /\ base \in Run /\ base + 1 \in Run /\ history[base + 1] # <<>>
        /\ options.runId # 0 => base + 1 = options.runId
    BY <2>1 DEF SearchInv, TargetInv
  <2>3. base # 0
    BY <2>2 DEF Run
  <2>4. base = read.run
    BY <2>1, <2>3 DEF SearchInv, TargetInv
  <2>5. Last(history[base]) = "ContinuedAsNew"
    BY <2>2 DEF SearchInv, EndedInv
  <2>6. /\ LastIn("Completed", history[base], 1, read.length, eventId)
        /\ read.length = Len(history[base])
    BY <2>1, <2>4 DEF SearchInv, PreviousInv, RunRead
  <2>7. IsLast(history[base], "Completed", eventId)
    <3>1. DOMAIN history[base] = 1 .. Len(history[base]) /\ Len(history[base]) \in Nat
      BY <2>2 DEF IInv, TypeOK
    <3>2. /\ eventId \in 1 .. Len(history[base]) /\ history[base][eventId] = "Completed"
          /\ \A j \in eventId + 1 .. Len(history[base]) : history[base][j] # "Completed"
      BY <2>6 DEF LastIn, NoneIn
    <3>3. \A j \in 1 .. Len(history[base]) : j \in eventId + 1 .. Len(history[base]) \/ j <= eventId
      BY <3>1, <3>2
    <3> QED
      BY <3>1, <3>2, <3>3 DEF IsLast
  <2> QED
    BY <2>2, <2>4, <2>5, <2>7 DEF PreviousRunAtItsEnd
<1> QED
  BY <1>1, Invariance, SearchInvariance, PTL

\* getLastWorkflowTaskEventID finds the last completed task, or the event after
\* the first scheduled one, when the history fits into one page, whatever the
\* size of pages and however the history grows meanwhile. (Beyond one page it
\* does not: the break of the source leaves the page only.)
THEOREM LastTaskFoundInPage == Spec => []LastTaskOfShortHistory
<1>1. IInv /\ SearchInv => LastTaskOfShortHistory
  <2> SUFFICES ASSUME IInv, SearchInv, read.length <= PageSize, Found,
                      options.type = "LastWorkflowTask"
               PROVE  LastTaskIsLast
    BY DEF LastTaskOfShortHistory, LastTaskIsLast
  <2> DEFINE n == read.length
  <2>1. /\ RunRead \in Seq(EventType)
        /\ n \in 1 .. Len(RunRead) /\ Len(RunRead) \in Nat
        /\ ReadHistory = SubSeq(RunRead, 1, n)
    BY DEF IInv, Found, PageInv, TypeOK, RunRead, ReadHistory
  <2>2. /\ DOMAIN ReadHistory = 1 .. n
        /\ \A i \in 1 .. n : ReadHistory[i] = RunRead[i]
    BY <2>1
  <2>3. \/ LastIn("Completed", RunRead, 1, n, eventId)
        \/ /\ NoneIn("Completed", RunRead, 1, n)
           /\ FirstIn("Scheduled", RunRead, 1, n, eventId - 1)
    BY DEF SearchInv, ShortInv
  <2>4. n \in Nat
    BY <2>1
  <2> HIDE DEF n
  <2>5. CASE LastIn("Completed", RunRead, 1, n, eventId)
    <3>1. /\ eventId \in 1 .. n /\ RunRead[eventId] = "Completed"
          /\ \A j \in eventId + 1 .. n : RunRead[j] # "Completed"
      BY <2>5 DEF LastIn, NoneIn
    <3>2. \A j \in 1 .. n : j \in eventId + 1 .. n \/ j <= eventId
      BY <2>4, <3>1
    <3>3. IsLast(ReadHistory, "Completed", eventId)
      BY <2>2, <3>1, <3>2 DEF IsLast
    <3> QED
      BY <3>3 DEF LastTaskIsLast, IsLast
  <2>6. CASE /\ NoneIn("Completed", RunRead, 1, n)
             /\ FirstIn("Scheduled", RunRead, 1, n, eventId - 1)
    <3>1. ~ \E i \in DOMAIN ReadHistory : ReadHistory[i] = "Completed"
      BY <2>2, <2>6 DEF NoneIn
    <3> DEFINE e == eventId - 1
    <3>2. /\ e \in 1 .. n /\ RunRead[e] = "Scheduled"
          /\ \A j \in 1 .. e - 1 : RunRead[j] # "Scheduled"
      BY <2>6 DEF FirstIn, NoneIn
    <3> HIDE DEF e
    <3>3. \A j \in 1 .. n : j \in 1 .. e - 1 \/ e <= j
      BY <2>4, <3>2
    <3>4. IsFirst(ReadHistory, "Scheduled", e)
      BY <2>2, <3>2, <3>3 DEF IsFirst
    <3> QED
      BY <3>1, <3>4 DEF LastTaskIsLast, e
  <2> QED
    BY <2>3, <2>5, <2>6
<1> QED
  BY <1>1, Invariance, SearchInvariance, PTL
=============================================================================
