------------------------------- MODULE Answers -------------------------------
(***************************************************************************)
(* What commands make of the server's answers: seven parts that have       *)
(* nothing to do with each other, of which one runs.                       *)
(***************************************************************************)
EXTENDS Naturals, Sequences

CONSTANTS
  ListCommands, RowCount, PageRows, TableRows,      \* Listing
  Readers, FirstRuns, MaxRuns, MaxEvents,           \* HistoryFollow
  Histories, Activities, Timers, Child,             \* ExecutionState
  Editor, Creator, Edits, Creation, Description, Namespace, TaskQueue, Url, Initial,
                                                    \* NexusEndpoint
  User, Changes, FirstRules,                        \* VersioningRules
  Sizes, Frames, MaxFrames                          \* TermWriter

VARIABLES
  part,
  list, at, sent, more, pages, page, table, headed, taken, out, status,
  operation, poll, expired, cancelled, answer, timedOut, verdict,
  runs, reader, step, run, next, printed, wfResult, interrupted, ending,
  asks, endpoint, version, maker, place, looked, held,
  history, applied, ownApplied, writing, ownWriting, workflow, entries,
  wants, rules, ruler, edition, stage, token, shown,
  terminal, rows, gone, frame, drawn, lineCount, tracing

listVars == <<list, at, sent, more, pages, page, table, headed, taken, out, status>>
pollVars == <<operation, poll, expired, cancelled, answer, timedOut, verdict>>
historyVars == <<runs, reader, step, run, next, printed, wfResult, interrupted, ending>>
stateVars == <<history, applied, ownApplied, writing, ownWriting, workflow, entries>>
endpointVars == <<asks, endpoint, version, maker, place, looked, held>>
rulesVars == <<wants, rules, ruler, edition, stage, token, shown>>
screenVars == <<terminal, rows, gone, frame, drawn, lineCount, tracing>>

List == INSTANCE Listing
Poll == INSTANCE Polling
History == INSTANCE HistoryFollow
State == INSTANCE ExecutionState
Endpoint == INSTANCE NexusEndpoint
Rules == INSTANCE VersioningRules
Screen == INSTANCE TermWriter

ASSUME ConstantsAssumption ==
  /\ History!ConstantsTyped /\ State!ConstantsTyped /\ Endpoint!ConstantsTyped
  /\ Rules!ConstantsTyped /\ List!ConstantsTyped /\ Screen!ConstantsTyped

Parts == {"list", "poll", "history", "state", "endpoint", "rules", "screen"}

\* A part that does not run stands still, in a state where it is not fair to
\* expect anything of it.
InitList ==
  IF part = "list" THEN List!Init
  ELSE /\ list = 0 /\ at = "" /\ sent = 0 /\ more = TRUE /\ pages = 0 /\ page = <<>>
       /\ table = <<>> /\ headed = FALSE /\ taken = 0 /\ out = <<>> /\ status = ""

InitPoll ==
  IF part = "poll" THEN Poll!Init
  ELSE /\ operation = "running" /\ poll = "ended" /\ expired = FALSE /\ cancelled = FALSE
       /\ answer = "" /\ timedOut = FALSE /\ verdict = ""

InitHistory ==
  IF part = "history" THEN History!Init
  ELSE /\ runs = <<>> /\ reader = 0 /\ step = "" /\ run = 0 /\ next = 0 /\ printed = <<>>
       /\ wfResult = <<>> /\ interrupted = FALSE /\ ending = ""

InitState ==
  IF part = "state" THEN State!Init
  ELSE /\ history = 0 /\ applied = 0 /\ ownApplied = 0 /\ writing = "none" /\ ownWriting = "none"
       /\ workflow = 0 /\ entries = <<>>

InitEndpoint ==
  IF part = "endpoint" THEN Endpoint!Init
  ELSE /\ asks = 0 /\ endpoint = Initial /\ version = 1 /\ maker = {} /\ place = 0 /\ looked = 0
       /\ held = [c \in Editor \cup Creator |-> {}]

InitRules ==
  IF part = "rules" THEN Rules!Init
  ELSE /\ wants = 0 /\ rules = FirstRules /\ ruler = {} /\ edition = 1 /\ stage = 0 /\ token = 0
       /\ shown = [u \in User |-> {}]

InitScreen ==
  IF part = "screen" THEN Screen!Init
  ELSE /\ terminal = 0 /\ rows = <<>> /\ gone = 0 /\ frame = <<>> /\ drawn = 0 /\ lineCount = 0
       /\ tracing = ""

Init ==
  part \in Parts /\ InitList /\ InitPoll /\ InitHistory /\ InitState /\ InitEndpoint /\ InitRules
  /\ InitScreen

NextList ==
  /\ part = "list" /\ List!Next
  /\ UNCHANGED <<part, pollVars, historyVars, stateVars,
                 endpointVars, rulesVars, screenVars>>

NextPoll ==
  /\ part = "poll" /\ Poll!Next
  /\ UNCHANGED <<part, listVars, historyVars, stateVars,
                 endpointVars, rulesVars, screenVars>>

NextHistory ==
  /\ part = "history" /\ History!Next
  /\ UNCHANGED <<part, listVars, pollVars, stateVars, endpointVars,
                 rulesVars, screenVars>>

NextState ==
  /\ part = "state" /\ State!Next
  /\ UNCHANGED <<part, listVars, pollVars, historyVars,
                 endpointVars, rulesVars, screenVars>>

NextEndpoint ==
  /\ part = "endpoint" /\ Endpoint!Next
  /\ UNCHANGED <<part, listVars, pollVars, historyVars, stateVars,
                 rulesVars, screenVars>>

NextRules ==
  /\ part = "rules" /\ Rules!Next
  /\ UNCHANGED <<part, listVars, pollVars, historyVars, stateVars,
                 endpointVars, screenVars>>

NextScreen ==
  /\ part = "screen" /\ Screen!Next
  /\ UNCHANGED <<part, listVars, pollVars, historyVars, stateVars,
                 endpointVars, rulesVars>>

Next == NextList \/ NextPoll \/ NextHistory \/ NextState \/ NextEndpoint \/ NextRules
  \/ NextScreen

vars ==
  <<part, listVars, pollVars, historyVars, stateVars,
    endpointVars, rulesVars, screenVars>>

Spec == Init /\ [][Next]_vars /\ Poll!Fairness

-----------------------------------------------------------------------------

TypeOK ==
  CASE part = "list" -> List!TypeOK
    [] part = "poll" -> Poll!TypeOK
    [] part = "history" -> History!TypeOK
    [] part = "state" -> State!TypeOK
    [] part = "endpoint" -> Endpoint!TypeOK
    [] part = "rules" -> Rules!TypeOK
    [] part = "screen" -> Screen!TypeOK

\* Output can be read: lists are whole, whatever the pages and wherever they
\* end, and of the frames of a trace one is on the terminal, the last.
OutputReadable ==
  /\ part = "list" => List!ReadableList
  /\ part = "screen" => Screen!OneFrameShown

\* Waiting for an outcome ends when there is one, and says which.
PollAnswered == Poll!PollAnswered

\* The result of a workflow is that of the run that is not continued as new,
\* under the whole history.
LastRunShown == part = "history" => History!LastRunShown

\* A trace shows what the histories say, whatever the pace of its jobs.
StateMatchesHistory == part = "state" => State!StateMatchesHistory

\* Endpoints and versioning rules are changed as they were when last looked at.
ChangedAsSeen == Endpoint!ChangedAsSeen /\ Rules!ChangedAsShown
==============================================================================
