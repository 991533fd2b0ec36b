# A verification development for the Temporal CLI

TLA+ models, TLC runs and TLAPS proofs for the Temporal CLI (`src/`, Go). The CLI is mostly a translator from flags to
requests; what can go wrong in ways a test hardly reaches is where it keeps state across several steps or shares it
with somebody: the goroutines of `workflow trace`, paging and following of histories, read-modify-write of files and of
server records under a version, retries, and the listeners and processes of the development server.

## Inventory

| part | source | state it keeps | who it talks to | what is hard | modelled in |
|---|---|---|---|---|---|
| trace: jobs | `internal/tracer/workflow_state_worker.go` | depth, childJobs, isUpToDate per job | server, pool, shared states, updateChan | interleaving, late children, a bounded pool that its own tasks submit to | `WorkflowTrace` |
| trace: group and iterator | `workflow_execution_update.go`, `workflow_tracer.go` | the pool, its group, three channels, `t.update` | jobs, printer | errors, cancellation, who receives what | `WorkflowTrace` |
| trace: printer | `workflow_tracer.go` | isUpToDate, writer | iterator, signals, shared states | unlocked reads, races in a select | `WorkflowTrace` |
| trace: execution states | `execution_state.go` | status, counters, maps of activities, timers, children | jobs, printer | two jobs write one state | `ExecutionState` |
| trace: terminal writer | `term_writer.go`, `tail_buffer.go` | lines of the last frame | terminal | counting lines that wrap and are cut | `TermWriter` |
| command frame | `temporalcli/commands.go`, `commands.extension.go`, `cmd/temporal` | context, flags, environment | every command, extensions | precedence, prompts, interrupts | `CommandFrame` |
| the commands | `commands.*.go`, `commands.gen.go`, `cliext/flags.gen.go` | none across steps | server, printer, files | which flag reaches which request, what asks first | one module per family |
| histories | `commands.workflow_exec.go`, `commands.workflow_view.go` | history iterator | server | continue-as-new, reverse, interrupts | `HistoryFollow` |
| polls | `commands.activity.go`, `commands.nexus_operation.go` | one request's timeout | server | two timeouts and an answer race | `Polling` |
| lists and the printer | the `list` commands, `internal/printer/printer.go` | page token, limit, list mode | server, output | empty pages, limits, failures half-way | `Listing` |
| workflow reset | `commands.workflow_reset.go` | paging token | server | pages, last or first event | `WorkflowReset` |
| worker deployments | `commands.worker.deployment.go` | conflict token | server | the token goes stale | `WorkerDeployment` |
| nexus endpoints | `commands.operator_nexus.go` | endpoint version | server | read, patch, write back | `NexusEndpoint` |
| task queue versioning rules | `commands.taskqueue_versioning_rules.go` | conflict token | server | changes by index | `VersioningRules` |
| configuration and OAuth store | `commands.config.go`, `cliext/config.oauth.go`, `cliext/client.go` | a TOML file | file system, other CLI processes | lost updates, crash while writing | `ConfigStore` |
| deprecated env files | `commands.env.go` | a YAML file | file system | lost updates | one process: `LocalCommands` |
| development server | `internal/devserver`, `commands.server.go` | ports, server handle, cluster id | listeners, database file | ports taken between check and use | the command's steps: `LocalCommands` |
| generators, release check | `internal/commandsgen`, `cmd/gen-*`, `internal/cmd` | none | build time only | none | no |

PROJECT.json lists each of these with its status, and the hazards line by line. `Plan` says what comes next.

What makes each part correct:

* trace: nothing that was started is missed, nothing is read twice, folding is decided once, errors and signals end the
  command and only a complete tree ends it normally, the progress line covers the root's events;
* execution states: the state shown is the one the events seen so far imply, whichever job saw them;
* terminal writer: a frame clears exactly the lines of the one before;
* command frame: one command runs, with the values the flags, environment and files give in that order, and an interrupt
  ends it;
* following a workflow: the result is the one of the run at which the following ends; an outcome is returned once the server has
  one, and a wait ends with the command;
* reset: the event sent is the one the type asks for, in the run it was looked for in;
* listing and printing: every item once, in order, up to the limit; JSON stays well formed;
* a command: what the user typed reaches a request, what needs consent has it, success means that every step was
  done, JSON is one document;
* changes under a token or version (deployments, versioning rules, endpoints): who decided by looking at a record changes
  what it looked at, and was asked before;
* one workflow or a batch: a batch is started only when it was confirmed;
* files: a change keeps what it is not about, a refreshed token is not lost, a crash leaves a usable file;
* extensions: the most specific one for the words typed, and the built-in command when there is none.

## The trace

### Modules

* `TraceSession` is what the command promises: executions it has learnt of (`known`), those settled (`settled`), and an
  `outcome`. Nothing known is forgotten, nothing settled becomes unsettled, and the command ends normally only when
  everything known is settled. It may give up at any time.
* `WorkflowTrace` is the program: the server's histories (external), the job of every execution (`pc` says which
  statement of `WorkflowStateJob.Run` it is at), the pool with `Concurrency` workers and a queue of `QueueCap` tasks
  (external, pond), the goroutine waiting for the task group (`group`), the iterator goroutine (`iter`) and the
  printing loop. `ImplementsSession` is the refinement.
* `WorkflowTraceInv` holds the inductive invariants: `IInv` of the jobs and, on top of it, `TreeInv` of the tree they
  build. `WorkflowTraceLemmas`, `WorkflowTrace_proofs` and `WorkflowTree_proofs` hold the proofs.
* `MCWorkflowTrace` gives TLC small families of histories.

### How the code's state appears

`lastEventId`, `historyLength` and `status` are the fields of `WorkflowExecutionState`, `depth`, `childJobs` and
`isUpToDate` those of `WorkflowStateJob`; `nextChild` is the position of the loop over `childJobs`. `updateChan`,
`doneChan` and `errorChan` are unbuffered: a send is a state of the sender (`pc = "send"`, `group = "sendError"`,
`"sendDone"`, `iter = "error"`, `"done"`) and the communication is the receiver's action. A select takes any ready
case. `ctxDone` is the group's context, cancelled by the first error, by the end of Wait and by the command's own
context. SIGINT and SIGTERM go both to `sigChan` and to the command's context, SIGHUP only to the latter.

An event is reduced to what the tracer tells apart: Started, the initiation, start and closing of a child, Closed, and
Other. `Update` of activities and timers is not part of this module. The printer reads the children's counters and the
root's own at two different moments, as `GetNumberOfEvents` sums bottom up without a lock. The children's counters are
read in one step, though the code reads them one after another: the root's, on which the property rests, stays the last.
A tick that renders the tree changes nothing and is left out, except that writing may fail (`TickFails`). "Child not
found" in GetChildJob cannot happen (the initiation precedes the start in every history) and is left out.

### Runs

| run | instance | asks |
|---|---|---|
| growing | 4 executions, histories grow from the root's first event, `--depth 1`, 2 workers | the inductive invariants; a normal end is settled, shows the final state and covers the tree down to the depth; children wait for parents; the progress line covers the root, and gives way to the tree (`EventuallyUpToDate`, with its condition) |
| nested | 4 executions on 3 levels, complete, one archived, default-like folding | nothing missed, nothing submitted twice, folded stays folded, ended jobs stay ended |
| faults | 3 executions, any call or write may fail, any signal, queue of 1, fairness | a normal end has no error behind it, the abstract session is implemented, a failure ends the command, the command ends once the executions have |
| wedged | 1 worker, queue of 1 | violated: `SubmittersNotWedged`, workers blocked in Submit |

Two workers and three or four executions are the smallest instances where a parent, an early child and a late child run
at once and compete for workers; a queue of 1 to 4 instead of 1000 makes the full queue happen. Histories are as short
as they can be with each kind of event in them. Deadlock is checked everywhere.

`EventuallyUpToDate` has a condition: no job waits for a worker for ever. Without it the run `growing` violates the
property, by the very case of the TODO at `workflow_tracer.go:114`: a history may stop growing before it closes, so the
root and one open child may keep both workers, the other child stays in the queue, and the sum of the counters stays
below the sum of the lengths. An archived root is excluded as well: its trace is never called up to date
(`!state.IsArchived` in the line after it).

### Fairness

`FairSpec`: weak fairness of every goroutine's step that does not depend on the environment (the Go scheduler runs
runnable goroutines; `growing` uses it for its one liveness property, `faults` for all of its own), strong fairness of
the printing loop's receptions (a select with several ready cases chooses at random, so a case ready again and again is
taken). Nothing is assumed of errors, of signals or of the server: the tracer waits for ever for executions that never
close, so `TraceEnds` says that it ends once all of them have closed, or somebody interrupts it.

### Proofs

For every family of executions, histories, worker count, queue capacity, depth and fold option, TLAPS proves the
invariants below. The assumptions: histories are sequences of events (`HistoryAssumption`), an execution is started by
one event of one parent (`ParentAssumption`), the command's options have their types (`OptionAssumption`), only complete,
closed executions are archived (`ServerAssumption`), there are finitely many executions and the root has started
(`TreeAssumption`), and a parent is told of the end that its child's history has (`ClosingAssumption`, which continue-as-new
and retries of a child break, see Findings).

The jobs (`WorkflowTrace_proofs`):

* `Invariance`: `IInv` holds always. It ties the parts together: where a child's job stands is decided by its parent's
  `isUpToDate` and `nextChild` (`ChildInv`), every child job is in one `childJobs` once and because of an event its
  parent has handled (`HasParent`, `OneParent`, `EventInv`), a job that read up to its length has caught up
  (`CatchUpInv`), and the group ends without an error only when every task has (`GroupInv`).
* `TypeCorrect`, `SubmittedOnceHolds`, `ChildrenFollowParents`, `NormalEndHasNoError` follow from it.
* `NormalEndIsSettled`: a created and never submitted child would have a parent that is done, hence at the end of its
  history, hence past its described length, hence caught up with its loop past every child: a contradiction.
* `EndedStaysEnded` (an action property) and `TraceImplementsSession` (every step is a step of the session or a
  stutter; the normal end uses `NormalEndIsSettled`).

The tree (`WorkflowTree_proofs`):

* `TreeInvariance`: `TreeInv` holds always. `CoverInv` says that every execution started in what a job has handled has a
  job, at its parent's depth and one, and none beyond `--depth`; `StatusInv` what the two writers of a status, the job and
  its parent's job, can have written; `FoldInv` why a job was skipped; `CountInv` that no child runs, and a count has nothing
  of any child, while the root is behind its described length; `ShownInv` that the iterator has an update once a job has
  handled an event, and that a normal end has printed it.
* `TreeIsCovered` (`DoneCoversTree`) and `TreeIsFinal` (`DoneShowsFinalState`) follow from it and from
  `NormalEndIsSettled`.
* `ProgressCoversRoot` (`UpToDateCoversRoot`): the trace is called up to date when the sum of the counters, the
  children's read before the root's own, is not below the sum of the lengths described. By `CountInv` a count taken
  while the root is behind has no event of a child, so the sum is the root's and too small. A sum over a set of
  executions is a fold, whose value is not found by induction here (the induction theorems take an operator) but by the
  smallest set that would break the claim: `SmallestSubset` is the well-foundedness of strict inclusion among finite
  sets, and `SumProperties` follows from it.
* `FoldedStaysFolded` (`SkippedStayFolded`) holds if only closing statuses are folded (`FoldsClosedOnly`): with `--fold
  running` a child folded while it was running may close later and is then shown unfolded, without its history.

`ParentAssumption` matters: without it a second start of the same child would submit its job twice. Liveness stays with
TLC: it is out of the proof system's reach.

## The reset

`WorkflowReset` is one `temporal workflow reset`, with or without the options of `with-workflow-update-options`, for one
workflow (the three searches by type, each a loop over pages with a loop over events in it) or for a batch (the count, the
prompt, the request). `pc` says where the command is; `base` and `eventId` are `resetBaseRunID` and the event ID that the
search has found so far; `read`, `pos` and `pageEnd` stand for the page token and the loop over one page. The server
(external) appends events in a legal order and continues the workflow as new at any time, and its tokens stand for the
history as it was when the first page was asked for. `ScanLast` sends `pos` past the page at a Completed task as the
`break` does, and leaves what happens next to `EndPage`, as the code does.

| run | instance | asks |
|---|---|---|
| reset_points | 2 runs of up to 7 events, pages of 4, every type with every run ID, the batch | `FirstTaskIsFirst` whatever the pages; `LastTaskOfShortHistory` within a page; `PreviousRunAtItsEnd`; `ResetOfRunRead` |
| reset_lastpages | as many pages | violated: `LastTaskIsLast` |

Two pages are enough: what a page changes for the next is `eventId` alone. Seven events hold a task that fails, one that
completes, and the scheduled one after it. `ResetOfRunRead` is only claimed for a run that the command line or the search
names: without `--run-id` the code sends an empty run ID with the event it found, and the server resolves it again.

`WorkflowReset_proofs` proves every property of `reset_points` for any number and length of runs and any page size, from
`BoundAssumption` and `OptionAssumption`. `FirstTaskFound`: `FirstTaskIsFirst` speaks of a search that has ended and is
not inductive. `ForwardInv` says it of a search half way: up to `pos - 1` there is no completed task, and `eventId - 1`
is the first scheduled one if there is any. That each page starts where the one before ended is `PageInv`; that what has
been read stays what it was while the server appends follows from `RunsInv` (only the current run grows, and the next
run starts empty) by `AppendGrows` and `SamePrefix`. `SearchInvariance` adds the run: which run a search is in and why
(`TargetInv`), that the run before the current one has ended and only the last one grows (`EndedInv`), and what the
search backwards has found in a history of one page (`ShortInv`) or at the end of the previous run (`PreviousInv`). From
it follow `RequestNamesRunRead`, `PreviousRunFound` and `LastTaskFoundInPage`; the last one speaks of one page only,
because over several the search goes on past its answer (the run `reset_lastpages`).

## Worker deployments

`ConditionalUpdate` is the abstract specification of a change under a version: a careful client changes a record only to
replace the value it has looked at. `author` says whose change it was; without it, any careless client could be said to
have made a careful one's change, and the refinement would mean little.

`WorkerDeployment` has several processes that run `set-current-version`, `set-ramping-version`, `manager-identity set` and
`unset` (describe, show, ask, send with the conflict token), `create` and `delete` on one deployment. `token`, `seen` and
`confirmed` are what the process was given, was shown and answered. The deployment, its version and the check of the token
are the server's (external); a call may fail at any time, also after the server has applied it.

| run | instance | asks |
|---|---|---|
| deployment_mixed | 7 processes of every kind, one waits for its user, one cannot ask | `OneWinner`, `ChangesConfirmed`, `ImplementsConditionalUpdate` |

Proved, for any processes, commands and values (`CommandAssumption`, `ValueAssumption`): `TypeCorrect`, `AtMostOneWins`,
`DeploymentImplementsConditionalUpdate`, `ChangesAreConfirmed`. The invariant is that a token still current stands for
the deployment its holder saw (`TokenMeansSeen`) and that a process that has succeeded has used its token up
(`DoneBelow`). `ChangesConfirmed` names its exception: with `--allow-no-pollers` a deployment that was not found, or not
described, is changed without a question. `Careful` leaves out create and delete, which look at nothing, and
`--allow-no-pollers`, under which a deployment not found is changed without a token.

## The configuration file

`ConfigStore` has processes that share one TOML file: `config set`, `delete`, `delete-profile` (load without OAuth, change,
write all), `StoreClientOAuth` as an extension uses it to log in and out, and commands whose concurrent requests call
`getToken`. A frame holds a thread's place and local variables: `cur` is `curAccessToken`, `tok` the token that the token
source took from memory when it was made (`NewTokenSource`) and then the one it returned, `buf` the content that was read.
`mem` is the `OAuthConfig` that the threads of a process share. `os.WriteFile` is two steps, truncating and writing; a
truncated file reads as empty. The authorization server (external) may invalidate a token when it refreshes it. The
processes in `Faulty` may be killed at any step, and any of their calls may fail, also after the server has done its part.

`stored`, `logins`, `overlapped` and `spent` only serve the properties. `logins` are the profiles whose user should not
have to log in: a complete write of a token adds its profile, logging out removes it. `config set`, `delete` and
`delete-profile` remove them all, because that is what their writes do (see Findings). A kill, a failed write or a lost
answer of the server removes the profile whose new token it cost, and every profile between the truncation and the end
of the write. `overlapped` says that a thread has read the file while another one was between its own reading and
writing.

| run | instance | asks |
|---|---|---|
| config_store | 3 processes at once: a command with two requests that may be killed and fail, one that logs in to the same profile, one that changes the other | `FileUsable`, `MemoryUsable` |
| config_wiped | one command, two requests | violated: `OthersPreserved` |

`FileUsable`: while nobody is at work, every profile in `logins` has a token in the file that the server would refresh,
as long as nothing has overlapped. A section without a token does not satisfy it. The condition is about what happened,
not about who may run: processes and requests run at once, refresh at once and store one after the other. The code has
no lock that would enforce the condition, and without it the property is false: `config_wiped` is such an overlap, in
one process. `MemoryUsable` has no condition: a process that holds a token which it has itself exchanged and voided has
a request that is about to replace it. A token that another process has voided is not its subject: the request fails and
the user runs the command again.

`MaxToken` allows two new tokens: two requests that refresh one token, or one and the login. The two requests are
interchangeable (`SYMMETRY`). A token does not expire while it is being stored (`Expire`): access tokens live longer
than that takes. The properties of a profile are reduced to its address, and a file torn in the middle of a write is not
modelled.

`ConfigStore_proofs` proves the three invariants of the run for any processes, threads, profiles and tokens, any of them
faulty, and assumes nothing of how they are scheduled. `Invariance`: a token stays with its profile (`NotMixed`, the theorem
`TokensStayApart`), in the file, in the copies of it that threads are about to write and in the memories; a token that has
not expired is valid (`FreshValid`), because the server gives up only what it has refreshed and only what has expired is
refreshed; nothing that is about to be stored has expired (`StoringInv`). `MemoryStaysUsable` adds that what was voided stays
so (`SpentInv`). `FileStaysUsable` rests on `LoginInv`: until something overlaps there is one writer at a time
(`OneWriter`), each login in the whole file is usable or a thread is on its way to store its successor (`FileInv`,
`Kept`), and so it is in the copy that will be written, for the other profiles (`CopyInv`). `InitialAssumption` has two
profiles share no token at the start, since each was logged in on its own; `config set` cannot copy a token, which is not
among the properties it knows.

## The commands

### Modules

* `CommandFrame` is one process from its arguments to its exit. `phase` goes from `preprocessOptions` over
  `tryExecuteExtension`, cobra's parsing and the pre-run to the handler; `given` says for every flag who gave it (the
  user, a variable, an environment of the file). The handler is a sequence of steps (`todo`), and each kind of step has
  an action here: what may fail, what an interrupt stops, what is asked and printed.
* `CommandSteps` is that vocabulary: a check, a request that reads or that changes something, a prompt, a file, a
  document printed, each with the flags whose values it makes use of. A request may have an update mask.
* `OptionSets` and the `...Flags` of the families are the flags of `commands.gen.go`, required and optional.
* `WorkflowStartCommands`, `WorkflowCommands`, `ActivityCommands`, `NexusCommands`, `OperatorCommands`,
  `TaskQueueCommands`, `ScheduleCommands`, `WorkerCommands`, `BatchCommands` and `LocalCommands` translate the `run` method
  of every command into steps, in the order of the code: which early returns, which prompt, which requests with which
  flags. `CommandHelpers` has what they share (payloads, headers, one workflow or a batch).
* `HandlerShapes` says what a handler's sequence of steps must be like; `CommandFrame_proofs` has the theorems.
* `ExtensionArgs` is `groupArgs` and the search for an extension, on kinds of arguments.
* `MCCommands` puts them together and chooses the flags.

A flag is its name, and its value is told apart only where a handler does (`"pinned"`, `"accepted"`, stand beside the
flags). States of the server that change a handler's steps (`"absent"`) are chosen in the same way. A handler that loops
(follow, poll, list) is one step here and a module of its own below. A flag named `output` stands for a JSON output.

| run | instance | asks |
|---|---|---|
| commands | every command with the flags it requires, the combinations that only make sense together, and any two more; one command in every environment; all sequences of up to three kinds of argument for the extensions | `ConfirmedBeforeSent`, `NothingDropped`, `OneDocument`, `OkMeansDone`, `EnvironmentFollowed` |
| commands_bulk | `activity update-options --query` with any of its options | violated: `MasksCarryValues` |

Two optional flags at a time are enough for what handlers decide by flags: no handler tests more than two that are not
one of the listed combinations. `MaxShown` stops counting documents at two, where the property has already failed.

`UnusedFlags` (in `MCCommands`) is the list of flags that the code takes and ignores, found by `NothingDropped`; a flag
that is dropped and not on the list violates the property. `NothingDropped` says that a flag is used by some step that
was carried out, not that it is used rightly, and a flag that may be repeated counts as used when part of its values is
(`search-attribute create` with more names than types: `more_names`). `OkMeansDone` says of a command that exits well that
every check of its handler was passed, every request sent and every file written: a script relies on it. What a handler
tries and goes on without, as `server start-dev` does with its version file (`commands.server.go:203`), is a step of its own
(`Try`). `Consent` is the list of requests that the code always asks about.
`cluster remove`, `schedule delete` and `worker deployment delete` ask nothing, and changes of routing in a deployment are
in the module below, with their exception.

### Proofs

`CommandFrame_proofs` proves four of the invariants of the run `commands` for any sessions, commands, flags,
environments and handlers. `TypeCorrect` and `EnvironmentIsFollowed` need nothing else: `FlagsInv` says in each phase
which flags have a value and from whom. `OkIsDone` (`OkMeansDone`) asks of the handlers only that they are sequences of
steps: what is behind in the handler is done, what is ahead is in `todo`, and no error, refusal or interrupt ends well
while something is left. `ConsentComesFirst` (`ConfirmedBeforeSent`) asks more (`HandlersConfirm`): what needs consent
stands behind a question, and no question behind a change. It shows that no failure, refusal or interrupt gets a process
past the question.

That the handlers of the CLI are like this is `HandlersAsAsked` in `MCCommands`: TLC evaluates it to true for the flags of
the sessions of both runs. No run assumes it, so that a handler that is not like this shows as a behaviour that breaks one
of the invariants. `NothingDropped` and `OneDocument` are facts about the handlers alone: they stay with TLC, which goes through
all of them.

## What commands make of the answers

Seven parts, each a module, that have nothing to do with each other; `Answers` composes them, `part` says which one a
behaviour is about, and the run `answers` checks them together, on the values that `MCAnswers` gives. A part that does
not run stands still.

* `Listing`: the page loops of all `list` commands, by kind, with the printer's list mode, tables and headers. The
  server sends pages of any size up to the one asked for, empty ones too, and may fail at any page.
* `TermWriter`: frames of a trace on a terminal that wraps long lines and scrolls. What stays on the terminal is what was
  there before, and one frame. A line is its width, so it holds for lines whose width is counted right; the size of the
  terminal does not change. On a terminal one column wide empty lines would count as none (division in Go rounds towards
  zero), and the property fails there; widths of 2 and 3 are checked.
* `Polling`: the loop of `pollActivityOutcome` and of `pollNexusOperationOutcome`, in which the timeout of a request, the
  end of the command's context, the answer and the end of the operation race.
* `HistoryFollow`: `workflow execute`, `result` and `show` while the workflow grows, closes, is retried or continues as
  new. `next` is the iterator of the client library.
* `ExecutionState`: what events do to the states that a trace shows. A child's state has two writers, its parent's job
  (`UpdateChild`) and its own (`UpdateOwn`), each reading its own history at its own pace and writing field by field with no
  lock held: `writing` and `ownWriting` say which field comes next. TLC takes every interleaving of the fields, and every
  order in which the events of two things under one workflow may come. The parent's job tests `CloseTime` and
  then sets it (`execution_state.go:327` and after), so it may overwrite the time that the child's own job has written in
  between; a write of one field is one step.
* `NexusEndpoint` and `VersioningRules`: several processes change one record, under its version and under a conflict
  token. Both implement `ConditionalUpdate`, as `WorkerDeployment` does. An endpoint that is deleted and made again has
  another ID and another version. `UnnamedStays` says that an update that does not name a part leaves it as it is at that
  moment.
* `SequenceOperators`: the few operators on sequences that these modules need, meaning what `SequencesExt` and `SelectSeq`
  mean by them. The provers know nothing of `SelectSeq` and of folds, and `SequencesExt` in each instance would put hundreds
  of definitions before them. `Answers_proofs` has the theorems.

| property | asks |
|---|---|
| `OutputReadable` | lists print a prefix of the rows in order, never more than the limit, all of them at a good end, in one JSON list, under one header; one frame is on the terminal, as much of it as fits |
| `PollAnswered` | a poll ends with what became of the operation, with an interrupt if there was one, or with an error of the server, never because a request has expired; it ends once the operation or the context has |
| `LastRunShown` | no event is left out or shown twice; the result is the one of the run at which the following ends, which is the last one unless it is retried or followed by cron, and the last event shown |
| `StateMatchesHistory` | states are closed when and as the histories say, whichever field the two writers of a child wrote last; a child that has ended has a close time, its own or its parent's |
| `ChangedAsSeen` | the refinements, and `UnnamedStays` |

Bounds: lists of 3 rows on pages of 2, limits up to 2 and tables of 2 rows put the limit inside a page, at its end and
on an empty page, and a table over two pages; 3 runs of at most 3 events are a chain with a first, an inner and a last
run; two editors and one creator, or two users, are the fewest that can disturb each other; frames of up to 3 lines of
3 widths, 3 times, on terminals up to 5 rows high with rows above or none, are cut or not and scroll or not.

### Proofs

`Answers_proofs` proves what the run checks of all seven parts but liveness, for any constants that are of their types
(`ConstantsTyped` of each module; `ConstantsAssumption` of `Answers` states it of all, and TLC evaluates it for the run).
Sequences grow step by step, so most of it is about what one more element changes; what is proved of all sequences is
proved of a set that has the empty one and every longer one (`SequenceSet`). Each part has its own
invariant. `OnePartRuns` carries that over to the composition: a step of `Answers` is a step of one part, which the
others stutter through. So `TypesKept`, `OutputIsReadable`, `ResultsAreShown`, `StatesAreShown` and `ChangesAreSeen` state
the run's own properties.

* `RulesChangedAsShown`, `EndpointChangedAsSeen`: any number of users or processes. A token, or a version, that is still
  the current one stands for what its holder was shown (`RulesInv`, `EndpointInv`), since every change makes all tokens
  stale; so what the server accepts was made of what it still has. For endpoints it must be shown as well that half a
  worker's target never takes the place of an external one: the command has read the endpoint before it asks, and the
  version has not changed since. That read value comes into the invariant.
* `HistoryLastRunShown`: chains of any length. `ForwardInv` relates the event that comes next to the one shown last: it is
  the one behind it, or the first of the next run where the last one was continued and tables follow it. `ReverseInv` has
  the same from the end. That an event was the last of its run is known for a moment only, while the workflow goes on; the
  proof needs that a run that has closed never changes (`RunsGrow`), so an event keeps its kind (`KindKept`), and
  the whole invariant survives the workflow's own steps (`WorkflowKeeps`).
* `StatesMatchHistory`: any histories. `StateInv` says of each state that it shows what was said last of its thing
  (`Shows`), and of a child what each of its two histories has said so far (`ShowsChild`): the property only speaks of
  the end, the invariant of every point between. That includes the points between two fields: `WritingInv` and
  `OwnWritingInv` say what a job knows and has still to write, and `WriteKeeps` that writing the next field keeps what
  the other job has said, whatever that job wrote since the event began. It needs two things of histories: nothing is
  said of what has ended, and nothing is begun twice (`OneLife`), and a run's own history starts first and ends last
  (`OneRun`). Without the former an activity's late start would reopen it; without the latter a child would be shown as
  running again. Entries are found by what they are of, so `EntriesInOrder` is part of the invariant, and a new entry
  has no past.

* `OutputIsReadable`, of lists: any number of rows, on pages of any sizes, in tables of any length. `ListInv` names a row up
  to which all rows are handled: those printed and those that wait in a table are what is wanted of them (`Handled`), and
  what is left of the page comes right after. It also knows where a table may be (`TableInv`), that a header is printed before
  anything else (`HeaderInv`), and that the document is whole but for its last bracket (`DocumentInv`).
* `OutputIsReadable`, of frames: any terminal that is wider than one column and has a row, any frames. `ScreenInv` relates
  the rows on the terminal to `lineCount`, the lines that the writer will clear: it has counted one line more than the frame
  takes (`LinesCounted`: the writer's division and the terminal's give the same), the frame is shorter than the terminal, so
  its first row has not scrolled off (`gone`), and what is cleared is just the frame (`FrameCleared`). With one column the
  writer counts an empty line for none and `LinesCounted` fails, hence the assumption.
* `VerdictsAreTrue`: what a poll says. `PollInv` relates what was read of a request's context before it was released to
  what the answer was.

Liveness stays with TLC: that a poll ends (the other half of `PollAnswered`). `Polling` has no constants, so the run goes
through all of it.

Fairness is stated for the poll only. `Loop` and the expiry of a request are weakly fair (the Go scheduler, the clock). The
server's answer is strongly fair: requests may expire again and again before it comes, but not for ever, or the command
would wait for ever, as it should. The same holds for the error of an operation that is gone, and for an error being
looked at before its minute is over; without the last one the loop might take each error for a timeout.

## Findings

Each has a run whose counterexample shows it (PROJECT.json, `findings`): the trace's workers that wedge in Submit, the
backward search that goes on past its answer, the file wiped by two requests, the bulk update of activity options whose
mask has no values. Met on the way, without a run of their own:

Trace:

* A child can be masked: `isUpToDate` compares sums over the tree, so a root that outgrew its described length makes up
  for a child that was not read (`workflow_state_worker.go:38`).
* `--fold running`: a child that was running when it was reached and has closed since is shown unfolded and unread.
* A failing describe ends `workflow trace` although `workflow_state_worker.go:40` does not mind if it fails.
* `START_CHILD_WORKFLOW_EXECUTION_FAILED` changes no state: such a child never ends on the screen. A child whose first run
  continued as new, or was retried, shows its own status or its chain's, whichever was written last.
* The close time shown of a child is its own or that of the event in its parent's history: `execution_state.go:327` and the
  lines after it test and then set it while the child's own job may write it.
* The progress line can stay for ever when open children keep all workers (`workflow_tracer.go:114`, a TODO of the code).

Reset:

* `workflow reset` without `--run-id` sends an event found in one run for another when the workflow continues as new in
  between.
* A batch reset of type `LastContinuedAsNew` panics (`commands.workflow_reset.go:188`), and an empty query is accepted.

Deployments:

* `set-current-version` with neither `--build-id` nor `--unversioned` makes the unversioned workers current;
  `set-ramping-version` does not look at `--unversioned`.
* With `--allow-no-pollers` and no deployment both skip the confirmation that `commands.yaml:1306` speaks of.

Configuration:

* `config set`, `delete` and `delete-profile` drop the OAuth sections of all profiles, which envconfig does not know.

Histories and lists:

* `workflow show` follows continue-as-new in a table, also without `--follow`, and never with `--detailed` or under JSON.
* `workflow execute` and `result` take a failure that is retried, or that cron follows up, for the final one, and
  `isWorkflowTerminatingEvent` knows no terminated workflow, so `show` prints no result for it.
* As text `nexus endpoint list` ends after one page; `batch list` ends at a first page without rows; a table whose first
  page is empty has no header.

Flags:

* `UnusedFlags` in `MCCommands` names every flag that is taken and ignored, among them the headers of requests that are
  sent raw, most start options of `signal-with-start`, and `--restore-original-options` of one activity.
* `operator search-attribute create` does not compare the number of names and types, which its comment takes as given
  (`commands.operator_search_attribute.go:32`): more types than names panic, more names than types are ignored.
* `--env=prod`, in one word, is not seen by `preprocessOptions`.
* A prompt is not ended by an interrupt. `task-queue versioning` refuses JSON without `--yes` only after it has read the
  rules.

## Plan

Done: the trace with its states and its terminal, the reset, worker deployments, endpoints, versioning rules, the
configuration file, histories, polls, lists, and the steps of every command; theorems for every property of the trace
(but liveness), the reset, the deployments and the configuration file, for those of the frame that are not about the
handlers alone, and for what commands make of all answers. Left, in this order:

1. The handlers' shapes for any flags, instead of those of the runs.
2. Two writers of the deprecated env file, if a run is free for it.

## Not modelled, and why

The generators and the release check run at build time, templates and icons lay out a state that is modelled elsewhere.
Of the development server only the command's steps are modelled: the server runs inside a library, and the ports are the
operating system's. The unguarded map in `execution_state.go` is a data race whose outcome is a crash of the process.
Conversions (payloads, durations, cron strings, tables) are steps that may fail, not what they compute. The Temporal
server, the SDK, pond, cobra, envconfig and the OAuth library appear only as the code uses them, and are marked external
in the map.
