-------------------------- MODULE ActivityCommands --------------------------
(***************************************************************************)
(* The commands about standalone activities and about the activities of    *)
(* workflows (commands.activity.go).                                       *)
(***************************************************************************)
EXTENDS CommandHelpers

CancelFlags == Together({ActivityReferenceOptions, Takes({}, {"reason"})})

CompleteFlags == Takes({"activity-id", "result"}, {"workflow-id", "run-id"})

CountFlags == Takes({}, {"query"})

DescribeFlags == Together({ActivityReferenceOptions, Takes({}, {"raw"})})

ExecuteFlags == Together({ActivityStartOptions, PayloadInputOptions})

FailFlags == Takes({"activity-id"}, {"workflow-id", "run-id", "detail", "reason"})

ListFlags == Takes({}, {"query", "limit", "page-size"})

PauseFlags ==
  Together({WorkflowReferenceOptions, Takes({}, {"activity-id", "identity", "reason"})})

ResetFlags ==
  Together({SingleActivityOrBatchOptions, Takes({}, {"activity-id", "keep-paused",
    "reset-attempts", "reset-heartbeats", "jitter", "restore-original-options"})})

ResultFlags == ActivityReferenceOptions

StartFlags == Together({ActivityStartOptions, PayloadInputOptions})

TerminateFlags == Together({ActivityReferenceOptions, Takes({}, {"reason"})})

UnpauseFlags ==
  Together({SingleActivityOrBatchOptions, Takes({}, {"activity-id", "reset-attempts",
    "reset-heartbeats", "jitter"})})

UpdateOptionsFlags ==
  Together({SingleActivityOrBatchOptions, Takes({}, {"activity-id", "task-queue",
    "schedule-to-close-timeout", "schedule-to-start-timeout", "start-to-close-timeout",
    "heartbeat-timeout", "retry-initial-interval", "retry-maximum-interval",
    "retry-backoff-coefficient", "retry-maximum-attempts", "restore-original-options"})})

-----------------------------------------------------------------------------

\* buildStartActivityOptions and startActivity, through the SDK.
StartActivity(f) ==
  Parse(f, {"id-reuse-policy", "id-conflict-policy", "search-attribute"})
  \o BuildRawInput(f) \o ContextWithHeaders(f)
  \o Send("StartActivityExecution", AllFlags(ActivityStartOptions) \cup PayloadsIn, {})

\* getActivityResult; the polling itself is the module Polling. A failure is
\* printed first and then fails the command.
GetActivityResult ==
  Read("PollActivityExecution", {"activity-id", "run-id"})
  \o Show({}) \o Expect("activity completed")

Start(f) == Dial \o StartActivity(f) \o Show({})

Execute(f) ==
  Dial \o StartActivity(f) \o When("output" \notin f, Show({})) \o GetActivityResult

Result(f) == Dial \o GetActivityResult

Describe(f) ==
  Dial \o Read("DescribeActivityExecution", {"activity-id", "run-id"}) \o Show({"raw"})

List(f) == Dial \o Read("ListActivityExecutions", ListFlags.may) \o Show({})

Count(f) ==
  Dial \o Read("CountActivityExecutions", {"query"}) \o When("output" \in f, Show({}))

Cancel(f) ==
  Dial \o Send("RequestCancelActivityExecution", AllFlags(CancelFlags), {})

Terminate(f) ==
  Dial \o Send("TerminateActivityExecution", AllFlags(TerminateFlags), {})

\* The result must be JSON, and so must the detail of a failure.
Complete(f) ==
  Dial \o Parse(f, {"result"})
  \o Send("RespondActivityTaskCompletedById", AllFlags(CompleteFlags), {})

Fail(f) ==
  Dial \o Parse(f, {"detail"})
  \o Send("RespondActivityTaskFailedById", AllFlags(FailFlags), {})

-----------------------------------------------------------------------------
(* Activities of workflows, one or all those of a batch of workflows.      *)

\* A single activity has to be named; a batch is about all activities.
ActivityOrBatch(f, single, batch) ==
  Dial \o WorkflowExecOrBatch(f, {})
  \o IF "workflow-id" \in f THEN Check("activity-id" \in f) \o single ELSE batch

OneActivity == {"workflow-id", "run-id", "activity-id"}

\* Every option that was given is named by the mask.
OptionsOf(f) ==
  f \cap {"task-queue", "schedule-to-close-timeout", "schedule-to-start-timeout",
          "start-to-close-timeout", "heartbeat-timeout", "retry-initial-interval",
          "retry-maximum-interval", "retry-backoff-coefficient", "retry-maximum-attempts"}

\* The batch job has the mask and not the options it names.
UpdateOptions(f) ==
  ActivityOrBatch(f,
    Send("UpdateActivityOptions", OneActivity \cup OptionsOf(f), OptionsOf(f)) \o Show({}),
    StartBatchJob(f, {"restore-original-options"}, OptionsOf(f)))

Pause(f) ==
  Check("activity-id" \in f) \o Dial
  \o Send("PauseActivity", AllFlags(PauseFlags), {})

Unpause(f) ==
  LET options == {"reset-attempts", "reset-heartbeats", "jitter"} IN
  ActivityOrBatch(f, Send("UnpauseActivity", OneActivity \cup options, {}),
                     StartBatchJob(f, options, {}))

\* A single reset carries fewer options than a batch.
Reset(f) ==
  LET options == {"keep-paused", "reset-heartbeats"} IN
  ActivityOrBatch(f,
    Send("ResetActivity", OneActivity \cup options, {}) \o Show(options),
    StartBatchJob(f, options \cup {"reset-attempts", "jitter", "restore-original-options"}, {}))

-----------------------------------------------------------------------------
(* The commands of this family, by name.                                   *)

Commands == [
  cancel |-> CancelFlags, complete |-> CompleteFlags, count |-> CountFlags,
  describe |-> DescribeFlags, execute |-> ExecuteFlags, fail |-> FailFlags,
  list |-> ListFlags, pause |-> PauseFlags, reset |-> ResetFlags, result |-> ResultFlags,
  start |-> StartFlags, terminate |-> TerminateFlags, unpause |-> UnpauseFlags,
  update_options |-> UpdateOptionsFlags]

Handler(name, f) ==
  CASE name = "cancel" -> Cancel(f)
    [] name = "complete" -> Complete(f)
    [] name = "count" -> Count(f)
    [] name = "describe" -> Describe(f)
    [] name = "execute" -> Execute(f)
    [] name = "fail" -> Fail(f)
    [] name = "list" -> List(f)
    [] name = "pause" -> Pause(f)
    [] name = "reset" -> Reset(f)
    [] name = "result" -> Result(f)
    [] name = "start" -> Start(f)
    [] name = "terminate" -> Terminate(f)
    [] name = "unpause" -> Unpause(f)
    [] name = "update_options" -> UpdateOptions(f)

=============================================================================
