-------------------------- MODULE WorkflowCommands --------------------------
(***************************************************************************)
(* The commands about workflows that exist already (commands.workflow.go,  *)
(* commands.workflow_view.go, commands.workflow_pause.go and               *)
(* commands.workflow_fix.go).                                              *)
(***************************************************************************)
EXTENDS WorkflowStartCommands

CancelFlags == SingleWorkflowOrBatchOptions

CountFlags == Takes({}, {"query"})

DeleteFlags == SingleWorkflowOrBatchOptions

DescribeFlags == Together({WorkflowReferenceOptions, Takes({}, {"reset-points", "raw"})})

FixHistoryJsonFlags == Takes({"source"}, {"target"})

ListFlags == Takes({}, {"query", "archived", "limit", "page-size"})

MetadataFlags == Together({WorkflowReferenceOptions, QueryModifiersOptions})

PauseFlags == Together({WorkflowReferenceOptions, Takes({}, {"reason"})})

QueryFlags ==
  Together({PayloadInputOptions, WorkflowReferenceOptions, QueryModifiersOptions,
    Takes({"name"}, {})})

ResultFlags == WorkflowReferenceOptions

ShowFlags ==
  Together({WorkflowReferenceOptions, Takes({}, {"follow", "detailed", "reverse"})})

SignalFlags ==
  Together({SingleWorkflowOrBatchOptions, PayloadInputOptions, Takes({"name"}, {})})

StackFlags == Together({WorkflowReferenceOptions, Takes({}, {"reject-condition"})})

TerminateFlags == Takes({}, {"workflow-id", "query", "run-id", "reason", "yes", "rps"})

TraceFlags ==
  Together({WorkflowReferenceOptions, Takes({}, {"fold", "no-fold", "depth",
    "concurrency"})})

UnpauseFlags == Together({WorkflowReferenceOptions, Takes({}, {"reason"})})

UpdateDescribeFlags == UpdateTargetingOptions

UpdateExecuteFlags == Together({UpdateStartingOptions, PayloadInputOptions})

UpdateResultFlags == UpdateTargetingOptions

UpdateStartFlags ==
  Together({UpdateStartingOptions, PayloadInputOptions, Takes({"wait-for-stage"}, {})})

UpdateOptionsFlags ==
  Together({SingleWorkflowOrBatchOptions, Takes({"versioning-override-behavior"},
    {"versioning-override-deployment-name", "versioning-override-build-id"})})

-----------------------------------------------------------------------------

Execution == {"workflow-id", "run-id"}

Cancel(f) ==
  Dial \o WorkflowExecOrBatch(f, {})
  \o IF "workflow-id" \in f
       THEN Send("RequestCancelWorkflowExecution", Execution, {})
       ELSE StartBatchJob(f, {}, {})

\* The namespace is looked at for a warning; one execution is confirmed too.
Delete(f) ==
  Dial \o Glance("DescribeNamespace") \o WorkflowExecOrBatch(f, {"yes"})
  \o IF "workflow-id" \in f
       THEN Ask \o Send("DeleteWorkflowExecution", Execution, {})
       ELSE StartBatchJob(f, {}, {})

Terminate(f) ==
  Dial \o WorkflowExecOrBatch(f, {"reason"})
  \o IF "workflow-id" \in f
       THEN Send("TerminateWorkflowExecution", Execution \cup {"reason"}, {})
       ELSE StartBatchJob(f, {}, {})

\* The headers are read and then not sent: signals are raw calls.
Signal(f) ==
  Dial \o BuildRawInput(f) \o ContextWithHeaders(f) \o WorkflowExecOrBatch(f, {})
  \o IF "workflow-id" \in f
       THEN Send("SignalWorkflowExecution", Execution \cup {"name"} \cup PayloadsIn, {})
       ELSE StartBatchJob(f, {"name"} \cup PayloadsIn, {})

Override == AllFlags(WorkflowUpdateOptionsOptions)

\* A pinned and a one-time override name a version, the others none; the mask
\* is always the whole override.
UpdateOptions(f) ==
  LET version == Override \ {"versioning-override-behavior"} IN
  Dial
  \o Check(AnyOf({"unspecified", "auto_upgrade"}, f) => ~AnyOf(version, f))
  \o Check(AnyOf({"pinned", "one_time"}, f) => version \subseteq f)
  \o WorkflowExecOrBatch(f, {})
  \o IF "workflow-id" \in f
       THEN Send("UpdateWorkflowExecutionOptions", Execution \cup Override,
              {"versioning-override-behavior"})
       ELSE StartBatchJob(f, Override, {"versioning-override-behavior"})

\* queryHelper: a raw call again; the query may be rejected.
QueryHelper(f, input, carries) ==
  Dial \o When(input, BuildRawInput(f)) \o Parse(f, {"reject-condition"})
  \o ContextWithHeaders(f)
  \o Read("QueryWorkflow", Execution \cup {"reject-condition"} \cup carries)
  \o Expect("query not rejected") \o Show({})

Query(f) == QueryHelper(f, TRUE, {"name"} \cup PayloadsIn)

\* The headers are not handed to the helper at all.
Metadata(f) == QueryHelper(f \ {"headers"}, FALSE, {})

Stack(f) == QueryHelper(f, FALSE, {})

\* workflowUpdateHelper, through the SDK.
UpdateHelper(f, waitFor) ==
  Dial \o BuildRawInput(f) \o ContextWithHeaders(f)
  \o Send("UpdateWorkflowExecution",
       AllFlags(UpdateStartingOptions) \cup PayloadsIn \cup {"wait-for-stage"}, {})
  \o Expect(waitFor) \o Show({"name"})

UpdateStart(f) == Check("accepted" \in f) \o UpdateHelper(f, "update not failed")

UpdateExecute(f) == UpdateHelper(f, "update completed")

\* A failed update is printed first and then fails the command.
UpdateResult(f) ==
  Dial \o Read("PollWorkflowExecutionUpdate", UpdateResultFlags.must \cup {"run-id"})
  \o Show({}) \o Expect("update completed")

UpdateDescribe(f) ==
  Dial \o Read("PollWorkflowExecutionUpdate", UpdateDescribeFlags.must \cup {"run-id"})
  \o Show({})

Pause(f) ==
  Dial \o Send("PauseWorkflowExecution", Execution \cup {"reason"}, {})

Unpause(f) ==
  Dial \o Send("UnpauseWorkflowExecution", Execution \cup {"reason"}, {})

-----------------------------------------------------------------------------

\* The close event is read only for an execution that is not running.
Describe(f) ==
  Dial \o Read("DescribeWorkflowExecution", Execution)
  \o When("reset-points" \notin f, Read("GetWorkflowExecutionHistory", {}))
  \o Show({"reset-points"})

\* Pages are rows of one list.
List(f) ==
  Dial \o Read(IF "archived" \in f THEN "ListArchivedWorkflowExecutions"
                                   ELSE "ListWorkflowExecutions", ListFlags.may)
  \o Show({})

Count(f) ==
  Dial \o Read("CountWorkflowExecutions", {"query"}) \o When("output" \in f, Show({}))

Result(f) ==
  Dial \o Read("GetWorkflowExecutionHistory", Execution)
  \o Show({}) \o Expect("workflow completed")

\* Under JSON the raw events are printed, all details of them.
ShowHistory(f) ==
  Check(~({"reverse", "follow"} \subseteq f)) \o Dial
  \o Read("GetWorkflowExecutionHistory", Execution \cup {"follow", "reverse"})
  \o Show(IF "output" \in f THEN {} ELSE {"detailed"})

\* No server is asked: a file is read, converted, and written or printed.
FixHistoryJson(f) ==
  Read("source file", {"source"})
  \o (IF "target" \in f THEN Send("target file", {"target"}, {}) ELSE Show({}))

\* The trace itself is the module WorkflowTrace; it has no JSON form.
Trace(f) ==
  Check("output" \notin f) \o Dial \o Parse(f, {"fold"})
  \o Read("DescribeWorkflowExecution", Execution) \o Show({})
  \o Read("GetWorkflowExecutionHistory", AllFlags(TraceFlags)) \o Show({})

-----------------------------------------------------------------------------
(* The reset itself is the module WorkflowReset.                           *)

ResetFlags ==
  Takes({"reason"}, {"workflow-id", "run-id", "event-id", "reapply-type",
    "reapply-exclude", "type", "build-id", "query", "yes"})

\* The flags of its parent command belong to it as well.
ResetWithUpdateOptionsFlags == Together({ResetFlags, WorkflowUpdateOptionsOptions})

Reapply == {"reapply-exclude", "reapply-type"}
BuildIdOfType(f) == IF "BuildId" \in f THEN {"type", "build-id"} ELSE {"type"}

\* An event is looked for by type, or given; a type wins over an event.
ResetOne(f, carries) ==
  When("type" \in f, Read("GetWorkflowExecutionHistory", Execution \cup BuildIdOfType(f)))
  \o Parse(f, Reapply)
  \o Send("ResetWorkflowExecution",
       Execution \cup {"reason"} \cup Reapply \cup carries
         \cup (IF "type" \in f THEN {} ELSE {"event-id"}), carries)
  \o When("output" \in f, Show({}))

\* The query may be empty: nothing checks it.
ResetBatch(f, carries) ==
  Parse(f, Reapply \cup {"type"})
  \o When("yes" \notin f, Read("CountWorkflowExecutions", {"query"})) \o Ask
  \o StartBatchJob(f, Reapply \cup BuildIdOfType(f) \cup carries, carries)

ValidReset(f) ==
  IF "workflow-id" \in f
    THEN AnyOf({"type", "event-id"}, f)
    ELSE /\ "type" \in f /\ ~AnyOf({"run-id", "event-id"}, f)
         /\ "BuildId" \in f => "build-id" \in f

Reset(f) ==
  Check(ValidReset(f)) \o Dial
  \o IF "workflow-id" \in f THEN ResetOne(f, {}) ELSE ResetBatch(f, {})

ResetWithUpdateOptions(f) ==
  Check(ValidReset(f))
  \o Check(IF AnyOf({"pinned", "one_time"}, f)
             THEN Override \subseteq f
             ELSE Override \cap f = {"versioning-override-behavior"})
  \o Dial \o Check(AnyOf({"pinned", "one_time", "auto_upgrade"}, f))
  \o IF "workflow-id" \in f THEN ResetOne(f, Override) ELSE ResetBatch(f, Override)

-----------------------------------------------------------------------------
(* The commands of this family, by name.                                   *)

Commands == [
  execute |-> ExecuteFlags, execute_update_with_start |-> ExecuteUpdateWithStartFlags,
  signal_with_start |-> SignalWithStartFlags, start |-> StartFlags,
  start_update_with_start |-> StartUpdateWithStartFlags, cancel |-> CancelFlags,
  count |-> CountFlags, delete |-> DeleteFlags, describe |-> DescribeFlags,
  fix_history_json |-> FixHistoryJsonFlags, list |-> ListFlags, metadata |-> MetadataFlags,
  pause |-> PauseFlags, query |-> QueryFlags, result |-> ResultFlags, show |-> ShowFlags,
  signal |-> SignalFlags, stack |-> StackFlags, terminate |-> TerminateFlags,
  trace |-> TraceFlags, unpause |-> UnpauseFlags, update_describe |-> UpdateDescribeFlags,
  update_execute |-> UpdateExecuteFlags, update_result |-> UpdateResultFlags,
  update_start |-> UpdateStartFlags, update_options |-> UpdateOptionsFlags,
  reset |-> ResetFlags, reset_with_update_options |-> ResetWithUpdateOptionsFlags]

Handler(name, f) ==
  CASE name = "execute" -> Execute(f)
    [] name = "execute_update_with_start" -> ExecuteUpdateWithStart(f)
    [] name = "signal_with_start" -> SignalWithStart(f)
    [] name = "start" -> Start(f)
    [] name = "start_update_with_start" -> StartUpdateWithStart(f)
    [] name = "cancel" -> Cancel(f)
    [] name = "count" -> Count(f)
    [] name = "delete" -> Delete(f)
    [] name = "describe" -> Describe(f)
    [] name = "fix_history_json" -> FixHistoryJson(f)
    [] name = "list" -> List(f)
    [] name = "metadata" -> Metadata(f)
    [] name = "pause" -> Pause(f)
    [] name = "query" -> Query(f)
    [] name = "result" -> Result(f)
    [] name = "show" -> ShowHistory(f)
    [] name = "signal" -> Signal(f)
    [] name = "stack" -> Stack(f)
    [] name = "terminate" -> Terminate(f)
    [] name = "trace" -> Trace(f)
    [] name = "unpause" -> Unpause(f)
    [] name = "update_describe" -> UpdateDescribe(f)
    [] name = "update_execute" -> UpdateExecute(f)
    [] name = "update_result" -> UpdateResult(f)
    [] name = "update_start" -> UpdateStart(f)
    [] name = "update_options" -> UpdateOptions(f)
    [] name = "reset" -> Reset(f)
    [] name = "reset_with_update_options" -> ResetWithUpdateOptions(f)

=============================================================================
