--------------------------- MODULE NexusCommands ----------------------------
(***************************************************************************)
(* The commands about Nexus operations and endpoints                       *)
(* (commands.nexus_operation.go and commands.operator_nexus.go).           *)
(***************************************************************************)
EXTENDS CommandHelpers

OperationCancelFlags == Together({NexusOperationReferenceOptions, Takes({}, {"reason"})})

OperationCountFlags == Takes({}, {"query"})

OperationDescribeFlags == Together({NexusOperationReferenceOptions, Takes({}, {"raw"})})

OperationExecuteFlags == Together({NexusOperationStartOptions, PayloadInputOptions})

OperationListFlags == Takes({}, {"query", "limit", "page-size"})

OperationResultFlags == NexusOperationReferenceOptions

OperationStartFlags == Together({NexusOperationStartOptions, PayloadInputOptions})

OperationTerminateFlags ==
  Together({NexusOperationReferenceOptions, Takes({}, {"reason"})})

EndpointCreateFlags ==
  Together({NexusEndpointIdentityOptions, NexusEndpointConfigOptions})

EndpointDeleteFlags == NexusEndpointIdentityOptions

EndpointGetFlags == NexusEndpointIdentityOptions

EndpointListFlags == NoFlags

EndpointUpdateFlags ==
  Together({NexusEndpointIdentityOptions, NexusEndpointConfigOptions, Takes({},
    {"unset-description"})})

-----------------------------------------------------------------------------

\* buildNexusStartOptions and startNexusOperation; one input at most.
StartOperation(f) ==
  Parse(f, {"search-attribute", "id-conflict-policy", "id-reuse-policy"})
  \o BuildRawInput(f) \o Parse(f, {"input", "input-file"})
  \o Send("StartNexusOperationExecution",
       AllFlags(NexusOperationStartOptions) \cup PayloadsIn, {})

\* getNexusOperationResult; the polling itself is the module Polling.
GetOperationResult ==
  Read("PollNexusOperationExecution", {"operation-id", "run-id"})
  \o Show({}) \o Expect("operation completed")

OperationStart(f) == Dial \o StartOperation(f) \o Show({})

OperationExecute(f) ==
  Dial \o StartOperation(f) \o When("output" \notin f, Show({})) \o GetOperationResult

OperationResult(f) == Dial \o GetOperationResult

OperationDescribe(f) ==
  Dial \o Read("DescribeNexusOperationExecution", {"operation-id", "run-id"})
  \o Show({"raw"})

OperationCancel(f) ==
  Dial \o Send("RequestCancelNexusOperationExecution", AllFlags(OperationCancelFlags), {})

OperationTerminate(f) ==
  Dial \o Send("TerminateNexusOperationExecution", AllFlags(OperationTerminateFlags), {})

OperationList(f) ==
  Dial \o Read("ListNexusOperationExecutions", OperationListFlags.may) \o Show({})

OperationCount(f) ==
  Dial \o Read("CountNexusOperationExecutions", {"query"})
  \o When("output" \in f, Show({}))

-----------------------------------------------------------------------------

\* descriptionToPayload: the file must not be empty.
DescriptionToPayload(f) ==
  Check(~({"description", "description-file"} \subseteq f)) \o Parse(f, {"description-file"})

\* endpointTargetFromArgs: a namespace goes with a task queue, a URL stands
\* alone; beside a URL a task queue without a namespace is not looked at.
EndpointTargetFromArgs(f) ==
  Check(IF "target-namespace" \in f
          THEN "target-task-queue" \in f /\ "target-url" \notin f
          ELSE "target-url" \in f)

Target(f) ==
  IF "target-namespace" \in f THEN {"target-namespace", "target-task-queue"} ELSE {"target-url"}

Description == {"description", "description-file"}

\* getEndpointByName: the endpoint must exist. The version that was read goes
\* into the request (module NexusEndpoint).
GetEndpointByName == Read("ListNexusEndpoints", {"name"}) \o Expect("endpoint found")

EndpointCreate(f) ==
  DescriptionToPayload(f) \o EndpointTargetFromArgs(f) \o Dial
  \o Send("CreateNexusEndpoint", {"name"} \cup Description \cup Target(f), {})

EndpointDelete(f) ==
  Dial \o GetEndpointByName \o Send("DeleteNexusEndpoint", {"name"}, {})

EndpointGet(f) == Dial \o GetEndpointByName \o Show({})

EndpointList(f) == Dial \o Read("ListNexusEndpoints", {}) \o Show({})

\* What the user left out keeps its value; to turn an external target into a
\* worker target both names are needed.
EndpointUpdate(f) ==
  LET worker == {"target-namespace", "target-task-queue"} IN
  DescriptionToPayload(f)
  \o Check(~(AnyOf(Description, f) /\ "unset-description" \in f))
  \o Check(~(AnyOf(worker, f) /\ "target-url" \in f))
  \o Dial \o GetEndpointByName
  \o When(AnyOf(worker, f) /\ ~(worker \subseteq f), Expect("worker target"))
  \o Send("UpdateNexusEndpoint", AllFlags(EndpointUpdateFlags), {})

-----------------------------------------------------------------------------
(* The commands of this family, by name.                                   *)

Commands == [
  operation_cancel |-> OperationCancelFlags, operation_count |-> OperationCountFlags,
  operation_describe |-> OperationDescribeFlags,
  operation_execute |-> OperationExecuteFlags, operation_list |-> OperationListFlags,
  operation_result |-> OperationResultFlags, operation_start |-> OperationStartFlags,
  operation_terminate |-> OperationTerminateFlags, endpoint_create |-> EndpointCreateFlags,
  endpoint_delete |-> EndpointDeleteFlags, endpoint_get |-> EndpointGetFlags,
  endpoint_list |-> EndpointListFlags, endpoint_update |-> EndpointUpdateFlags]

Handler(name, f) ==
  CASE name = "operation_cancel" -> OperationCancel(f)
    [] name = "operation_count" -> OperationCount(f)
    [] name = "operation_describe" -> OperationDescribe(f)
    [] name = "operation_execute" -> OperationExecute(f)
    [] name = "operation_list" -> OperationList(f)
    [] name = "operation_result" -> OperationResult(f)
    [] name = "operation_start" -> OperationStart(f)
    [] name = "operation_terminate" -> OperationTerminate(f)
    [] name = "endpoint_create" -> EndpointCreate(f)
    [] name = "endpoint_delete" -> EndpointDelete(f)
    [] name = "endpoint_get" -> EndpointGet(f)
    [] name = "endpoint_list" -> EndpointList(f)
    [] name = "endpoint_update" -> EndpointUpdate(f)

=============================================================================
