----------------------------- MODULE MCCommands -----------------------------
(* All commands in the frame, each started with the flags it must have and *)
(* a few of those it may have.                                             *)
EXTENDS HandlerShapes, TLC

Workflow == INSTANCE WorkflowCommands
Activity == INSTANCE ActivityCommands
Nexus == INSTANCE NexusCommands
Operator == INSTANCE OperatorCommands
TaskQueue == INSTANCE TaskQueueCommands
Schedule == INSTANCE ScheduleCommands
Worker == INSTANCE WorkerCommands
Batch == INSTANCE BatchCommands
Local == INSTANCE LocalCommands

Families ==
  [workflow |-> Workflow!Commands, activity |-> Activity!Commands, nexus |-> Nexus!Commands,
   operator |-> Operator!Commands, taskqueue |-> TaskQueue!Commands,
   schedule |-> Schedule!Commands, worker |-> Worker!Commands, batch |-> Batch!Commands,
   local |-> Local!Commands]

DeclaredFlags(word) == IF word[1] = "group" THEN NoFlags ELSE Families[word[1]][word[2]]

RunHandler(word, f) ==
  CASE word[1] = "workflow" -> Workflow!Handler(word[2], f)
    [] word[1] = "activity" -> Activity!Handler(word[2], f)
    [] word[1] = "nexus" -> Nexus!Handler(word[2], f)
    [] word[1] = "operator" -> Operator!Handler(word[2], f)
    [] word[1] = "taskqueue" -> TaskQueue!Handler(word[2], f)
    [] word[1] = "schedule" -> Schedule!Handler(word[2], f)
    [] word[1] = "worker" -> Worker!Handler(word[2], f)
    [] word[1] = "batch" -> Batch!Handler(word[2], f)
    [] word[1] = "local" -> Local!Handler(word[2], f)

Words == UNION {{<<family, name>> : name \in DOMAIN Families[family]} : family \in DOMAIN Families}

AWS == {"aws-lambda-function-arn", "aws-lambda-assume-role-arn", "aws-lambda-assume-role-external-id"}
GCP == {"gcp-cloud-run-project", "gcp-cloud-run-region", "gcp-cloud-run-worker-pool",
        "gcp-cloud-run-service-account"}
Scaler == {"gcp-cloud-run-min-instances", "gcp-cloud-run-max-instances",
           "gcp-cloud-run-initial-instances", "gcp-cloud-run-utilization-target"}

\* Sets of optional flags that only make sense together.
Modes(word) ==
  {{}} \cup {mode \in {{"workflow-id"}, {"workflow-id", "activity-id"}, {"query", "yes"},
                       {"type", "query", "yes"}, {"id-conflict-policy", "workflow-id"},
                       {"target-namespace", "target-task-queue"},
                       AWS, GCP, GCP \cup Scaler, Scaler} :
               mode \subseteq DeclaredFlags(word).may}

\* The values, and the states of the server, that some handlers tell apart.
ValuesOf(word) ==
  CASE word \in {<<"workflow", "update_options">>, <<"workflow", "reset_with_update_options">>} ->
         {{"pinned"}, {"one_time"}, {"auto_upgrade"}, {"unspecified"}}
    [] word \in {<<"workflow", "update_start">>, <<"workflow", "start_update_with_start">>} ->
         {{"accepted"}, {"other"}}
    [] word = <<"workflow", "reset">> -> {{"BuildId"}, {"LastWorkflowTask"}}
    [] word = <<"operator", "attribute_create">> -> {{}, {"more_names"}, {"more_types"}}
    [] word[1] = "operator" -> {{}, {"argument"}, {"namespace"}}
    [] word = <<"taskqueue", "config_set">> -> {{}, {"workflowType"}}
    [] word[1] = "worker" -> {{}, {"absent"}, {"ordered"}}
    [] word[1] = "local" -> {{}, {"argument"}, {"env"}, {"profile"}}
    [] OTHER -> {{}}

\* At most two.
SomeOf(set) == {{}} \cup {{a, b} : a, b \in set}

FlagSets(word) ==
  LET declared == DeclaredFlags(word)
      optional == declared.may \cup {"output"} IN
  UNION {{declared.must \cup mode \cup extra \cup values :
            extra \in SomeOf(optional \ mode),
            values \in ValuesOf(word)} : mode \in Modes(word)}

Plain(word, flags) ==
  [word |-> word, flags |-> flags, env |-> "none", inline |-> FALSE, variable |-> "none",
   file |-> [e \in {} |-> {}], fileBroken |-> FALSE, vars |-> {}, words |-> <<>>,
   binaries |-> {}, takesWords |-> FALSE, ignoresMissingEnv |-> FALSE]

\* One command, in every environment.
Environments ==
  {[Plain(<<"batch", "terminate">>, flags) EXCEPT
      !.env = env, !.inline = inline, !.variable = variable, !.file = file,
      !.fileBroken = broken, !.vars = named, !.ignoresMissingEnv = ignores] :
     flags \in {{"job-id"}, {"job-id", "reason"}}, env \in {"none", "prod"}, inline \in BOOLEAN,
     variable \in {"none", "stage"}, named \in {{}, {"reason"}},
     file \in {[e \in {"default", "prod"} |-> {"reason"}], [e \in {"stage"} |-> {"job-id", "reason"}]},
     broken \in BOOLEAN, ignores \in BOOLEAN}

\* A group, or a command that takes words, with some arguments and extensions.
Arguments ==
  {[Plain(word, {}) EXCEPT !.words = words, !.binaries = binaries, !.takesWords = takes] :
     word \in {<<"group", "none">>, <<"local", "env_get">>},
     words \in UNION {[1..n -> ArgKind] : n \in 1..3}, binaries \in {{}, {1}, {1, 2}},
     takes \in BOOLEAN}

CommandSessions ==
  UNION {{Plain(word, flags) : flags \in FlagSets(word)} : word \in Words}
    \cup Environments \cup Arguments

\* Updates of the options of many activities.
BulkUpdates ==
  {Plain(<<"activity", "update_options">>, {"query", "yes"} \cup options) :
     options \in SUBSET Activity!OptionsOf(Activity!UpdateOptionsFlags.may)}

\* Flags that raw calls of the service do not pass on.
HeadersIgnored ==
  {<<"workflow", name>> : name \in {"cancel", "delete", "metadata", "query", "signal",
                                    "update_options", "signal_with_start"}}
    \cup {<<"activity", name>> : name \in {"update_options", "unpause", "reset"}}

\* The flags that commands take and ignore: always, beside other flags, or
\* under JSON.
UnusedFlags(word, f) ==
  LET json == "output" \in f
      batch == "workflow-id" \notin f
      either(flag, then, else) == IF flag \in f THEN then ELSE else IN
  (IF word \in HeadersIgnored THEN {"headers"} ELSE {}) \cup
  CASE word = <<"workflow", "show">> ->
         IF json THEN {"detailed"} ELSE {}
    [] word = <<"workflow", "signal_with_start">> ->
         {"static-summary", "static-details", "priority-key", "fairness-key",
          "fairness-weight", "fail-existing", "start-delay"}
    [] word = <<"workflow", "describe">> -> {"raw"}
    [] word \in {<<"workflow", "reset">>, <<"workflow", "reset_with_update_options">>} ->
         {"query", "yes", "build-id", "event-id"}
    [] word = <<"activity", "unpause">> -> IF batch THEN {"activity-id"} ELSE {}
    [] word = <<"activity", "reset">> ->
         IF batch THEN {"activity-id"}
         ELSE {"reset-attempts", "jitter", "restore-original-options"}
    [] word = <<"activity", "update_options">> ->
         IF batch THEN Activity!OptionsOf(f) \cup {"activity-id"} ELSE {"restore-original-options"}
    [] word = <<"nexus", "endpoint_create">> -> either("target-url", {"target-task-queue"}, {})
    [] word = <<"operator", "namespace_update">> ->
         IF {"promote-global", "active-cluster"} \cap f = {} THEN {}
         ELSE Operator!NamespaceUpdateFlags.may
    [] word = <<"operator", "attribute_create">> -> either("more_names", {"name"}, {})
    [] word = <<"operator", "cluster_describe">> -> IF json THEN {"detail"} ELSE {}
    [] word = <<"taskqueue", "describe">> ->
         either("legacy-mode",
                {"task-queue-type", "select-build-id", "select-unversioned",
                 "select-all-active", "report-reachability", "disable-stats"},
                {"task-queue-type-legacy", "partitions-legacy", "report-config"})
    [] word = <<"taskqueue", "config_set">> ->
         either("queue-rps-limit", {}, {"queue-rps-limit-reason"})
           \cup either("fairness-key-rps-limit-default", {}, {"fairness-key-rps-limit-reason"})
    [] word = <<"schedule", "list">> -> IF json THEN {"long", "really-long"} ELSE {}
    [] word \in {<<"schedule", "create">>, <<"schedule", "update">>} ->
         {"headers", "priority-key", "fairness-key", "fairness-weight"}
    [] word \in {<<"worker", "deployment_set_current_version">>,
                 <<"worker", "deployment_set_ramping_version">>} ->
         either("absent", {"yes"}, {}) \cup either("build-id", {"unversioned"}, {})
           \cup either("delete", {"percentage"}, {})
    [] word = <<"worker", "deployment_update_version_compute_config">> ->
         IF Worker!Provider(f) = "none" THEN AWS \cup GCP ELSE {}
    [] word = <<"local", "env_set">> -> either("argument", {"value"}, {})
    [] word = <<"local", "server_start_dev">> ->
         either("headless", {"ui-port", "ui-ip", "ui-public-path", "ui-asset-path",
                             "ui-codec-endpoint", "ui-disable-news-fetch"}, {})
    [] OTHER -> {}

\* What no command does before the user has agreed.
Consent ==
  {"StartBatchOperation", "DeleteWorkflowExecution", "DeleteNamespace", "RemoveSearchAttributes",
   "UpdateWorkerVersioningRules", "SetWorkerDeploymentManager"}

\* What the theorems about the frame ask of the handlers, those of the commands
\* have. It is true of the sessions of both runs; no run assumes it, so that a
\* handler that is not like this shows as a behaviour that breaks an invariant.
HandlersAsAsked == HandlersConfirm
=============================================================================
