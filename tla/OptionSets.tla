----------------------------- MODULE OptionSets -----------------------------
(***************************************************************************)
(* The sets of flags that several commands share, as commands.gen.go       *)
(* declares them.                                                          *)
(***************************************************************************)
EXTENDS CommandSteps

OverlapPolicyOptions == Takes({}, {"overlap-policy"})

ScheduleIdOptions == Takes({"schedule-id"}, {})

ScheduleConfigurationOptions ==
  Takes({}, {"calendar", "catchup-window", "cron", "end-time", "interval", "jitter",
    "notes", "paused", "pause-on-failure", "remaining-actions", "start-time", "time-zone"})

ScheduleCreateOnlyOptions == Takes({}, {"schedule-search-attribute", "schedule-memo"})

WorkflowReferenceOptions == Takes({"workflow-id"}, {"run-id"})

DeploymentNameOptions == Takes({"name"}, {})

DeploymentVersionOptions == Takes({"deployment-name", "build-id"}, {})

DeploymentVersionOrUnversionedOptions ==
  Takes({"deployment-name"}, {"build-id", "unversioned"})

SingleActivityOrBatchOptions ==
  Takes({}, {"workflow-id", "query", "run-id", "reason", "yes", "rps", "headers"})

SingleWorkflowOrBatchOptions ==
  Takes({}, {"workflow-id", "query", "run-id", "reason", "yes", "rps", "headers"})

SharedWorkflowStartOptions ==
  Takes({"type", "task-queue"}, {"workflow-id", "run-timeout", "execution-timeout",
    "task-timeout", "search-attribute", "headers", "memo", "static-summary",
    "static-details", "priority-key", "fairness-key", "fairness-weight"})

WorkflowStartOptions ==
  Takes({}, {"cron", "fail-existing", "start-delay", "id-reuse-policy",
    "id-conflict-policy"})

PayloadInputOptions == Takes({}, {"input", "input-file", "input-meta", "input-base64"})

UpdateStartingOptions ==
  Takes({"name", "workflow-id"}, {"first-execution-run-id", "update-id", "run-id",
    "headers"})

UpdateTargetingOptions == Takes({"workflow-id", "update-id"}, {"run-id"})

NexusEndpointIdentityOptions == Takes({"name"}, {})

NexusEndpointConfigOptions ==
  Takes({}, {"description", "description-file", "target-namespace", "target-task-queue",
    "target-url"})

NexusOperationReferenceOptions == Takes({"operation-id"}, {"run-id"})

NexusOperationStartOptions ==
  Takes({"endpoint", "service", "operation", "operation-id"},
    {"schedule-to-close-timeout", "schedule-to-start-timeout", "start-to-close-timeout",
    "id-conflict-policy", "id-reuse-policy", "search-attribute", "static-summary"})

QueryModifiersOptions == Takes({}, {"reject-condition", "headers"})

WorkflowUpdateOptionsOptions ==
  Takes({"versioning-override-behavior"}, {"versioning-override-deployment-name",
    "versioning-override-build-id"})

ActivityReferenceOptions == Takes({"activity-id"}, {"run-id"})

ActivityStartOptions ==
  Takes({"activity-id", "type", "task-queue"}, {"schedule-to-close-timeout",
    "schedule-to-start-timeout", "start-to-close-timeout", "heartbeat-timeout",
    "start-delay", "retry-initial-interval", "retry-maximum-interval",
    "retry-backoff-coefficient", "retry-maximum-attempts", "id-reuse-policy",
    "id-conflict-policy", "search-attribute", "headers", "static-summary", "static-details",
    "priority-key", "fairness-key", "fairness-weight"})

=============================================================================
