--------------------------- MODULE WorkerCommands ---------------------------
(***************************************************************************)
(* The commands about workers and worker deployments (commands.worker.go,  *)
(* commands.worker.deployment.go). The word "absent" among the flags says that *)
(* the server has no such deployment, and "ordered" that the counts of instances *)
(* are in order.                                                           *)
(***************************************************************************)
EXTENDS CommandHelpers

CountFlags == Takes({}, {"query", "include-system-workers"})

DeploymentCreateFlags == DeploymentNameOptions

DeploymentCreateVersionFlags ==
  Together({DeploymentVersionOptions, Takes({}, {"aws-lambda-function-arn",
    "aws-lambda-assume-role-arn", "aws-lambda-assume-role-external-id",
    "gcp-cloud-run-project", "gcp-cloud-run-region", "gcp-cloud-run-worker-pool",
    "gcp-cloud-run-service-account", "gcp-cloud-run-min-instances",
    "gcp-cloud-run-max-instances", "gcp-cloud-run-initial-instances",
    "gcp-cloud-run-utilization-target"})})

DeploymentDeleteFlags == DeploymentNameOptions

DeploymentDeleteVersionFlags ==
  Together({DeploymentVersionOptions, Takes({}, {"skip-drainage"})})

DeploymentDescribeFlags == DeploymentNameOptions

DeploymentDescribeVersionFlags ==
  Together({DeploymentVersionOptions, Takes({}, {"report-task-queue-stats"})})

DeploymentListFlags == NoFlags

DeploymentManagerIdentitySetFlags ==
  Takes({}, {"manager-identity", "self", "deployment-name", "yes"})

DeploymentManagerIdentityUnsetFlags == Takes({}, {"deployment-name", "yes"})

DeploymentSetCurrentVersionFlags ==
  Together({DeploymentVersionOrUnversionedOptions, Takes({},
    {"ignore-missing-task-queues", "allow-no-pollers", "yes"})})

DeploymentSetRampingVersionFlags ==
  Together({DeploymentVersionOrUnversionedOptions, Takes({}, {"percentage", "delete",
    "ignore-missing-task-queues", "allow-no-pollers", "yes"})})

DeploymentUpdateVersionComputeConfigFlags ==
  Together({DeploymentVersionOptions, Takes({}, {"aws-lambda-function-arn",
    "aws-lambda-assume-role-arn", "aws-lambda-assume-role-external-id",
    "gcp-cloud-run-project", "gcp-cloud-run-region", "gcp-cloud-run-worker-pool",
    "gcp-cloud-run-service-account", "gcp-cloud-run-min-instances",
    "gcp-cloud-run-max-instances", "gcp-cloud-run-initial-instances",
    "gcp-cloud-run-utilization-target", "remove"})})

DeploymentUpdateVersionMetadataFlags ==
  Together({DeploymentVersionOptions, Takes({}, {"metadata", "remove-entries"})})

DescribeFlags == Takes({"worker-instance-key"}, {})

ListFlags == Takes({}, {"query", "limit", "include-system-workers"})

-----------------------------------------------------------------------------

Count(f) ==
  Dial \o Read("CountWorkers", AllFlags(CountFlags)) \o When("output" \in f, Show({}))

Describe(f) ==
  Dial \o Read("DescribeWorker", AllFlags(DescribeFlags))
  \o When("output" \notin f, Expect("a heartbeat")) \o Show({})

List(f) == Dial \o Read("ListWorkers", AllFlags(ListFlags)) \o Show({})

-----------------------------------------------------------------------------

\* printWorkerDeploymentInfo: one document, or a card and a table.
PrintWorkerDeploymentInfo(f) == Show({}) \o When("output" \notin f, Show({}))

\* getConflictToken: without --yes the deployment is shown and the user asked.
\* When there is no deployment the caller decides whether to go on.
GetConflictToken(f, mayBeAbsent) ==
  Dial
  \o IF "absent" \in f
       THEN Glance("DescribeWorkerDeployment") \o Check(mayBeAbsent)
       ELSE Read("DescribeWorkerDeployment", {"deployment-name"})
            \o When(~AnyOf({"yes", "output"}, f), PrintWorkerDeploymentInfo(f)) \o Ask

DeploymentCreate(f) == Dial \o Send("CreateWorkerDeployment", {"name"}, {})

DeploymentDescribe(f) ==
  Dial \o Read("DescribeWorkerDeployment", {"name"}) \o PrintWorkerDeploymentInfo(f)

DeploymentDelete(f) == Dial \o Send("DeleteWorkerDeployment", {"name"}, {})

DeploymentList(f) == Dial \o Read("ListWorkerDeployments", {}) \o Show({})

DeploymentManagerIdentitySet(f) ==
  Dial \o GetConflictToken(f, FALSE)
  \o Send("SetWorkerDeploymentManager", {"manager-identity", "self", "deployment-name"}, {})

DeploymentManagerIdentityUnset(f) ==
  Dial \o GetConflictToken(f, FALSE)
  \o Send("SetWorkerDeploymentManager", {"deployment-name"}, {})

\* No build identifier stands for unversioned workers.
DeploymentSetCurrentVersion(f) ==
  Dial \o Check(~({"build-id", "unversioned"} \subseteq f))
  \o GetConflictToken(f, "allow-no-pollers" \in f)
  \o Send("SetWorkerDeploymentCurrentVersion",
          {"deployment-name", "build-id", "unversioned", "ignore-missing-task-queues",
           "allow-no-pollers"}, {})

DeploymentSetRampingVersion(f) ==
  Dial \o GetConflictToken(f, "allow-no-pollers" \in f)
  \o Send("SetWorkerDeploymentRampingVersion",
          {"deployment-name", "build-id", "delete", "ignore-missing-task-queues",
           "allow-no-pollers"}
            \cup (IF "build-id" \in f THEN {} ELSE {"unversioned"})
            \cup (IF "delete" \in f THEN {} ELSE {"percentage"}), {})

-----------------------------------------------------------------------------
(* Versions and their compute configuration.                               *)

DeploymentDeleteVersion(f) ==
  Dial \o Send("DeleteWorkerDeploymentVersion", AllFlags(DeploymentDeleteVersionFlags), {})

\* printWorkerDeploymentVersionInfoProto: under JSON the same document
\* whatever was asked for; otherwise a card and the task queues.
DeploymentDescribeVersion(f) ==
  Dial \o Read("DescribeWorkerDeploymentVersion", AllFlags(DeploymentDescribeVersionFlags))
  \o Show({"report-task-queue-stats"}) \o When("output" \notin f, Show({"report-task-queue-stats"}))

DeploymentUpdateVersionMetadata(f) ==
  Dial \o Parse(f, {"metadata"})
  \o Send("UpdateWorkerDeploymentVersionMetadata",
          AllFlags(DeploymentUpdateVersionMetadataFlags), {})
  \o Show({})

\* awsLambdaProviderDetailsPayload and gcpCloudRunProviderDetailsPayload need
\* all of their details.
AWSDetails ==
  {"aws-lambda-function-arn", "aws-lambda-assume-role-arn", "aws-lambda-assume-role-external-id"}

GCPDetails ==
  {"gcp-cloud-run-project", "gcp-cloud-run-region", "gcp-cloud-run-worker-pool",
   "gcp-cloud-run-service-account"}

\* scalerTypeForProvider.
ScalerTypes == [aws |-> "no-sync", gcp |-> "rate-based"]

\* computeProviderConfig: the flag that names a function or a pool decides.
Provider(f) ==
  CASE "aws-lambda-function-arn" \in f -> "aws"
    [] "gcp-cloud-run-worker-pool" \in f -> "gcp"
    [] OTHER -> "none"

ProviderConfig(f) ==
  Check(~(AnyOf(AWSDetails, f) /\ AnyOf(GCPDetails, f)))
  \o Check(CASE Provider(f) = "aws" -> AWSDetails \subseteq f
             [] Provider(f) = "gcp" -> GCPDetails \subseteq f
             [] OTHER -> TRUE)

\* gcpScalerOptions, all of them or none (anySet, allSet).
ScalerOptions ==
  {"gcp-cloud-run-min-instances", "gcp-cloud-run-max-instances",
   "gcp-cloud-run-initial-instances", "gcp-cloud-run-utilization-target"}

\* gcpCloudRunScalerDetails, for that provider only, with counts in order and a
\* target that is a fraction.
ScalerDetails(f, provider) ==
  When(AnyOf(ScalerOptions, f),
       Check(provider = "gcp" /\ ScalerOptions \subseteq f /\ "ordered" \in f))

DeploymentCreateVersion(f) ==
  Dial \o ProviderConfig(f) \o Check(Provider(f) \in DOMAIN ScalerTypes)
  \o ScalerDetails(f, Provider(f))
  \o Send("CreateWorkerDeploymentVersion", AllFlags(DeploymentCreateVersionFlags), {})

\* What the update replaces: a provider takes its type of scaler with it, and
\* the details of the scaler, sent empty when that type has none, unless those
\* that there are shall stay.
ComputeMask(f) ==
  (IF Provider(f) # "none" THEN {"provider.type", "provider.details", "scaler.type"} ELSE {})
    \cup (IF Provider(f) = "aws" \/ AnyOf(ScalerOptions, f) THEN {"scaler.details"} ELSE {})

DeploymentUpdateVersionComputeConfig(f) ==
  LET version == {"deployment-name", "build-id"} IN
  Dial
  \o IF "remove" \in f
       THEN Check(~AnyOf(AWSDetails \cup GCPDetails \cup ScalerOptions, f))
            \o Send("UpdateWorkerDeploymentVersionComputeConfig", version \cup {"remove"}, {})
       ELSE ProviderConfig(f) \o Check(Provider(f) # "none" \/ AnyOf(ScalerOptions, f))
            \o ScalerDetails(f, IF Provider(f) = "none" THEN "gcp" ELSE Provider(f))
            \o Send("UpdateWorkerDeploymentVersionComputeConfig",
                    version \cup ScalerOptions \cup ComputeMask(f)
                      \cup (IF Provider(f) = "none" THEN {} ELSE AWSDetails \cup GCPDetails),
                    ComputeMask(f))

-----------------------------------------------------------------------------
(* The commands of this family, by name.                                   *)

Commands == [
  count |-> CountFlags, deployment_create |-> DeploymentCreateFlags,
  deployment_create_version |-> DeploymentCreateVersionFlags,
  deployment_delete |-> DeploymentDeleteFlags,
  deployment_delete_version |-> DeploymentDeleteVersionFlags,
  deployment_describe |-> DeploymentDescribeFlags,
  deployment_describe_version |-> DeploymentDescribeVersionFlags,
  deployment_list |-> DeploymentListFlags,
  deployment_manager_identity_set |-> DeploymentManagerIdentitySetFlags,
  deployment_manager_identity_unset |-> DeploymentManagerIdentityUnsetFlags,
  deployment_set_current_version |-> DeploymentSetCurrentVersionFlags,
  deployment_set_ramping_version |-> DeploymentSetRampingVersionFlags,
  deployment_update_version_compute_config |-> DeploymentUpdateVersionComputeConfigFlags,
  deployment_update_version_metadata |-> DeploymentUpdateVersionMetadataFlags,
  describe |-> DescribeFlags, list |-> ListFlags]

Handler(name, f) ==
  CASE name = "count" -> Count(f)
    [] name = "deployment_create" -> DeploymentCreate(f)
    [] name = "deployment_create_version" -> DeploymentCreateVersion(f)
    [] name = "deployment_delete" -> DeploymentDelete(f)
    [] name = "deployment_delete_version" -> DeploymentDeleteVersion(f)
    [] name = "deployment_describe" -> DeploymentDescribe(f)
    [] name = "deployment_describe_version" -> DeploymentDescribeVersion(f)
    [] name = "deployment_list" -> DeploymentList(f)
    [] name = "deployment_manager_identity_set" -> DeploymentManagerIdentitySet(f)
    [] name = "deployment_manager_identity_unset" -> DeploymentManagerIdentityUnset(f)
    [] name = "deployment_set_current_version" -> DeploymentSetCurrentVersion(f)
    [] name = "deployment_set_ramping_version" -> DeploymentSetRampingVersion(f)
    [] name = "deployment_update_version_compute_config" -> DeploymentUpdateVersionComputeConfig(f)
    [] name = "deployment_update_version_metadata" -> DeploymentUpdateVersionMetadata(f)
    [] name = "describe" -> Describe(f)
    [] name = "list" -> List(f)

=============================================================================
