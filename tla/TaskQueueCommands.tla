------------------------- MODULE TaskQueueCommands --------------------------
(***************************************************************************)
(* The commands about task queues: their description, configuration and    *)
(* build identifiers (commands.taskqueue*.go). The word "workflowType" among *)
(* the flags is the type of a queue of workflow tasks.                     *)
(***************************************************************************)
EXTENDS CommandHelpers

ConfigGetFlags == Takes({"task-queue", "task-queue-type"}, {})

ConfigSetFlags ==
  Takes({"task-queue", "task-queue-type"}, {"queue-rps-limit", "queue-rps-limit-reason",
    "fairness-key-rps-limit-default", "fairness-key-rps-limit-reason",
    "fairness-key-weight", "fairness-key-weight-clear-all"})

DescribeFlags ==
  Takes({"task-queue"}, {"task-queue-type", "select-build-id", "select-unversioned",
    "select-all-active", "report-reachability", "legacy-mode", "task-queue-type-legacy",
    "partitions-legacy", "disable-stats", "report-config"})

GetBuildIdReachabilityFlags == Takes({}, {"build-id", "reachability-type", "task-queue"})

GetBuildIdsFlags == Takes({"task-queue"}, {"max-sets"})

ListPartitionFlags == Takes({"task-queue"}, {})

UpdateBuildIdsAddNewCompatibleFlags ==
  Takes({"build-id", "task-queue", "existing-compatible-build-id"}, {"set-as-default"})

UpdateBuildIdsAddNewDefaultFlags == Takes({"build-id", "task-queue"}, {})

UpdateBuildIdsPromoteIdInSetFlags == Takes({"build-id", "task-queue"}, {})

UpdateBuildIdsPromoteSetFlags == Takes({"build-id", "task-queue"}, {})

\* All commands about rules name the task queue.
VersioningFlags == Takes({"task-queue"}, {})

VersioningAddRedirectRuleFlags ==
  Together({VersioningFlags, Takes({"source-build-id", "target-build-id"}, {"yes"})})

VersioningCommitBuildIdFlags ==
  Together({VersioningFlags, Takes({"build-id"}, {"force", "yes"})})

VersioningDeleteAssignmentRuleFlags ==
  Together({VersioningFlags, Takes({"rule-index"}, {"force", "yes"})})

VersioningDeleteRedirectRuleFlags ==
  Together({VersioningFlags, Takes({"source-build-id"}, {"yes"})})

VersioningGetRulesFlags == VersioningFlags

VersioningInsertAssignmentRuleFlags ==
  Together({VersioningFlags, Takes({"build-id"}, {"rule-index", "percentage", "yes"})})

VersioningReplaceAssignmentRuleFlags ==
  Together({VersioningFlags, Takes({"build-id", "rule-index"}, {"percentage", "yes", "force"})})

VersioningReplaceRedirectRuleFlags ==
  Together({VersioningFlags, Takes({"source-build-id", "target-build-id"}, {"yes"})})

-----------------------------------------------------------------------------

\* printTaskQueueDescription and printBuildIdRules: several tables (two stand
\* for more), or one document.
ShowTables(f) == Show({}) \o When("output" \notin f, Show({}))

PrintTaskQueueConfig == Show({})

\* The legacy description asks for every partition by itself.
Describe(f) ==
  IF "legacy-mode" \in f
    THEN Dial \o Parse(f, {"task-queue-type-legacy"})
         \o Read("DescribeTaskQueue",
                 {"legacy-mode", "task-queue", "task-queue-type-legacy", "partitions-legacy", "report-config"})
         \o ShowTables(f)
    ELSE Dial \o Parse(f, {"task-queue-type"})
         \o Read("DescribeTaskQueueEnhanced",
                 {"task-queue", "task-queue-type", "select-build-id", "select-unversioned",
                  "select-all-active", "report-reachability", "disable-stats"})
         \o ShowTables(f)

ListPartition(f) == Dial \o Read("ListTaskQueuePartitions", {"task-queue"}) \o ShowTables(f)

ConfigGet(f) ==
  Parse(f, {"task-queue", "task-queue-type"}) \o Dial
  \o Read("DescribeTaskQueue", {"task-queue", "task-queue-type"}) \o PrintTaskQueueConfig

\* A limit comes with its reason. Clearing all weights reads which there are.
ConfigSet(f) ==
  LET limit == {"queue-rps-limit", "queue-rps-limit-reason"}
      default == {"fairness-key-rps-limit-default", "fairness-key-rps-limit-reason"}
      weights == {"fairness-key-weight", "fairness-key-weight-clear-all"} IN
  Parse(f, {"task-queue", "task-queue-type"})
  \o Check(~("workflowType" \in f /\ AnyOf(limit, f)))
  \o Parse(f, {"queue-rps-limit", "fairness-key-rps-limit-default"})
  \o Dial
  \o Check(AnyOf({"queue-rps-limit", "fairness-key-rps-limit-default"} \cup weights, f))
  \o Check(~(weights \subseteq f)) \o Parse(f, {"fairness-key-weight"})
  \o When("fairness-key-weight-clear-all" \in f, Read("DescribeTaskQueue", {}))
  \o Send("UpdateTaskQueueConfig",
          {"task-queue", "task-queue-type"} \cup weights
            \cup (IF "queue-rps-limit" \in f THEN limit ELSE {})
            \cup (IF "fairness-key-rps-limit-default" \in f THEN default ELSE {}), {})
  \o Show({})

-----------------------------------------------------------------------------
(* Build identifiers in version sets.                                      *)

GetBuildIds(f) ==
  Dial \o Read("GetWorkerBuildIdCompatibility", {"task-queue", "max-sets"}) \o Show({})

GetBuildIdReachability(f) ==
  Dial \o Parse(f, {"reachability-type"})
  \o Read("GetWorkerTaskReachability", {"build-id", "reachability-type", "task-queue"}) \o Show({})

\* updateBuildIds.
UpdateBuildIds(flags) ==
  Dial \o Send("UpdateWorkerBuildIdCompatibility", AllFlags(flags), {})

UpdateBuildIdsAddNewDefault(f) == UpdateBuildIds(UpdateBuildIdsAddNewDefaultFlags)

UpdateBuildIdsAddNewCompatible(f) == UpdateBuildIds(UpdateBuildIdsAddNewCompatibleFlags)

UpdateBuildIdsPromoteSet(f) == UpdateBuildIds(UpdateBuildIdsPromoteSetFlags)

UpdateBuildIdsPromoteIdInSet(f) == UpdateBuildIds(UpdateBuildIdsPromoteIdInSetFlags)

-----------------------------------------------------------------------------
(* Versioning rules.                                                       *)

\* getConflictToken: without --yes the rules are shown and the user is asked;
\* under JSON the command then fails.
GetConflictToken(f) ==
  Dial \o Read("GetWorkerVersioningRules", {"task-queue"})
  \o When("yes" \notin f /\ "output" \notin f, Show({})) \o Ask

\* updateBuildIdRules dials again, and shows the rules that resulted.
UpdateRules(f, flags) ==
  GetConflictToken(f) \o Dial
  \o Send("UpdateWorkerVersioningRules", AllFlags(flags) \ {"yes"}, {}) \o ShowTables(f)

VersioningAddRedirectRule(f) == UpdateRules(f, VersioningAddRedirectRuleFlags)

VersioningCommitBuildId(f) == UpdateRules(f, VersioningCommitBuildIdFlags)

VersioningDeleteAssignmentRule(f) == UpdateRules(f, VersioningDeleteAssignmentRuleFlags)

VersioningDeleteRedirectRule(f) == UpdateRules(f, VersioningDeleteRedirectRuleFlags)

VersioningInsertAssignmentRule(f) == UpdateRules(f, VersioningInsertAssignmentRuleFlags)

VersioningReplaceAssignmentRule(f) == UpdateRules(f, VersioningReplaceAssignmentRuleFlags)

VersioningReplaceRedirectRule(f) == UpdateRules(f, VersioningReplaceRedirectRuleFlags)

VersioningGetRules(f) ==
  Dial \o Read("GetWorkerVersioningRules", {"task-queue"}) \o ShowTables(f)

-----------------------------------------------------------------------------
(* The commands of this family, by name.                                   *)

Commands == [
  config_get |-> ConfigGetFlags, config_set |-> ConfigSetFlags, describe |-> DescribeFlags,
  get_build_id_reachability |-> GetBuildIdReachabilityFlags,
  get_build_ids |-> GetBuildIdsFlags, list_partition |-> ListPartitionFlags,
  update_build_ids_add_new_compatible |-> UpdateBuildIdsAddNewCompatibleFlags,
  update_build_ids_add_new_default |-> UpdateBuildIdsAddNewDefaultFlags,
  update_build_ids_promote_id_in_set |-> UpdateBuildIdsPromoteIdInSetFlags,
  update_build_ids_promote_set |-> UpdateBuildIdsPromoteSetFlags,
  versioning_add_redirect_rule |-> VersioningAddRedirectRuleFlags,
  versioning_commit_build_id |-> VersioningCommitBuildIdFlags,
  versioning_delete_assignment_rule |-> VersioningDeleteAssignmentRuleFlags,
  versioning_delete_redirect_rule |-> VersioningDeleteRedirectRuleFlags,
  versioning_get_rules |-> VersioningGetRulesFlags,
  versioning_insert_assignment_rule |-> VersioningInsertAssignmentRuleFlags,
  versioning_replace_assignment_rule |-> VersioningReplaceAssignmentRuleFlags,
  versioning_replace_redirect_rule |-> VersioningReplaceRedirectRuleFlags]

Handler(name, f) ==
  CASE name = "config_get" -> ConfigGet(f)
    [] name = "config_set" -> ConfigSet(f)
    [] name = "describe" -> Describe(f)
    [] name = "get_build_id_reachability" -> GetBuildIdReachability(f)
    [] name = "get_build_ids" -> GetBuildIds(f)
    [] name = "list_partition" -> ListPartition(f)
    [] name = "update_build_ids_add_new_compatible" -> UpdateBuildIdsAddNewCompatible(f)
    [] name = "update_build_ids_add_new_default" -> UpdateBuildIdsAddNewDefault(f)
    [] name = "update_build_ids_promote_id_in_set" -> UpdateBuildIdsPromoteIdInSet(f)
    [] name = "update_build_ids_promote_set" -> UpdateBuildIdsPromoteSet(f)
    [] name = "versioning_add_redirect_rule" -> VersioningAddRedirectRule(f)
    [] name = "versioning_commit_build_id" -> VersioningCommitBuildId(f)
    [] name = "versioning_delete_assignment_rule" -> VersioningDeleteAssignmentRule(f)
    [] name = "versioning_delete_redirect_rule" -> VersioningDeleteRedirectRule(f)
    [] name = "versioning_get_rules" -> VersioningGetRules(f)
    [] name = "versioning_insert_assignment_rule" -> VersioningInsertAssignmentRule(f)
    [] name = "versioning_replace_assignment_rule" -> VersioningReplaceAssignmentRule(f)
    [] name = "versioning_replace_redirect_rule" -> VersioningReplaceRedirectRule(f)

=============================================================================
