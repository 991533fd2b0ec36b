-------------------------- MODULE ScheduleCommands --------------------------
(***************************************************************************)
(* The commands about schedules (commands.schedule.go).                    *)
(***************************************************************************)
EXTENDS CommandHelpers

BackfillFlags ==
  Together({OverlapPolicyOptions, ScheduleIdOptions, Takes({"end-time", "start-time"},
    {})})

CreateFlags ==
  Together({ScheduleConfigurationOptions, ScheduleCreateOnlyOptions, ScheduleIdOptions,
    OverlapPolicyOptions, SharedWorkflowStartOptions, PayloadInputOptions})

DeleteFlags == ScheduleIdOptions

DescribeFlags == ScheduleIdOptions

ListFlags == Takes({}, {"long", "really-long", "query"})

ListMatchingTimesFlags ==
  Together({ScheduleIdOptions, Takes({"start-time", "end-time"}, {})})

ToggleFlags == Together({ScheduleIdOptions, Takes({}, {"pause", "reason", "unpause"})})

TriggerFlags == Together({ScheduleIdOptions, OverlapPolicyOptions})

UpdateFlags ==
  Together({ScheduleConfigurationOptions, ScheduleIdOptions, OverlapPolicyOptions,
    SharedWorkflowStartOptions, PayloadInputOptions})

-----------------------------------------------------------------------------

\* toScheduleSpec.
ToScheduleSpec(f) == Parse(f, {"calendar", "interval"})

\* toScheduleAction: a workflow is started with these of its options only.
ToScheduleAction(f) ==
  Parse(f, {"memo", "search-attribute"}) \o BuildRawInput(f)

ActionCarries ==
  {"type", "task-queue", "workflow-id", "run-timeout", "execution-timeout", "task-timeout",
   "search-attribute", "memo", "static-summary", "static-details"} \cup PayloadsIn

ScheduleCarries ==
  AllFlags(ScheduleIdOptions) \cup AllFlags(ScheduleConfigurationOptions)
    \cup AllFlags(OverlapPolicyOptions) \cup ActionCarries

Create(f) ==
  Dial \o ToScheduleSpec(f) \o ToScheduleAction(f)
  \o Parse(f, {"overlap-policy", "schedule-memo", "schedule-search-attribute"})
  \o Send("CreateSchedule", ScheduleCarries \cup AllFlags(ScheduleCreateOnlyOptions), {})

\* The SDK reads the schedule and the handler replaces the whole of it.
Update(f) ==
  Dial \o Parse(f, {"overlap-policy"}) \o ToScheduleSpec(f) \o ToScheduleAction(f)
  \o Read("DescribeSchedule", {"schedule-id"}) \o Send("UpdateSchedule", ScheduleCarries, {})

Backfill(f) ==
  Dial \o Parse(f, {"overlap-policy"}) \o Send("PatchSchedule", AllFlags(BackfillFlags), {})

Delete(f) == Dial \o Send("DeleteSchedule", {"schedule-id"}, {})

\* Under JSON a raw call, whose answer is dumped.
Describe(f) == Dial \o Read("DescribeSchedule", {"schedule-id"}) \o Show({})

List(f) ==
  Dial \o Read("ListSchedules", {"query"})
  \o Show(IF "output" \in f THEN {} ELSE {"long", "really-long"})

Toggle(f) ==
  Check(("pause" \in f) # ("unpause" \in f)) \o Dial
  \o Send("PatchSchedule", AllFlags(ToggleFlags), {})

Trigger(f) ==
  Dial \o Parse(f, {"overlap-policy"}) \o Send("PatchSchedule", AllFlags(TriggerFlags), {})

ListMatchingTimes(f) ==
  Dial \o Read("ListScheduleMatchingTimes", AllFlags(ListMatchingTimesFlags)) \o Show({})

-----------------------------------------------------------------------------
(* The commands of this family, by name.                                   *)

Commands == [
  backfill |-> BackfillFlags, create |-> CreateFlags, delete |-> DeleteFlags,
  describe |-> DescribeFlags, list |-> ListFlags,
  list_matching_times |-> ListMatchingTimesFlags, toggle |-> ToggleFlags,
  trigger |-> TriggerFlags, update |-> UpdateFlags]

Handler(name, f) ==
  CASE name = "backfill" -> Backfill(f)
    [] name = "create" -> Create(f)
    [] name = "delete" -> Delete(f)
    [] name = "describe" -> Describe(f)
    [] name = "list" -> List(f)
    [] name = "list_matching_times" -> ListMatchingTimes(f)
    [] name = "toggle" -> Toggle(f)
    [] name = "trigger" -> Trigger(f)
    [] name = "update" -> Update(f)

=============================================================================
