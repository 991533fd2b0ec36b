----------------------- MODULE WorkflowStartCommands -----------------------
(***************************************************************************)
(* The commands that start workflows (commands.workflow_exec.go).          *)
(***************************************************************************)
EXTENDS CommandHelpers

ExecuteFlags ==
  Together({SharedWorkflowStartOptions, WorkflowStartOptions, PayloadInputOptions,
    Takes({}, {"detailed"})})

ExecuteUpdateWithStartFlags ==
  Together({SharedWorkflowStartOptions, WorkflowStartOptions, PayloadInputOptions,
    Takes({"update-name"}, {"update-first-execution-run-id", "update-id", "run-id",
    "update-input", "update-input-file", "update-input-meta", "update-input-base64"})})

SignalWithStartFlags ==
  Together({SharedWorkflowStartOptions, WorkflowStartOptions, PayloadInputOptions,
    Takes({"signal-name"}, {"signal-input", "signal-input-file", "signal-input-meta",
    "signal-input-base64"})})

StartFlags ==
  Together({SharedWorkflowStartOptions, WorkflowStartOptions, PayloadInputOptions})

StartUpdateWithStartFlags ==
  Together({SharedWorkflowStartOptions, WorkflowStartOptions, PayloadInputOptions,
    Takes({"update-name", "update-wait-for-stage"}, {"update-first-execution-run-id",
    "update-id", "run-id", "update-input", "update-input-file", "update-input-meta",
    "update-input-base64"})})

-----------------------------------------------------------------------------
\* buildStartOptions: names of policies are looked up, memo and search
\* attributes are read as JSON.
BuildStartOptions(f) ==
  Parse(f, {"id-reuse-policy", "id-conflict-policy", "memo", "search-attribute"})

StartOptions == AllFlags(SharedWorkflowStartOptions) \cup AllFlags(WorkflowStartOptions)

\* Mutant: the execution is printed under JSON as well.
StartWorkflow_Prints(f, printEvenWithJSON) ==
  BuildStartOptions(f) \o BuildRawInput(f) \o ContextWithHeaders(f)
  \o Send("StartWorkflowExecution", StartOptions \cup PayloadsIn, {})
  \o Show({})

\* startWorkflow, through the SDK.
StartWorkflow(f, printEvenWithJSON) ==
  BuildStartOptions(f) \o BuildRawInput(f) \o ContextWithHeaders(f)
  \o Send("StartWorkflowExecution", StartOptions \cup PayloadsIn, {})
  \o When("output" \notin f \/ printEvenWithJSON, Show({}))

\* The close event, in the last run of the chain of continue-as-new.
CloseEvent == Read("GetWorkflowExecutionHistory", {})

-----------------------------------------------------------------------------

Start(f) == Dial \o StartWorkflow(f, TRUE)

\* Progress is shown when the output is not JSON; under JSON the details are the
\* history of the first run. A failed workflow is printed first and then fails
\* the command.
Execute(f) ==
  LET history == Read("GetWorkflowExecutionHistory", {"detailed"}) IN
  Dial \o StartWorkflow(f, FALSE)
  \o When("output" \notin f, history)
  \o CloseEvent
  \o When({"output", "detailed"} \subseteq f, history)
  \o Show({}) \o Expect("workflow completed")

\* A raw call, which takes only some of the options that were built.
SignalWithStart(f) ==
  Check("workflow-id" \in f) \o Dial \o BuildStartOptions(f) \o BuildRawInput(f)
  \o PayloadInput(f, "signal-input", "signal-input-file", "signal-input-meta",
       "signal-input-base64")
  \o ContextWithHeaders(f)
  \o Send("SignalWithStartWorkflowExecution",
       SignalWithStartFlags.must \cup PayloadsIn
         \cup {"workflow-id", "run-timeout", "execution-timeout", "task-timeout", "cron",
               "memo", "search-attribute", "id-reuse-policy", "id-conflict-policy",
               "signal-input", "signal-input-file", "signal-input-meta",
               "signal-input-base64"}, {})
  \o Show({})

UpdateInput(f) ==
  PayloadInput(f, "update-input", "update-input-file", "update-input-meta",
    "update-input-base64")

\* executeUpdateWithStartWorkflow.
UpdateWithStart(f) ==
  Check({"workflow-id", "id-conflict-policy"} \subseteq f) \o Dial
  \o BuildStartOptions(f) \o BuildRawInput(f) \o ContextWithHeaders(f)
  \o Send("UpdateWithStart",
       StartOptions \cup PayloadsIn \cup AllFlags(ExecuteUpdateWithStartFlags), {})

\* The first answer may already say that the update has failed.
StartUpdateWithStart(f) ==
  Check("accepted" \in f) \o UpdateInput(f) \o UpdateWithStart(f)
  \o Expect("update not failed") \o Show({"update-wait-for-stage"})

ExecuteUpdateWithStart(f) ==
  UpdateInput(f) \o UpdateWithStart(f) \o Expect("update completed") \o Show({})

=============================================================================
