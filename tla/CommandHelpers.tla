--------------------------- MODULE CommandHelpers ---------------------------
(***************************************************************************)
(* The steps that handlers of several families share.                      *)
(***************************************************************************)
EXTENDS OptionSets, Sequences

\* buildRawInputPayloads: inputs come from the arguments or from files.
PayloadInput(f, input, file, meta, base64) ==
  Check(~({input, file} \subseteq f)) \o Parse(f, {input, file, meta, base64})

\* Mutant: the metadata of inputs is left out.
PayloadsIn_NoMeta == {"input", "input-file", "input-base64"}

\* What a request carries of the inputs.
PayloadsIn == PayloadInputOptions.may

BuildRawInput(f) == PayloadInput(f, "input", "input-file", "input-meta", "input-base64")

\* contextWithHeaders: the headers are put in the context, where the calls of
\* the SDK find them and raw calls of the service do not.
ContextWithHeaders(f) == Parse(f, {"headers"})

\* Mutant: the batch is counted, and nobody is asked.
WorkflowExecOrBatch_Unasked(f, allowed) ==
  IF "workflow-id" \in f
    THEN Check(~AnyOf({"query", "reason", "yes", "rps"} \ allowed, f))
    ELSE Check("query" \in f /\ "run-id" \notin f)
         \o Read("CountWorkflowExecutions", {"query", "yes"})

\* workflowExecOrBatch: one execution, or a batch over a query that is counted
\* and confirmed. With an execution only some of the batch's flags are allowed.
WorkflowExecOrBatch(f, allowed) ==
  IF "workflow-id" \in f
    THEN Check(~AnyOf({"query", "reason", "yes", "rps"} \ allowed, f))
    ELSE Check("query" \in f /\ "run-id" \notin f)
         \o When("yes" \notin f, Read("CountWorkflowExecutions", {"query"})) \o Ask

\* startBatchJob; the job carries the operation's own options.
StartBatchJob(f, carries, mask) ==
  Send("StartBatchOperation", {"query", "reason", "rps"} \cup carries, mask)
  \o When("output" \in f, Show({}))

=============================================================================
