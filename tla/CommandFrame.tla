---------------------------- MODULE CommandFrame ----------------------------
(***************************************************************************)
(* One process of the CLI, from its arguments to its exit: the environment *)
(* that gives flags their values, extensions, the pre-run of the command   *)
(* and the steps of its handler (commands.go, commands.extension.go and    *)
(* client.go).                                                             *)
(*                                                                         *)
(* A handler is the sequence of steps that its command and its flags       *)
(* decide (CommandSteps). The modules of the commands translate the        *)
(* handlers; this one runs them.                                           *)
(***************************************************************************)
EXTENDS Naturals, Sequences, FiniteSets, ExtensionArgs, CommandSteps
LOCAL INSTANCE SequencesExt

CONSTANTS
  Sessions,       \* What a process may be started with.
  Declared(_),    \* The flags a command takes.
  HandlerSteps(_, _),  \* The steps of a command's handler under some flags.
  Unused(_, _),   \* The flags a command is known to ignore under some flags.
  NeedConsent     \* The requests that are sent only with the user's consent.

VARIABLES
  shell,        \* What this process was started with; it never changes.
  phase,        \* Where the process is.
  envName,      \* The environment whose values fill in flags.
  given,        \* For each flag that has a value, who gave it.
  todo,         \* The steps of the handler that are left.
  sent,         \* The requests the server has accepted, in order.
  used,         \* The flags whose values a step has made use of.
  shown,        \* How many values were printed, at most MaxShown.
  asked,        \* What became of the last prompt.
  interrupted,  \* A signal or the command's timeout has ended its context.
  exit          \* How the process ended.

vars == <<shell, phase, envName, given, todo, sent, used, shown, asked, interrupted, exit>>

MaxShown == 2

Flags == DOMAIN given
JSONOutput == "output" \in Flags

-----------------------------------------------------------------------------

\* Execute begins: nothing is known yet.
Init ==
  /\ shell \in Sessions
  /\ phase = "start" /\ envName = "default"
  /\ given = [f \in shell.flags |-> "user"]
  /\ todo = <<>> /\ sent = <<>> /\ used = {} /\ shown = 0 /\ asked = "no"
  /\ interrupted = FALSE /\ exit = "running"

\* Mutant: the error does not end the process with a code.
Fail_Silent ==
  /\ exit' = exit
  /\ phase' = "ended"

\* Fail prints the error, or says that the program was interrupted, and exits.
Fail ==
  /\ exit' = IF interrupted THEN "interrupted" ELSE "error"
  /\ phase' = "ended"

\* Mutant: a variable wins over the name among the arguments.
Preprocess_VariableFirst ==
  /\ phase = "start"
  /\ envName' = CASE shell.variable # "none" -> shell.variable
                  [] shell.variable = "none" /\ shell.env # "none" /\ ~shell.inline -> shell.env
                  [] OTHER -> "default"
  /\ IF shell.fileBroken
       THEN Fail
       ELSE phase' = "dispatch" /\ exit' = exit
  /\ UNCHANGED <<shell, given, todo, sent, used, shown, asked, interrupted>>

\* preprocessOptions: the environment's name is looked for among the
\* arguments in the form of two words only; the file is read, or the process
\* fails.
Preprocess ==
  /\ phase = "start"
  /\ envName' = CASE shell.env # "none" /\ ~shell.inline -> shell.env
                  [] (shell.env = "none" \/ shell.inline) /\ shell.variable # "none" -> shell.variable
                  [] OTHER -> "default"
  /\ IF shell.fileBroken
       THEN Fail
       ELSE phase' = "dispatch" /\ exit' = exit
  /\ UNCHANGED <<shell, given, todo, sent, used, shown, asked, interrupted>>

\* tryExecuteExtension: without a positional argument that no command takes,
\* the built-in command runs. Otherwise the flags the CLI itself needs are
\* parsed, and the most specific executable found is run until it exits.
TryExecuteExtension ==
  LET args == GroupArgs(shell.words)
      isExtension == \E i \in DOMAIN args.ext : IsPosArg(args.ext[i])
      path == LookupExtension(args.ext, shell.binaries) IN
  /\ phase = "dispatch"
  /\ CASE ~isExtension -> phase' = "parse" /\ exit' = exit
       [] isExtension /\ "unknown" \in ToSet(args.parse) -> Fail
       [] isExtension /\ "unknown" \notin ToSet(args.parse) /\ path = 0 ->
            phase' = "parse" /\ exit' = exit
       [] OTHER -> /\ exit' \in {"ok", "error"} \cup (IF interrupted THEN {"interrupted"} ELSE {})
                   /\ phase' = "ended"
  /\ UNCHANGED <<shell, envName, given, todo, sent, used, shown, asked, interrupted>>

\* cobra runs no command for a flag or a word that the command does not take,
\* for a group of commands, and when it prints help.
RunsNothing ==
  \/ {"help", "unknown"} \cap ToSet(shell.words) # {}
  \/ "pos" \in ToSet(shell.words) /\ ~shell.takesWords
  \/ shell.word[1] = "group"

\* Execute then fails, unless there is no error and help was asked for.
RunNothing ==
  /\ phase = "parse" /\ RunsNothing
  /\ IF "help" \in ToSet(shell.words) /\ {"pos", "unknown"} \cap ToSet(shell.words) = {}
       THEN phase' = "ended" /\ exit' = "help"
       ELSE Fail
  /\ UNCHANGED <<shell, envName, given, todo, sent, used, shown, asked, interrupted>>

\* populateFlagsFromEnv: a flag the user typed keeps its value; the value of
\* an environment variable replaces the one of the environment file.
PopulatedFlags ==
  LET file == IF envName \in DOMAIN shell.file THEN shell.file[envName] ELSE {} IN
  [f \in Flags \cup file \cup shell.vars |->
     CASE f \in Flags -> given[f]
       [] f \in shell.vars \ Flags -> "variable"
       [] OTHER -> envName]

\* The pre-run of every command: flags get their values, unless one of them is
\* not valid; the output and the timeout are set up; and an environment that
\* was asked for must exist.
PreRun ==
  /\ phase = "parse" /\ ~RunsNothing
  /\ given' = PopulatedFlags
  /\ \/ given' # given /\ Fail
     \/ /\ envName # "default" /\ envName \notin DOMAIN shell.file
        /\ ~shell.ignoresMissingEnv
        /\ Fail
     \/ /\ \/ envName = "default" \/ envName \in DOMAIN shell.file
           \/ shell.ignoresMissingEnv
        /\ phase' = "required" /\ exit' = exit
  /\ UNCHANGED <<shell, envName, todo, sent, used, shown, asked, interrupted>>

\* cobra: a required flag must have a value by now; then the handler runs.
StartHandler ==
  /\ phase = "required"
  /\ IF Declared(shell.word).must \subseteq Flags
       THEN /\ todo' = HandlerSteps(shell.word, Flags)
            /\ phase' = "handler" /\ exit' = exit
       ELSE Fail /\ todo' = todo
  /\ UNCHANGED <<shell, envName, given, sent, used, shown, asked, interrupted>>

-----------------------------------------------------------------------------
(* The steps of a handler.                                                 *)

Doing(op) == phase = "handler" /\ todo # <<>> /\ Head(todo).op = op

\* The step is done, with what it made of the values of its flags.
GoOn ==
  /\ todo' = Tail(todo) /\ used' = used \cup Head(todo).carries
  /\ UNCHANGED <<phase, exit>>

\* Mutant: the end of the context is no error.
GiveUp_Interrupted ==
  /\ IF interrupted THEN phase' = "ended" /\ exit' = "ok" ELSE Fail
  /\ UNCHANGED <<todo, used>>

GiveUp == Fail /\ UNCHANGED <<todo, used>>

DoCheck ==
  /\ Doing("check")
  /\ IF Head(todo).fine THEN GoOn ELSE GiveUp
  /\ UNCHANGED <<shell, envName, given, sent, shown, asked, interrupted>>

\* To read a value is not yet to make use of it.
DoParse ==
  /\ Doing("parse")
  /\ \/ todo' = Tail(todo) /\ UNCHANGED <<used, phase, exit>>
     \/ GiveUp
  /\ UNCHANGED <<shell, envName, given, sent, shown, asked, interrupted>>

\* dialClientWithCodec fails on bad options, when the server cannot be
\* reached, and when the context has ended.
DoDial ==
  /\ Doing("dial")
  /\ \/ ~interrupted /\ GoOn
     \/ GiveUp
  /\ UNCHANGED <<shell, envName, given, sent, shown, asked, interrupted>>

DoRead ==
  /\ Doing("read")
  /\ \/ ~interrupted /\ GoOn
     \/ GiveUp
  /\ UNCHANGED <<shell, envName, given, sent, shown, asked, interrupted>>

\* Files of the host, and what the server has answered, may be wrong.
DoLoad ==
  /\ Doing("load") \/ Doing("expect")
  /\ GoOn \/ GiveUp
  /\ UNCHANGED <<shell, envName, given, sent, shown, asked, interrupted>>

DoGlance ==
  /\ Doing("glance")
  /\ GoOn
  /\ UNCHANGED <<shell, envName, given, sent, shown, asked, interrupted>>

\* A request may be carried out although its answer is lost.
DoSend ==
  /\ Doing("send")
  /\ \/ ~interrupted /\ sent' = Append(sent, Head(todo)) /\ (GoOn \/ GiveUp)
     \/ sent' = sent /\ GiveUp
  /\ UNCHANGED <<shell, envName, given, shown, asked, interrupted>>

\* Writing takes no notice of the context.
DoWrite ==
  /\ Doing("write")
  /\ \/ sent' = Append(sent, Head(todo)) /\ (GoOn \/ GiveUp)
     \/ sent' = sent /\ GiveUp
  /\ UNCHANGED <<shell, envName, given, shown, asked, interrupted>>

DoTry ==
  /\ Doing("try")
  /\ sent' \in {sent, Append(sent, Head(todo))} /\ GoOn
  /\ UNCHANGED <<shell, envName, given, shown, asked, interrupted>>

DoWait ==
  /\ Doing("wait") /\ interrupted
  /\ GoOn
  /\ UNCHANGED <<shell, envName, given, sent, shown, asked, interrupted>>

\* promptYes and promptString: under JSON there is no prompt, only --yes;
\* reading the answer is not cut short by the end of the context.
DoAsk ==
  /\ Doing("ask")
  /\ \/ /\ "yes" \in Flags
        /\ asked' = "bypassed" /\ GoOn
     \/ /\ "yes" \notin Flags /\ JSONOutput
        /\ asked' = asked /\ GiveUp
     \/ /\ "yes" \notin Flags /\ ~JSONOutput
        /\ \/ asked' = "yes" /\ GoOn
           \/ asked' = "refused" /\ GiveUp
  /\ UNCHANGED <<shell, envName, given, sent, shown, interrupted>>

DoShow ==
  /\ Doing("show")
  /\ \/ shown' = (IF shown = MaxShown THEN shown ELSE shown + 1) /\ GoOn
     \/ shown' = shown /\ GiveUp
  /\ UNCHANGED <<shell, envName, given, sent, asked, interrupted>>

Finish ==
  /\ phase = "handler" /\ todo = <<>>
  /\ phase' = "ended" /\ exit' = "ok"
  /\ UNCHANGED <<shell, envName, given, todo, sent, used, shown, asked, interrupted>>

\* A signal, or the end of --command-timeout, which the pre-run starts.
Interrupt ==
  /\ phase \notin {"start", "ended"} /\ ~interrupted
  /\ interrupted' = TRUE
  /\ UNCHANGED <<shell, phase, envName, given, todo, sent, used, shown, asked, exit>>

Next ==
  \/ Preprocess \/ TryExecuteExtension \/ RunNothing \/ PreRun \/ StartHandler
  \/ DoCheck \/ DoParse \/ DoDial \/ DoRead \/ DoLoad \/ DoGlance
  \/ DoSend \/ DoWrite \/ DoTry \/ DoWait \/ DoAsk \/ DoShow \/ Finish
  \/ Interrupt

Spec == Init /\ [][Next]_vars

-----------------------------------------------------------------------------
(* Properties.                                                             *)

Sources == {"user", "variable", "default", shell.env, shell.variable}

TypeOK ==
  /\ phase \in {"start", "dispatch", "parse", "required", "handler", "ended"}
  /\ envName \in {"default", shell.env, shell.variable}
  /\ \A f \in Flags : given[f] \in Sources
  /\ \A i \in DOMAIN sent : sent[i].op \in {"send", "write", "try"}
  /\ shown \in 0..MaxShown
  /\ asked \in {"no", "yes", "bypassed", "refused"}
  /\ interrupted \in BOOLEAN
  /\ exit \in {"running", "ok", "error", "interrupted", "help"}
  /\ exit # "running" <=> phase = "ended"

\* Requests that need the user's consent (a bulk operation, a deletion, a
\* change of versioning rules) are sent only after the user has given it, at the prompt
\* or by --yes, and a command that was refused has changed nothing.
ConfirmedBeforeSent ==
  /\ asked = "refused" => sent = <<>>
  /\ \A i \in DOMAIN sent : sent[i].rpc \in NeedConsent => asked \in {"yes", "bypassed"}

\* A command that ends well has made use of every flag the user gave it, but
\* for the flags it is known to ignore.
NothingDropped ==
  exit = "ok" /\ shell.words = <<>> =>
    {f \in Flags \cap AllFlags(Declared(shell.word)) : given[f] = "user"}
      \subseteq used \cup Unused(shell.word, Flags)

\* A request whose mask names an option carries the option's value, or the
\* server would clear the option.
MasksCarryValues == \A i \in DOMAIN sent : sent[i].mask \subseteq sent[i].carries

\* Under JSON a command prints one document at most.
OneDocument == JSONOutput => shown <= 1

\* What is left behind by a step that is done.
Done(step) ==
  /\ step.op = "check" => step.fine
  /\ step.op # "parse" => step.carries \subseteq used
  /\ step.op \in {"send", "write"} => \E k \in DOMAIN sent : sent[k] = step

\* What a script reads from the exit code: a command that ends well has passed
\* every check and carried out every step of its handler. An error, a refusal
\* or an interrupt anywhere between two steps does not look like success.
OkMeansDone ==
  exit = "ok" /\ shell.words = <<>> =>
    LET steps == HandlerSteps(shell.word, Flags) IN \A i \in DOMAIN steps : Done(steps[i])

\* When the user names an environment as a word of its own, every value the
\* user did not type comes from that environment or from a variable.
EnvironmentFollowed ==
  shell.env # "none" /\ ~shell.inline /\ phase \in {"required", "handler"} =>
    \A f \in Flags : given[f] \in {"user", "variable", shell.env}

=============================================================================
