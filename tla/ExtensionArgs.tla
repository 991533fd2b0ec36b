---------------------------- MODULE ExtensionArgs ----------------------------
(***************************************************************************)
(* What becomes of the arguments that follow the words of a command when   *)
(* an extension may handle them (commands.extension.go). An argument is    *)
(* one of                                                                  *)
(*   "pos"      a word (also the value of an unknown flag)                 *)
(*   "known"    a flag of the CLI that takes no value, or has it inline    *)
(*   "timeout"  a flag that the CLI parses itself, with its value inline   *)
(*   "valued"   a flag of the CLI whose value is the next argument         *)
(*   "help"     the help flag                                              *)
(*   "unknown"  a flag that is not of the CLI                              *)
(***************************************************************************)
LOCAL INSTANCE Naturals
LOCAL INSTANCE Sequences
LOCAL INSTANCE SequencesExt

ArgKind == {"pos", "known", "timeout", "valued", "help", "unknown"}

IsPosArg(arg) == arg = "pos"

\* One more argument: the CLI may parse it, pass it on, or leave it to the
\* extension.
GroupArg(g, arg) ==
  CASE g.value -> [g EXCEPT !.pass = Append(@, arg), !.value = FALSE]
    [] ~g.value /\ IsPosArg(arg) -> [g EXCEPT !.ext = Append(@, arg), !.seenPos = TRUE]
    [] ~g.value /\ arg = "help" /\ g.seenPos -> [g EXCEPT !.ext = Append(@, arg)]
    [] ~g.value /\ arg = "unknown" /\ g.seenPos -> [g EXCEPT !.ext = Append(@, arg)]
    [] ~g.value /\ arg = "unknown" /\ ~g.seenPos -> [g EXCEPT !.parse = Append(@, arg)]
    [] ~g.value /\ arg = "timeout" -> [g EXCEPT !.pass = Append(@, arg), !.parse = Append(@, arg)]
    [] OTHER -> [g EXCEPT !.pass = Append(@, arg), !.value = arg = "valued"]

\* The arguments the CLI parses, those it passes on, and the extension's own.
GroupArgs(args) ==
  LET none == [parse |-> <<>>, pass |-> <<>>, ext |-> <<>>, seenPos |-> FALSE, value |-> FALSE]
  IN FoldLeft(GroupArg, none, args)

\* How many words name the executable, the most specific first; 0 without one.
\* Words are looked at up to the first flag the CLI does not know.
LookupExtension(args, binaries) ==
  LET words == {n \in 1..Len(args) : \A i \in 1..n : IsPosArg(args[i])}
      found == words \cap binaries
  IN IF found = {} THEN 0 ELSE CHOOSE n \in found : \A m \in found : m <= n

=============================================================================
