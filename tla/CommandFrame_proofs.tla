------------------------- MODULE CommandFrame_proofs -------------------------
(***************************************************************************)
(* One process of the CLI, for any sessions, commands and handlers: the    *)
(* types, that a named environment is followed, that success means a       *)
(* handler carried out to its last step, and, for handlers that ask before *)
(* they change, that consent comes before the requests that need it.       *)
(***************************************************************************)
EXTENDS HandlerShapes, TLAPS
LOCAL INSTANCE SequencesExt

-----------------------------------------------------------------------------
(* Where values of flags come from.                                        *)

\* The environment that a name among the arguments asks for.
FollowsName == phase # "start" /\ shell.env # "none" /\ ~shell.inline => envName = shell.env

FlagsInv ==
  /\ shell \in Sessions
  /\ envName \in {"default", shell.env, shell.variable}
  /\ phase \in {"start", "dispatch", "parse"} =>
       Flags = shell.flags /\ \A f \in Flags : given[f] = "user"
  /\ phase \in {"required", "handler"} =>
       /\ Flags = Populated(shell, envName)
       /\ \A f \in Flags : given[f] \in {"user", "variable", envName}
       /\ shell.word[1] # "group"
  /\ phase = "handler" => Declared(shell.word).must \subseteq Flags
  /\ FollowsName

\* The inductive invariant of the frame itself.
Inv == TypeOK /\ FlagsInv /\ Sequence(sent)

Frame == <<shell, envName, given>>

\* The steps of a handler leave alone what was there before it.
HandlerStep ==
  \/ DoCheck \/ DoParse \/ DoDial \/ DoRead \/ DoLoad \/ DoGlance
  \/ DoSend \/ DoWrite \/ DoTry \/ DoWait \/ DoAsk \/ DoShow \/ Finish

\* A handler's step leaves the session and the flags alone; the process goes
\* on with the handler or ends.
LEMMA HandlerEffect ==
  ASSUME HandlerStep
  PROVE  /\ UNCHANGED <<shell, envName, given, interrupted>>
         /\ phase = "handler"
         /\ \/ phase' = "handler" /\ exit' = exit
            \/ phase' = "ended" /\ exit' \in {"ok", "error", "interrupted"}
<1>1. GoOn => UNCHANGED <<phase, exit>>
  BY DEF GoOn
<1>2. GiveUp => phase' = "ended" /\ exit' \in {"error", "interrupted"}
  BY DEF GiveUp, Fail
<1>3. CASE DoCheck \/ DoParse \/ DoDial \/ DoRead
  BY <1>1, <1>2, <1>3 DEF DoCheck, DoParse, DoDial, DoRead, Doing
<1>4. CASE DoLoad \/ DoGlance \/ DoSend \/ DoWrite \/ DoTry
  BY <1>1, <1>2, <1>4 DEF DoLoad, DoGlance, DoSend, DoWrite, DoTry, Doing
<1>5. CASE DoWait \/ DoAsk \/ DoShow \/ Finish
  BY <1>1, <1>2, <1>5 DEF DoWait, DoAsk, DoShow, Finish, Doing
<1> QED
  BY <1>3, <1>4, <1>5 DEF HandlerStep

\* The steps of a process, those of the handler put together.
LEMMA NextSplit ==
  Next <=> \/ Preprocess \/ TryExecuteExtension \/ RunNothing \/ PreRun \/ StartHandler
           \/ HandlerStep \/ Interrupt
BY DEF Next, HandlerStep

\* What was sent grows by the step that sends; what was printed is counted;
\* an answer is yes, bypassed or refused.
LEMMA HandlerData ==
  ASSUME HandlerStep
  PROVE  /\ \/ sent' = sent
            \/ sent' = Append(sent, Head(todo)) /\ Head(todo).op \in Changes
         /\ \/ shown' = shown
            \/ shown' = (IF shown = MaxShown THEN shown ELSE shown + 1)
         /\ asked' \in {asked, "yes", "bypassed", "refused"}
<1>1. CASE DoCheck \/ DoParse \/ DoDial \/ DoRead
  BY <1>1 DEF DoCheck, DoParse, DoDial, DoRead
<1>2. CASE DoLoad \/ DoGlance
  BY <1>2 DEF DoLoad, DoGlance
<1>3. CASE DoSend \/ DoWrite \/ DoTry
  BY <1>3 DEF DoSend, DoWrite, DoTry, Doing, Changes
<1>4. CASE DoWait \/ DoAsk \/ DoShow \/ Finish
  BY <1>4 DEF DoWait, DoAsk, DoShow, Finish
<1> QED
  BY <1>1, <1>2, <1>3, <1>4 DEF HandlerStep

\* A sequence over any set is one.
LEMMA SequenceOver ==
  ASSUME NEW S, NEW t \in Seq(S)
  PROVE  Sequence(t)
<1>1. DOMAIN t = 1..Len(t) /\ Len(t) \in Nat /\ t = [i \in 1..Len(t) |-> t[i]]
  OBVIOUS
<1> QED
  BY <1>1 DEF Sequence

\* A sequence with one more element.
LEMMA AppendSequence ==
  ASSUME NEW t, NEW x, Sequence(t)
  PROVE  /\ Sequence(Append(t, x))
         /\ DOMAIN Append(t, x) = 1..Len(t) + 1
         /\ Len(t) \in Nat
         /\ Len(Append(t, x)) = Len(t) + 1
         /\ DOMAIN t = 1..Len(t)
         /\ Append(t, x)[Len(t) + 1] = x
         /\ \A i \in 1..Len(t) : Append(t, x)[i] = t[i]
<1>1. PICK S : t \in Seq(S)
  BY DEF Sequence
<1>2. t \in Seq(S \cup {x})
  BY <1>1
<1>3. Append(t, x) \in Seq(S \cup {x}) /\ Len(t) \in Nat
  BY <1>2
<1>4. Sequence(Append(t, x))
  BY <1>3, SequenceOver
<1> QED
  BY <1>1, <1>3, <1>4

\* A process starts in the invariant.
LEMMA InitInv == Init => Inv
<1> SUFFICES ASSUME Init PROVE Inv
  OBVIOUS
<1>1. Flags = shell.flags /\ \A f \in Flags : given[f] = "user"
  BY DEF Init, Flags
<1>2. \A i \in DOMAIN sent : sent[i].op \in {"send", "write", "try"}
  <2>1. DOMAIN sent = {}
    BY DEF Init
  <2> QED
    BY <2>1
<1>3. TypeOK
  <2>1. /\ phase = "start" /\ envName = "default" /\ shown = 0 /\ asked = "no"
        /\ interrupted = FALSE /\ exit = "running"
    BY DEF Init
  <2>2. shown \in 0..MaxShown
    BY <2>1 DEF MaxShown
  <2>3. \A f \in Flags : given[f] \in Sources
    BY <1>1 DEF Sources
  <2> QED
    BY <1>2, <2>1, <2>2, <2>3 DEF TypeOK
<1>4. FlagsInv
  BY <1>1 DEF Init, FlagsInv, FollowsName
<1>5. Sequence(sent)
  BY DEF Init, Sequence
<1> QED
  BY <1>3, <1>4, <1>5 DEF Inv

\* The environment is looked up by its name, and its values are read.
LEMMA PreprocessInv == ASSUME Inv, Preprocess PROVE Inv'
<1>1. Fail => phase' = "ended" /\ exit' \in {"error", "interrupted"}
  BY DEF Fail
<1>2. /\ phase = "start"
      /\ envName' \in {"default", shell.env, shell.variable}
      /\ shell.env # "none" /\ ~shell.inline => envName' = shell.env
      /\ \/ phase' = "ended" /\ exit' \in {"error", "interrupted"}
         \/ phase' = "dispatch" /\ exit' = exit
      /\ UNCHANGED <<shell, given, sent, shown, asked, interrupted>>
  BY <1>1 DEF Preprocess
<1>3. Flags' = Flags
  BY <1>2 DEF Flags
<1>4. TypeOK'
  BY <1>2, <1>3 DEF Inv, TypeOK, Sources
<1>5. FlagsInv'
  BY <1>2, <1>3 DEF Inv, FlagsInv, FollowsName
<1> QED
  BY <1>2, <1>4, <1>5 DEF Inv

\* Before the pre-run nothing but the phase changes.
LEMMA DispatchInv ==
  ASSUME Inv, TryExecuteExtension \/ RunNothing
  PROVE  Inv'
<1>1. Fail => phase' = "ended" /\ exit' \in {"error", "interrupted"}
  BY DEF Fail
<1>2. CASE TryExecuteExtension
  <2>1. /\ phase = "dispatch"
        /\ \/ phase' = "ended" /\ exit' \in {"ok", "error", "interrupted"}
           \/ phase' = "parse" /\ exit' = exit
        /\ UNCHANGED <<shell, envName, given, sent, shown, asked, interrupted>>
    BY <1>1, <1>2 DEF TryExecuteExtension
  <2>2. Flags' = Flags
    BY <2>1 DEF Flags
  <2>3. TypeOK' /\ FlagsInv'
    BY <2>1, <2>2 DEF Inv, TypeOK, Sources, FlagsInv, FollowsName
  <2> QED
    BY <2>1, <2>3 DEF Inv
<1>3. CASE RunNothing
  <2>1. /\ phase = "parse" /\ phase' = "ended" /\ exit' \in {"help", "error", "interrupted"}
        /\ UNCHANGED <<shell, envName, given, sent, shown, asked, interrupted>>
    BY <1>1, <1>3 DEF RunNothing
  <2>2. Flags' = Flags
    BY <2>1 DEF Flags
  <2>3. TypeOK' /\ FlagsInv'
    BY <2>1, <2>2 DEF Inv, TypeOK, Sources, FlagsInv, FollowsName
  <2> QED
    BY <2>1, <2>3 DEF Inv
<1> QED
  BY <1>2, <1>3

\* The pre-run leaves the typed values and adds those of variables and of the
\* environment.
LEMMA PreRunEffect ==
  ASSUME FlagsInv, PreRun
  PROVE  /\ UNCHANGED <<shell, envName, todo, sent, used, shown, asked, interrupted>>
         /\ phase = "parse" /\ shell.word[1] # "group"
         /\ \/ phase' = "ended" /\ exit' \in {"error", "interrupted"}
            \/ phase' = "required" /\ exit' = exit
         /\ Flags' = Populated(shell, envName)
         /\ \A f \in Flags' : given'[f] \in {"user", "variable", envName}
<1>1. Fail => phase' = "ended" /\ exit' \in {"error", "interrupted"}
  BY DEF Fail
<1>2. phase = "parse" /\ shell.word[1] # "group" /\ given' = PopulatedFlags
  BY DEF PreRun, RunsNothing
<1>3. Flags = shell.flags /\ \A f \in Flags : given[f] = "user"
  BY <1>2 DEF FlagsInv
<1>4. Flags' = Populated(shell, envName)
  BY <1>2, <1>3 DEF Flags, PopulatedFlags, Populated
<1>5. \A f \in Flags' : given'[f] \in {"user", "variable", envName}
  <2>1. Flags' = DOMAIN given'
    BY DEF Flags
  <2>2. SUFFICES ASSUME NEW f \in DOMAIN PopulatedFlags
                 PROVE PopulatedFlags[f] \in {"user", "variable", envName}
    BY <1>2, <2>1
  <2> QED
    BY <1>3, <2>2 DEF PopulatedFlags
<1>6. UNCHANGED <<shell, envName, todo, sent, used, shown, asked, interrupted>>
  BY DEF PreRun
<1>7. \/ phase' = "ended" /\ exit' \in {"error", "interrupted"}
      \/ phase' = "required" /\ exit' = exit
  BY <1>1 DEF PreRun
<1> QED
  BY <1>2, <1>4, <1>5, <1>6, <1>7

\* The pre-run fills in flags and checks those that are required.
LEMMA PreRunInv == ASSUME Inv, PreRun PROVE Inv'
<1>1. FlagsInv /\ TypeOK
  BY DEF Inv
<1>2. /\ UNCHANGED <<shell, envName, sent, shown, asked, interrupted>>
      /\ phase = "parse" /\ shell.word[1] # "group"
      /\ \/ phase' = "ended" /\ exit' \in {"error", "interrupted"}
         \/ phase' = "required" /\ exit' = exit
      /\ Flags' = Populated(shell, envName)
      /\ \A f \in Flags' : given'[f] \in {"user", "variable", envName}
  BY <1>1, PreRunEffect
<1>3. TypeOK'
  BY <1>1, <1>2 DEF TypeOK, Sources
<1>4. FlagsInv'
  BY <1>1, <1>2 DEF FlagsInv, FollowsName
<1> QED
  BY <1>2, <1>3, <1>4 DEF Inv

\* The handler starts with the steps its command and flags decide.
LEMMA StartHandlerInv == ASSUME Inv, StartHandler PROVE Inv'
<1>1. Fail => phase' = "ended" /\ exit' \in {"error", "interrupted"}
  BY DEF Fail
<1>2. /\ phase = "required"
      /\ \/ phase' = "ended" /\ exit' \in {"error", "interrupted"}
         \/ phase' = "handler" /\ exit' = exit /\ Declared(shell.word).must \subseteq Flags
      /\ UNCHANGED <<shell, envName, given, sent, shown, asked, interrupted>>
  BY <1>1 DEF StartHandler
<1>3. Flags' = Flags
  BY <1>2 DEF Flags
<1>4. TypeOK'
  BY <1>2, <1>3 DEF Inv, TypeOK, Sources
<1>5. FlagsInv'
  BY <1>2, <1>3 DEF Inv, FlagsInv, FollowsName
<1> QED
  BY <1>2, <1>4, <1>5 DEF Inv

\* The handler's steps keep types, flags and what was sent.
LEMMA HandlerInv == ASSUME Inv, HandlerStep PROVE Inv'
<1>1. /\ UNCHANGED <<shell, envName, given, interrupted>>
      /\ phase = "handler"
      /\ \/ phase' = "handler" /\ exit' = exit
         \/ phase' = "ended" /\ exit' \in {"ok", "error", "interrupted"}
  BY HandlerEffect
<1>2. Flags' = Flags
  BY <1>1 DEF Flags
<1>3. Sequence(sent') /\ \A i \in DOMAIN sent' : sent'[i].op \in {"send", "write", "try"}
  <2>1. Sequence(sent) /\ \A i \in DOMAIN sent : sent[i].op \in {"send", "write", "try"}
    BY DEF Inv, TypeOK
  <2>2. CASE sent' = sent
    BY <2>1, <2>2
  <2>3. CASE sent' = Append(sent, Head(todo)) /\ Head(todo).op \in Changes
    BY <2>1, <2>3, AppendSequence DEF Changes
  <2> QED
    BY <2>2, <2>3, HandlerData
<1>4. shown' \in 0..MaxShown
  BY HandlerData DEF MaxShown, Inv, TypeOK
<1>5. asked' \in {"no", "yes", "bypassed", "refused"}
  BY HandlerData DEF Inv, TypeOK
<1>6. \A f \in Flags' : given'[f] \in Sources'
  BY <1>1, <1>2 DEF Inv, TypeOK, Sources
<1>7. TypeOK'
  BY <1>1, <1>3, <1>4, <1>5, <1>6 DEF Inv, TypeOK
<1>8. FlagsInv'
  BY <1>1, <1>2 DEF Inv, FlagsInv, FollowsName
<1> QED
  BY <1>3, <1>7, <1>8 DEF Inv

\* Every step of the process keeps the invariant.
LEMMA StepInv == Inv /\ [Next]_vars => Inv'
<1> SUFFICES ASSUME Inv, [Next]_vars PROVE Inv'
  OBVIOUS
<1>1. CASE Preprocess
  BY <1>1, PreprocessInv
<1>2. CASE TryExecuteExtension \/ RunNothing
  BY <1>2, DispatchInv
<1>3. CASE PreRun
  BY <1>3, PreRunInv
<1>4. CASE StartHandler
  BY <1>4, StartHandlerInv
<1>5. CASE HandlerStep
  BY <1>5, HandlerInv
<1>6. CASE Interrupt
  <2>1. /\ interrupted' = TRUE
        /\ UNCHANGED <<shell, phase, envName, given, todo, sent, used, shown, asked, exit>>
    BY <1>6 DEF Interrupt
  <2>2. Flags' = Flags
    BY <2>1 DEF Flags
  <2>3. TypeOK' /\ FlagsInv' /\ Sequence(sent')
    BY <2>1, <2>2 DEF Inv, TypeOK, Sources, FlagsInv, FollowsName
  <2> QED
    BY <2>3 DEF Inv
<1>7. CASE UNCHANGED vars
  <2>1. UNCHANGED <<shell, phase, envName, given, sent, shown, asked, interrupted, exit>>
    BY <1>7 DEF vars
  <2>2. Flags' = Flags
    BY <2>1 DEF Flags
  <2>3. TypeOK' /\ FlagsInv' /\ Sequence(sent')
    BY <2>1, <2>2 DEF Inv, TypeOK, Sources, FlagsInv, FollowsName
  <2> QED
    BY <2>3 DEF Inv
<1> QED
  BY <1>1, <1>2, <1>3, <1>4, <1>5, <1>6, <1>7, NextSplit

\* The frame keeps its invariant whatever the handlers do.
THEOREM Invariance == Spec => []Inv
<1>1. Init => Inv
  BY InitInv
<1>2. Inv /\ [Next]_vars => Inv'
  BY StepInv
<1> QED
  BY <1>1, <1>2, PTL DEF Spec

\* Every variable keeps its type.
THEOREM TypeCorrect == Spec => []TypeOK
<1>1. Inv => TypeOK
  BY DEF Inv
<1> QED
  BY <1>1, Invariance, PTL

\* A value that the user did not type comes from the environment that was
\* named or from a variable, whatever the files hold.
THEOREM EnvironmentIsFollowed == Spec => []EnvironmentFollowed
<1>1. Inv => EnvironmentFollowed
  BY DEF Inv, FlagsInv, FollowsName, EnvironmentFollowed
<1> QED
  BY <1>1, Invariance, PTL
-----------------------------------------------------------------------------
(* What a step does to what is left of the handler.                        *)

\* The step is done, or the handler gives up, or it has ended well.
LEMMA Moves ==
  ASSUME HandlerStep
  PROVE  \/ /\ todo # <<>> /\ todo' = Tail(todo) /\ phase' = "handler" /\ exit' = exit
            /\ ~Fails(Head(todo))
            /\ \/ used' = used \cup Head(todo).carries
               \/ used' = used /\ Head(todo).op = "parse"
         \/ phase' = "ended" /\ exit' # "ok" /\ UNCHANGED <<todo, used>>
         \/ todo = <<>> /\ phase' = "ended" /\ UNCHANGED <<todo, used, sent, shown, asked>>
<1>1. phase = "handler"
  BY HandlerEffect
<1>2. GoOn => todo' = Tail(todo) /\ used' = used \cup Head(todo).carries /\ UNCHANGED <<phase, exit>>
  BY DEF GoOn
<1>3. GiveUp => phase' = "ended" /\ exit' # "ok" /\ UNCHANGED <<todo, used>>
  BY DEF GiveUp, Fail
<1>4. CASE DoCheck \/ DoParse \/ DoDial \/ DoRead
  BY <1>1, <1>2, <1>3, <1>4 DEF DoCheck, DoParse, DoDial, DoRead, Doing, Fails
<1>5. CASE DoLoad \/ DoGlance \/ DoSend \/ DoWrite \/ DoTry
  BY <1>1, <1>2, <1>3, <1>5 DEF DoLoad, DoGlance, DoSend, DoWrite, DoTry, Doing, Fails
<1>6. CASE DoWait \/ DoAsk \/ DoShow
  BY <1>1, <1>2, <1>3, <1>6 DEF DoWait, DoAsk, DoShow, Doing, Fails
<1>7. CASE Finish
  BY <1>7 DEF Finish
<1> QED
  BY <1>4, <1>5, <1>6, <1>7 DEF HandlerStep

\* Only a change adds to what the server accepted.
LEMMA SentEffect ==
  ASSUME HandlerStep
  PROVE  \/ sent' = sent
         \/ todo # <<>> /\ Head(todo).op \in Changes /\ sent' = Append(sent, Head(todo))
<1>1. CASE DoSend \/ DoWrite \/ DoTry
  BY <1>1 DEF DoSend, DoWrite, DoTry, Doing, Changes
<1>2. CASE DoCheck \/ DoParse \/ DoDial \/ DoRead \/ DoLoad \/ DoGlance
  BY <1>2 DEF DoCheck, DoParse, DoDial, DoRead, DoLoad, DoGlance
<1>3. CASE DoWait \/ DoAsk \/ DoShow \/ Finish
  BY <1>3 DEF DoWait, DoAsk, DoShow, Finish
<1> QED
  BY <1>1, <1>2, <1>3 DEF HandlerStep

\* Only a step that prints adds to what was printed.
LEMMA ShownEffect ==
  ASSUME HandlerStep
  PROVE  \/ shown' = shown
         \/ /\ todo # <<>> /\ Head(todo).op = "show"
            /\ shown' = (IF shown = MaxShown THEN shown ELSE shown + 1)
<1>1. CASE DoSend \/ DoWrite \/ DoTry \/ DoShow
  BY <1>1 DEF DoSend, DoWrite, DoTry, DoShow, Doing
<1>2. CASE DoCheck \/ DoParse \/ DoDial \/ DoRead \/ DoLoad \/ DoGlance
  BY <1>2 DEF DoCheck, DoParse, DoDial, DoRead, DoLoad, DoGlance
<1>3. CASE DoWait \/ DoAsk \/ Finish
  BY <1>3 DEF DoWait, DoAsk, Finish
<1> QED
  BY <1>1, <1>2, <1>3 DEF HandlerStep

\* A question is passed with consent only; a refusal ends the command.
LEMMA AskedEffect ==
  ASSUME HandlerStep
  PROVE  \/ asked' = asked /\ (todo # <<>> /\ Head(todo).op = "ask" => phase' = "ended")
         \/ /\ todo # <<>> /\ Head(todo).op = "ask"
            /\ \/ asked' \in {"yes", "bypassed"}
               \/ asked' = "refused" /\ phase' = "ended"
<1>1. GiveUp => phase' = "ended"
  BY DEF GiveUp, Fail
<1>2. CASE DoAsk
  BY <1>1, <1>2 DEF DoAsk, Doing
<1>3. CASE DoCheck \/ DoParse \/ DoDial \/ DoRead \/ DoLoad \/ DoGlance
  BY <1>3 DEF DoCheck, DoParse, DoDial, DoRead, DoLoad, DoGlance, Doing
<1>4. CASE DoSend \/ DoWrite \/ DoTry \/ DoShow \/ DoWait \/ Finish
  BY <1>4 DEF DoSend, DoWrite, DoTry, DoShow, DoWait, Finish, Doing
<1> QED
  BY <1>2, <1>3, <1>4 DEF HandlerStep

\* Before the handler starts nothing is sent, shown, asked or used.
Early == Preprocess \/ TryExecuteExtension \/ RunNothing \/ PreRun

\* These steps touch nothing that belongs to the handler.
LEMMA EarlyEffect ==
  ASSUME Early
  PROVE  /\ UNCHANGED <<shell, todo, sent, used, shown, asked>>
         /\ phase \in {"start", "dispatch", "parse"}
         /\ phase' \in {"dispatch", "parse", "required", "ended"}
<1>1. Fail => phase' = "ended"
  BY DEF Fail
<1>2. CASE Preprocess
  BY <1>1, <1>2 DEF Preprocess
<1>3. CASE TryExecuteExtension
  BY <1>1, <1>3 DEF TryExecuteExtension
<1>4. CASE RunNothing
  BY <1>1, <1>4 DEF RunNothing
<1>5. CASE PreRun
  BY <1>1, <1>5 DEF PreRun
<1> QED
  BY <1>2, <1>3, <1>4, <1>5 DEF Early

\* The handler starts under flags of its session.
LEMMA StartEffect ==
  ASSUME Inv, StartHandler
  PROVE  /\ UNCHANGED <<shell, envName, given, sent, used, shown, asked>>
         /\ phase = "required"
         /\ Flags' = Flags
         /\ \/ phase' = "ended" /\ exit' # "ok" /\ UNCHANGED todo
            \/ /\ phase' = "handler" /\ exit' = exit
               /\ shell \in Sessions /\ Flags \in Handled(shell)
               /\ todo' = HandlerSteps(shell.word, Flags)
<1>1. /\ UNCHANGED <<shell, envName, given, sent, used, shown, asked>>
      /\ phase = "required"
  BY DEF StartHandler
<1>2. Flags' = Flags
  BY <1>1 DEF Flags
<1>3. Fail => phase' = "ended" /\ exit' # "ok"
  BY DEF Fail
<1>4. CASE Declared(shell.word).must \subseteq Flags
  <2>1. /\ shell \in Sessions /\ envName \in {"default", shell.env, shell.variable}
        /\ Flags = Populated(shell, envName) /\ shell.word[1] # "group"
    BY <1>1 DEF Inv, FlagsInv
  <2>2. Flags \in Handled(shell)
    BY <1>4, <2>1 DEF Handled
  <2> QED
    BY <1>1, <1>2, <1>4, <2>1, <2>2 DEF StartHandler
<1>5. CASE ~(Declared(shell.word).must \subseteq Flags)
  BY <1>1, <1>2, <1>3, <1>5 DEF StartHandler
<1> QED
  BY <1>4, <1>5

\* A sequence without its first element.
LEMMA TailSequence ==
  ASSUME NEW t, Sequence(t), t # <<>>
  PROVE  /\ Sequence(Tail(t))
         /\ Len(t) \in Nat \ {0}
         /\ DOMAIN t = 1..Len(t)
         /\ DOMAIN Tail(t) = 1..Len(t) - 1
         /\ \A i \in 1..Len(t) - 1 : Tail(t)[i] = t[i + 1]
         /\ Head(t) = t[1]
<1>1. PICK S : t \in Seq(S)
  BY DEF Sequence
<1>2. Tail(t) \in Seq(S)
  BY <1>1
<1>3. Sequence(Tail(t))
  BY <1>2, SequenceOver
<1> QED
  BY <1>1, <1>2, <1>3

\* All but Next's steps that leave the process where it is.
LEMMA NextCases ==
  ASSUME [Next]_vars
  PROVE  \/ Early \/ StartHandler \/ HandlerStep
         \/ UNCHANGED <<shell, phase, given, todo, sent, used, shown, asked, exit>>
BY NextSplit DEF Early, Interrupt, vars
-----------------------------------------------------------------------------
(* What the rest of a handler keeps of the handler's shape.                *)

\* What the rest of a handler gets to, the handler gets to, unless it fails
\* first.
LEMMA TailReaches ==
  ASSUME NEW t, NEW ops, Sequence(t), t # <<>>
  PROVE  /\ ~Fails(Head(t)) /\ Reaches(Tail(t), ops) => Reaches(t, ops)
         /\ Head(t).op \in ops => Reaches(t, ops)
<1>1. /\ Len(t) \in Nat \ {0}
      /\ DOMAIN t = 1..Len(t)
      /\ DOMAIN Tail(t) = 1..Len(t) - 1
      /\ \A i \in 1..Len(t) - 1 : Tail(t)[i] = t[i + 1]
      /\ Head(t) = t[1]
  BY TailSequence
<1>2. ASSUME ~Fails(Head(t)), Reaches(Tail(t), ops) PROVE Reaches(t, ops)
  <2>1. PICK i \in DOMAIN Tail(t) :
          /\ Tail(t)[i].op \in ops
          /\ \A k \in DOMAIN Tail(t) : k < i => ~Fails(Tail(t)[k])
    BY <1>2 DEF Reaches
  <2>2. i + 1 \in DOMAIN t /\ t[i + 1].op \in ops
    BY <1>1, <2>1
  <2>3. ASSUME NEW k \in DOMAIN t, k < i + 1 PROVE ~Fails(t[k])
    <3>1. CASE k = 1
      BY <1>1, <1>2, <3>1
    <3>2. CASE k # 1
      <4>1. k - 1 \in DOMAIN Tail(t) /\ k - 1 < i /\ Tail(t)[k - 1] = t[k]
        BY <1>1, <2>1, <2>3, <3>2
      <4> QED
        BY <2>1, <4>1
    <3> QED
      BY <3>1, <3>2
  <2> QED
    BY <2>2, <2>3 DEF Reaches
<1>3. ASSUME Head(t).op \in ops PROVE Reaches(t, ops)
  <2>1. 1 \in DOMAIN t /\ \A k \in DOMAIN t : ~(k < 1)
    BY <1>1
  <2> QED
    BY <1>1, <1>3, <2>1 DEF Reaches
<1> QED
  BY <1>2, <1>3

\* After the first change no question is left.
LEMMA TailAsksFirst ==
  ASSUME NEW t, Sequence(t), t # <<>>, AsksFirst(t)
  PROVE  /\ AsksFirst(Tail(t))
         /\ Head(t).op \in Changes => ~Reaches(Tail(t), {"ask"})
<1>1. /\ Len(t) \in Nat \ {0}
      /\ DOMAIN t = 1..Len(t)
      /\ DOMAIN Tail(t) = 1..Len(t) - 1
      /\ \A i \in 1..Len(t) - 1 : Tail(t)[i] = t[i + 1]
      /\ Head(t) = t[1]
  BY TailSequence
<1>2. AsksFirst(Tail(t))
  <2> SUFFICES ASSUME NEW i \in 1..Len(t) - 1, NEW j \in 1..Len(t) - 1,
                      t[i + 1].op \in Changes, t[j + 1].op = "ask"
               PROVE  j < i
    BY <1>1 DEF AsksFirst
  <2>1. i + 1 \in DOMAIN t /\ j + 1 \in DOMAIN t
    BY <1>1
  <2>2. j + 1 < i + 1
    BY <2>1 DEF AsksFirst
  <2> QED
    BY <2>2
<1>3. ASSUME Head(t).op \in Changes, NEW i \in 1..Len(t) - 1, t[i + 1].op = "ask"
      PROVE  FALSE
  <2>1. 1 \in DOMAIN t /\ i + 1 \in DOMAIN t
    BY <1>1
  <2>2. i + 1 < 1
    BY <1>1, <1>3, <2>1 DEF AsksFirst
  <2> QED
    BY <2>2
<1> QED
  BY <1>1, <1>2, <1>3 DEF Reaches

\* A question that is not the first step stays in front of what it guards.
LEMMA TailConsents ==
  ASSUME NEW t, Sequence(t), t # <<>>, Consents(t)
  PROVE  /\ Head(t).op # "ask" /\ ~Fails(Head(t)) => Consents(Tail(t))
         /\ Head(t).op \in Changes => Head(t).rpc \notin NeedConsent
<1>1. /\ Len(t) \in Nat \ {0}
      /\ DOMAIN t = 1..Len(t)
      /\ DOMAIN Tail(t) = 1..Len(t) - 1
      /\ \A i \in 1..Len(t) - 1 : Tail(t)[i] = t[i + 1]
      /\ Head(t) = t[1]
  BY TailSequence
<1>2. ASSUME Head(t).op # "ask", ~Fails(Head(t)) PROVE Consents(Tail(t))
  <2> SUFFICES ASSUME NEW i \in DOMAIN Tail(t),
                      Tail(t)[i].op \in Changes, Tail(t)[i].rpc \in NeedConsent
               PROVE  \E j \in DOMAIN Tail(t) :
                        j < i /\ (Tail(t)[j].op = "ask" \/ Fails(Tail(t)[j]))
    BY DEF Consents
  <2>1. i + 1 \in DOMAIN t /\ Tail(t)[i] = t[i + 1] /\ i \in Nat
    BY <1>1
  <2>2. PICK k \in DOMAIN t : k < i + 1 /\ (t[k].op = "ask" \/ Fails(t[k]))
    BY <2>1 DEF Consents
  <2>3. k # 1
    BY <1>1, <1>2, <2>2
  <2>4. k - 1 \in 1..Len(t) - 1 /\ k - 1 < i /\ (k - 1) + 1 = k
    BY <1>1, <2>1, <2>2, <2>3
  <2>5. k - 1 \in DOMAIN Tail(t) /\ Tail(t)[k - 1] = t[k]
    BY <1>1, <2>4
  <2> QED
    BY <2>2, <2>4, <2>5
<1>3. ASSUME Head(t).op \in Changes PROVE Head(t).rpc \notin NeedConsent
  <2>1. 1 \in DOMAIN t /\ \A j \in DOMAIN t : ~(j < 1)
    BY <1>1
  <2> QED
    BY <1>1, <1>3, <2>1 DEF Consents
<1> QED
  BY <1>2, <1>3

-----------------------------------------------------------------------------
(* Consent.                                                                *)

Consented == asked \in {"yes", "bypassed"}

\* After a request nothing is asked; without consent a question still stands
\* in front of every request that needs one.
ConsentInv ==
  /\ asked = "refused" => sent = <<>> /\ phase = "ended"
  /\ \A i \in DOMAIN sent : sent[i].rpc \in NeedConsent => Consented
  /\ phase \notin {"handler", "ended"} => sent = <<>>
  /\ phase = "handler" =>
       /\ Sequence(todo) /\ AsksFirst(todo)
       /\ sent = <<>> \/ ~Reaches(todo, {"ask"})
       /\ Consented \/ Consents(todo)

\* What needs consent is not sent before the question was answered.
LEMMA ConsentHandlerStep ==
  ASSUME Inv, ConsentInv, HandlerStep
  PROVE  ConsentInv'
<1>1. /\ Sequence(todo) /\ AsksFirst(todo)
      /\ sent = <<>> \/ ~Reaches(todo, {"ask"})
      /\ Consented \/ Consents(todo)
      /\ asked # "refused"
  BY HandlerEffect DEF ConsentInv
<1>2. todo # <<>> =>
        /\ Sequence(Tail(todo)) /\ AsksFirst(Tail(todo))
        /\ Head(todo).op = "ask" => Reaches(todo, {"ask"})
        /\ ~Fails(Head(todo)) /\ ~Reaches(todo, {"ask"}) => ~Reaches(Tail(todo), {"ask"})
        /\ Head(todo).op \in Changes => ~Reaches(Tail(todo), {"ask"})
        /\ Consents(todo) /\ Head(todo).op # "ask" /\ ~Fails(Head(todo)) => Consents(Tail(todo))
        /\ Consents(todo) /\ Head(todo).op \in Changes => Head(todo).rpc \notin NeedConsent
  BY <1>1, TailSequence, TailReaches, TailAsksFirst, TailConsents
<1>3. \/ phase' = "ended"
      \/ todo # <<>> /\ todo' = Tail(todo) /\ phase' = "handler" /\ ~Fails(Head(todo))
  BY Moves
<1>4. "ask" \notin Changes
  BY DEF Changes
\* A question is asked before anything is sent.
<1>5. CASE todo # <<>> /\ Head(todo).op = "ask"
  <2>1. sent = <<>> /\ sent' = sent
    BY <1>1, <1>2, <1>4, <1>5, SentEffect
  <2>2. phase' = "ended" \/ Consented'
    BY <1>5, AskedEffect DEF Consented
  <2>3. DOMAIN sent' = {}
    BY <2>1
  <2>4. asked' = "refused" => phase' = "ended"
    BY <2>2 DEF Consented
  <2> QED
    BY <1>2, <1>3, <1>5, <2>1, <2>2, <2>3, <2>4 DEF ConsentInv
<1>6. CASE ~(todo # <<>> /\ Head(todo).op = "ask")
  <2>1. asked' = asked
    BY <1>6, AskedEffect
  <2>2. Consented' = Consented
    BY <2>1 DEF Consented
  <2>3. CASE sent' = sent
    BY <1>1, <1>2, <1>3, <1>6, <2>1, <2>2, <2>3 DEF ConsentInv
  <2>4. CASE /\ todo # <<>> /\ Head(todo).op \in Changes
             /\ sent' = Append(sent, Head(todo))
    <3>1. Head(todo).rpc \in NeedConsent => Consented
      BY <1>1, <1>2, <2>4
    <3>2. \A i \in DOMAIN sent' : sent'[i].rpc \in NeedConsent => Consented
      <4>1. Sequence(sent)
        BY DEF Inv
      <4> QED
        BY <2>4, <3>1, <4>1, AppendSequence DEF ConsentInv
    <3> QED
      BY <1>1, <1>2, <1>3, <1>6, <2>1, <2>2, <2>4, <3>2 DEF ConsentInv
  <2> QED
    BY <2>3, <2>4, SentEffect
<1> QED
  BY <1>5, <1>6

\* The same for every step of the process.
LEMMA ConsentStep ==
  ASSUME HandlersConfirm, Inv, ConsentInv, [Next]_vars
  PROVE  ConsentInv'
<1>1. CASE Early
  <2>1. /\ UNCHANGED <<sent, asked>> /\ sent = <<>> /\ phase' # "handler"
        /\ asked # "refused"
    BY <1>1, EarlyEffect DEF ConsentInv
  <2> QED
    BY <2>1 DEF ConsentInv, Consented
<1>2. CASE StartHandler
  <2>1. UNCHANGED <<sent, asked>> /\ sent = <<>> /\ asked # "refused"
    BY <1>2, StartEffect DEF ConsentInv
  <2>2. \/ phase' = "ended"
        \/ /\ phase' = "handler" /\ shell \in Sessions /\ Flags \in Handled(shell)
           /\ todo' = HandlerSteps(shell.word, Flags)
    BY <1>2, StartEffect
  <2>3. phase' = "handler" => Sequence(todo') /\ AsksFirst(todo') /\ Consents(todo')
    BY <2>2 DEF HandlersConfirm
  <2> QED
    BY <2>1, <2>2, <2>3 DEF ConsentInv, Consented
<1>3. CASE HandlerStep
  BY <1>3, ConsentHandlerStep
<1>4. CASE UNCHANGED <<shell, phase, given, todo, sent, used, shown, asked, exit>>
  BY <1>4 DEF ConsentInv, Consented
<1> QED
  BY <1>1, <1>2, <1>3, <1>4, NextCases

\* When the handlers ask before they change anything, and in front of every
\* request that needs consent, no such request is sent without it and a
\* refused command has changed nothing.
THEOREM ConsentComesFirst == ASSUME HandlersConfirm PROVE Spec => []ConfirmedBeforeSent
<1>1. Init => ConsentInv
  BY DEF Init, ConsentInv, Consented
<1>2. Inv /\ ConsentInv /\ [Next]_vars => ConsentInv'
  BY ConsentStep
<1>3. ConsentInv => ConfirmedBeforeSent
  BY DEF ConsentInv, Consented, ConfirmedBeforeSent
<1> QED
  BY <1>1, <1>2, <1>3, Invariance, PTL DEF Spec
-----------------------------------------------------------------------------
(* Success.                                                                *)

\* Without arguments beside the command's own words no extension is looked
\* for.
LEMMA NoArgumentsNoExtension == GroupArgs(<<>>).ext = <<>>
<1> DEFINE none == [parse |-> <<>>, pass |-> <<>>, ext |-> <<>>, seenPos |-> FALSE, value |-> FALSE]
<1>1. GroupArgs(<<>>) = FoldLeft(GroupArg, none, <<>>)
  BY DEF GroupArgs
<1>2. none.ext = <<>>
  OBVIOUS
<1>3. DOMAIN <<>> = {}
  OBVIOUS
<1> HIDE DEF none
<1>4. FoldLeft(GroupArg, none, <<>>) = none
  BY <1>3 DEF FoldLeft, MapThenFoldSet
<1> QED
  BY <1>1, <1>2, <1>4

\* A process that runs no handler and no extension does not end well.
LEMMA EarlyExit ==
  ASSUME Inv, Early, shell.words = <<>>
  PROVE  exit' # "ok"
<1>1. phase # "ended"
  BY EarlyEffect
<1>2. exit # "ok"
  BY <1>1 DEF Inv, TypeOK
<1>3. Fail => exit' # "ok"
  BY DEF Fail
<1>4. CASE TryExecuteExtension
  <2>1. DOMAIN GroupArgs(shell.words).ext = {}
    BY NoArgumentsNoExtension
  <2>2. ~ \E i \in DOMAIN GroupArgs(shell.words).ext : IsPosArg(GroupArgs(shell.words).ext[i])
    BY <2>1
  <2>3. exit' = exit
    BY <1>4, <2>2 DEF TryExecuteExtension
  <2> QED
    BY <1>2, <2>3
<1>5. CASE Preprocess
  BY <1>2, <1>3, <1>5 DEF Preprocess
<1>6. CASE RunNothing
  BY <1>3, <1>6 DEF RunNothing
<1>7. CASE PreRun
  BY <1>2, <1>3, <1>7 DEF PreRun
<1> QED
  BY <1>4, <1>5, <1>6, <1>7 DEF Early

\* A step of the handler is done, or still to be done.
Pending(step) == \E k \in DOMAIN todo : todo[k] = step

DoneInv ==
  /\ OkMeansDone
  /\ phase = "handler" =>
       LET steps == HandlerSteps(shell.word, Flags) IN
       /\ Sequence(todo)
       /\ \A i \in DOMAIN steps : Done(steps[i]) \/ Pending(steps[i])

\* What was used or sent stays so.
LEMMA DoneStays ==
  ASSUME Inv, HandlerStep, NEW step, Done(step)
  PROVE  Done(step)'
<1>1. used \subseteq used'
  BY Moves
<1>2. \A k \in DOMAIN sent : k \in DOMAIN sent' /\ sent'[k] = sent[k]
  <2>1. Sequence(sent)
    BY DEF Inv
  <2>2. \/ sent' = sent
        \/ sent' = Append(sent, Head(todo))
    BY SentEffect
  <2>3. CASE sent' = Append(sent, Head(todo))
    BY <2>1, <2>3, AppendSequence
  <2> QED
    BY <2>2, <2>3
<1> QED
  BY <1>1, <1>2 DEF Done

\* The handler goes on only when its step is done.
LEMMA HeadDone ==
  ASSUME Inv, HandlerStep, todo # <<>>, phase' = "handler", NEW step, step = Head(todo)
  PROVE  Done(step)'
<1>1. Sequence(sent)
  BY DEF Inv
<1>2. /\ ~Fails(Head(todo))
      /\ \/ used' = used \cup Head(todo).carries
         \/ used' = used /\ Head(todo).op = "parse"
  BY Moves
<1>3. Head(todo).op \in {"send", "write"} => sent' = Append(sent, Head(todo))
  <2>1. GiveUp => phase' = "ended"
    BY DEF GiveUp, Fail
  <2>2. CASE DoSend \/ DoWrite
    BY <2>1, <2>2 DEF DoSend, DoWrite
  <2>3. CASE DoTry \/ DoShow \/ DoWait \/ DoAsk
    BY <2>3 DEF DoTry, DoShow, DoWait, DoAsk, Doing
  <2>4. CASE DoCheck \/ DoParse \/ DoDial \/ DoRead \/ DoLoad \/ DoGlance
    BY <2>4 DEF DoCheck, DoParse, DoDial, DoRead, DoLoad, DoGlance, Doing
  <2>5. CASE Finish
    BY <2>5 DEF Finish
  <2> QED
    BY <2>2, <2>3, <2>4, <2>5 DEF HandlerStep
<1>4. sent' = Append(sent, Head(todo)) => \E k \in DOMAIN sent' : sent'[k] = Head(todo)
  <2>1. /\ DOMAIN Append(sent, Head(todo)) = 1..Len(sent) + 1
        /\ Len(sent) \in Nat
        /\ Append(sent, Head(todo))[Len(sent) + 1] = Head(todo)
    BY <1>1, AppendSequence
  <2>2. Len(sent) + 1 \in DOMAIN Append(sent, Head(todo))
    BY <2>1
  <2> QED
    BY <2>1, <2>2
<1>5. step.op = "check" => step.fine
  BY <1>2 DEF Fails
<1>6. step.op # "parse" => step.carries \subseteq used'
  BY <1>2
<1>7. step.op \in {"send", "write"} => \E k \in DOMAIN sent' : sent'[k] = step
  BY <1>3, <1>4
<1> QED
  BY <1>5, <1>6, <1>7 DEF Done

\* The steps of a handler are done one after another.
LEMMA DoneHandlerStep ==
  ASSUME Inv, DoneInv, HandlerStep
  PROVE  DoneInv'
<1> DEFINE steps == HandlerSteps(shell.word, Flags)
<1>1. Sequence(todo) /\ \A i \in DOMAIN steps : Done(steps[i]) \/ Pending(steps[i])
  BY HandlerEffect DEF DoneInv
<1>2. UNCHANGED <<shell, given>> /\ phase = "handler" /\ exit # "ok"
  BY HandlerEffect DEF Inv, TypeOK
<1>3. steps' = steps
  BY <1>2 DEF Flags
<1> HIDE DEF steps
<1>4. CASE /\ todo # <<>> /\ todo' = Tail(todo) /\ phase' = "handler" /\ exit' = exit
           /\ ~Fails(Head(todo))
           /\ \/ used' = used \cup Head(todo).carries
              \/ used' = used /\ Head(todo).op = "parse"
  <2>1. /\ Sequence(Tail(todo))
        /\ DOMAIN todo = 1..Len(todo) /\ Len(todo) \in Nat \ {0}
        /\ DOMAIN Tail(todo) = 1..Len(todo) - 1
        /\ \A i \in 1..Len(todo) - 1 : Tail(todo)[i] = todo[i + 1]
        /\ Head(todo) = todo[1]
    BY <1>1, <1>4, TailSequence
  <2>2. ASSUME NEW i \in DOMAIN steps PROVE Done(steps[i])' \/ Pending(steps[i])'
    <3>1. CASE Done(steps[i])
      <4>1. ASSUME NEW s, Done(s) PROVE Done(s)'
        BY <4>1, DoneStays
      <4>2. PICK s : s = steps[i]
        OBVIOUS
      <4> QED
        BY <1>3, <3>1, <4>1, <4>2 DEF Done
    <3>2. CASE Pending(steps[i])
      <4>1. PICK k \in DOMAIN todo : todo[k] = steps[i]
        BY <3>2 DEF Pending
      <4>2. CASE k = 1
        <5>1. PICK s : s = steps[i]
          OBVIOUS
        <5>2. s = Head(todo)
          BY <2>1, <4>1, <4>2, <5>1
        <5>3. Done(s)'
          BY <1>4, <5>2, HeadDone
        <5> QED
          BY <1>3, <5>1, <5>3 DEF Done
      <4>3. CASE k # 1
        <5>1. k - 1 \in 1..Len(todo) - 1 /\ (k - 1) + 1 = k
          BY <2>1, <4>3
        <5>2. k - 1 \in DOMAIN todo' /\ todo'[k - 1] = steps[i]
          BY <1>4, <2>1, <4>1, <5>1
        <5> QED
          BY <1>3, <5>2 DEF Pending
      <4> QED
        BY <4>2, <4>3
    <3> QED
      BY <1>1, <3>1, <3>2
  <2> QED
    BY <1>2, <1>3, <1>4, <2>1, <2>2 DEF DoneInv, OkMeansDone, steps
<1>5. CASE phase' = "ended" /\ exit' # "ok" /\ UNCHANGED <<todo, used>>
  BY <1>5 DEF DoneInv, OkMeansDone
<1>6. CASE todo = <<>> /\ phase' = "ended" /\ UNCHANGED <<todo, used, sent, shown, asked>>
  <2>1. \A i \in DOMAIN steps : ~Pending(steps[i])
    BY <1>6 DEF Pending
  <2>2. \A i \in DOMAIN steps : Done(steps[i])
    BY <1>1, <2>1
  <2>3. \A i \in DOMAIN steps : Done(steps[i])'
    BY <1>3, <1>6, <2>2 DEF Done
  <2> QED
    BY <1>3, <1>6, <2>3 DEF DoneInv, OkMeansDone, steps
<1> QED
  BY <1>4, <1>5, <1>6, Moves

\* The same for every step of the process.
LEMMA DoneStep ==
  ASSUME HandlersAreSequences, Inv, DoneInv, [Next]_vars
  PROVE  DoneInv'
<1>1. CASE Early
  <2>1. shell' = shell /\ phase' # "handler"
    BY <1>1, EarlyEffect
  <2>2. shell.words = <<>> => exit' # "ok"
    BY <1>1, EarlyExit
  <2> QED
    BY <2>1, <2>2 DEF DoneInv, OkMeansDone
<1>2. CASE StartHandler
  <2>1. UNCHANGED <<shell, used>> /\ Flags' = Flags /\ phase = "required"
    BY <1>2, StartEffect
  <2>2. \/ phase' = "ended" /\ exit' # "ok"
        \/ /\ phase' = "handler" /\ exit' = exit
           /\ shell \in Sessions /\ Flags \in Handled(shell)
           /\ todo' = HandlerSteps(shell.word, Flags)
    BY <1>2, StartEffect
  <2>3. exit # "ok"
    BY <2>1 DEF Inv, TypeOK
  <2>4. phase' = "handler" => Sequence(todo')
    BY <2>2 DEF HandlersAreSequences
  <2>5. phase' = "handler" =>
          \A i \in DOMAIN HandlerSteps(shell.word, Flags) :
            Pending(HandlerSteps(shell.word, Flags)[i])'
    BY <2>1, <2>2 DEF Pending
  <2> QED
    BY <2>1, <2>2, <2>3, <2>4, <2>5 DEF DoneInv, OkMeansDone
<1>3. CASE HandlerStep
  BY <1>3, DoneHandlerStep
<1>4. CASE UNCHANGED <<shell, phase, given, todo, sent, used, shown, asked, exit>>
  <2>1. Flags' = Flags
    BY <1>4 DEF Flags
  <2> QED
    BY <1>4, <2>1 DEF DoneInv, OkMeansDone, Done, Pending
<1> QED
  BY <1>1, <1>2, <1>3, <1>4, NextCases

\* No error, refusal or interrupt lets a process end well before every step of
\* its handler is done, whatever the handler is.
THEOREM OkIsDone == ASSUME HandlersAreSequences PROVE Spec => []OkMeansDone
<1>1. Init => DoneInv
  BY DEF Init, DoneInv, OkMeansDone
<1>2. Inv /\ DoneInv /\ [Next]_vars => DoneInv'
  BY DoneStep
<1>3. DoneInv => OkMeansDone
  BY DEF DoneInv
<1> QED
  BY <1>1, <1>2, <1>3, Invariance, PTL DEF Spec

=============================================================================
