---------------------------- MODULE HandlerShapes ----------------------------
(***************************************************************************)
(* What is asked of the sequence of steps of a handler. CommandFrame_proofs *)
(* derives from it what any process does; MCCommands has it of the handlers *)
(* of the commands.                                                        *)
(***************************************************************************)
EXTENDS CommandFrame

\* A sequence, of whatever.
Sequence(t) == t \in Seq({t[i] : i \in DOMAIN t})

\* The steps that change something.
Changes == {"send", "write", "try"}

\* A check that fails ends the handler there.
Fails(step) == step.op = "check" /\ ~step.fine

\* A handler gets to steps of some kinds.
Reaches(t, ops) ==
  \E i \in DOMAIN t : t[i].op \in ops /\ \A k \in DOMAIN t : k < i => ~Fails(t[k])

\* Nothing is asked after a change.
AsksFirst(t) ==
  \A i, j \in DOMAIN t : t[i].op \in Changes /\ t[j].op = "ask" => j < i

\* What needs consent stands behind a question, or is never reached.
Consents(t) ==
  \A i \in DOMAIN t :
    t[i].op \in Changes /\ t[i].rpc \in NeedConsent =>
      \E j \in DOMAIN t : j < i /\ (t[j].op = "ask" \/ Fails(t[j]))

\* The flags with a value after the pre-run of a session in an environment.
Populated(s, e) ==
  s.flags \cup s.vars \cup (IF e \in DOMAIN s.file THEN s.file[e] ELSE {})

\* Those under which the handler of the session's command starts.
Handled(s) ==
  {F \in {Populated(s, e) : e \in {"default", s.env, s.variable}} :
     Declared(s.word).must \subseteq F /\ s.word[1] # "group"}

\* What a theorem asks of the handlers of the sessions: that what needs consent
\* stands behind a question, and no question behind a change.
HandlersConfirm ==
  \A s \in Sessions : \A F \in Handled(s) :
    LET h == HandlerSteps(s.word, F) IN Sequence(h) /\ AsksFirst(h) /\ Consents(h)

\* The least: that they are sequences of steps.
HandlersAreSequences ==
  \A s \in Sessions : \A F \in Handled(s) : Sequence(HandlerSteps(s.word, F))
=============================================================================
