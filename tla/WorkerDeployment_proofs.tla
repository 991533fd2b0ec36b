----------------------- MODULE WorkerDeployment_proofs -----------------------
(***************************************************************************)
(* For any number of processes and any commands: the types, that at most    *)
(* one of the processes that looked at the same state succeeds, that        *)
(* nothing is changed which nobody agreed to, and that, unless              *)
(* --allow-no-pollers lets a process go on without a token, nobody changes  *)
(* a deployment other than the one it looked at.                            *)
(***************************************************************************)
EXTENDS WorkerDeployment, TLAPS

\* A process that has changed the deployment has used up its token.
DoneBelow == \A c \in Client : pc[c] = "done" => token[c] < version

\* The inductive invariant.
Inv == TypeOK /\ TokenMeansSeen /\ DoneBelow /\ OneWinner

\* A careful process sends its change with a token.
SendsToken ==
  \A c \in Client :
    pc[c] \in {"prompt", "send"} /\ c \in Careful => token[c] # 0

\* Whoever may send, or has sent, a change was asked, or need not be.
Agreed(c) ==
  \/ Command[c].yes \/ confirmed[c]
  \/ MayCreate(Command[c]) /\ seen[c] = {Absent}

SendsAgreed ==
  \A c \in Client : pc[c] \in {"send", "done"} /\ Command[c].kind \in TokenKind => Agreed(c)

\* Every request leaves a deployment, or none, behind.
LEMMA RequestedType ==
  ASSUME NEW c \in Client, NEW d \in Deployment, d # Absent
  PROVE  Requested(Command[c], d) \in Deployment
<1> DEFINE cmd == Command[c]
<1>1. /\ cmd.buildId \in BuildId \cup {Unversioned}
      /\ cmd.percentage \in Percent
      /\ cmd.identity \in Identity
      /\ cmd.manager \in Identity
      /\ cmd.kind \in TokenKind \cup {"create", "delete"}
  BY CommandAssumption
<1>2. d \in [exists : {TRUE}, current : BuildId \cup {Unversioned},
             ramping : BuildId \cup {Unversioned}, percentage : Percent,
             manager : Identity \cup {Nobody}]
  BY DEF Deployment
<1>3. Absent \in Deployment
  BY DEF Deployment
<1>4. Fresh \in Deployment
  BY ValueAssumption DEF Deployment, Fresh
<1>5. CASE cmd.kind \in {"current", "ramping"}
  BY <1>1, <1>2, <1>5, ValueAssumption DEF Requested, Deployment
<1>6. CASE cmd.kind \in {"manager", "unmanage"}
  BY <1>1, <1>2, <1>6 DEF Requested, Deployment
<1>7. CASE cmd.kind \in {"create", "delete"}
  BY <1>3, <1>4, <1>7 DEF Requested
<1> QED
  BY <1>1, <1>5, <1>6, <1>7 DEF TokenKind

\* A deployment that was just made is one, and not an absent one.
LEMMA FreshType == Fresh \in Deployment /\ Fresh # Absent
<1>1. Fresh \in Deployment
  BY ValueAssumption DEF Deployment, Fresh
<1>2. Fresh.exists # Absent.exists
  BY DEF Fresh, Absent
<1> QED
  BY <1>1, <1>2

\* What sending a request does: the token was current or there was none, and
\* the deployment is a new one under the next version.
LEMMA SendEffect ==
  ASSUME NEW c \in Client, TypeOK, Send(c)
  PROVE  /\ token[c] \in {0, version}
         /\ version' = version + 1
         /\ author' = {c}
         /\ deployment' \in Deployment
         /\ UNCHANGED <<token, seen, confirmed>>
         /\ \E l \in {"done", "failed"} : pc' = [pc EXCEPT ![c] = l]
<1>1. deployment' \in Deployment
  <2> DEFINE d == IF deployment = Absent THEN Fresh ELSE deployment
  <2>1. d \in Deployment /\ d # Absent
    BY FreshType DEF TypeOK
  <2>2. Requested(Command[c], d) \in Deployment
    BY <2>1, RequestedType
  <2> QED
    BY <2>2 DEF Send
<1> QED
  BY <1>1 DEF Send, Accepts, SentToken, Goto

\* Every other step of a process leaves the deployment alone, ends no process
\* with success, and changes a token only to the current version, together
\* with what was seen.
LEMMA OtherEffect ==
  ASSUME NEW c \in Client, TypeOK,
         \/ Check(c) \/ Describe(c) \/ DescribeNotFound(c) \/ CallFails(c)
         \/ \E yes \in BOOLEAN : Answer(c, yes)
  PROVE  /\ UNCHANGED <<deployment, author, version>>
         /\ confirmed' \in [Client -> BOOLEAN]
         /\ \E l \in {"describe", "prompt", "send", "failed"} : pc' = [pc EXCEPT ![c] = l]
         /\ \/ UNCHANGED <<token, seen>>
            \/ UNCHANGED token /\ deployment = Absent /\ seen' = [seen EXCEPT ![c] = {Absent}]
               /\ pc[c] = "describe"
            \/ /\ token' = [token EXCEPT ![c] = version]
               /\ seen' = [seen EXCEPT ![c] = {deployment}]
<1>1. CASE Check(c)
  BY <1>1 DEF Check, Goto, TypeOK
<1>2. CASE Describe(c)
  BY <1>2 DEF Describe, AfterDescribe, Goto, TypeOK
<1>3. CASE DescribeNotFound(c)
  BY <1>3 DEF DescribeNotFound, Goto, TypeOK
<1>4. CASE CallFails(c)
  BY <1>4 DEF CallFails, Goto, TypeOK
<1>5. CASE \E yes \in BOOLEAN : Answer(c, yes)
  BY <1>5 DEF Answer, Goto, TypeOK
<1> QED
  BY <1>1, <1>2, <1>3, <1>4, <1>5
-----------------------------------------------------------------------------
\* A process starts in the invariant.
LEMMA InitInv == Init => Inv /\ SendsToken
BY ValueAssumption DEF Init, Inv, TypeOK, TokenMeansSeen, DoneBelow, OneWinner, SendsToken

\* A change goes out with a token that was current, or with none, so its sender
\* is the first to succeed with it.
LEMMA SendInv ==
  ASSUME Inv, NEW c \in Client, Send(c)
  PROVE  Inv'
<1>1. /\ token \in [Client -> Nat]
      /\ version \in Nat \ {0}
      /\ pc \in [Client -> {"check", "describe", "prompt", "send", "done", "failed"}]
      /\ \A d \in Client : token[d] <= version /\ (pc[d] = "done" => token[d] < version)
  BY DEF Inv, TypeOK, TokenMeansSeen, DoneBelow
<1>2. /\ token[c] \in {0, version}
      /\ version' = version + 1
      /\ author' = {c}
      /\ deployment' \in Deployment
      /\ UNCHANGED <<token, seen, confirmed>>
  BY SendEffect DEF Inv
<1>3. PICK l \in {"done", "failed"} : pc' = [pc EXCEPT ![c] = l]
  BY SendEffect DEF Inv
<1>4. TypeOK'
  BY <1>1, <1>2, <1>3 DEF Inv, TypeOK
<1>5. TokenMeansSeen' /\ DoneBelow'
  BY <1>1, <1>2, <1>3 DEF TokenMeansSeen, DoneBelow
<1>6. OneWinner'
  <2>1. OneWinner
    BY DEF Inv
  <2> QED
    BY <1>1, <1>2, <1>3, <2>1 DEF OneWinner
<1> QED
  BY <1>4, <1>5, <1>6 DEF Inv

\* A token is handed out with what its holder sees.
LEMMA OtherInv ==
  ASSUME Inv, NEW c \in Client,
         \/ Check(c) \/ Describe(c) \/ DescribeNotFound(c) \/ CallFails(c)
         \/ \E yes \in BOOLEAN : Answer(c, yes)
  PROVE  Inv'
<1>1. /\ token \in [Client -> Nat]
      /\ seen \in [Client -> SUBSET Deployment]
      /\ version \in Nat \ {0}
      /\ deployment \in Deployment
      /\ author \in SUBSET Client
      /\ pc \in [Client -> {"check", "describe", "prompt", "send", "done", "failed"}]
      /\ \A d \in Client :
           /\ token[d] <= version
           /\ token[d] = version => seen[d] = {deployment}
           /\ pc[d] = "done" => token[d] < version
  BY DEF Inv, TypeOK, TokenMeansSeen, DoneBelow
<1>2. /\ UNCHANGED <<deployment, author, version>>
      /\ confirmed' \in [Client -> BOOLEAN]
      /\ \/ UNCHANGED <<token, seen>>
         \/ UNCHANGED token /\ deployment = Absent /\ seen' = [seen EXCEPT ![c] = {Absent}]
         \/ /\ token' = [token EXCEPT ![c] = version]
            /\ seen' = [seen EXCEPT ![c] = {deployment}]
  BY OtherEffect DEF Inv
<1>3. PICK l \in {"describe", "prompt", "send", "failed"} : pc' = [pc EXCEPT ![c] = l]
  BY OtherEffect DEF Inv
<1>4. TypeOK'
  BY <1>1, <1>2, <1>3 DEF TypeOK
<1>5. TokenMeansSeen'
  BY <1>1, <1>2 DEF TokenMeansSeen
<1>6. DoneBelow'
  BY <1>1, <1>2, <1>3 DEF DoneBelow
<1>7. OneWinner'
  <2>1. OneWinner
    BY DEF Inv
  <2> QED
    BY <1>1, <1>2, <1>3, <2>1 DEF OneWinner
<1> QED
  BY <1>4, <1>5, <1>6, <1>7 DEF Inv

\* Every step of the process keeps the invariant.
LEMMA StepInv == Inv /\ [Next]_vars => Inv'
<1> SUFFICES ASSUME Inv, [Next]_vars PROVE Inv'
  OBVIOUS
<1>1. CASE \E c \in Client : Send(c)
  BY <1>1, SendInv
<1>2. CASE \E c \in Client : \/ Check(c) \/ Describe(c) \/ DescribeNotFound(c) \/ CallFails(c)
                            \/ \E yes \in BOOLEAN : Answer(c, yes)
  BY <1>2, OtherInv
<1>3. CASE UNCHANGED vars
  BY <1>3 DEF vars, Inv, TypeOK, TokenMeansSeen, DoneBelow, OneWinner
<1> QED
  BY <1>1, <1>2, <1>3 DEF Next, Exited

\* The inductive invariant of the deployment commands holds always.
THEOREM Invariance == Spec => []Inv
<1>1. Init => Inv
  BY InitInv
<1>2. Inv /\ [Next]_vars => Inv'
  BY StepInv
<1> QED
  BY <1>1, <1>2, PTL DEF Spec

\* Every variable keeps its type.
THEOREM TypeCorrect == Spec => []TypeOK
<1>1. Inv => TypeOK
  BY DEF Inv
<1> QED
  BY <1>1, Invariance, PTL

\* Of the processes that looked at one state of the deployment at most one
\* succeeds in changing it.
THEOREM AtMostOneWins == Spec => []OneWinner
<1>1. Inv => OneWinner
  BY DEF Inv
<1> QED
  BY <1>1, Invariance, PTL
-----------------------------------------------------------------------------
\* A careful process left the describing step with a token.
LEMMA SendsTokenStep ==
  ASSUME TypeOK, SendsToken, [Next]_vars
  PROVE  SendsToken'
<1>1. /\ token \in [Client -> Nat]
      /\ version \in Nat \ {0}
      /\ pc \in [Client -> {"check", "describe", "prompt", "send", "done", "failed"}]
  BY DEF TypeOK
<1>2. ASSUME NEW c \in Client, Check(c) PROVE SendsToken'
  BY <1>1, <1>2 DEF Check, Goto, SendsToken, Careful
<1>3. ASSUME NEW c \in Client, Describe(c) PROVE SendsToken'
  BY <1>1, <1>3 DEF Describe, Goto, SendsToken
<1>4. ASSUME NEW c \in Client, DescribeNotFound(c) PROVE SendsToken'
  BY <1>1, <1>4 DEF DescribeNotFound, Goto, SendsToken, Careful
<1>5. ASSUME NEW c \in Client, CallFails(c) PROVE SendsToken'
  BY <1>1, <1>5 DEF CallFails, Goto, SendsToken
<1>6. ASSUME NEW c \in Client, NEW yes \in BOOLEAN, Answer(c, yes) PROVE SendsToken'
  BY <1>1, <1>6 DEF Answer, Goto, SendsToken
<1>7. ASSUME NEW c \in Client, Send(c) PROVE SendsToken'
  BY <1>1, <1>7 DEF Send, Goto, SendsToken
<1>8. CASE UNCHANGED vars
  BY <1>8 DEF vars, SendsToken
<1> QED
  BY <1>2, <1>3, <1>4, <1>5, <1>6, <1>7, <1>8 DEF Next, Exited

\* A change is the abstract change of what the process saw.
LEMMA SendRefines ==
  ASSUME Inv, SendsToken, NEW c \in Client, Send(c)
  PROVE  Record!Change(c)
<1>1. /\ token[c] \in {0, version}
      /\ deployment' \in Deployment
      /\ author' = {c}
      /\ UNCHANGED seen
  BY SendEffect DEF Inv
<1>2. c \in Careful => deployment \in seen[c]
  <2> SUFFICES ASSUME c \in Careful PROVE deployment \in seen[c]
    OBVIOUS
  <2>1. token[c] # 0
    BY DEF SendsToken, Send
  <2>2. seen[c] = {deployment}
    BY <1>1, <2>1 DEF Inv, TokenMeansSeen
  <2> QED
    BY <2>2
<1> QED
  BY <1>1, <1>2 DEF Record!Change

\* Every other step is an abstract look, or nothing.
LEMMA OtherRefines ==
  ASSUME Inv, NEW c \in Client,
         \/ Check(c) \/ Describe(c) \/ DescribeNotFound(c) \/ CallFails(c)
         \/ \E yes \in BOOLEAN : Answer(c, yes)
  PROVE  Record!Look(c) \/ UNCHANGED <<deployment, seen, author>>
BY OtherEffect DEF Inv, Record!Look

\* Every step of a process is a step of the conditional update, or none.
LEMMA StepRefines ==
  ASSUME Inv, SendsToken, [Next]_vars
  PROVE  [Record!Next]_<<deployment, seen, author>>
<1>1. CASE \E c \in Client : Send(c)
  BY <1>1, SendRefines DEF Record!Next
<1>2. CASE \E c \in Client : \/ Check(c) \/ Describe(c) \/ DescribeNotFound(c) \/ CallFails(c)
                            \/ \E yes \in BOOLEAN : Answer(c, yes)
  <2>1. PICK c \in Client : \/ Check(c) \/ Describe(c) \/ DescribeNotFound(c) \/ CallFails(c)
                           \/ \E yes \in BOOLEAN : Answer(c, yes)
    BY <1>2
  <2>2. Record!Look(c) \/ UNCHANGED <<deployment, seen, author>>
    BY <2>1, OtherRefines
  <2> QED
    BY <2>2 DEF Record!Next
<1>3. CASE UNCHANGED vars
  BY <1>3 DEF vars
<1> QED
  BY <1>1, <1>2, <1>3 DEF Next, Exited

\* A careful process changes only the deployment it looked at: the commands
\* implement the conditional update.
THEOREM DeploymentImplementsConditionalUpdate == Spec => ImplementsConditionalUpdate
<1>1. Init => Record!Init /\ SendsToken
  BY InitInv, ValueAssumption DEF Init, Record!Init
<1>2. TypeOK /\ SendsToken /\ [Next]_vars => SendsToken'
  BY SendsTokenStep
<1>3. Inv /\ SendsToken /\ [Next]_vars => [Record!Next]_<<deployment, seen, author>>
  BY StepRefines
<1>4. Inv => TypeOK
  BY DEF Inv
<1> QED
  BY <1>1, <1>2, <1>3, <1>4, Invariance, PTL DEF Spec, ImplementsConditionalUpdate, Record!Spec
-----------------------------------------------------------------------------
\* A process gets to the sending step past the question, by --yes, or past a
\* deployment that it found missing.
LEMMA SendsAgreedStep ==
  ASSUME TypeOK, SendsAgreed, [Next]_vars
  PROVE  SendsAgreed'
<1>1. /\ confirmed \in [Client -> BOOLEAN]
      /\ seen \in [Client -> SUBSET Deployment]
      /\ pc \in [Client -> {"check", "describe", "prompt", "send", "done", "failed"}]
  BY DEF TypeOK
<1>2. ASSUME NEW c \in Client, Check(c) PROVE SendsAgreed'
  BY <1>1, <1>2 DEF Check, Goto, SendsAgreed, Agreed
<1>3. ASSUME NEW c \in Client, Describe(c) PROVE SendsAgreed'
  BY <1>1, <1>3 DEF Describe, AfterDescribe, Goto, SendsAgreed, Agreed
<1>4. ASSUME NEW c \in Client, DescribeNotFound(c) PROVE SendsAgreed'
  BY <1>1, <1>4 DEF DescribeNotFound, Goto, SendsAgreed, Agreed
<1>5. ASSUME NEW c \in Client, CallFails(c) PROVE SendsAgreed'
  BY <1>1, <1>5 DEF CallFails, Goto, SendsAgreed, Agreed
<1>6. ASSUME NEW c \in Client, NEW yes \in BOOLEAN, Answer(c, yes) PROVE SendsAgreed'
  BY <1>1, <1>6 DEF Answer, Goto, SendsAgreed, Agreed
<1>7. ASSUME NEW c \in Client, Send(c) PROVE SendsAgreed'
  BY <1>1, <1>7 DEF Send, Goto, SendsAgreed, Agreed
<1>8. CASE UNCHANGED vars
  BY <1>8 DEF vars, SendsAgreed, Agreed
<1> QED
  BY <1>2, <1>3, <1>4, <1>5, <1>6, <1>7, <1>8 DEF Next, Exited

\* Nobody changes a deployment that exists without --yes or an answer.
THEOREM ChangesAreConfirmed == Spec => []ChangesConfirmed
<1>1. Init => SendsAgreed
  BY DEF Init, SendsAgreed
<1>2. TypeOK /\ SendsAgreed /\ [Next]_vars => SendsAgreed'
  BY SendsAgreedStep
<1>3. SendsAgreed => ChangesConfirmed
  BY DEF SendsAgreed, Agreed, ChangesConfirmed
<1> QED
  BY <1>1, <1>2, <1>3, TypeCorrect, PTL DEF Spec
=============================================================================
