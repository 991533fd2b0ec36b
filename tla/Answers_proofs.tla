---------------------------- MODULE Answers_proofs ----------------------------
(***************************************************************************)
(* What commands make of the server's answers, for all values of the       *)
(* constants: the versioning rules of a task queue, nexus endpoints, the   *)
(* histories and results of workflow execute, result and show, the states  *)
(* of a workflow trace, lists, waiting for an outcome, and the frames of a *)
(* trace. The parts share nothing but this module; each is reached by its  *)
(* instance.                                                               *)
(*                                                                         *)
(* Rules and endpoints are changed under a token or a version. The         *)
(* invariants say that a token that is still current stands for the rules  *)
(* its holder was shown, which holds because every change makes all tokens *)
(* stale. The invariant of histories relates the event that comes next to  *)
(* the one shown last; it survives the workflow's own steps because a run  *)
(* that has closed, and with it the kind of an event, never changes. That  *)
(* of states relates each one to what was said of it so far, and that of a *)
(* child to the fields that each of its two jobs has written: none of a    *)
(* job's last writes is undone by the other but the status, by the status  *)
(* that the other has to tell. That of lists counts the rows that are      *)
(* handled, printed or not; that of the screen relates the rows on the     *)
(* terminal to the lines that the writer will clear.                       *)
(***************************************************************************)
EXTENDS Answers, SequenceOperators, SequenceTheorems, WellFoundedInduction, TLAPS

-----------------------------------------------------------------------------
(* Sequences: what is proved of all numbers and all sequences is proved as  *)
(* a fact about a set that has them all. Nothing is known to the provers of *)
(* SelectSeq, so rules are kept with Filtered.                              *)

\* A set with 0, and with the number after any of its numbers, has them all.
LEMMA NumberSet ==
  ASSUME NEW S, 0 \in S, \A n \in Nat : n \in S => n + 1 \in S
  PROVE  \A n \in Nat : n \in S
<1> SUFFICES ASSUME Nat \ S # {} PROVE FALSE
  OBVIOUS
<1>1. OpToRel(<, Nat) = {ss \in Nat \X Nat : ss[1] < ss[2]}
  BY Zenon DEF OpToRel
<1>2. PICK m \in Nat \ S : \A n \in Nat \ S : <<n, m>> \notin OpToRel(<, Nat)
  BY NatLessThanWellFounded, WFMin
<1>3. m # 0 /\ m - 1 \in Nat /\ m = (m - 1) + 1
  OBVIOUS
<1>4. m - 1 \in S
  <2>1. <<m - 1, m>> \in {ss \in Nat \X Nat : ss[1] < ss[2]}
    BY <1>3
  <2> QED
    BY <1>1, <1>2, <1>3, <2>1
<1> QED
  BY <1>3, <1>4

\* A set with the empty sequence, and with any that is one element longer than
\* one of its sequences, has all sequences.
LEMMA SequenceSet ==
  ASSUME NEW T, NEW S, <<>> \in S,
         \A s \in Seq(T) : \A e \in T : s \in S => Append(s, e) \in S
  PROVE  \A s \in Seq(T) : s \in S
<1> DEFINE L == {n \in Nat : \A s \in Seq(T) : Len(s) = n => s \in S}
<1>1. 0 \in L
  OBVIOUS
<1>2. ASSUME NEW n \in Nat, n \in L PROVE n + 1 \in L
  <2> SUFFICES ASSUME NEW s \in Seq(T), Len(s) = n + 1 PROVE s \in S
    OBVIOUS
  <2> DEFINE front == SubSeq(s, 1, n)
  <2>1. front \in Seq(T) /\ Len(front) = n /\ s[n + 1] \in T
    OBVIOUS
  <2>2. s = Append(front, s[n + 1])
    OBVIOUS
  <2>3. front \in S
    BY <1>2, <2>1
  <2> HIDE DEF front
  <2> QED
    BY <2>1, <2>2, <2>3
<1>3. \A n \in Nat : n \in L
  <2> HIDE DEF L
  <2> QED
    BY <1>1, <1>2, NumberSet, Zenon
<1> QED
  BY <1>3

\* upTo, for the first k elements.
IsFilter(f, s, set, k) ==
  f = [n \in 0..k |-> IF n = 0 THEN <<>>
                      ELSE IF s[n] \in set THEN Append(f[n - 1], s[n]) ELSE f[n - 1]]

\* Its values, one by one.
LEMMA FilterSteps ==
  ASSUME NEW f, NEW s, NEW set, NEW k \in Nat, IsFilter(f, s, set, k)
  PROVE  /\ f[0] = <<>>
         /\ \A n \in Nat : n < k =>
              f[n + 1] = IF s[n + 1] \in set THEN Append(f[n], s[n + 1]) ELSE f[n]
<1>1. \A m \in 0..k : f[m] = IF m = 0 THEN <<>>
                            ELSE IF s[m] \in set THEN Append(f[m - 1], s[m]) ELSE f[m - 1]
  BY DEF IsFilter
<1>2. ASSUME NEW n \in Nat, n < k
      PROVE  f[n + 1] = IF s[n + 1] \in set THEN Append(f[n], s[n + 1]) ELSE f[n]
  <2>1. n + 1 \in 0..k /\ n + 1 # 0 /\ (n + 1) - 1 = n
    BY <1>2
  <2> QED
    BY <1>1, <2>1
<1> QED
  BY <1>1, <1>2

\* There is such a function.
LEMMA FilterExists ==
  ASSUME NEW s, NEW set
  PROVE  \A k \in Nat : \E f : IsFilter(f, s, set, k)
<1> DEFINE S == {k \in Nat : \E f : IsFilter(f, s, set, k)}
<1>1. 0 \in S
  <2>1. IsFilter([n \in 0..0 |-> <<>>], s, set, 0)
    BY DEF IsFilter
  <2> QED
    BY <2>1
<1>2. ASSUME NEW k \in Nat, k \in S PROVE k + 1 \in S
  <2>1. PICK f : IsFilter(f, s, set, k)
    BY <1>2
  <2> DEFINE last == IF s[k + 1] \in set THEN Append(f[k], s[k + 1]) ELSE f[k]
  <2> DEFINE g == [n \in 0..(k + 1) |-> IF n = k + 1 THEN last ELSE f[n]]
  <2>2. ASSUME NEW n \in 0..(k + 1)
        PROVE  g[n] = IF n = 0 THEN <<>>
                      ELSE IF s[n] \in set THEN Append(g[n - 1], s[n]) ELSE g[n - 1]
    <3>1. CASE n = k + 1
      BY <3>1
    <3>2. CASE n \in 0..k
      <4>1. n # 0 => n - 1 \in 0..k
        BY <3>2
      <4>2. f[n] = IF n = 0 THEN <<>>
                   ELSE IF s[n] \in set THEN Append(f[n - 1], s[n]) ELSE f[n - 1]
        BY <2>1, <3>2 DEF IsFilter
      <4> QED
        BY <3>2, <4>1, <4>2
    <3> QED
      BY <3>1, <3>2
  <2>3. IsFilter(g, s, set, k + 1)
    BY <2>2 DEF IsFilter
  <2> QED
    BY <2>3
<1> HIDE DEF S
<1>3. \A n \in Nat : n \in S
  BY <1>1, <1>2, NumberSet, Zenon
<1> QED
  BY <1>3 DEF S

\* Filtered takes it.
LEMMA FilteredByFunction ==
  ASSUME NEW T, NEW s \in Seq(T), NEW set
  PROVE  \E f : IsFilter(f, s, set, Len(s)) /\ Filtered(s, set) = f[Len(s)]
<1> DEFINE F == CHOOSE f : IsFilter(f, s, set, Len(s))
<1>1. Len(s) \in Nat
  OBVIOUS
<1>2. IsFilter(F, s, set, Len(s))
  BY <1>1, FilterExists, Zenon
<1>3. Filtered(s, set) = F[Len(s)]
  BY DEF Filtered, IsFilter
<1> QED
  BY <1>2, <1>3

\* Nothing is kept of nothing.
LEMMA FilteredEmpty == ASSUME NEW set PROVE Filtered(<<>>, set) = <<>>
<1>1. PICK f : IsFilter(f, <<>>, set, Len(<<>>)) /\ Filtered(<<>>, set) = f[Len(<<>>)]
  <2>1. <<>> \in Seq({})
    OBVIOUS
  <2> QED
    BY <2>1, FilteredByFunction
<1> QED
  BY <1>1 DEF IsFilter

\* An element at the end is kept at the end, or not at all.
LEMMA FilteredAppend ==
  ASSUME NEW T, NEW s \in Seq(T), NEW e \in T, NEW set
  PROVE  Filtered(Append(s, e), set) =
           IF e \in set THEN Append(Filtered(s, set), e) ELSE Filtered(s, set)
<1> DEFINE a == Append(s, e)
<1>1. a \in Seq(T) /\ Len(a) = Len(s) + 1 /\ a[Len(s) + 1] = e /\ Len(s) \in Nat
  OBVIOUS
<1>2. \A n \in 1..Len(s) : a[n] = s[n]
  OBVIOUS
<1> HIDE DEF a
<1>3. PICK f : IsFilter(f, s, set, Len(s)) /\ Filtered(s, set) = f[Len(s)]
  BY FilteredByFunction
<1>4. PICK g : IsFilter(g, a, set, Len(a)) /\ Filtered(a, set) = g[Len(a)]
  BY <1>1, FilteredByFunction
<1> DEFINE S == {n \in Nat : n <= Len(s) => f[n] = g[n]}
<1>5. 0 \in S
  BY <1>1, <1>3, <1>4 DEF IsFilter
<1>6. ASSUME NEW n \in Nat, n \in S PROVE n + 1 \in S
  <2> SUFFICES ASSUME n + 1 <= Len(s) PROVE f[n + 1] = g[n + 1]
    OBVIOUS
  <2>1. f[n] = g[n] /\ a[n + 1] = s[n + 1] /\ n + 1 \in 0..Len(s) /\ n + 1 \in 0..Len(a)
    BY <1>1, <1>2, <1>6
  <2>2. f[n + 1] = IF s[n + 1] \in set THEN Append(f[n], s[n + 1]) ELSE f[n]
    BY <1>1, <1>3, FilterSteps
  <2>3. g[n + 1] = IF a[n + 1] \in set THEN Append(g[n], a[n + 1]) ELSE g[n]
    BY <1>1, <1>4, <2>1, FilterSteps
  <2> QED
    BY <2>1, <2>2, <2>3
<1>7. f[Len(s)] = g[Len(s)]
  <2>1. \A n \in Nat : n \in S
    <3> HIDE DEF S
    <3> QED
      BY <1>5, <1>6, NumberSet, Zenon
  <2> QED
    BY <1>1, <2>1
<1>8. g[Len(a)] = IF e \in set THEN Append(g[Len(s)], e) ELSE g[Len(s)]
  BY <1>1, <1>4, FilterSteps
<1> QED
  BY <1>3, <1>4, <1>7, <1>8 DEF a

\* What is kept is in the set.
LEMMA FilteredType ==
  ASSUME NEW T, NEW set
  PROVE  \A s \in Seq(T) : Filtered(s, set) \in Seq(T \cap set)
<1> DEFINE S == {s \in Seq(T) : Filtered(s, set) \in Seq(T \cap set)}
<1>1. <<>> \in S
  <2>1. <<>> \in Seq(T) /\ <<>> \in Seq(T \cap set)
    OBVIOUS
  <2> QED
    BY FilteredEmpty, <2>1
<1>2. ASSUME NEW s \in Seq(T), NEW e \in T, s \in S PROVE Append(s, e) \in S
  <2>1. Filtered(Append(s, e), set) =
          IF e \in set THEN Append(Filtered(s, set), e) ELSE Filtered(s, set)
    BY FilteredAppend
  <2> QED
    BY <1>2, <2>1
<1> HIDE DEF S
<1>3. \A s \in Seq(T) : s \in S
  BY <1>1, <1>2, SequenceSet, Zenon
<1> QED
  BY <1>3 DEF S

\* An element after two sequences.
LEMMA AppendConcat ==
  ASSUME NEW T
  PROVE  \A s, t \in Seq(T) : \A e \in T : Append(s \o t, e) = s \o Append(t, e)
OBVIOUS

\* What is kept of two sequences, one after the other.
LEMMA FilteredConcat ==
  ASSUME NEW T, NEW s \in Seq(T), NEW set
  PROVE  \A t \in Seq(T) : Filtered(s \o t, set) = Filtered(s, set) \o Filtered(t, set)
<1> DEFINE S == {t \in Seq(T) : Filtered(s \o t, set) = Filtered(s, set) \o Filtered(t, set)}
<1>0. Filtered(s, set) \in Seq(T \cap set)
  BY FilteredType
<1>1. <<>> \in S
  <2>1. s \o <<>> = s /\ Filtered(s, set) \o <<>> = Filtered(s, set)
    BY <1>0
  <2> QED
    BY FilteredEmpty, <2>1, EmptySeq
<1>2. ASSUME NEW t \in Seq(T), NEW e \in T, t \in S PROVE Append(t, e) \in S
  <2>1. Filtered(Append(t, e), set) =
          IF e \in set THEN Append(Filtered(t, set), e) ELSE Filtered(t, set)
    BY FilteredAppend
  <2>2. s \o t \in Seq(T) /\ s \o Append(t, e) = Append(s \o t, e)
    OBVIOUS
  <2>3. Filtered(Append(s \o t, e), set) =
          IF e \in set THEN Append(Filtered(s \o t, set), e) ELSE Filtered(s \o t, set)
    BY <2>2, FilteredAppend
  <2>4. Filtered(t, set) \in Seq(T \cap set)
    BY FilteredType
  <2>5. e \in set => Append(Filtered(s, set) \o Filtered(t, set), e)
                       = Filtered(s, set) \o Append(Filtered(t, set), e)
    <3>1. \A u, v \in Seq(T \cap set) : \A x \in T \cap set : Append(u \o v, x) = u \o Append(v, x)
      BY AppendConcat
    <3>2. e \in set => e \in T \cap set
      OBVIOUS
    <3> QED
      BY <1>0, <2>4, <3>1, <3>2, Zenon
  <2>6. Append(t, e) \in Seq(T)
    OBVIOUS
  <2>7. Filtered(s \o Append(t, e), set) = Filtered(s, set) \o Filtered(Append(t, e), set)
    <3>1. CASE e \in set
      BY <1>2, <2>1, <2>2, <2>3, <2>5, <3>1, Zenon
    <3>2. CASE e \notin set
      BY <1>2, <2>1, <2>2, <2>3, <3>2, Zenon
    <3> QED
      BY <3>1, <3>2
  <2> QED
    BY <2>6, <2>7
<1> HIDE DEF S
<1>3. \A t \in Seq(T) : t \in S
  BY <1>1, <1>2, SequenceSet, Zenon
<1> QED
  BY <1>3 DEF S
-----------------------------------------------------------------------------
(* Versioning rules.                                                       *)

\* A token that is still current stands for the rules its holder was shown.
TokenMeansShown == \A u \in User : token[u] = edition => shown[u] = {rules}

RulesInv ==
  /\ Rules!TypeOK
  /\ token \in [User -> Nat] /\ shown \in [User -> SUBSET Rules!Rules]
  /\ TokenMeansShown

\* A part of a sequence of rules is one, and so are two after each other.
LEMMA PartType ==
  ASSUME NEW T
  PROVE  /\ \A s \in Seq(T) : \A i \in 1..(Len(s) + 1) : \A j \in 0..Len(s) : SubSeq(s, i, j) \in Seq(T)
         /\ \A s, t \in Seq(T) : s \o t \in Seq(T)
         /\ \A e \in T : <<e>> \in Seq(T)
<1>1. ASSUME NEW s \in Seq(T), NEW i \in 1..(Len(s) + 1), NEW j \in 0..Len(s)
      PROVE  SubSeq(s, i, j) \in Seq(T)
  <2>1. CASE i <= j
    BY <2>1
  <2>2. CASE i > j
    <3>1. SubSeq(s, i, j) = <<>>
      BY <2>2, SubSeqEmpty
    <3> QED
      BY <3>1
  <2> QED
    BY <2>1, <2>2
<1> QED
  BY <1>1

\* The server's rules stay rules, whatever change it is asked for and can do.
LEMMA ChangedType ==
  ASSUME Rules!ConstantsTyped, NEW c \in Changes, NEW r \in Rules!Rules, Rules!Possible(r, c)
  PROVE  Rules!Changed(r, c) \in Rules!Rules
<1> DEFINE Rule == [target : Rules!BuildIds, ramp : 0..Rules!Full]
<1>1. /\ c.kind \in {"insertAssignment", "replaceAssignment", "deleteAssignment", "addRedirect",
                     "replaceRedirect", "deleteRedirect", "commit"}
      /\ c.index \in Nat /\ c.percentage \in 0..Rules!Full
      /\ c.buildId \in Rules!BuildIds /\ c.source \in Rules!BuildIds
  BY DEF Rules!ConstantsTyped
<1>2. /\ r = [assign |-> r.assign, redirect |-> r.redirect]
      /\ r.assign \in Seq(Rule)
      /\ r.redirect \in SUBSET [source : Rules!BuildIds, target : Rules!BuildIds]
  BY DEF Rules!Rules
<1>3. /\ Rules!Assign(c.buildId, c.percentage) \in Rule
      /\ Rules!Assign(c.buildId, Rules!Full) \in Rule
  BY <1>1 DEF Rules!Assign, Rules!Full
<1>4. \A s \in Seq(Rule) : [r EXCEPT !.assign = s] \in Rules!Rules
  BY <1>2 DEF Rules!Rules
<1>5. CASE c.kind = "insertAssignment"
  <2>1. \A i \in 1..(Len(r.assign) + 1) : \A e \in Rule : Rules!InsertAt(r.assign, i, e) \in Seq(Rule)
    <3> SUFFICES ASSUME NEW i \in 1..(Len(r.assign) + 1), NEW e \in Rule
                 PROVE  Rules!InsertAt(r.assign, i, e) \in Seq(Rule)
      OBVIOUS
    <3>1. SubSeq(r.assign, 1, i - 1) \in Seq(Rule) /\ SubSeq(r.assign, i, Len(r.assign)) \in Seq(Rule)
      <4>1. 1 \in 1..(Len(r.assign) + 1) /\ i - 1 \in 0..Len(r.assign) /\ Len(r.assign) \in 0..Len(r.assign)
        BY <1>2
      <4> QED
        BY <1>2, <4>1, PartType, Zenon
    <3> QED
      BY <3>1, PartType DEF Rules!InsertAt
  <2> DEFINE position == IF c.index > Len(r.assign) THEN Len(r.assign) + 1 ELSE c.index + 1
  <2>2. position \in 1..(Len(r.assign) + 1)
    BY <1>1, <1>2
  <2>3. Rules!InsertAt(r.assign, position, Rules!Assign(c.buildId, c.percentage)) \in Seq(Rule)
    BY <1>3, <2>1, <2>2
  <2>4. [r EXCEPT !.assign =
           Rules!InsertAt(r.assign, position, Rules!Assign(c.buildId, c.percentage))] \in Rules!Rules
    BY <1>4, <2>3
  <2> QED
    BY <1>5, <2>4 DEF Rules!Changed, Rules!InsertAssignmentRule
<1>6. CASE c.kind = "replaceAssignment"
  <2>1. c.index + 1 \in 1..Len(r.assign)
    BY <1>1, <1>2, <1>6 DEF Rules!Possible, Rules!InRange
  <2>2. [r.assign EXCEPT ![c.index + 1] = Rules!Assign(c.buildId, c.percentage)] \in Seq(Rule)
    BY <1>2, <1>3, <2>1
  <2> QED
    BY <1>2, <1>4, <1>6, <2>2 DEF Rules!Changed, Rules!ReplaceAssignmentRule
<1>7. CASE c.kind = "deleteAssignment"
  <2>1. c.index + 1 \in 1..Len(r.assign)
    BY <1>1, <1>2, <1>7 DEF Rules!Possible, Rules!InRange
  <2>2. Rules!RemoveAt(r.assign, c.index + 1) \in Seq(Rule)
    <3>1. /\ SubSeq(r.assign, 1, (c.index + 1) - 1) \in Seq(Rule)
          /\ SubSeq(r.assign, (c.index + 1) + 1, Len(r.assign)) \in Seq(Rule)
      <4>1. /\ 1 \in 1..(Len(r.assign) + 1) /\ (c.index + 1) - 1 \in 0..Len(r.assign)
            /\ (c.index + 1) + 1 \in 1..(Len(r.assign) + 1) /\ Len(r.assign) \in 0..Len(r.assign)
        BY <1>1, <1>2, <2>1
      <4> QED
        BY <1>2, <4>1, PartType, Zenon
    <3> QED
      BY <3>1, PartType DEF Rules!RemoveAt
  <2> QED
    BY <1>2, <1>4, <1>7, <2>2 DEF Rules!Changed, Rules!DeleteAssignmentRule
<1>8. CASE c.kind \in {"addRedirect", "replaceRedirect"}
  BY <1>1, <1>2, <1>8 DEF Rules!Changed, Rules!SetRedirectRule, Rules!Rules
<1>9. CASE c.kind = "deleteRedirect"
  BY <1>1, <1>2, <1>9 DEF Rules!Changed, Rules!DeleteRedirectRule, Rules!Rules
<1>10. CASE c.kind = "commit"
  <2> DEFINE kept == {rule \in Rules!ToSet(r.assign) :
                        rule.target # c.buildId /\ rule.ramp # Rules!Full}
  <2>1. Filtered(r.assign, kept) \in Seq(Rule \cap kept)
    BY <1>2, FilteredType
  <2>2. Rules!Filtered(r.assign, kept) = Filtered(r.assign, kept)
    BY DEF Rules!Filtered, Filtered
  <2>3. Rules!Filtered(r.assign, kept) \in Seq(Rule)
    <3>1. Rule \cap kept \subseteq Rule
      OBVIOUS
    <3>2. Filtered(r.assign, kept) \in Seq(Rule)
      BY <2>1, <3>1, SeqMonotonic, Zenon
    <3> QED
      BY <2>2, <3>2, Zenon
  <2>4. Append(Rules!Filtered(r.assign, kept), Rules!Assign(c.buildId, Rules!Full)) \in Seq(Rule)
    BY <1>3, <2>3
  <2> QED
    BY <1>2, <1>4, <1>10, <2>4 DEF Rules!Changed, Rules!CommitBuildId
<1> QED
  BY <1>1, <1>5, <1>6, <1>7, <1>8, <1>9, <1>10

\* A process that has read no rules has no token, which no rules have.
LEMMA RulesInit ==
  ASSUME Rules!ConstantsTyped, Rules!Init
  PROVE  RulesInv
BY DEF Rules!ConstantsTyped, Rules!Init, RulesInv, Rules!TypeOK, TokenMeansShown

\* A step of any process keeps the invariant: a change makes all tokens stale.
LEMMA RulesStep ==
  ASSUME Rules!ConstantsTyped, RulesInv, [Rules!Next]_Rules!rulesVars
  PROVE  RulesInv'
<1> USE DEF RulesInv, Rules!TypeOK, TokenMeansShown
<1>1. CASE UNCHANGED Rules!rulesVars
  BY <1>1 DEF Rules!rulesVars
<1>2. ASSUME NEW u \in User, Rules!ReadRules(u) PROVE RulesInv'
  BY <1>2 DEF Rules!ReadRules, Rules!Move
<1>3. ASSUME NEW u \in User, Rules!Answer(u) PROVE RulesInv'
  BY <1>3 DEF Rules!Answer, Rules!Move
<1>4. ASSUME NEW u \in User, Rules!UpdateBuildIdRules(u) PROVE RulesInv'
  <2>1. Rules!Changed(rules, wants[u]) \in Rules!Rules
    BY <1>4, ChangedType DEF Rules!UpdateBuildIdRules
  <2>2. \A v \in User : token[v] # edition'
    BY <1>4 DEF Rules!UpdateBuildIdRules
  <2> QED
    BY <1>4, <2>1, <2>2 DEF Rules!UpdateBuildIdRules, Rules!Move
<1>5. ASSUME NEW u \in User, Rules!Fail(u) PROVE RulesInv'
  BY <1>5 DEF Rules!Fail, Rules!Move
<1> QED
  BY <1>1, <1>2, <1>3, <1>4, <1>5 DEF Rules!Next

\* Whatever the processes of task-queue versioning are asked for, the
\* server's rules stay a list of assignment rules and a set of redirect rules
\* between known build IDs, and a process has a token only with the rules it
\* was shown.
THEOREM RulesTypeCorrect == ASSUME Rules!ConstantsTyped PROVE Rules!Spec => []Rules!TypeOK
<1>1. Rules!Init => RulesInv
  BY RulesInit
<1>2. RulesInv /\ [Rules!Next]_Rules!rulesVars => RulesInv'
  BY RulesStep
<1>3. RulesInv => Rules!TypeOK
  BY DEF RulesInv
<1> QED
  BY <1>1, <1>2, <1>3, PTL DEF Rules!Spec

\* Such a step is one of the abstract update, or changes nothing of it.
LEMMA RulesStepSeen ==
  ASSUME RulesInv, RulesInv', [Rules!Next]_Rules!rulesVars
  PROVE  [Rules!Record!Next]_<<rules, shown, ruler>>
<1>1. CASE UNCHANGED Rules!rulesVars
  BY <1>1 DEF Rules!rulesVars
<1>2. ASSUME NEW u \in User, Rules!ReadRules(u) PROVE Rules!Record!Look(u)
  BY <1>2 DEF Rules!ReadRules, Rules!Record!Look
<1>3. ASSUME NEW u \in User, Rules!Answer(u) \/ Rules!Fail(u)
      PROVE  UNCHANGED <<rules, shown, ruler>>
  BY <1>3 DEF Rules!Answer, Rules!Fail
<1>4. ASSUME NEW u \in User, Rules!UpdateBuildIdRules(u) PROVE Rules!Record!Change(u)
  BY <1>4 DEF Rules!UpdateBuildIdRules, Rules!Record!Change, RulesInv, TokenMeansShown,
              Rules!TypeOK
<1> QED
  BY <1>1, <1>2, <1>3, <1>4 DEF Rules!Next, Rules!Record!Next

\* updateBuildIdRules changes rules only when they are the very list that its
\* user was shown and answered for, however many processes change them at the
\* same time: the versioning rules implement the abstract conditional update.
THEOREM RulesChangedAsShown ==
  ASSUME Rules!ConstantsTyped PROVE Rules!Spec => Rules!ChangedAsShown
<1>1. Rules!Init => RulesInv /\ Rules!Record!Init
  BY RulesInit DEF Rules!ConstantsTyped, Rules!Init, Rules!Record!Init
<1>2. RulesInv /\ [Rules!Next]_Rules!rulesVars => RulesInv'
  BY RulesStep
<1>3. RulesInv /\ RulesInv' /\ [Rules!Next]_Rules!rulesVars
        => [Rules!Record!Next]_<<rules, shown, ruler>>
  BY RulesStepSeen
<1> QED
  BY <1>1, <1>2, <1>3, PTL DEF Rules!Spec, Rules!ChangedAsShown, Rules!Record!Spec

-----------------------------------------------------------------------------
(* Nexus endpoints.                                                        *)

\* A version that is still current stands for the endpoint its holder read,
\* and whoever has no version has read nothing.
VersionMeansRead ==
  \A c \in Endpoint!Process :
    /\ looked[c] = version => held[c] = {endpoint}
    /\ looked[c] = 0 <=> held[c] = {}

\* What was checked before a request is sent.
Checked ==
  \A c \in Endpoint!Process :
    /\ asks[c].kind = "create" => place[c] # "look"
    /\ asks[c].kind = "create" /\ place[c] = "send" => Endpoint!ValidTarget(asks[c])
    /\ asks[c].kind = "update" /\ place[c] \in {"look", "send"} => Endpoint!ValidUpdate(asks[c])
    /\ asks[c].kind = "update" /\ place[c] = "send" =>
         \A old \in held[c] : ~Endpoint!HalfTarget(asks[c], old.target)

EndpointInv ==
  /\ asks \in [Endpoint!Process -> Edits \cup {Creation}]
  /\ \A c \in Endpoint!Process : asks[c] = Creation <=> c \in Creator
  /\ endpoint \in Endpoint!Endpoints \cup {Endpoint!Absent}
  /\ version \in Nat \ {0}
  /\ place \in [Endpoint!Process -> {"check", "look", "send", "done", "failed"}]
  /\ looked \in [Endpoint!Process -> Nat] /\ \A c \in Endpoint!Process : looked[c] <= version
  /\ held \in [Endpoint!Process -> SUBSET Endpoint!Endpoints]
  /\ VersionMeansRead /\ Checked

\* An endpoint has a worker's target or an external one, whole.
LEMMA EndpointType ==
  ASSUME Endpoint!ConstantsTyped, NEW e \in Endpoint!Endpoints
  PROVE  /\ e # Endpoint!Absent
         /\ e.description \in Description \cup {Endpoint!None}
         /\ \/ /\ e.target.url = Endpoint!None
               /\ e.target.namespace \in Namespace /\ e.target.taskQueue \in TaskQueue
            \/ /\ e.target.url \in Url /\ e.target.url # Endpoint!None
               /\ e.target = Endpoint!External(e.target.url)
               /\ e.target.namespace = Endpoint!None /\ e.target.taskQueue = Endpoint!None
<1>1. PICK d \in Description \cup {Endpoint!None},
           t \in {Endpoint!External(u) : u \in Url}
                   \cup {Endpoint!Worker(n, q) : n \in Namespace, q \in TaskQueue} :
             e = Endpoint!Endpoint(d, t)
  BY DEF Endpoint!Endpoints
<1>2. e.exists = TRUE /\ e.description = d /\ e.target = t
  BY <1>1 DEF Endpoint!Endpoint
<1>3. e # Endpoint!Absent
  BY <1>2 DEF Endpoint!Absent
<1>4. CASE t \in {Endpoint!External(u) : u \in Url}
  BY <1>2, <1>3, <1>4 DEF Endpoint!External, Endpoint!ConstantsTyped
<1>5. CASE t \in {Endpoint!Worker(n, q) : n \in Namespace, q \in TaskQueue}
  BY <1>2, <1>3, <1>5 DEF Endpoint!Worker, Endpoint!ConstantsTyped
<1> QED
  BY <1>4, <1>5

\* Such a target makes an endpoint.
LEMMA EndpointMade ==
  ASSUME NEW d \in Description \cup {Endpoint!None}
  PROVE  /\ \A u \in Url : Endpoint!Endpoint(d, Endpoint!External(u)) \in Endpoint!Endpoints
         /\ \A n \in Namespace, q \in TaskQueue :
              Endpoint!Endpoint(d, Endpoint!Worker(n, q)) \in Endpoint!Endpoints
BY DEF Endpoint!Endpoints

\* What a process was asked to do.
LEMMA AskType ==
  ASSUME Endpoint!ConstantsTyped, EndpointInv, NEW c \in Endpoint!Process
  PROVE  /\ asks[c].description \in Description \cup {Endpoint!None} /\ asks[c].unset \in BOOLEAN
         /\ asks[c].namespace \in Namespace \cup {Endpoint!None}
         /\ asks[c].taskQueue \in TaskQueue \cup {Endpoint!None}
         /\ asks[c].url \in Url \cup {Endpoint!None}
         /\ \/ asks[c].kind = "create" /\ c \in Creator
            \/ asks[c].kind \in {"update", "delete"} /\ c \notin Creator
<1>1. asks[c] \in Edits \cup {Creation}
  BY DEF EndpointInv
<1>2. CASE asks[c] = Creation
  BY <1>2 DEF EndpointInv, Endpoint!ConstantsTyped, Endpoint!Asks
<1>3. CASE asks[c] # Creation
  BY <1>1, <1>3 DEF EndpointInv, Endpoint!ConstantsTyped, Endpoint!Asks, Endpoint!Process
<1> QED
  BY <1>2, <1>3

\* A patched endpoint is one: it never mixes a worker's target with a URL, nor
\* half of one with nothing.
LEMMA PatchedType ==
  ASSUME Endpoint!ConstantsTyped, EndpointInv, NEW c \in Endpoint!Process,
         asks[c].kind = "update", place[c] = "send", NEW old \in held[c]
  PROVE  Endpoint!Patched(asks[c], old) \in Endpoint!Endpoints
<1> DEFINE ask == asks[c]
<1>1. /\ old \in Endpoint!Endpoints /\ Endpoint!ValidUpdate(ask)
      /\ ~Endpoint!HalfTarget(ask, old.target)
  BY DEF EndpointInv, Checked
<1> DEFINE description == IF ask.unset THEN Endpoint!None
                          ELSE IF ask.description # Endpoint!None THEN ask.description
                          ELSE old.description
<1>2. description \in Description \cup {Endpoint!None}
  BY <1>1, AskType, EndpointType
<1> DEFINE namespace == IF ask.namespace # Endpoint!None THEN ask.namespace ELSE old.target.namespace
<1> DEFINE taskQueue == IF ask.taskQueue # Endpoint!None THEN ask.taskQueue ELSE old.target.taskQueue
<1>3. CASE ask.url # Endpoint!None
  <2>1. Endpoint!Patched(ask, old) = Endpoint!Endpoint(description, Endpoint!External(ask.url))
    BY <1>3 DEF Endpoint!Patched
  <2> QED
    BY <1>2, <1>3, <2>1, AskType, EndpointMade
<1>4. CASE ask.url = Endpoint!None /\ (ask.namespace # Endpoint!None \/ ask.taskQueue # Endpoint!None)
  <2>1. Endpoint!Patched(ask, old) = Endpoint!Endpoint(description, Endpoint!Worker(namespace, taskQueue))
    BY <1>4 DEF Endpoint!Patched
  <2>2. namespace \in Namespace /\ taskQueue \in TaskQueue
    BY <1>1, <1>4, AskType, EndpointType DEF Endpoint!HalfTarget
  <2> QED
    BY <1>2, <2>1, <2>2, EndpointMade
<1>5. CASE ask.url = Endpoint!None /\ ask.namespace = Endpoint!None /\ ask.taskQueue = Endpoint!None
  <2>1. Endpoint!Patched(ask, old) = Endpoint!Endpoint(description, old.target)
    BY <1>5 DEF Endpoint!Patched
  <2>2. old.target \in {Endpoint!External(u) : u \in Url}
                         \cup {Endpoint!Worker(n, q) : n \in Namespace, q \in TaskQueue}
    BY <1>1 DEF Endpoint!Endpoints, Endpoint!Endpoint
  <2> QED
    BY <1>2, <2>1, <2>2 DEF Endpoint!Endpoints
<1> QED
  BY <1>3, <1>4, <1>5

\* At the start no process has read the endpoint.
LEMMA EndpointInit ==
  ASSUME Endpoint!ConstantsTyped, Endpoint!Init
  PROVE  EndpointInv
BY DEF Endpoint!ConstantsTyped, Endpoint!Init, EndpointInv, VersionMeansRead, Checked

\* What a step does to the server's endpoint: nothing, or what one process has
\* asked for, under the version it has read. No version is then current.
EndpointKept == UNCHANGED <<endpoint, version, maker>>

EndpointChanged(c) ==
  /\ place[c] = "send" /\ version' = version + 1 /\ maker' = {c}
  /\ asks' = asks /\ looked' = looked /\ held' = held
  /\ place' \in {[place EXCEPT ![c] = "done"], [place EXCEPT ![c] = "failed"]}
  /\ \/ /\ asks[c].kind = "create"
        /\ endpoint' = Endpoint!Endpoint(asks[c].description,
                          IF asks[c].url # Endpoint!None THEN Endpoint!External(asks[c].url)
                          ELSE Endpoint!Worker(asks[c].namespace, asks[c].taskQueue))
     \/ /\ asks[c].kind = "update" /\ looked[c] = version
        /\ \E old \in held[c] : endpoint' = Endpoint!Patched(asks[c], old)
     \/ /\ asks[c].kind = "delete" /\ looked[c] = version
        /\ endpoint' = Endpoint!Absent

\* Every request that the server carries out is such a change.
LEMMA ChangeEffect ==
  ASSUME NEW c \in Endpoint!Process,
         Endpoint!Create(c) \/ Endpoint!Update(c) \/ Endpoint!Delete(c)
  PROVE  EndpointChanged(c)
<1>1. CASE Endpoint!Create(c)
  BY <1>1 DEF Endpoint!Create, Endpoint!Accept, Endpoint!Goto, EndpointChanged
<1>2. CASE Endpoint!Update(c)
  BY <1>2 DEF Endpoint!Update, Endpoint!Accept, Endpoint!Goto, EndpointChanged
<1>3. CASE Endpoint!Delete(c)
  BY <1>3 DEF Endpoint!Delete, Endpoint!Accept, Endpoint!Goto, EndpointChanged
<1> QED
  BY <1>1, <1>2, <1>3

\* A change leaves an endpoint, or none.
LEMMA ChangeType ==
  ASSUME Endpoint!ConstantsTyped, EndpointInv, NEW c \in Endpoint!Process, EndpointChanged(c)
  PROVE  endpoint' \in Endpoint!Endpoints \cup {Endpoint!Absent}
<1>1. CASE asks[c].kind = "create"
  <2>1. Endpoint!ValidTarget(asks[c])
    BY <1>1 DEF EndpointChanged, EndpointInv, Checked
  <2> QED
    BY <1>1, <2>1, AskType, EndpointMade DEF EndpointChanged, Endpoint!ValidTarget
<1>2. CASE asks[c].kind = "update"
  BY <1>2, PatchedType DEF EndpointChanged
<1>3. CASE asks[c].kind = "delete"
  BY <1>3 DEF EndpointChanged
<1> QED
  BY <1>1, <1>2, <1>3, AskType

\* A step of any process keeps the invariant: what is checked before a
\* request is sent stays true of what was read, whatever the server has
\* meanwhile.
LEMMA EndpointStep ==
  ASSUME Endpoint!ConstantsTyped, EndpointInv, [Endpoint!Next]_Endpoint!endpointVars
  PROVE  EndpointInv'
<1>1. CASE UNCHANGED Endpoint!endpointVars
  BY <1>1 DEF Endpoint!endpointVars, EndpointInv, VersionMeansRead, Checked
<1>2. ASSUME NEW c \in Endpoint!Process, Endpoint!Check(c) PROVE EndpointInv'
  <2>1. place' \in [Endpoint!Process -> {"check", "look", "send", "done", "failed"}]
    <3>1. asks[c].kind \in {"create", "update", "delete"}
      BY AskType
    <3>2. \E there \in {"look", "send", "failed"} : place' = [place EXCEPT ![c] = there]
      <4>1. CASE asks[c].kind = "create"
        BY <1>2, <4>1 DEF Endpoint!Check, Endpoint!Goto
      <4>2. CASE asks[c].kind = "update"
        BY <1>2, <4>2 DEF Endpoint!Check, Endpoint!Goto
      <4>3. CASE asks[c].kind = "delete"
        BY <1>2, <4>3 DEF Endpoint!Check, Endpoint!Goto
      <4> QED
        BY <3>1, <4>1, <4>2, <4>3
    <3> QED
      BY <3>2 DEF EndpointInv
  <2>2. UNCHANGED <<asks, endpoint, version, maker, looked, held>>
    BY <1>2 DEF Endpoint!Check
  <2>3. \A d \in Endpoint!Process : d # c => place'[d] = place[d]
    BY <1>2, AskType DEF Endpoint!Check, Endpoint!Goto, EndpointInv
  <2>4. /\ asks[c].kind = "create" => place'[c] # "look"
        /\ asks[c].kind = "create" /\ place'[c] = "send" => Endpoint!ValidTarget(asks[c])
        /\ asks[c].kind = "update" =>
             /\ place'[c] # "send"
             /\ place'[c] = "look" => Endpoint!ValidUpdate(asks[c])
    BY <1>2 DEF Endpoint!Check, Endpoint!Goto, EndpointInv
  <2>5. Checked'
    <3> SUFFICES ASSUME NEW d \in Endpoint!Process
                 PROVE  /\ asks[d].kind = "create" => place'[d] # "look"
                        /\ asks[d].kind = "create" /\ place'[d] = "send" => Endpoint!ValidTarget(asks[d])
                        /\ asks[d].kind = "update" /\ place'[d] \in {"look", "send"} =>
                             Endpoint!ValidUpdate(asks[d])
                        /\ asks[d].kind = "update" /\ place'[d] = "send" =>
                             \A old \in held[d] : ~Endpoint!HalfTarget(asks[d], old.target)
      BY <2>2 DEF Checked
    <3> QED
      BY <2>3, <2>4 DEF EndpointInv, Checked
  <2> QED
    BY <2>1, <2>2, <2>5 DEF EndpointInv, VersionMeansRead
<1>3. ASSUME NEW c \in Endpoint!Process, Endpoint!GetEndpointByName(c) PROVE EndpointInv'
  <2>1. CASE endpoint = Endpoint!Absent
    BY <1>3, <2>1 DEF Endpoint!GetEndpointByName, Endpoint!Goto, EndpointInv, VersionMeansRead, Checked
  <2>2. CASE endpoint # Endpoint!Absent
    <3>1. /\ UNCHANGED <<asks, endpoint, version, maker>> /\ place[c] = "look"
          /\ looked' = [looked EXCEPT ![c] = version] /\ held' = [held EXCEPT ![c] = {endpoint}]
          /\ place' = [place EXCEPT ![c] =
               IF asks[c].kind = "update" /\ Endpoint!HalfTarget(asks[c], endpoint.target)
               THEN "failed" ELSE "send"]
      BY <1>3, <2>2 DEF Endpoint!GetEndpointByName, Endpoint!Goto
    <3>2. /\ place' \in [Endpoint!Process -> {"check", "look", "send", "done", "failed"}]
          /\ looked' \in [Endpoint!Process -> Nat]
          /\ \A d \in Endpoint!Process : looked'[d] <= version
          /\ held' \in [Endpoint!Process -> SUBSET Endpoint!Endpoints]
      BY <2>2, <3>1 DEF EndpointInv
    <3>3. VersionMeansRead'
      BY <2>2, <3>1 DEF EndpointInv, VersionMeansRead
    <3>4. asks[c].kind # "create"
      BY <3>1 DEF EndpointInv, Checked
    <3>5. Checked'
      BY <3>1, <3>4 DEF EndpointInv, Checked
    <3> QED
      BY <3>1, <3>2, <3>3, <3>5 DEF EndpointInv
  <2> QED
    BY <2>1, <2>2
<1>4. ASSUME NEW c \in Endpoint!Process, EndpointChanged(c) PROVE EndpointInv'
  <2>1. endpoint' \in Endpoint!Endpoints \cup {Endpoint!Absent}
    BY <1>4, ChangeType
  <2>2. /\ place' \in [Endpoint!Process -> {"check", "look", "send", "done", "failed"}]
        /\ \A d \in Endpoint!Process : d # c => place'[d] = place[d]
        /\ place'[c] \in {"done", "failed"}
    BY <1>4 DEF EndpointChanged, EndpointInv
  <2>3. /\ asks' = asks /\ looked' = looked /\ held' = held /\ version' = version + 1
        /\ version' \in Nat \ {0} /\ \A d \in Endpoint!Process : looked[d] <= version' /\ looked[d] # version'
    BY <1>4 DEF EndpointChanged, EndpointInv
  <2>4. VersionMeansRead'
    BY <2>3 DEF EndpointInv, VersionMeansRead
  <2>5. Checked'
    BY <2>2, <2>3 DEF EndpointInv, Checked
  <2> QED
    BY <2>1, <2>2, <2>3, <2>4, <2>5 DEF EndpointInv
<1>5. ASSUME NEW c \in Endpoint!Process, Endpoint!Fail(c) PROVE EndpointInv'
  BY <1>5 DEF Endpoint!Fail, Endpoint!Goto, EndpointInv, VersionMeansRead, Checked
<1> QED
  BY <1>1, <1>2, <1>3, <1>4, <1>5, ChangeEffect DEF Endpoint!Next, Endpoint!Step

\* The type invariant follows.
LEMMA EndpointTypeShown ==
  ASSUME Endpoint!ConstantsTyped, EndpointInv
  PROVE  Endpoint!TypeOK
<1>1. endpoint = Endpoint!Absent \/ endpoint.target.url = Endpoint!None
        \/ endpoint.target = Endpoint!External(endpoint.target.url)
  BY EndpointType DEF EndpointInv
<1> QED
  BY <1>1 DEF EndpointInv, VersionMeansRead, Endpoint!TypeOK, Endpoint!Process

\* Endpoints keep a whole target, a worker's or an external one, whatever
\* nexus endpoint create, update and delete send and whatever others have
\* changed; and a process has a version only with the endpoint it has read.
THEOREM EndpointTypeCorrect ==
  ASSUME Endpoint!ConstantsTyped PROVE Endpoint!Spec => []Endpoint!TypeOK
<1>1. Endpoint!Init => EndpointInv
  BY EndpointInit
<1>2. EndpointInv /\ [Endpoint!Next]_Endpoint!endpointVars => EndpointInv'
  BY EndpointStep
<1>3. EndpointInv => Endpoint!TypeOK
  BY EndpointTypeShown
<1> QED
  BY <1>1, <1>2, <1>3, PTL DEF Endpoint!Spec

\* Such a step is one of the abstract update, or changes nothing of it.
LEMMA EndpointStepSeen ==
  ASSUME Endpoint!ConstantsTyped, EndpointInv, [Endpoint!Next]_Endpoint!endpointVars
  PROVE  [Endpoint!Record!Next]_<<endpoint, held, maker>>
<1>1. CASE UNCHANGED Endpoint!endpointVars
  BY <1>1 DEF Endpoint!endpointVars
<1>2. ASSUME NEW c \in Endpoint!Process, Endpoint!Check(c) \/ Endpoint!Fail(c)
      PROVE  UNCHANGED <<endpoint, held, maker>>
  BY <1>2 DEF Endpoint!Check, Endpoint!Fail
<1>3. ASSUME NEW c \in Endpoint!Process, Endpoint!GetEndpointByName(c)
      PROVE  UNCHANGED <<endpoint, held, maker>> \/ Endpoint!Record!Look(c)
  BY <1>3 DEF Endpoint!GetEndpointByName, Endpoint!Record!Look
<1>4. ASSUME NEW c \in Endpoint!Process, EndpointChanged(c) PROVE Endpoint!Record!Change(c)
  <2>1. endpoint' \in Endpoint!Endpoints \cup {Endpoint!Absent}
    BY <1>4, ChangeType
  <2>2. c \in Editor => asks[c].kind \in {"update", "delete"}
    BY AskType DEF Endpoint!ConstantsTyped
  <2>3. c \in Editor => endpoint \in held[c]
    BY <1>4, <2>2 DEF EndpointChanged, EndpointInv, VersionMeansRead
  <2> QED
    BY <1>4, <2>1, <2>3 DEF EndpointChanged, Endpoint!Record!Change
<1> QED
  BY <1>1, <1>2, <1>3, <1>4, ChangeEffect
     DEF Endpoint!Next, Endpoint!Step, Endpoint!Record!Next

\* An update leaves what it does not name.
LEMMA EndpointStepKeeps ==
  ASSUME Endpoint!ConstantsTyped, EndpointInv, [Endpoint!Next]_Endpoint!endpointVars
  PROVE  [Endpoint!UnnamedStays]_Endpoint!endpointVars
<1> SUFFICES ASSUME NEW c \in Endpoint!Process, maker' = {c}, version' # version,
                    asks[c].kind = "update"
             PROVE  /\ asks[c].description = Endpoint!None /\ ~asks[c].unset =>
                         endpoint'.description = endpoint.description
                    /\ asks[c].namespace = Endpoint!None /\ asks[c].taskQueue = Endpoint!None
                         /\ asks[c].url = Endpoint!None =>
                         endpoint'.target = endpoint.target
                    /\ asks[c].namespace = Endpoint!None /\ asks[c].taskQueue # Endpoint!None =>
                         endpoint'.target.namespace = endpoint.target.namespace
                    /\ asks[c].namespace # Endpoint!None /\ asks[c].taskQueue = Endpoint!None =>
                         endpoint'.target.taskQueue = endpoint.target.taskQueue
  BY DEF Endpoint!UnnamedStays
<1>1. PICK d \in Endpoint!Process : EndpointChanged(d)
  BY ChangeEffect DEF Endpoint!Next, Endpoint!Step, Endpoint!Check, Endpoint!GetEndpointByName,
                      Endpoint!Fail, Endpoint!endpointVars
<1>2. EndpointChanged(c) /\ looked[c] = version /\ held[c] = {endpoint}
  BY <1>1 DEF EndpointChanged, EndpointInv, VersionMeansRead
<1>3. endpoint' = Endpoint!Patched(asks[c], endpoint) /\ endpoint \in held[c]
  BY <1>2 DEF EndpointChanged
<1>4. Endpoint!ValidUpdate(asks[c])
  BY <1>2 DEF EndpointInv, Checked, EndpointChanged
<1>5. asks[c].unset \in BOOLEAN
  BY AskType
<1> QED
  BY <1>3, <1>4, <1>5 DEF Endpoint!Patched, Endpoint!ValidUpdate, Endpoint!Endpoint, Endpoint!Worker

\* nexus endpoint update and delete change the very endpoint that they have
\* looked up, or nothing, even if it was deleted and made again in between;
\* and what an update does not name stays as it stood.
THEOREM EndpointChangedAsSeen ==
  ASSUME Endpoint!ConstantsTyped PROVE Endpoint!Spec => Endpoint!ChangedAsSeen
<1>1. Endpoint!Init => EndpointInv /\ Endpoint!Record!Init
  BY EndpointInit DEF Endpoint!ConstantsTyped, Endpoint!Init, Endpoint!Record!Init
<1>2. EndpointInv /\ [Endpoint!Next]_Endpoint!endpointVars => EndpointInv'
  BY EndpointStep
<1>3. EndpointInv /\ [Endpoint!Next]_Endpoint!endpointVars
        => [Endpoint!Record!Next]_<<endpoint, held, maker>>
  BY EndpointStepSeen
<1>4. EndpointInv /\ [Endpoint!Next]_Endpoint!endpointVars => [Endpoint!UnnamedStays]_Endpoint!endpointVars
  BY EndpointStepKeeps
<1> QED
  BY <1>1, <1>2, <1>3, <1>4, PTL DEF Endpoint!Spec, Endpoint!ChangedAsSeen, Endpoint!Record!Spec

-----------------------------------------------------------------------------
(* Histories and results.                                                  *)

\* A run only grows, and one that has closed stays as it is.
RunsGrow ==
  /\ DOMAIN runs \subseteq DOMAIN runs'
  /\ \A r \in DOMAIN runs :
       /\ runs'[r].length >= runs[r].length
       /\ History!ClosedRun(r) => runs'[r] = runs[r]
       /\ ~History!ClosedRun(r) /\ History!ClosedRun(r)' => runs'[r].length > runs[r].length

Event(e) == e[1] \in DOMAIN runs /\ e[2] \in 1..runs[e[1]].length

\* What was read are events.
EventsInv ==
  /\ printed \in Seq(Nat \X Nat) /\ \A i \in DOMAIN printed : Event(printed[i])
  /\ wfResult \in {History!None} \cup (Nat \X Nat) /\ (wfResult # History!None => Event(wfResult))

PlaceInv ==
  /\ reader \in Readers /\ interrupted \in BOOLEAN
  /\ run \in DOMAIN runs /\ next \in 0..(MaxEvents + 1)
  /\ step \in {"history", "reverse", "reversed", "print", "close", "result", "ended"}
  /\ ending \in {"none", "ok", "workflow failed", "error"}
  /\ ending # "none" => step = "ended"
  /\ step \in {"reverse", "reversed"} => reader.reverse
  /\ step = "history" => ~reader.reverse
  /\ step \in {"history", "reverse", "reversed", "print"} => reader.command # "result"
  /\ step \in {"close", "result"} => reader.command # "show"
  /\ reader.command = "result" /\ step # "ended" => printed = <<>>

\* All runs before this one have continued as new.
Continued(r) == \A q \in 1..(r - 1) : runs[q].closing = "continued"

\* The last event that was printed closes its run, and the chain.
AtTheEnd ==
  /\ printed # <<>>
  /\ History!Kind(printed[Len(printed)]) \notin {"open", "continued"}
  /\ reader.command = "execute" => Continued(printed[Len(printed)][1])

Followed == reader.follow /\ reader.form = "table" => AtTheEnd

\* While events are read forward: the last one is before the next.
ForwardInv ==
  /\ step = "history" =>
       /\ next \in 1..(runs[run].length + 1)
       /\ reader.command = "execute" /\ reader.form = "table" => Continued(run)
       /\ printed = <<>> => next = 1
       /\ printed # <<>> =>
            LET last == printed[Len(printed)] IN
            \/ /\ next > 1 /\ last = <<run, next - 1>>
               /\ reader.form = "table" => History!Kind(last) # "continued"
            \/ /\ next = 1 /\ run = last[1] + 1
               /\ reader.form = "table" /\ History!Kind(last) = "continued"
  /\ step \in {"history", "print"} /\ ~reader.reverse /\ wfResult # History!None =>
       /\ printed # <<>> /\ wfResult = printed[Len(printed)]
       /\ History!IsWorkflowTerminatingEvent(History!Kind(wfResult))

\* While they are read in reverse: the next one is before the last, and all of
\* one run.
ReverseInv ==
  reader.reverse =>
    /\ \A i \in DOMAIN printed : printed[i] = <<run, printed[1][2] - i + 1>>
    /\ step = "reverse" => printed = <<>>
    /\ step = "reversed" =>
         /\ next \in 0..runs[run].length
         /\ printed # <<>> => next = printed[Len(printed)][2] - 1
    /\ wfResult # History!None => printed # <<>> /\ wfResult = printed[1]

\* On the way to the result.
ResultInv ==
  /\ step = "print" => (interrupted /\ reader.command = "execute") \/ Followed
  /\ step = "close" => interrupted \/ Followed
  /\ step \in {"close", "result"} /\ reader.command = "execute" => Continued(run)
  /\ step = "result" =>
       /\ Followed
       /\ History!ClosedRun(run) /\ runs[run].closing # "continued"
       /\ wfResult = <<run, runs[run].length>>

\* What was printed is in order.
OrderInv ==
  ~reader.reverse => History!Forward(printed) /\ (printed # <<>> => printed[1][2] = 1)

\* When the command has ended, other than by an error.
EndedInv ==
  ending \in {"ok", "workflow failed"} =>
    /\ Followed
    /\ History!Executes =>
         /\ wfResult # History!None
         /\ IF ending = "ok" THEN History!Kind(wfResult) = "completed"
            ELSE History!Kind(wfResult) \in {"failed", "terminated", "retried"}
    /\ wfResult # History!None /\ printed # <<>> /\ ~interrupted /\ ~reader.reverse
         /\ reader.form = "table" =>
         wfResult = printed[Len(printed)]

HistoryInv ==
  /\ History!Chain(runs) /\ PlaceInv /\ EventsInv /\ OrderInv
  /\ ForwardInv /\ ReverseInv /\ ResultInv /\ EndedInv
-----------------------------------------------------------------------------
Run == [length : 1..MaxEvents, closing : {"open"} \cup History!Closings]

\* A run has at least one event, and no more than the bound; one that is open
\* has not been followed.
LEMMA RunType ==
  ASSUME History!ConstantsTyped
  PROVE  /\ \A r \in Run : r.length \in Nat \ {0} /\ r.length <= MaxEvents
         /\ MaxEvents \in Nat \ {0, 1} /\ MaxRuns \in Nat \ {0}
         /\ [length |-> 1, closing |-> "open"] \in Run
         /\ "open" \notin History!Followed /\ "open" \notin History!Closings
<1>1. MaxEvents \in Nat \ {0, 1} /\ MaxRuns \in Nat \ {0}
  BY DEF History!ConstantsTyped
<1>2. \A r \in Run : r.length \in 1..MaxEvents
  BY DEF Run
<1>3. 1 \in 1..MaxEvents
  BY <1>1
<1> QED
  BY <1>1, <1>2, <1>3 DEF Run, History!Followed, History!Closings

\* The chain of runs, in other words.
LEMMA ChainOf ==
  ASSUME History!ConstantsTyped, NEW rs, History!Chain(rs)
  PROVE  /\ rs \in Seq(Run) /\ Len(rs) \in Nat \ {0} /\ Len(rs) <= MaxRuns
         /\ DOMAIN rs = 1..Len(rs) /\ Len(rs) \in DOMAIN rs
         /\ \A r \in DOMAIN rs :
              /\ rs[r] \in Run /\ rs[r].length \in Nat \ {0} /\ rs[r].length <= MaxEvents
              /\ r # Len(rs) => rs[r].closing \in History!Followed
              /\ r = Len(rs) => rs[r].closing \notin History!Followed
              /\ rs[r].closing = "open" => r = Len(rs) /\ rs[r].length < MaxEvents
<1>1. rs \in Seq(Run) /\ Len(rs) \in 1..MaxRuns /\ MaxRuns \in Nat
  BY RunType DEF History!Chain, Run
<1>2. /\ Len(rs) \in Nat \ {0} /\ Len(rs) <= MaxRuns /\ DOMAIN rs = 1..Len(rs)
      /\ Len(rs) \in DOMAIN rs /\ \A r \in DOMAIN rs : rs[r] \in Run
  BY <1>1
<1>3. \A r \in DOMAIN rs : /\ rs[r].closing \in History!Followed <=> r < Len(rs)
                           /\ rs[r].closing = "open" => rs[r].length < MaxEvents
  BY DEF History!Chain
<1>4. \A r \in DOMAIN rs : r < Len(rs) <=> r # Len(rs)
  BY <1>2
<1> QED
  BY <1>1, <1>2, <1>3, <1>4, RunType

\* The same of the runs there are.
LEMMA ChainType ==
  ASSUME History!ConstantsTyped, History!Chain(runs)
  PROVE  /\ runs \in Seq(Run) /\ Len(runs) \in Nat \ {0} /\ Len(runs) <= MaxRuns
         /\ DOMAIN runs = 1..Len(runs) /\ Len(runs) \in DOMAIN runs
         /\ \A r \in DOMAIN runs :
              /\ runs[r] \in Run /\ runs[r].length \in Nat \ {0} /\ runs[r].length <= MaxEvents
              /\ r # Len(runs) => runs[r].closing \in History!Followed
              /\ r = Len(runs) => runs[r].closing \notin History!Followed
              /\ runs[r].closing = "open" => r = Len(runs) /\ runs[r].length < MaxEvents
BY ChainOf

\* A sequence with another last element.
LEMMA LastReplaced ==
  ASSUME NEW T, NEW s \in Seq(T), Len(s) \in Nat \ {0}, NEW e \in T
  PROVE  LET t == [s EXCEPT ![Len(s)] = e] IN
         /\ t \in Seq(T) /\ Len(t) = Len(s) /\ t[Len(s)] = e
         /\ \A i \in 1..Len(s) : i # Len(s) => t[i] = s[i]
OBVIOUS

\* When the last run has grown, and perhaps closed, the chain may go on.
LEMMA LastGrows ==
  ASSUME History!ConstantsTyped, History!Chain(runs), ~History!ClosedRun(Len(runs)),
         NEW last \in Run, last.length > runs[Len(runs)].length,
         last.closing = "open" => last.length < MaxEvents,
         NEW successor \in BOOLEAN,
         successor <=> last.closing \in History!Followed,
         successor => Len(runs) < MaxRuns,
         LET closed == [runs EXCEPT ![Len(runs)] = last] IN
         runs' = IF successor THEN Append(closed, [length |-> 1, closing |-> "open"]) ELSE closed
  PROVE  RunsGrow /\ History!Chain(runs')
<1> DEFINE n == Len(runs)
<1> DEFINE closed == [runs EXCEPT ![n] = last]
<1> DEFINE new == [length |-> 1, closing |-> "open"]
<1>1. /\ runs \in Seq(Run) /\ n \in Nat \ {0} /\ n <= MaxRuns /\ DOMAIN runs = 1..n
      /\ runs[n] \in Run /\ runs[n].closing = "open"
      /\ \A r \in 1..n : runs[r] \in Run /\ (r # n => runs[r].closing \in History!Followed)
  BY ChainType DEF History!ClosedRun
<1>2. /\ closed \in Seq(Run) /\ Len(closed) = n /\ closed[n] = last
      /\ \A r \in 1..n : r # n => closed[r] = runs[r]
  BY <1>1, LastReplaced
<1>3. new \in Run /\ new.closing = "open" /\ new.length < MaxEvents /\ MaxRuns \in Nat
  BY RunType
<1>4. \A r \in Run : r.length \in Nat
  BY RunType
<1>5. runs' = IF successor THEN Append(closed, new) ELSE closed
  OBVIOUS
<1>6. "open" \notin History!Followed
  BY DEF History!Followed
<1> HIDE DEF closed, new, n
<1>7. CASE ~successor
  <2>1. runs' = closed
    BY <1>5, <1>7
  <2>2. History!Chain(runs')
    <3>1. \A r \in 1..n : /\ closed[r].closing \in History!Followed <=> r < n
                          /\ closed[r].closing = "open" => closed[r].length < MaxEvents
      BY <1>1, <1>2, <1>6, <1>7
    <3>2. DOMAIN closed = 1..n /\ n \in 1..MaxRuns
      BY <1>1, <1>2, <1>3
    <3> QED
      BY <1>2, <2>1, <3>1, <3>2 DEF History!Chain, Run
  <2>3. DOMAIN runs' = 1..n
    BY <1>2, <2>1
  <2>4. RunsGrow
    BY <1>1, <1>2, <1>4, <2>1, <2>3 DEF RunsGrow, History!ClosedRun, n
  <2> QED
    BY <2>2, <2>4
<1>8. CASE successor
  <2>1. /\ runs' \in Seq(Run) /\ Len(runs') = n + 1 /\ runs'[n + 1] = new
        /\ \A r \in 1..n : runs'[r] = closed[r]
    <3>1. runs' = Append(closed, new)
      BY <1>5, <1>8
    <3>2. /\ Append(closed, new) \in Seq(Run) /\ Len(Append(closed, new)) = Len(closed) + 1
          /\ Append(closed, new)[Len(closed) + 1] = new
          /\ \A i \in 1..Len(closed) : Append(closed, new)[i] = closed[i]
      BY <1>2, <1>3
    <3>3. Len(closed) = n
      BY <1>2
    <3> QED
      BY <3>1, <3>2, <3>3, Zenon
  <2>2. DOMAIN runs' = 1..(n + 1) /\ n + 1 \in 1..MaxRuns
    <3>1. n < MaxRuns
      BY <1>8 DEF n
    <3>2. DOMAIN runs' = 1..(n + 1)
      BY <2>1
    <3> QED
      BY <1>1, <1>3, <3>1, <3>2
  <2>3. History!Chain(runs')
    <3>1. \A r \in 1..(n + 1) : /\ runs'[r].closing \in History!Followed <=> r < n + 1
                                /\ runs'[r].closing = "open" => runs'[r].length < MaxEvents
      <4> SUFFICES ASSUME NEW r \in 1..(n + 1)
                   PROVE  /\ runs'[r].closing \in History!Followed <=> r < n + 1
                          /\ runs'[r].closing = "open" => runs'[r].length < MaxEvents
        OBVIOUS
      <4>1. CASE r = n + 1
        BY <1>1, <1>3, <1>6, <2>1, <4>1
      <4>2. CASE r = n
        BY <1>1, <1>2, <1>6, <1>8, <2>1, <4>2
      <4>3. CASE r \in 1..n /\ r # n
        BY <1>1, <1>2, <1>6, <2>1, <4>3
      <4> QED
        BY <1>1, <4>1, <4>2, <4>3
    <3> QED
      BY <2>1, <2>2, <3>1 DEF History!Chain, Run
  <2>4. RunsGrow
    <3>1. DOMAIN runs \subseteq DOMAIN runs'
      BY <1>1, <2>2
    <3>2. runs'[n] = last /\ \A r \in 1..n : r # n => runs'[r] = runs[r]
      BY <1>1, <1>2, <2>1
    <3>3. last.length \in Nat /\ last.length > runs[n].length /\ \A r \in 1..n : runs[r].length \in Nat
      BY <1>1, <1>4 DEF n
    <3> QED
      BY <1>1, <3>1, <3>2, <3>3 DEF RunsGrow, History!ClosedRun
  <2> QED
    BY <2>3, <2>4
<1> QED
  BY <1>7, <1>8

\* What the workflow does to its runs.
LEMMA GrowEffect ==
  ASSUME History!ConstantsTyped, History!Chain(runs), History!Grow
  PROVE  RunsGrow /\ History!Chain(runs')
<1> DEFINE n == Len(runs)
<1> DEFINE last == [runs[n] EXCEPT !.length = @ + 1]
<1>1. /\ ~History!ClosedRun(n) /\ runs[n].length < MaxEvents - 1
      /\ runs' = [runs EXCEPT ![n].length = @ + 1]
  BY DEF History!Grow, History!LastRun
<1>2. n \in 1..n /\ runs[n] \in Run /\ runs[n].length \in Nat \ {0} /\ MaxEvents \in Nat
  BY ChainType, RunType
<1>3. last \in Run /\ last.length = runs[n].length + 1 /\ last.closing = runs[n].closing
  BY <1>1, <1>2 DEF Run
<1>4. runs' = [runs EXCEPT ![n] = last]
  BY <1>1
<1>5. last.closing \notin History!Followed
  BY <1>2, <1>3, ChainType
<1> HIDE DEF last, n
<1>6. last.length > runs[n].length /\ last.length < MaxEvents
  BY <1>1, <1>2, <1>3
<1> QED
  BY <1>1, <1>3, <1>4, <1>5, <1>6, LastGrows DEF n

\* The end of the open run, and the start of another one when it is followed.
LEMMA CloseEffect ==
  ASSUME History!ConstantsTyped, History!Chain(runs), History!CloseRun
  PROVE  RunsGrow /\ History!Chain(runs')
<1> DEFINE n == Len(runs)
<1>1. PICK closing \in History!Closings :
        /\ closing \in History!Followed => n < MaxRuns
        /\ LET closed == [runs EXCEPT ![n] = [length |-> @.length + 1, closing |-> closing]] IN
           runs' = (IF closing \in History!Followed
                    THEN Append(closed, [length |-> 1, closing |-> "open"]) ELSE closed)
  BY DEF History!CloseRun
<1> DEFINE last == [length |-> runs[n].length + 1, closing |-> closing]
<1>2. ~History!ClosedRun(n)
  BY DEF History!CloseRun
<1>3. /\ n \in 1..n /\ runs[n].length \in Nat \ {0} /\ runs[n].length < MaxEvents
      /\ MaxEvents \in Nat
  BY <1>2, ChainType, RunType DEF History!ClosedRun
<1>4. last \in Run /\ last.length > runs[n].length /\ last.closing = closing /\ closing # "open"
  BY <1>1, <1>3 DEF Run, History!Closings
<1>5. LET closed == [runs EXCEPT ![n] = last] IN
      runs' = IF closing \in History!Followed
              THEN Append(closed, [length |-> 1, closing |-> "open"]) ELSE closed
  BY <1>1
<1> HIDE DEF last, n
<1> QED
  BY <1>1, <1>2, <1>4, <1>5, LastGrows DEF n

\* So an event keeps its kind.
LEMMA KindKept ==
  ASSUME History!ConstantsTyped, History!Chain(runs), RunsGrow, History!Chain(runs'),
         NEW e, Event(e)
  PROVE  Event(e)' /\ History!Kind(e)' = History!Kind(e)
<1>1. /\ runs[e[1]].length \in Nat /\ runs'[e[1]].length \in Nat /\ e[1] \in DOMAIN runs
      /\ e[1] \in DOMAIN runs' /\ e[2] \in 1..runs[e[1]].length
  <2>1. e[1] \in DOMAIN runs /\ e[1] \in DOMAIN runs' /\ e[2] \in 1..runs[e[1]].length
    BY DEF Event, RunsGrow
  <2>2. runs[e[1]].length \in Nat
    BY <2>1, ChainType
  <2>3. runs'[e[1]].length \in Nat
    BY <2>1, ChainOf
  <2> QED
    BY <2>1, <2>2, <2>3
<1>2. Event(e)'
  BY <1>1 DEF Event, RunsGrow
<1>3. History!Kind(e)' = History!Kind(e)
  BY <1>1 DEF History!Kind, RunsGrow, History!ClosedRun
<1> QED
  BY <1>2, <1>3

\* A run that follows others goes on following them.
LEMMA ContinuedKept ==
  ASSUME History!ConstantsTyped, History!Chain(runs), RunsGrow, NEW r \in DOMAIN runs, Continued(r)
  PROVE  Continued(r)'
<1> SUFFICES ASSUME NEW q \in 1..(r - 1) PROVE runs'[q].closing = "continued"
  BY DEF Continued
<1>1. q \in DOMAIN runs /\ runs[q].closing = "continued"
  BY ChainType DEF Continued
<1> QED
  BY <1>1 DEF RunsGrow, History!ClosedRun

\* The workflow's own steps leave what the command has seen as it was.
LEMMA WorkflowKeeps ==
  ASSUME History!ConstantsTyped, HistoryInv, RunsGrow, History!Chain(runs'),
         UNCHANGED <<reader, step, run, next, printed, wfResult, interrupted, ending>>
  PROVE  HistoryInv'
<1>1. History!Chain(runs) /\ History!Chain(runs')
  BY DEF HistoryInv
<1>2. /\ run \in DOMAIN runs /\ run \in DOMAIN runs'
      /\ runs[run].length \in Nat /\ runs'[run].length \in Nat
      /\ runs'[run].length >= runs[run].length
      /\ History!ClosedRun(run) => runs'[run] = runs[run]
      /\ Continued(run) => Continued(run)'
  <2>1. run \in DOMAIN runs /\ run \in DOMAIN runs'
    BY DEF HistoryInv, PlaceInv, RunsGrow
  <2>2. runs[run].length \in Nat /\ runs'[run].length \in Nat
    BY <1>1, <2>1, ChainOf
  <2>3. Continued(run) => \A q \in 1..(run - 1) : runs'[q].closing = "continued"
    BY <1>1, <2>1, ContinuedKept DEF Continued
  <2> QED
    BY <2>1, <2>2, <2>3 DEF RunsGrow, Continued
<1>3. \A e : Event(e) =>
        /\ e[1] \in DOMAIN runs' /\ e[2] \in 1..runs'[e[1]].length
        /\ (IF e[2] = runs'[e[1]].length THEN runs'[e[1]].closing ELSE "open") = History!Kind(e)
        /\ Continued(e[1]) => \A q \in 1..(e[1] - 1) : runs'[q].closing = "continued"
  <2> SUFFICES ASSUME NEW e, Event(e)
               PROVE  /\ e[1] \in DOMAIN runs' /\ e[2] \in 1..runs'[e[1]].length
                      /\ (IF e[2] = runs'[e[1]].length THEN runs'[e[1]].closing ELSE "open")
                           = History!Kind(e)
                      /\ Continued(e[1]) => \A q \in 1..(e[1] - 1) : runs'[q].closing = "continued"
    OBVIOUS
  <2>1. Event(e)' /\ History!Kind(e)' = History!Kind(e)
    BY <1>1, KindKept
  <2>2. Continued(e[1]) => \A q \in 1..(e[1] - 1) : runs'[q].closing = "continued"
    BY <1>1, ContinuedKept DEF Continued, Event
  <2> QED
    BY <2>1, <2>2 DEF Event, History!Kind
<1>4. PlaceInv'
  BY <1>2 DEF HistoryInv, PlaceInv
<1>5. EventsInv'
  BY <1>3 DEF HistoryInv, EventsInv, Event
<1>6. /\ printed \in Seq(Nat \X Nat) /\ \A i \in 1..Len(printed) : Event(printed[i])
      /\ printed # <<>> => Len(printed) \in 1..Len(printed)
      /\ wfResult # History!None => Event(wfResult)
  BY DEF HistoryInv, EventsInv
<1>7. \A i \in 1..Len(printed) :
        (IF printed[i][2] = runs'[printed[i][1]].length THEN runs'[printed[i][1]].closing
         ELSE "open") = History!Kind(printed[i])
  BY <1>3, <1>6
<1>8. OrderInv'
  <2> SUFFICES ASSUME ~reader.reverse, NEW i \in 1..(Len(printed) - 1)
               PROVE  \/ printed[i + 1] = <<printed[i][1], printed[i][2] + 1>>
                      \/ /\ reader.form = "table"
                         /\ (IF printed[i][2] = runs'[printed[i][1]].length
                             THEN runs'[printed[i][1]].closing ELSE "open") = "continued"
                         /\ printed[i + 1] = <<printed[i][1] + 1, 1>>
    BY DEF HistoryInv, OrderInv, History!Forward, History!Kind
  <2>1. i \in 1..Len(printed)
    BY <1>6
  <2> QED
    BY <1>7, <2>1 DEF HistoryInv, OrderInv, History!Forward
<1>9. AtTheEnd => AtTheEnd'
  <2> SUFFICES ASSUME AtTheEnd PROVE AtTheEnd'
    OBVIOUS
  <2>1. printed # <<>> /\ Event(printed[Len(printed)])
    BY <1>6 DEF AtTheEnd
  <2> QED
    BY <1>3, <2>1 DEF AtTheEnd, Continued, History!Kind
<1>10. Followed => Followed'
  BY <1>9 DEF Followed
<1>11. ResultInv'
  BY <1>2, <1>10 DEF HistoryInv, ResultInv, History!ClosedRun
<1>12. ReverseInv'
  BY <1>2 DEF HistoryInv, ReverseInv
<1>13. EndedInv'
  BY <1>3, <1>6, <1>10 DEF HistoryInv, EndedInv, History!Kind, History!Executes
<1>14. ForwardInv'
  <2>1. next \in Nat /\ (step = "history" => next \in 1..(runs'[run].length + 1))
    <3>1. step = "history" => next \in 1..(runs[run].length + 1)
      BY DEF HistoryInv, ForwardInv
    <3>2. next \in 0..(MaxEvents + 1) /\ MaxEvents \in Nat
      BY RunType DEF HistoryInv, PlaceInv
    <3> QED
      BY <1>2, <3>1, <3>2
  <2> DEFINE last == printed[Len(printed)]
  <2>2. printed # <<>> =>
          (IF last[2] = runs'[last[1]].length THEN runs'[last[1]].closing ELSE "open")
            = History!Kind(last)
    BY <1>6, <1>7
  <2>3. wfResult # History!None =>
          (IF wfResult[2] = runs'[wfResult[1]].length THEN runs'[wfResult[1]].closing ELSE "open")
            = History!Kind(wfResult)
    BY <1>3, <1>6
  <2> HIDE DEF last
  <2>4. step = "history" =>
          /\ reader.command = "execute" /\ reader.form = "table" => Continued(run)'
          /\ printed = <<>> => next = 1
    BY <1>2 DEF HistoryInv, ForwardInv
  <2>5. step = "history" /\ printed # <<>> =>
          \/ /\ next > 1 /\ last = <<run, next - 1>>
             /\ reader.form = "table" => History!Kind(last)' # "continued"
          \/ /\ next = 1 /\ run = last[1] + 1
             /\ reader.form = "table" /\ History!Kind(last)' = "continued"
    <3>1. step = "history" /\ printed # <<>> =>
          \/ /\ next > 1 /\ last = <<run, next - 1>>
             /\ reader.form = "table" => History!Kind(last) # "continued"
          \/ /\ next = 1 /\ run = last[1] + 1
             /\ reader.form = "table" /\ History!Kind(last) = "continued"
      BY DEF HistoryInv, ForwardInv, last
    <3>2. last' = last
      BY DEF last
    <3> QED
      BY <2>2, <3>1, <3>2 DEF History!Kind
  <2>6. step \in {"history", "print"} /\ ~reader.reverse /\ wfResult # History!None =>
          /\ printed # <<>> /\ wfResult = last
          /\ History!IsWorkflowTerminatingEvent(History!Kind(wfResult))'
    <3>1. step \in {"history", "print"} /\ ~reader.reverse /\ wfResult # History!None =>
            /\ printed # <<>> /\ wfResult = last
            /\ History!IsWorkflowTerminatingEvent(History!Kind(wfResult))
      BY DEF HistoryInv, ForwardInv, last
    <3> QED
      BY <2>3, <3>1 DEF History!Kind, History!IsWorkflowTerminatingEvent
  <2> QED
    BY <2>1, <2>4, <2>5, <2>6 DEF ForwardInv, last
<1> QED
  BY <1>1, <1>4, <1>5, <1>8, <1>11, <1>12, <1>13, <1>14 DEF HistoryInv

\* A signal and a timeout only say that they came.
LEMMA InterruptKeeps ==
  ASSUME HistoryInv, History!Interrupt
  PROVE  HistoryInv'
<1> USE DEF History!Interrupt
<1>1. PlaceInv' /\ EventsInv' /\ OrderInv'
  BY DEF HistoryInv, PlaceInv, EventsInv, OrderInv, Event, History!Forward, History!Kind
<1>2. ForwardInv' /\ ReverseInv'
  BY DEF HistoryInv, ForwardInv, ReverseInv, Continued, History!Kind
<1>3. Followed => Followed'
  BY DEF Followed, AtTheEnd, Continued, History!Kind
<1>4. ResultInv'
  BY <1>3 DEF HistoryInv, ResultInv, Continued, History!ClosedRun
<1>5. EndedInv'
  BY DEF HistoryInv, EndedInv, PlaceInv
<1> QED
  BY <1>1, <1>2, <1>4, <1>5 DEF HistoryInv

\* A failure to read, which execute may ignore when it comes with the end.
LEMMA ReadFailsKeeps ==
  ASSUME HistoryInv, History!ReadFails
  PROVE  HistoryInv'
<1> USE DEF History!ReadFails
<1>1. PlaceInv' /\ EventsInv' /\ OrderInv'
  BY DEF HistoryInv, PlaceInv, EventsInv, OrderInv, Event, History!Forward, History!Kind
<1>2. ForwardInv' /\ ReverseInv'
  BY DEF HistoryInv, PlaceInv, ForwardInv, ReverseInv, Continued, History!Kind
<1>4. ResultInv'
  BY DEF HistoryInv, PlaceInv, ResultInv
<1>5. EndedInv'
  BY DEF HistoryInv, EndedInv, PlaceInv
<1> QED
  BY <1>1, <1>2, <1>4, <1>5 DEF HistoryInv

\* The end of a history: that of its run when the command follows.
LEMMA HistoryEndsKeeps ==
  ASSUME History!ConstantsTyped, HistoryInv, History!HistoryEnds
  PROVE  HistoryInv'
<1> USE DEF History!HistoryEnds
<1>1. PlaceInv' /\ EventsInv' /\ OrderInv'
  BY DEF HistoryInv, PlaceInv, EventsInv, OrderInv, Event, History!Forward, History!Kind
<1>2. ForwardInv' /\ ReverseInv'
  BY DEF HistoryInv, PlaceInv, ForwardInv, ReverseInv, History!Kind
<1>3. run \in DOMAIN runs /\ runs[run].length \in Nat \ {0} /\ next > runs[run].length
  BY ChainType DEF HistoryInv, PlaceInv
<1>4. Followed
  <2> SUFFICES ASSUME reader.follow, reader.form = "table" PROVE AtTheEnd
    BY DEF Followed
  <2> DEFINE last == printed[Len(printed)]
  <2>1. next = runs[run].length + 1 /\ printed # <<>> /\ History!ClosedRun(run)
    BY <1>3 DEF HistoryInv, ForwardInv
  <2>2. /\ last = <<run, next - 1>> /\ History!Kind(last) # "continued"
        /\ reader.command = "execute" => Continued(run)
    BY <1>3, <2>1 DEF HistoryInv, ForwardInv
  <2>3. last[1] = run /\ last[2] = runs[run].length
    BY <1>3, <2>1, <2>2
  <2>4. History!Kind(last) = runs[run].closing
    BY <2>3 DEF History!Kind
  <2> QED
    BY <2>1, <2>2, <2>3, <2>4 DEF AtTheEnd, History!ClosedRun
<1>5. Followed'
  BY <1>4 DEF Followed, AtTheEnd, Continued, History!Kind
<1>6. ResultInv'
  BY <1>5 DEF ResultInv
<1>7. EndedInv'
  BY DEF HistoryInv, EndedInv, PlaceInv
<1> QED
  BY <1>1, <1>2, <1>6, <1>7 DEF HistoryInv

\* A history in reverse: from the last event there is to the first.
LEMMA ReverseBeginsKeeps ==
  ASSUME History!ConstantsTyped, HistoryInv, History!ReverseBegins
  PROVE  HistoryInv'
<1>1. run \in DOMAIN runs /\ runs[run].length \in Nat \ {0} /\ runs[run].length <= MaxEvents
  BY ChainType DEF HistoryInv, PlaceInv
<1>2. /\ step = "reverse" /\ step' = "reversed" /\ reader.reverse /\ next' = runs[run].length
      /\ runs' = runs /\ reader' = reader /\ run' = run /\ printed' = printed
      /\ wfResult' = wfResult /\ interrupted' = interrupted /\ ending' = ending
      /\ printed = <<>> /\ wfResult = History!None
  BY DEF History!ReverseBegins, HistoryInv, PlaceInv, ReverseInv
<1>3. MaxEvents \in Nat
  BY RunType
<1>4. next' \in 0..(MaxEvents + 1) /\ next' \in 0..runs'[run'].length
  BY <1>1, <1>2, <1>3
<1>5. PlaceInv'
  BY <1>2, <1>4 DEF HistoryInv, PlaceInv
<1>6. EventsInv' /\ OrderInv'
  BY <1>2 DEF HistoryInv, EventsInv, OrderInv, Event, History!Forward, History!Kind
<1>7. ForwardInv'
  BY <1>2 DEF ForwardInv
<1>8. ReverseInv'
  BY <1>2, <1>4 DEF HistoryInv, ReverseInv
<1>9. ResultInv' /\ EndedInv'
  BY <1>2 DEF HistoryInv, ResultInv, EndedInv, PlaceInv
<1> QED
  BY <1>2, <1>5, <1>6, <1>7, <1>8, <1>9 DEF HistoryInv

\* When the history in reverse has come to its first event nothing was
\* followed, as show does not follow in reverse.
LEMMA ReverseEndsKeeps ==
  ASSUME HistoryInv, History!ReverseEnds, reader.reverse => ~reader.follow
  PROVE  HistoryInv'
<1>1. /\ step = "reversed" /\ step' = "print" /\ reader.reverse
      /\ runs' = runs /\ reader' = reader /\ run' = run /\ next' = next /\ printed' = printed
      /\ wfResult' = wfResult /\ interrupted' = interrupted /\ ending' = ending
  BY DEF History!ReverseEnds, HistoryInv, PlaceInv
<1>2. PlaceInv'
  BY <1>1 DEF HistoryInv, PlaceInv
<1>3. EventsInv' /\ OrderInv'
  BY <1>1 DEF HistoryInv, EventsInv, OrderInv, Event, History!Forward, History!Kind
<1>4. ForwardInv' /\ ReverseInv'
  BY <1>1 DEF HistoryInv, ForwardInv, ReverseInv
<1>5. ResultInv' /\ EndedInv'
  BY <1>1 DEF HistoryInv, ResultInv, EndedInv, PlaceInv, Followed
<1> QED
  BY <1>1, <1>2, <1>3, <1>4, <1>5 DEF HistoryInv

\* What a table's next event does: it is shown, and may be the result.
LEMMA NextRawEventKeeps ==
  ASSUME HistoryInv, runs' = runs, reader' = reader, History!NextRawEvent,
         next \in 1..runs[run].length
  PROVE  /\ EventsInv'
         /\ printed' \in Seq(Nat \X Nat) /\ Len(printed') = Len(printed) + 1
         /\ printed'[Len(printed')] = <<run, next>>
         /\ \A i \in 1..Len(printed) : printed'[i] = printed[i]
<1>1. run \in DOMAIN runs /\ runs \in Seq(Run)
  BY DEF HistoryInv, PlaceInv, History!Chain, Run
<1>2. run \in Nat /\ next \in Nat
  BY <1>1
<1>3. printed \in Seq(Nat \X Nat) /\ printed' = Append(printed, <<run, next>>)
  BY DEF HistoryInv, EventsInv, History!NextRawEvent
<1>4. /\ printed' \in Seq(Nat \X Nat) /\ Len(printed') = Len(printed) + 1
      /\ printed'[Len(printed) + 1] = <<run, next>>
      /\ \A i \in 1..Len(printed) : printed'[i] = printed[i]
  BY <1>2, <1>3
<1>5. \A e : Event(e)' <=> Event(e)
  BY DEF Event
<1>6. Event(<<run, next>>)
  BY <1>1 DEF Event
<1>7. \A i \in 1..Len(printed') : Event(printed'[i])
  <2> SUFFICES ASSUME NEW i \in 1..Len(printed') PROVE Event(printed'[i])
    OBVIOUS
  <2>1. CASE i = Len(printed) + 1
    BY <1>4, <1>6, <2>1
  <2>2. CASE i \in 1..Len(printed)
    BY <1>3, <1>4, <2>2 DEF HistoryInv, EventsInv
  <2> QED
    BY <1>3, <1>4, <2>1, <2>2
<1>8. wfResult' \in {History!None} \cup (Nat \X Nat)
  BY <1>2 DEF HistoryInv, EventsInv, History!NextRawEvent
<1>9. wfResult' # History!None => Event(wfResult')
  BY <1>6 DEF HistoryInv, EventsInv, History!NextRawEvent
<1>10. EventsInv'
  BY <1>4, <1>7, <1>8, <1>9 DEF EventsInv, Event
<1> QED
  BY <1>4, <1>10

\* The next event in reverse: the one before the last one shown, of the same
\* run, so that only the first one shown can be the run's last event.
LEMMA NextReverseKeeps ==
  ASSUME History!ConstantsTyped, HistoryInv, History!NextRawEventReverse
  PROVE  HistoryInv'
<1>1. /\ step = "reversed" /\ next > 0 /\ History!NextRawEvent /\ next' = next - 1 /\ reader.reverse
      /\ runs' = runs /\ reader' = reader /\ run' = run /\ step' = step
      /\ interrupted' = interrupted /\ ending' = ending /\ ending = "none"
  BY DEF History!NextRawEventReverse, HistoryInv, PlaceInv
<1>2. run \in DOMAIN runs /\ runs[run].length \in Nat \ {0} /\ runs[run].length <= MaxEvents
  BY ChainType DEF HistoryInv, PlaceInv
<1>3. next \in 1..runs[run].length
  BY <1>1, <1>2 DEF HistoryInv, ReverseInv
<1>4. /\ EventsInv'
      /\ printed' \in Seq(Nat \X Nat) /\ Len(printed') = Len(printed) + 1
      /\ printed'[Len(printed')] = <<run, next>>
      /\ \A i \in 1..Len(printed) : printed'[i] = printed[i]
  BY <1>1, <1>3, NextRawEventKeeps
<1>5. printed \in Seq(Nat \X Nat)
  BY DEF HistoryInv, EventsInv
<1>6. PlaceInv'
  BY <1>1, <1>2, <1>3, RunType DEF HistoryInv, PlaceInv
<1>7. OrderInv' /\ ForwardInv' /\ ResultInv' /\ EndedInv'
  BY <1>1 DEF OrderInv, ForwardInv, ResultInv, EndedInv
<1>8. CASE printed = <<>>
  <2>1. Len(printed') = 1 /\ printed'[1] = <<run, next>>
    BY <1>4, <1>8
  <2>2. wfResult = History!None
    BY <1>1, <1>8 DEF HistoryInv, ReverseInv
  <2>3. wfResult' # History!None => wfResult' = printed'[1]
    BY <1>1, <2>1, <2>2 DEF History!NextRawEvent
  <2>4. ReverseInv'
    <3>1. \A i \in DOMAIN printed' : printed'[i] = <<run, printed'[1][2] - i + 1>>
      <4>1. \A i \in DOMAIN printed' : i = 1
        <5>1. DOMAIN printed' = 1..Len(printed')
          BY <1>4
        <5> QED
          BY <2>1, <5>1
      <4>2. next = next - 1 + 1 /\ <<run, next>>[2] = next
        BY <1>2, <1>3
      <4> QED
        BY <2>1, <4>1, <4>2
    <3>2. next' = printed'[Len(printed')][2] - 1 /\ next' \in 0..runs[run].length
      BY <1>1, <1>2, <1>3, <1>4
    <3>3. printed' # <<>>
      BY <2>1
    <3> QED
      BY <1>1, <2>3, <3>1, <3>2, <3>3 DEF ReverseInv
  <2> QED
    BY <1>1, <1>4, <1>6, <1>7, <2>4 DEF HistoryInv
<1>9. CASE printed # <<>>
  <2>1. /\ 1 \in 1..Len(printed) /\ Len(printed) \in 1..Len(printed)
        /\ printed[1] \in Nat \X Nat
    BY <1>5, <1>9
  <2>2. /\ next = printed[Len(printed)][2] - 1
        /\ \A i \in 1..Len(printed) : printed[i] = <<run, printed[1][2] - i + 1>>
    <3>1. next = printed[Len(printed)][2] - 1
      BY <1>1, <1>9 DEF HistoryInv, ReverseInv
    <3>2. \A i \in DOMAIN printed : printed[i] = <<run, printed[1][2] - i + 1>>
      BY <1>1 DEF HistoryInv, ReverseInv
    <3>3. DOMAIN printed = 1..Len(printed)
      BY <1>5
    <3> QED
      BY <3>1, <3>2, <3>3
  <2>3. next = printed[1][2] - Len(printed)
    <3>1. printed[Len(printed)] = <<run, printed[1][2] - Len(printed) + 1>>
      BY <2>1, <2>2
    <3>2. printed[Len(printed)][2] = printed[1][2] - Len(printed) + 1
      BY <3>1
    <3>3. printed[1][2] \in Nat /\ Len(printed) \in Nat
      BY <1>5, <2>1
    <3> QED
      BY <2>2, <3>2, <3>3
  <2>4. printed'[1] = printed[1] /\ printed' # <<>>
    BY <1>4, <2>1
  <2>5. \A i \in 1..Len(printed') : printed'[i] = <<run, printed'[1][2] - i + 1>>
    <3> SUFFICES ASSUME NEW i \in 1..Len(printed')
                 PROVE  printed'[i] = <<run, printed[1][2] - i + 1>>
      BY <2>4
    <3>1. CASE i = Len(printed')
      <4>1. i = Len(printed) + 1 /\ printed'[i] = <<run, next>>
        BY <1>4, <3>1
      <4>2. printed[1][2] \in Nat /\ Len(printed) \in Nat
        BY <1>5, <2>1
      <4>3. next = printed[1][2] - i + 1
        BY <2>3, <4>1, <4>2
      <4> QED
        BY <4>1, <4>3
    <3>2. CASE i # Len(printed')
      <4>1. i \in 1..Len(printed)
        BY <1>4, <1>5, <3>2
      <4> QED
        BY <1>4, <2>2, <4>1
    <3> QED
      BY <3>1, <3>2
  <2>6. printed[1][1] = run /\ printed[1][2] <= runs[run].length
    BY <1>5, <2>1, <2>2 DEF HistoryInv, EventsInv, Event
  <2>7. next # runs[run].length
    BY <1>2, <1>5, <2>1, <2>3, <2>6
  <2>8. wfResult' = wfResult
    BY <1>1, <2>7 DEF History!NextRawEvent, History!Kind, History!IsWorkflowTerminatingEvent
  <2>9. ReverseInv'
    <3>1. next' = printed'[Len(printed')][2] - 1 /\ next' \in 0..runs[run].length
      BY <1>1, <1>2, <1>3, <1>4
    <3>2. wfResult # History!None => wfResult = printed[1]
      BY <1>1 DEF HistoryInv, ReverseInv
    <3>3. DOMAIN printed' = 1..Len(printed')
      BY <1>4
    <3> QED
      BY <1>1, <2>4, <2>5, <2>8, <3>1, <3>2, <3>3 DEF ReverseInv
  <2> QED
    BY <1>1, <1>4, <1>6, <1>7, <2>9 DEF HistoryInv
<1> QED
  BY <1>8, <1>9

\* The next event forward, over the end of a run that continued as new.
LEMMA NextForwardKeeps ==
  ASSUME History!ConstantsTyped, HistoryInv, History!NextForward
  PROVE  HistoryInv'
<1>1. /\ step = "history" /\ ~reader.reverse /\ next \in 1..runs[run].length
      /\ History!NextRawEvent
      /\ runs' = runs /\ reader' = reader /\ step' = step
      /\ interrupted' = interrupted /\ ending' = ending /\ ending = "none"
      /\ reader.command # "result"
  BY DEF History!NextForward, HistoryInv, PlaceInv
<1>2. /\ runs[run].length \in Nat \ {0} /\ runs[run].length <= MaxEvents /\ MaxEvents \in Nat
      /\ run \in DOMAIN runs /\ DOMAIN runs = 1..Len(runs) /\ Len(runs) \in Nat
      /\ run # Len(runs) \/ runs[run].closing \notin History!Followed
  BY ChainType, RunType DEF HistoryInv, PlaceInv
<1>3. /\ EventsInv'
      /\ printed' \in Seq(Nat \X Nat) /\ Len(printed') = Len(printed) + 1
      /\ printed'[Len(printed')] = <<run, next>>
      /\ \A i \in 1..Len(printed) : printed'[i] = printed[i]
  BY <1>1, NextRawEventKeeps
<1>4. printed \in Seq(Nat \X Nat) /\ printed' # <<>>
  BY <1>3 DEF HistoryInv, EventsInv
<1> DEFINE goesOn == reader.form = "table" /\ History!Kind(<<run, next>>) = "continued"
<1>5. IF goesOn THEN run' = run + 1 /\ next' = 1 ELSE run' = run /\ next' = next + 1
  BY DEF History!NextForward
<1>6. History!Kind(<<run, next>>) =
        IF next = runs[run].length THEN runs[run].closing ELSE "open"
  BY DEF History!Kind
<1>7. goesOn => next = runs[run].length /\ runs[run].closing = "continued" /\ run + 1 \in DOMAIN runs
  BY <1>2, <1>6 DEF History!Followed
<1> HIDE DEF goesOn
<1>8. /\ run' \in DOMAIN runs /\ next' \in 1..(runs[run'].length + 1)
      /\ next' \in 0..(MaxEvents + 1)
  <2>1. CASE goesOn
    <3>1. run' = run + 1 /\ next' = 1 /\ run' \in DOMAIN runs
      BY <1>5, <1>7, <2>1
    <3>2. runs[run'].length \in Nat \ {0}
      BY <3>1, ChainType DEF HistoryInv
    <3> QED
      BY <1>2, <3>1, <3>2
  <2>2. CASE ~goesOn
    BY <1>1, <1>2, <1>5, <2>2
  <2> QED
    BY <2>1, <2>2
<1>9. PlaceInv'
  BY <1>1, <1>8 DEF HistoryInv, PlaceInv
<1>10. OrderInv'
  <2>1. printed = <<>> => next = 1
    BY <1>1 DEF HistoryInv, ForwardInv
  <2>2. printed'[1][2] = 1
    <3>1. CASE printed = <<>>
      BY <1>3, <2>1, <3>1
    <3>2. CASE printed # <<>>
      <4>1. 1 \in 1..Len(printed)
        BY <1>4, <3>2
      <4> QED
        BY <1>1, <1>3, <3>2, <4>1 DEF HistoryInv, OrderInv
    <3> QED
      BY <3>1, <3>2
  <2>3. ASSUME NEW i \in 1..(Len(printed') - 1)
        PROVE  \/ printed'[i + 1] = <<printed'[i][1], printed'[i][2] + 1>>
               \/ /\ reader.form = "table" /\ History!Kind(printed'[i]) = "continued"
                  /\ printed'[i + 1] = <<printed'[i][1] + 1, 1>>
    <3>1. i \in 1..Len(printed) /\ printed'[i] = printed[i]
      BY <1>3, <1>4
    <3>2. CASE i = Len(printed)
      <4>1. printed'[i + 1] = <<run, next>> /\ printed # <<>>
        BY <1>3, <1>4, <3>1, <3>2
      <4>2. printed[i] \in Nat \X Nat
        BY <1>4, <3>1
      <4>3. \/ next > 1 /\ printed[i] = <<run, next - 1>>
            \/ /\ next = 1 /\ run = printed[i][1] + 1
               /\ reader.form = "table" /\ History!Kind(printed[i]) = "continued"
        BY <1>1, <3>2, <4>1 DEF HistoryInv, ForwardInv
      <4>4. CASE next > 1 /\ printed[i] = <<run, next - 1>>
        <5>1. printed[i][1] = run /\ printed[i][2] + 1 = next
          BY <1>1, <4>4
        <5> QED
          BY <3>1, <4>1, <5>1
      <4>5. CASE /\ next = 1 /\ run = printed[i][1] + 1
                 /\ reader.form = "table" /\ History!Kind(printed[i]) = "continued"
        BY <3>1, <4>1, <4>5
      <4> QED
        BY <4>3, <4>4, <4>5
    <3>3. CASE i # Len(printed)
      <4>1. i \in 1..(Len(printed) - 1) /\ i + 1 \in 1..Len(printed)
        BY <1>4, <3>1, <3>3
      <4>2. printed'[i + 1] = printed[i + 1]
        BY <1>3, <4>1
      <4> QED
        BY <1>1, <3>1, <4>1, <4>2 DEF HistoryInv, OrderInv, History!Forward
    <3> QED
      BY <3>2, <3>3
  <2> QED
    BY <1>1, <2>2, <2>3 DEF OrderInv, History!Forward, History!Kind
<1>11. Continued(run) /\ goesOn => Continued(run + 1)
  BY <1>2, <1>7 DEF Continued
<1>12. ForwardInv'
  <2>1. reader.command = "execute" /\ reader.form = "table" => Continued(run)
    BY <1>1 DEF HistoryInv, ForwardInv
  <2>2. reader.command = "execute" /\ reader.form = "table" => Continued(run')
    BY <1>5, <1>11, <2>1
  <2>3. \/ /\ next' > 1 /\ <<run, next>> = <<run', next' - 1>>
           /\ reader.form = "table" => History!Kind(<<run, next>>) # "continued"
        \/ /\ next' = 1 /\ run' = <<run, next>>[1] + 1
           /\ reader.form = "table" /\ History!Kind(<<run, next>>) = "continued"
    BY <1>1, <1>5 DEF goesOn
  <2>4. wfResult' # History!None =>
          /\ wfResult' = <<run, next>>
          /\ History!IsWorkflowTerminatingEvent(History!Kind(<<run, next>>))
    <3> SUFFICES ASSUME ~History!IsWorkflowTerminatingEvent(History!Kind(<<run, next>>)),
                        wfResult # History!None
                 PROVE  FALSE
      BY <1>1 DEF History!NextRawEvent
    <3>1. /\ printed # <<>> /\ wfResult = printed[Len(printed)]
          /\ History!IsWorkflowTerminatingEvent(History!Kind(wfResult))
      BY <1>1 DEF HistoryInv, ForwardInv
    <3>2. next > 1 /\ wfResult = <<run, next - 1>>
      BY <1>1, <3>1 DEF HistoryInv, ForwardInv, History!IsWorkflowTerminatingEvent
    <3>3. wfResult[1] = run /\ wfResult[2] = next - 1 /\ next - 1 # runs[run].length
      BY <1>1, <1>2, <3>2
    <3> QED
      BY <3>1, <3>3 DEF History!Kind, History!IsWorkflowTerminatingEvent
  <2> DEFINE kind == History!Kind(<<run, next>>)
  <2>5. printed'[Len(printed')] = <<run, next>> /\ printed' # <<>>
    BY <1>3, <1>4
  <2>6. History!Kind(printed[Len(printed)])' = kind /\ <<run, next>>[1] = run
    BY <1>1, <2>5 DEF History!Kind
  <2>7. wfResult' # History!None => History!Kind(wfResult)' = kind
    BY <1>1, <2>4 DEF History!Kind
  <2> HIDE DEF kind
  <2>8. next' \in 1..(runs'[run'].length + 1)
    BY <1>1, <1>8
  <2>9. Continued(run') => Continued(run)'
    BY <1>1 DEF Continued
  <2>10. \/ /\ next' > 1 /\ printed'[Len(printed')] = <<run', next' - 1>>
            /\ reader.form = "table" => kind # "continued"
         \/ /\ next' = 1 /\ run' = printed'[Len(printed')][1] + 1
            /\ reader.form = "table" /\ kind = "continued"
    BY <2>3, <2>5 DEF kind
  <2>11. wfResult' # History!None =>
           wfResult' = printed'[Len(printed')] /\ kind \in {"completed", "failed", "retried"}
    BY <2>4, <2>5 DEF History!IsWorkflowTerminatingEvent, kind
  <2> QED
    BY <1>1, <2>2, <2>5, <2>6, <2>7, <2>8, <2>9, <2>10, <2>11
    DEF ForwardInv, History!IsWorkflowTerminatingEvent
<1>13. ReverseInv' /\ ResultInv' /\ EndedInv'
  BY <1>1 DEF ReverseInv, ResultInv, EndedInv
<1> QED
  BY <1>1, <1>3, <1>9, <1>10, <1>12, <1>13 DEF HistoryInv

\* After the history.
LEMMA PrintHistoryKeeps ==
  ASSUME History!ConstantsTyped, HistoryInv, History!PrintHistory
  PROVE  HistoryInv'
<1>1. /\ step = "print" /\ runs' = runs /\ reader' = reader /\ next' = next
      /\ printed' = printed /\ interrupted' = interrupted /\ ending = "none"
      /\ reader.command # "result"
  BY DEF History!PrintHistory, HistoryInv, PlaceInv
<1>2. 1 \in DOMAIN runs
  BY ChainType DEF HistoryInv
<1>3. OrderInv'
  BY <1>1 DEF HistoryInv, OrderInv, History!Forward, History!Kind
<1>4. Followed => Followed'
  BY <1>1 DEF Followed, AtTheEnd, Continued, History!Kind
<1>5. CASE reader.command = "execute"
  <2>1. step' = "close" /\ run' = 1 /\ ending' = ending /\ wfResult' = History!None
    BY <1>5 DEF History!PrintHistory
  <2>2. PlaceInv' /\ ~reader.reverse
    BY <1>1, <1>2, <1>5, <2>1 DEF HistoryInv, PlaceInv, History!ConstantsTyped
  <2>3. EventsInv'
    BY <1>1, <2>1 DEF HistoryInv, EventsInv, Event
  <2>4. ForwardInv' /\ ReverseInv' /\ EndedInv'
    BY <1>1, <2>1, <2>2 DEF ForwardInv, ReverseInv, EndedInv
  <2>5. Continued(run)'
    BY <2>1 DEF Continued
  <2>6. ResultInv'
    BY <1>1, <1>4, <2>1, <2>5 DEF HistoryInv, ResultInv
  <2> QED
    BY <1>1, <1>3, <2>2, <2>3, <2>4, <2>6 DEF HistoryInv
<1>6. CASE reader.command # "execute"
  <2>1. step' = "ended" /\ run' = run /\ ending' = "ok" /\ wfResult' = wfResult
    BY <1>6 DEF History!PrintHistory
  <2>2. PlaceInv'
    BY <1>1, <2>1 DEF HistoryInv, PlaceInv
  <2>3. EventsInv'
    BY <1>1, <2>1 DEF HistoryInv, EventsInv, Event
  <2>4. ForwardInv' /\ ReverseInv' /\ ResultInv'
    BY <1>1, <2>1 DEF HistoryInv, ForwardInv, ReverseInv, ResultInv
  <2>5. Followed
    BY <1>1, <1>6 DEF HistoryInv, ResultInv
  <2>6. EndedInv'
    <3>1. ~History!Executes'
      BY <1>1, <1>6 DEF History!Executes
    <3>2. wfResult # History!None /\ ~reader.reverse => wfResult = printed[Len(printed)]
      BY <1>1 DEF HistoryInv, ForwardInv
    <3> QED
      BY <1>1, <1>4, <2>1, <2>5, <3>1, <3>2 DEF EndedInv
  <2> QED
    BY <1>1, <1>3, <2>2, <2>3, <2>4, <2>6 DEF HistoryInv
<1> QED
  BY <1>5, <1>6

\* The close event of the last run in a chain of runs that continued as new.
LEMMA ReadCloseEventKeeps ==
  ASSUME History!ConstantsTyped, HistoryInv, History!ReadCloseEvent
  PROVE  HistoryInv'
<1>1. /\ step = "close" /\ ~interrupted /\ History!ClosedRun(run) /\ runs' = runs
      /\ reader' = reader /\ next' = next /\ printed' = printed /\ interrupted' = interrupted
      /\ ending' = ending /\ ending = "none" /\ reader.command # "show"
  BY DEF History!ReadCloseEvent, HistoryInv, PlaceInv
<1>2. /\ run \in DOMAIN runs /\ runs[run].length \in Nat \ {0}
      /\ DOMAIN runs = 1..Len(runs) /\ Len(runs) \in Nat
      /\ run # Len(runs) \/ runs[run].closing \notin History!Followed
  BY ChainType DEF HistoryInv, PlaceInv
<1>3. ~reader.reverse
  BY <1>1 DEF HistoryInv, PlaceInv, History!ConstantsTyped
<1>4. OrderInv' /\ ReverseInv' /\ EndedInv'
  BY <1>1, <1>3 DEF HistoryInv, OrderInv, ReverseInv, EndedInv, History!Forward, History!Kind
<1>5. Followed /\ Followed'
  BY <1>1 DEF HistoryInv, ResultInv, Followed, AtTheEnd, Continued, History!Kind
<1>6. reader.command = "execute" => Continued(run)
  BY <1>1 DEF HistoryInv, ResultInv
<1>7. CASE runs[run].closing = "continued"
  <2>1. run' = run + 1 /\ step' = step /\ wfResult' = wfResult
    BY <1>7 DEF History!ReadCloseEvent
  <2>2. run' \in DOMAIN runs
    BY <1>2, <1>7, <2>1 DEF History!Followed
  <2>3. PlaceInv' /\ ForwardInv'
    BY <1>1, <2>1, <2>2 DEF HistoryInv, PlaceInv, ForwardInv
  <2>4. EventsInv'
    BY <1>1, <2>1 DEF HistoryInv, EventsInv, Event
  <2>5. reader.command = "execute" => Continued(run)'
    BY <1>1, <1>2, <1>6, <1>7, <2>1 DEF Continued
  <2>6. ResultInv'
    BY <1>1, <1>5, <2>1, <2>5 DEF ResultInv
  <2> QED
    BY <1>1, <1>4, <2>3, <2>4, <2>6 DEF HistoryInv
<1>8. CASE runs[run].closing # "continued"
  <2>1. run' = run /\ step' = "result" /\ wfResult' = <<run, runs[run].length>>
    BY <1>8 DEF History!ReadCloseEvent
  <2>2. PlaceInv' /\ ForwardInv'
    BY <1>1, <2>1 DEF HistoryInv, PlaceInv, ForwardInv
  <2>3. Event(wfResult)' /\ wfResult' \in Nat \X Nat
    BY <1>1, <1>2, <2>1 DEF Event
  <2>4. EventsInv'
    BY <1>1, <2>3 DEF HistoryInv, EventsInv, Event
  <2>5. reader.command = "execute" => Continued(run)'
    BY <1>1, <1>6, <2>1 DEF Continued
  <2>6. ResultInv'
    BY <1>1, <1>5, <1>8, <2>1, <2>5 DEF ResultInv, History!ClosedRun
  <2> QED
    BY <1>1, <1>4, <2>2, <2>4, <2>6 DEF HistoryInv
<1> QED
  BY <1>7, <1>8

\* The result, which closes what was shown above it.
LEMMA PrintResultKeeps ==
  ASSUME History!ConstantsTyped, HistoryInv, History!PrintResult
  PROVE  HistoryInv'
<1>1. /\ step = "result" /\ step' = "ended" /\ runs' = runs /\ reader' = reader /\ run' = run
      /\ next' = next /\ wfResult' = wfResult /\ interrupted' = interrupted
      /\ reader.command \in {"execute", "result"} /\ ~reader.reverse
  BY DEF History!PrintResult, HistoryInv, PlaceInv, History!ConstantsTyped
<1>2. /\ run \in DOMAIN runs /\ runs[run].length \in Nat \ {0} /\ 1 \in DOMAIN runs
      /\ DOMAIN runs = 1..Len(runs) /\ Len(runs) \in Nat
      /\ runs[1].length \in Nat \ {0} /\ runs[run] \in Run
  <2>1. History!Chain(runs) /\ run \in DOMAIN runs
    BY DEF HistoryInv, PlaceInv
  <2>2. DOMAIN runs = 1..Len(runs) /\ Len(runs) \in Nat \ {0}
    BY <2>1, ChainType
  <2>3. 1 \in DOMAIN runs
    BY <2>2
  <2> QED
    BY <2>1, <2>2, <2>3, ChainType
<1>3. /\ Followed /\ wfResult = <<run, runs[run].length>>
      /\ runs[run].closing \notin {"open", "continued"}
      /\ reader.command = "execute" => Continued(run)
  BY <1>1 DEF HistoryInv, ResultInv, History!ClosedRun
<1>4. /\ History!Kind(wfResult) = runs[run].closing
      /\ runs[run].closing \in {"completed", "failed", "terminated", "retried"}
      /\ wfResult # History!None
  BY <1>2, <1>3 DEF History!Kind, Run, History!Closings, History!None
<1>5. ending' # "error" =>
        IF runs[run].closing = "completed" THEN ending' = "ok" ELSE ending' = "workflow failed"
  BY <1>4 DEF History!PrintResult
<1>6. ending' \in {"ok", "workflow failed", "error"}
  BY DEF History!PrintResult
<1>7. PlaceInv'
  BY <1>1, <1>6 DEF HistoryInv, PlaceInv
<1>8. ForwardInv' /\ ReverseInv' /\ ResultInv'
  BY <1>1 DEF ForwardInv, ReverseInv, ResultInv
<1> DEFINE details == [i \in 1..runs[1].length |-> <<1, i>>]
<1>9. printed' = printed \/ (reader.form = "json details" /\ printed' = details)
  BY DEF History!PrintResult
<1>10. /\ details \in Seq(Nat \X Nat) /\ details # <<>> /\ details[1] = <<1, 1>>
       /\ Len(details) = runs[1].length /\ DOMAIN details = 1..runs[1].length
       /\ \A i \in 1..runs[1].length : details[i] = <<1, i>>
  <2> DEFINE length == runs[1].length
  <2>1. length \in Nat \ {0}
    BY <1>2
  <2>2. details = [i \in 1..length |-> <<1, i>>]
    OBVIOUS
  <2> HIDE DEF length, details
  <2>3. \A i \in 1..length : <<1, i>> \in Nat \X Nat
    BY <2>1
  <2>4. details \in Seq(Nat \X Nat) /\ Len(details) = length /\ DOMAIN details = 1..length
    BY <2>1, <2>2, <2>3
  <2>5. \A i \in 1..length : details[i] = <<1, i>>
    BY <2>2
  <2>6. details # <<>> /\ details[1] = <<1, 1>>
    BY <2>1, <2>4, <2>5
  <2> QED
    BY <2>4, <2>5, <2>6 DEF length
<1> HIDE DEF details
<1>11. OrderInv'
  <2>1. CASE printed' = printed
    BY <1>1, <2>1 DEF HistoryInv, OrderInv, History!Forward, History!Kind
  <2>2. CASE printed' = details
    <3>1. \A i \in 1..(Len(details) - 1) :
            details[i + 1] = <<details[i][1], details[i][2] + 1>>
      <4> SUFFICES ASSUME NEW i \in 1..(Len(details) - 1)
                   PROVE  details[i + 1] = <<details[i][1], details[i][2] + 1>>
        OBVIOUS
      <4>1. i \in 1..runs[1].length /\ i + 1 \in 1..runs[1].length
        BY <1>2, <1>10
      <4>2. details[i] = <<1, i>> /\ details[i + 1] = <<1, i + 1>>
        BY <1>10, <4>1
      <4> QED
        BY <4>2
    <3>2. details[1][2] = 1
      BY <1>10
    <3> QED
      BY <2>2, <3>1, <3>2 DEF OrderInv, History!Forward
  <2> QED
    BY <1>9, <2>1, <2>2
<1>12. EventsInv'
  <2>1. CASE printed' = printed
    BY <1>1, <2>1 DEF HistoryInv, EventsInv, Event
  <2>2. CASE printed' = details
    <3>1. \A i \in DOMAIN details : details[i][1] = 1 /\ details[i][2] \in 1..runs[1].length
      BY <1>10
    <3> QED
      BY <1>1, <1>2, <1>10, <2>2, <3>1 DEF HistoryInv, EventsInv, Event
  <2> QED
    BY <1>9, <2>1, <2>2
<1>13. reader.form = "table" => printed' = printed
  BY <1>9
<1>14. Followed'
  BY <1>1, <1>3, <1>13 DEF Followed, AtTheEnd, Continued, History!Kind
<1>15. printed # <<>> /\ ~interrupted /\ reader.form = "table" => wfResult = printed[Len(printed)]
  <2> SUFFICES ASSUME printed # <<>>, reader.form = "table"
               PROVE  wfResult = printed[Len(printed)]
    OBVIOUS
  <2> DEFINE last == printed[Len(printed)]
  <2>1. reader.command = "execute" /\ reader.follow
    BY <1>1 DEF HistoryInv, PlaceInv, History!ConstantsTyped
  <2>2. History!Kind(last) \notin {"open", "continued"} /\ Continued(last[1]) /\ Continued(run)
    BY <1>3, <2>1 DEF Followed, AtTheEnd
  <2>3. last \in Nat \X Nat /\ Event(last)
    BY DEF HistoryInv, EventsInv
  <2> HIDE DEF last
  <2>4. last[2] = runs[last[1]].length /\ runs[last[1]].closing \notin {"open", "continued"}
    BY <2>2 DEF History!Kind
  <2>5. last[1] \in 1..Len(runs) /\ run \in 1..Len(runs)
    BY <1>2, <2>3 DEF Event
  <2>6. ~(last[1] < run) /\ ~(run < last[1])
    BY <1>2, <1>3, <2>2, <2>4, <2>5 DEF Continued
  <2>7. last[1] = run
    BY <1>2, <2>5, <2>6
  <2>8. last = <<last[1], last[2]>>
    BY <2>3
  <2> QED
    BY <1>3, <2>4, <2>7, <2>8 DEF last
<1>16. History!Kind(wfResult)' = runs[run].closing
  BY <1>1, <1>4 DEF History!Kind
<1>17. EndedInv'
  BY <1>1, <1>4, <1>5, <1>13, <1>14, <1>15, <1>16 DEF EndedInv
<1> QED
  BY <1>1, <1>7, <1>8, <1>11, <1>12, <1>17 DEF HistoryInv

\* Before anything is read: execute starts at its own first run.
LEMMA HistoryInit ==
  ASSUME History!ConstantsTyped, History!Init
  PROVE  HistoryInv
<1>1. /\ reader \in Readers /\ run \in DOMAIN runs
      /\ next = 1 /\ printed = <<>> /\ wfResult = History!None /\ interrupted = FALSE
      /\ ending = "none"
  BY DEF History!Init
<1>2. reader \in [command : {"execute", "result", "show"},
                  form : {"table", "detailed", "json", "json details"},
                  follow : BOOLEAN, reverse : BOOLEAN]
  BY <1>1 DEF History!ConstantsTyped
<1>3. /\ reader.command = "execute" => reader.follow
      /\ reader.command = "result" => ~reader.follow
      /\ reader.reverse => reader.command = "show" /\ ~reader.follow
  BY <1>1 DEF History!ConstantsTyped
<1> DEFINE first == [length |-> 1, closing |-> "open"]
<1>4. History!Chain(runs)
  <2>1. CASE reader.command = "execute"
    <3>1. runs = <<first>>
      BY <2>1 DEF History!Init
    <3>2. first \in Run /\ first.closing \notin History!Followed
      BY RunType
    <3>3. MaxEvents \in Nat \ {0, 1} /\ MaxRuns \in Nat \ {0}
      BY RunType
    <3> HIDE DEF first
    <3>4. runs \in Seq(Run) /\ Len(runs) = 1 /\ DOMAIN runs = {1} /\ runs[1] = first
      BY <3>1, <3>2
    <3>5. first.length < MaxEvents
      BY <3>3 DEF first
    <3> QED
      BY <3>2, <3>3, <3>4, <3>5 DEF History!Chain, Run
  <2>2. CASE reader.command # "execute"
    BY <2>2 DEF History!Init, History!ConstantsTyped
  <2> QED
    BY <2>1, <2>2
<1>5. /\ runs[run].length \in Nat \ {0} /\ MaxEvents \in Nat \ {0, 1}
      /\ DOMAIN runs = 1..Len(runs) /\ Len(runs) \in Nat
  BY <1>1, <1>4, ChainType, RunType
<1>6. reader.command = "execute" => run = 1
  BY <1>1, <1>5 DEF History!Init
<1>7. step = IF reader.command = "result" \/ (reader.command = "execute" /\ ~History!ShowsText)
             THEN "close"
             ELSE IF reader.command = "show" /\ reader.reverse THEN "reverse" ELSE "history"
  BY <1>3 DEF History!Init
<1>8. Continued(1)
  BY DEF Continued
<1>9. PlaceInv
  <2>1. /\ reader \in Readers /\ interrupted \in BOOLEAN /\ run \in DOMAIN runs
        /\ next \in 0..(MaxEvents + 1) /\ ending = "none" /\ printed = <<>>
    <3>1. interrupted \in BOOLEAN
      BY <1>1, Zenon
    <3>2. next \in 0..(MaxEvents + 1)
      BY <1>1, <1>5
    <3> QED
      BY <1>1, <3>1, <3>2, Zenon
  <2>2. step \in {"close", "reverse", "history"}
    BY <1>7
  <2>3. /\ step = "reverse" => reader.reverse /\ reader.command = "show"
        /\ step = "history" => ~reader.reverse /\ reader.command # "result"
        /\ step = "close" => reader.command # "show"
    BY <1>2, <1>3, <1>7
  <2> QED
    BY <2>1, <2>2, <2>3 DEF PlaceInv
<1>10. EventsInv /\ OrderInv /\ EndedInv
  BY <1>1 DEF EventsInv, OrderInv, EndedInv, History!Forward
<1>11. ForwardInv
  <2>1. next \in 1..(runs[run].length + 1)
    BY <1>1, <1>5
  <2> QED
    BY <1>1, <1>6, <1>8, <2>1 DEF ForwardInv
<1>12. ReverseInv
  BY <1>1, <1>3, <1>7 DEF ReverseInv
<1>13. ResultInv
  BY <1>2, <1>3, <1>6, <1>7, <1>8 DEF ResultInv, Followed, History!ShowsText
<1> QED
  BY <1>4, <1>9, <1>10, <1>11, <1>12, <1>13 DEF HistoryInv

\* A step of the workflow or of the command keeps the invariant.
LEMMA HistoryStep ==
  ASSUME History!ConstantsTyped, HistoryInv, [History!Next]_History!historyVars
  PROVE  HistoryInv'
<1>1. CASE History!Grow \/ History!CloseRun
  <2>1. RunsGrow /\ History!Chain(runs')
    BY <1>1, GrowEffect, CloseEffect DEF HistoryInv
  <2>2. UNCHANGED <<reader, step, run, next, printed, wfResult, interrupted, ending>>
    BY <1>1 DEF History!Grow, History!CloseRun
  <2> QED
    BY <2>1, <2>2, WorkflowKeeps
<1>2. CASE History!Interrupt
  BY <1>2, InterruptKeeps
<1>3. CASE History!NextForward
  BY <1>3, NextForwardKeeps
<1>4. CASE History!HistoryEnds
  BY <1>4, HistoryEndsKeeps
<1>5. CASE History!ReverseBegins
  BY <1>5, ReverseBeginsKeeps
<1>6. CASE History!NextRawEventReverse
  BY <1>6, NextReverseKeeps
<1>7. CASE History!ReverseEnds
  <2>1. reader.reverse => ~reader.follow
    BY DEF HistoryInv, PlaceInv, History!ConstantsTyped
  <2> QED
    BY <1>7, <2>1, ReverseEndsKeeps
<1>8. CASE History!ReadFails
  BY <1>8, ReadFailsKeeps
<1>9. CASE History!PrintHistory
  BY <1>9, PrintHistoryKeeps
<1>10. CASE History!ReadCloseEvent
  BY <1>10, ReadCloseEventKeeps
<1>11. CASE History!PrintResult
  BY <1>11, PrintResultKeeps
<1>12. CASE UNCHANGED History!historyVars
  <2> USE <1>12 DEF History!historyVars
  <2>1. History!Chain(runs') /\ PlaceInv' /\ EventsInv' /\ OrderInv'
    BY DEF HistoryInv, PlaceInv, EventsInv, OrderInv, Event, History!Forward, History!Kind
  <2>2. ForwardInv' /\ ReverseInv'
    BY DEF HistoryInv, ForwardInv, ReverseInv, Continued, History!Kind
  <2>3. Followed => Followed'
    BY DEF Followed, AtTheEnd, Continued, History!Kind
  <2>4. ResultInv'
    BY <2>3 DEF HistoryInv, ResultInv, Continued, History!ClosedRun
  <2>5. EndedInv'
    BY <2>3 DEF HistoryInv, EndedInv, History!Executes, History!Kind
  <2> QED
    BY <2>1, <2>2, <2>4, <2>5 DEF HistoryInv
<1> QED
  BY <1>1, <1>2, <1>3, <1>4, <1>5, <1>6, <1>7, <1>8, <1>9, <1>10, <1>11, <1>12 DEF History!Next

\* The invariant of workflow execute, result and show, whatever runs and
\* events the workflow adds while they read.
THEOREM HistoryInvariant ==
  ASSUME History!ConstantsTyped
  PROVE  History!Spec => []HistoryInv
<1>1. History!Init => HistoryInv
  BY HistoryInit
<1>2. HistoryInv /\ [History!Next]_History!historyVars => HistoryInv'
  BY HistoryStep
<1> QED
  BY <1>1, <1>2, PTL DEF History!Spec

\* The runs stay a chain in which all but the last have been followed, and
\* the command stays at an event of a run of it, or just before or after one.
THEOREM HistoryTypeCorrect ==
  ASSUME History!ConstantsTyped
  PROVE  History!Spec => []History!TypeOK
<1>1. HistoryInv => History!TypeOK
  BY DEF HistoryInv, PlaceInv, History!TypeOK
<1> QED
  BY <1>1, HistoryInvariant, PTL

\* A history read in reverse, turned.
LEMMA ReverseForward ==
  ASSUME HistoryInv, reader.reverse
  PROVE  History!Forward(History!Reverse(printed))
<1> DEFINE turned == History!Reverse(printed)
<1>1. printed \in Seq(Nat \X Nat) /\ DOMAIN printed = 1..Len(printed) /\ Len(printed) \in Nat
  BY DEF HistoryInv, EventsInv
<1>2. turned = [i \in 1..Len(printed) |-> printed[(Len(printed) - i) + 1]]
  BY DEF History!Reverse
<1>3. Len(turned) = Len(printed)
  BY <1>1, <1>2
<1>4. ASSUME NEW i \in 1..(Len(printed) - 1)
      PROVE  turned[i + 1] = <<turned[i][1], turned[i][2] + 1>>
  <2> DEFINE j == Len(printed) - i
  <2>1. j \in 1..Len(printed) /\ j + 1 \in 1..Len(printed) /\ j \in Nat /\ 1 \in 1..Len(printed)
    BY <1>1
  <2>2. turned[i] = printed[j + 1] /\ turned[i + 1] = printed[j]
    <3>1. /\ i \in 1..Len(printed) /\ i + 1 \in 1..Len(printed)
          /\ (Len(printed) - i) + 1 = j + 1 /\ (Len(printed) - (i + 1)) + 1 = j
      BY <1>1
    <3> HIDE DEF turned, j
    <3>2. /\ turned[i] = printed[(Len(printed) - i) + 1]
          /\ turned[i + 1] = printed[(Len(printed) - (i + 1)) + 1]
      BY <1>2, <3>1
    <3> QED
      BY <3>1, <3>2
  <2> HIDE DEF j, turned
  <2>3. /\ printed[j] = <<run, printed[1][2] - j + 1>>
        /\ printed[j + 1] = <<run, printed[1][2] - (j + 1) + 1>>
    BY <1>1, <2>1 DEF HistoryInv, ReverseInv
  <2>4. printed[1][2] \in Nat
    BY <1>1, <2>1
  <2>5. printed[j + 1][2] + 1 = printed[1][2] - j + 1 /\ printed[j + 1][1] = run
    BY <2>1, <2>3, <2>4
  <2> QED
    BY <2>2, <2>3, <2>5
<1> HIDE DEF turned
<1> QED
  BY <1>3, <1>4 DEF History!Forward, turned

\* What the invariant says, in the words of the property.
LEMMA HistoryShown == ASSUME HistoryInv PROVE History!LastRunShown
<1>1. printed \in Seq(Nat \X Nat) /\ History!Last(printed) = printed[Len(printed)]
  BY DEF HistoryInv, EventsInv, History!Last
<1>2. History!Forward(IF reader.reverse THEN History!Reverse(printed) ELSE printed)
  BY ReverseForward DEF HistoryInv, OrderInv
<1>3. History!HistoryWhole
  BY <1>1, <1>2
  DEF HistoryInv, OrderInv, EndedInv, Followed, AtTheEnd, History!HistoryWhole
<1>4. reader.reverse /\ wfResult # History!None => wfResult = printed[1]
  BY DEF HistoryInv, ReverseInv
<1>5. /\ History!Executes /\ ending = "ok" => History!Kind(wfResult) = "completed"
      /\ History!Executes /\ ending = "workflow failed" =>
           History!Kind(wfResult) \in {"failed", "terminated", "retried"}
      /\ ending \in {"ok", "workflow failed"} /\ wfResult # History!None /\ printed # <<>>
           /\ ~interrupted /\ ~reader.reverse /\ reader.form = "table" =>
           wfResult = printed[Len(printed)]
  BY DEF HistoryInv, EndedInv
<1> QED
  BY <1>1, <1>3, <1>4, <1>5 DEF History!LastRunShown

\* workflow execute and result say what became of the run at which a chain of
\* runs that continue as new ends, and succeed only when it completed; the history
\* that execute and show print has every event once, in its order; and the
\* result closes the history above it, however the workflow goes on while it
\* is read.
THEOREM HistoryLastRunShown ==
  ASSUME History!ConstantsTyped
  PROVE  History!Spec => []History!LastRunShown
<1>1. HistoryInv => History!LastRunShown
  BY HistoryShown
<1> QED
  BY <1>1, HistoryInvariant, PTL

-----------------------------------------------------------------------------
(* The states of a workflow trace.                                         *)

\* What was said last of a thing, and whether that was its end.
EndedBy(past) == past # <<>> /\ past[Len(past)].what \in State!Endings
EndBy(past) == past[Len(past)].what

\* A state that shows what was said.
Shows(past, s) ==
  /\ EndedBy(past) <=> s.closeTime # "none"
  /\ EndedBy(past) => s.status = EndBy(past)
  /\ s.failure => EndedBy(past) /\ s.status \in {"failed", "timedOut"}

OwnEnd == history.own[Len(history.own)].what
OwnEnded ==
  history.own # <<>> /\ ownApplied = Len(history.own) /\ OwnEnd \in State!Endings

\* What the two jobs say with the events that they are at.
Told == history.events[applied + 1].what
OwnTold == history.own[ownApplied + 1].what

\* The end that the parent's job has written as the status of a child, if any,
\* and whether it has written its failure.
Ends ==
  (IF EndedBy(State!PastOf(Child)) THEN {EndBy(State!PastOf(Child))} ELSE {})
    \cup (IF writing \in {"failure", "test", "close"} THEN {Told} ELSE {})
ParentFailed == "failed" \in Ends /\ writing # "failure"

\* Whether the child's job has written its end as its status, and its failure.
OwnSaid ==
  OwnEnded \/ ownWriting = "close" \/ (ownWriting = "failure" /\ OwnTold # "started")
OwnFailed == OwnEnd = "failed" /\ (OwnEnded \/ ownWriting = "close")

\* Whoever wrote last, a child is shown as it ended or as its parent says that
\* its chain did, and a failure for one of these reasons; a close time and a
\* failure that its own job has written are not lost.
ShowsChild(s) ==
  /\ OwnSaid => s.status \in Ends \cup {OwnEnd}
  /\ OwnEnded => s.closeTime # "none"
  /\ s.failure => ParentFailed \/ OwnFailed
  /\ OwnFailed => s.failure

\* Whatever is shown has begun.
EntryInv(s) ==
  /\ \E j \in 1..applied : history.events[j].of = s.of
  /\ IF s.of = Child THEN ShowsChild(s) ELSE Shows(State!PastOf(s.of), s)

\* What a job has begun to write is of an event that it writes this way.
WritingInv ==
  /\ writing # "none" =>
       applied < Len(history.events) /\ State!OfBegunChild(history.events[applied + 1])
  /\ writing = "start" => Told = "started"
  /\ writing \in {"failure", "test", "close"} => Told \in State!Endings
  /\ writing = "failure" => Told = "failed"
OwnWritingInv ==
  /\ ownWriting # "none" => ownApplied < Len(history.own)
  /\ ownWriting \in {"start", "cancel"} => OwnTold = "started"
  /\ ownWriting = "failure" => OwnTold \in {"started", "failed"}
  /\ ownWriting = "close" => OwnTold \in State!Endings

\* The child's job begins after the child.
ChildStarted ==
  \E j \in 1..applied : history.events[j].of = Child /\ history.events[j].what = "started"

StateInv ==
  /\ history \in Histories /\ State!TypeOK /\ State!EntriesInOrder
  /\ workflow.of = "workflow" /\ Shows(State!PastOf("workflow"), workflow)
  /\ \A i \in DOMAIN entries : EntryInv(entries[i])
  /\ WritingInv /\ OwnWritingInv
  /\ ownApplied > 0 \/ ownWriting # "none" => ChildStarted

Past == SubSeq(history.events, 1, applied)

\* What a sequence is.
LEMMA SeqType ==
  ASSUME NEW T, NEW s \in Seq(T)
  PROVE  /\ DOMAIN s = 1..Len(s) /\ Len(s) \in Nat
         /\ \A i \in 1..Len(s) : s[i] \in T
OBVIOUS

\* The events of a history, one by one, and what they are about.
LEMMA EventType ==
  ASSUME State!ConstantsTyped, history \in Histories
  PROVE  /\ history.events \in Seq(State!Events) /\ State!OneLife(history.events)
         /\ DOMAIN history.events = 1..Len(history.events) /\ Len(history.events) \in Nat
         /\ \A i \in 1..Len(history.events) :
              /\ history.events[i] \in State!Events
              /\ history.events[i].of \in {"workflow", Child} \cup Activities \cup Timers
         /\ history.own \in Seq([of : {Child}, what : {"started", "cancelRequested"} \cup State!Endings])
         /\ State!OneRun(history.own) /\ Len(history.own) \in Nat
         /\ DOMAIN history.own = 1..Len(history.own)
         /\ \A i \in 1..Len(history.own) :
              history.own[i].what \in {"started", "cancelRequested"} \cup State!Endings
<1>1. /\ history.events \in Seq(State!Events) /\ State!OneLife(history.events)
      /\ history.own \in Seq([of : {Child}, what : {"started", "cancelRequested"} \cup State!Endings])
      /\ State!OneRun(history.own)
  BY DEF State!ConstantsTyped
<1>2. \A e \in State!Events : e.of \in {"workflow", Child} \cup Activities \cup Timers
  BY DEF State!Events
<1> HIDE DEF State!Events
<1>3. /\ DOMAIN history.events = 1..Len(history.events) /\ Len(history.events) \in Nat
      /\ \A i \in 1..Len(history.events) : history.events[i] \in State!Events
  BY <1>1, SeqType, Zenon
<1>4. /\ Len(history.own) \in Nat /\ DOMAIN history.own = 1..Len(history.own)
      /\ \A i \in 1..Len(history.own) :
           history.own[i].what \in {"started", "cancelRequested"} \cup State!Endings
  <2> DEFINE T == [of : {Child}, what : {"started", "cancelRequested"} \cup State!Endings]
  <2>1. history.own \in Seq(T)
    BY <1>1
  <2>2. \A e \in T : e.what \in {"started", "cancelRequested"} \cup State!Endings
    OBVIOUS
  <2> HIDE DEF T
  <2>3. /\ Len(history.own) \in Nat /\ DOMAIN history.own = 1..Len(history.own)
        /\ \A i \in 1..Len(history.own) : history.own[i] \in T
    BY <2>1, SeqType, Zenon
  <2> QED
    BY <2>2, <2>3
<1> QED
  BY <1>1, <1>2, <1>3, <1>4

\* What is said so far of a thing was said of it.
LEMMA PastOfType ==
  ASSUME State!ConstantsTyped, history \in Histories, applied \in 0..Len(history.events)
  PROVE  /\ Past \in Seq(State!Events) /\ Len(Past) = applied
         /\ \A name :
              /\ State!PastOf(name) \in Seq(State!Events)
              /\ \A k \in 1..Len(State!PastOf(name)) :
                   \E j \in 1..applied :
                     history.events[j].of = name /\ State!PastOf(name)[k] = history.events[j]
<1> DEFINE T == {history.events[j] : j \in 1..applied}
<1>1. /\ history.events \in Seq(State!Events) /\ Len(history.events) \in Nat /\ applied \in Nat
      /\ applied <= Len(history.events)
  <2>1. history.events \in Seq(State!Events) /\ Len(history.events) \in Nat
    BY EventType, Zenon
  <2> QED
    BY <2>1
<1>2. /\ Past \in Seq(State!Events) /\ Len(Past) = applied
      /\ \A j \in 1..applied : Past[j] = history.events[j]
  BY <1>1 DEF Past
<1>3. Past \in Seq(T)
  BY <1>1, <1>2
<1> SUFFICES ASSUME NEW name
             PROVE  /\ State!PastOf(name) \in Seq(State!Events)
                    /\ \A k \in 1..Len(State!PastOf(name)) :
                         \E j \in 1..applied :
                           history.events[j].of = name /\ State!PastOf(name)[k] = history.events[j]
  BY <1>2
<1> DEFINE set == {event \in State!ToSet(history.events) : event.of = name}
<1>4. State!PastOf(name) = Filtered(Past, set)
  BY DEF State!PastOf, State!Past, Past, State!Filtered, Filtered
<1> HIDE DEF set
<1>5. Filtered(Past, set) \in Seq(T \cap set)
  BY <1>3, FilteredType
<1>6. T \cap set \subseteq State!Events
  BY <1>1
<1> HIDE DEF T
<1>7. Filtered(Past, set) \in Seq(State!Events)
  BY <1>5, <1>6, SeqMonotonic, Zenon
<1>8. \A k \in 1..Len(Filtered(Past, set)) : Filtered(Past, set)[k] \in T \cap set
  BY <1>5
<1> QED
  BY <1>4, <1>7, <1>8 DEF T, set

\* What is said so far after one more event.
LEMMA OneEventMore ==
  ASSUME State!ConstantsTyped, history \in Histories, applied \in 0..(Len(history.events) - 1),
         history' = history, applied' = applied + 1,
         NEW event, event = history.events[applied + 1]
  PROVE  /\ \A name : State!PastOf(name)' =
              IF event.of = name THEN Append(State!PastOf(name), event) ELSE State!PastOf(name)
         /\ State!Begun' = IF State!Begins(event) THEN Append(State!Begun, event) ELSE State!Begun
<1>1. /\ history.events \in Seq(State!Events) /\ Len(history.events) \in Nat /\ applied \in Nat
      /\ applied + 1 <= Len(history.events) /\ event \in State!Events
  <2>1. /\ history.events \in Seq(State!Events) /\ Len(history.events) \in Nat
        /\ \A i \in 1..Len(history.events) : history.events[i] \in State!Events
    BY EventType, Zenon
  <2> QED
    BY <2>1
<1>2. Past \in Seq(State!Events) /\ Past' = Append(Past, event)
  BY <1>1 DEF Past
<1>3. event \in State!ToSet(history.events)
  BY <1>1 DEF State!ToSet
<1>4. \A set : Filtered(Append(Past, event), set) =
                 IF event \in set THEN Append(Filtered(Past, set), event) ELSE Filtered(Past, set)
  <2>1. Past \in Seq(State!Events) /\ event \in State!Events
    BY <1>1, <1>2
  <2>2. ASSUME NEW T, NEW s \in Seq(T), NEW e \in T, NEW set
        PROVE  Filtered(Append(s, e), set) =
                 IF e \in set THEN Append(Filtered(s, set), e) ELSE Filtered(s, set)
    BY FilteredAppend
  <2>3. \A s \in Seq(State!Events) : \A e \in State!Events : \A set :
          Filtered(Append(s, e), set) =
            IF e \in set THEN Append(Filtered(s, set), e) ELSE Filtered(s, set)
    BY <2>2
  <2> QED
    BY <2>1, <2>3, Zenon
<1>5. ASSUME NEW name
      PROVE  State!PastOf(name)' =
               IF event.of = name THEN Append(State!PastOf(name), event) ELSE State!PastOf(name)
  <2> DEFINE set == {e \in State!ToSet(history.events) : e.of = name}
  <2>1. State!PastOf(name) = Filtered(Past, set)
    BY DEF State!PastOf, State!Past, Past, State!Filtered, Filtered
  <2>2. State!PastOf(name)' = Filtered(Past', set)
    BY DEF State!PastOf, State!Past, Past, State!Filtered, Filtered, State!ToSet
  <2>3. event \in set <=> event.of = name
    BY <1>3
  <2> HIDE DEF set
  <2> QED
    BY <1>2, <1>4, <2>1, <2>2, <2>3
<1>6. State!Begun' = IF State!Begins(event) THEN Append(State!Begun, event) ELSE State!Begun
  <2> DEFINE set == {e \in State!ToSet(history.events) : State!Begins(e)}
  <2>1. State!Begun = Filtered(Past, set)
    BY DEF State!Begun, State!Past, Past, State!Filtered, Filtered
  <2>2. State!Begun' = Filtered(Past', set)
    BY DEF State!Begun, State!Past, Past, State!Filtered, Filtered, State!ToSet, State!Begins
  <2>3. event \in set <=> State!Begins(event)
    BY <1>3
  <2> HIDE DEF set
  <2> QED
    BY <1>2, <1>4, <2>1, <2>2, <2>3
<1> QED
  BY <1>5, <1>6

\* Nothing is said of what has ended, nor is it begun again, and a child
\* starts once.
LEMMA LifeGoesOn ==
  ASSUME State!ConstantsTyped, history \in Histories, applied \in 0..(Len(history.events) - 1),
         NEW event, event = history.events[applied + 1]
  PROVE  /\ ~EndedBy(State!PastOf(event.of))
         /\ State!Begins(event) =>
              /\ State!PastOf(event.of) = <<>>
              /\ \A j \in 1..applied : history.events[j].of # event.of
         /\ event.of = Child => \A j \in 1..applied : history.events[j] # event
<1>1. /\ Len(history.events) \in Nat /\ DOMAIN history.events = 1..Len(history.events)
      /\ State!OneLife(history.events)
  BY EventType, Zenon
<1>2. applied + 1 \in 1..Len(history.events) /\ applied \in 0..Len(history.events)
  BY <1>1
<1>3. \A j \in 1..applied :
        history.events[j].of = event.of =>
          /\ history.events[j].what \notin State!Endings /\ ~State!Begins(event)
          /\ event.of = Child => event # history.events[j]
  <2>1. \A j \in 1..applied : j \in 1..Len(history.events) /\ j < applied + 1
    BY <1>1, <1>2
  <2> QED
    BY <1>1, <1>2, <2>1 DEF State!OneLife
<1> DEFINE past == State!PastOf(event.of)
<1>4. past \in Seq(State!Events) /\ \A k \in 1..Len(past) :
         \E j \in 1..applied : history.events[j].of = event.of /\ past[k] = history.events[j]
  <2> DEFINE name == event.of
  <2>1. applied \in 0..Len(history.events)
    BY <1>2
  <2> HIDE DEF State!Events, name
  <2>2. /\ State!PastOf(name) \in Seq(State!Events)
        /\ \A k \in 1..Len(State!PastOf(name)) :
             \E j \in 1..applied :
               history.events[j].of = name /\ State!PastOf(name)[k] = history.events[j]
    BY <2>1, PastOfType, Zenon
  <2> QED
    BY <2>2, Zenon DEF name
<1> HIDE DEF past, State!Events
<1>5. past # <<>> => Len(past) \in 1..Len(past)
  BY <1>4
<1>6. ~EndedBy(past)
  BY <1>3, <1>4, <1>5 DEF EndedBy
<1>7. State!Begins(event) => past = <<>>
  BY <1>3, <1>4, <1>5
<1> QED
  BY <1>3, <1>6, <1>7 DEF past

\* An event is the last of a past that it is added to.
LEMMA PastAppended ==
  ASSUME NEW T, NEW past \in Seq(T), NEW event \in T
  PROVE  /\ EndedBy(Append(past, event)) <=> event.what \in State!Endings
         /\ EndBy(Append(past, event)) = event.what
<1>1. /\ Append(past, event) # <<>> /\ Append(past, event)[Len(Append(past, event))] = event
  OBVIOUS
<1> QED
  BY <1>1 DEF EndedBy, EndBy

\* What an event does to the state that it is about.
LEMMA WorkflowShown ==
  ASSUME NEW past \in Seq(State!Events), NEW s \in State!States, NEW event \in State!Events,
         event.of = "workflow", ~EndedBy(past), Shows(past, s), State!ConstantsTyped
  PROVE  /\ State!UpdateWorkflow(s, event.what) \in State!States
         /\ State!UpdateWorkflow(s, event.what).of = s.of
         /\ Shows(Append(past, event), State!UpdateWorkflow(s, event.what))
<1>1. event.what \in {"started", "cancelRequested"} \cup State!Endings
  BY DEF State!Events, State!ConstantsTyped
<1>2. /\ EndedBy(Append(past, event)) <=> event.what \in State!Endings
      /\ EndBy(Append(past, event)) = event.what
  BY PastAppended
<1>3. s.closeTime = "none" /\ s.failure = FALSE
  BY DEF Shows, State!States
<1>4. CASE event.what \in {"started", "cancelRequested"}
  BY <1>2, <1>3, <1>4 DEF Shows, State!UpdateWorkflow, State!States, State!Endings
<1>5. CASE event.what \in State!Endings
  <2>1. State!UpdateWorkflow(s, event.what) = State!Closed(s, event.what, event.what = "failed")
    BY <1>5 DEF State!UpdateWorkflow, State!Endings
  <2> QED
    BY <1>2, <1>3, <1>5, <2>1 DEF Shows, State!Closed, State!States
<1> QED
  BY <1>1, <1>4, <1>5

\* The same for updateActivity.
LEMMA ActivityShown ==
  ASSUME NEW past \in Seq(State!Events), NEW s \in State!States, NEW event \in State!Events,
         event.of \in Activities, ~State!Begins(event), ~EndedBy(past), Shows(past, s),
         State!ConstantsTyped
  PROVE  /\ State!UpdateActivity(s, event.what) \in State!States
         /\ State!UpdateActivity(s, event.what).of = s.of
         /\ Shows(Append(past, event), State!UpdateActivity(s, event.what))
<1>1. event.what \in {"started", "cancelRequested"} \cup State!Endings
  BY DEF State!Events, State!ConstantsTyped, State!Begins
<1>2. /\ EndedBy(Append(past, event)) <=> event.what \in State!Endings
      /\ EndBy(Append(past, event)) = event.what
  BY PastAppended
<1>3. s.closeTime = "none" /\ s.failure = FALSE
  BY DEF Shows, State!States
<1>4. CASE event.what \in {"started", "cancelRequested"}
  BY <1>2, <1>3, <1>4 DEF Shows, State!UpdateActivity, State!States, State!Endings
<1>5. CASE event.what \in State!Endings
  <2>1. State!UpdateActivity(s, event.what) =
          State!Closed(s, event.what, event.what \in {"failed", "timedOut"})
    BY <1>5 DEF State!UpdateActivity, State!Endings
  <2> QED
    BY <1>2, <1>3, <1>5, <2>1 DEF Shows, State!Closed, State!States
<1> QED
  BY <1>1, <1>4, <1>5

\* The same for updateTimer.
LEMMA TimerShown ==
  ASSUME NEW past \in Seq(State!Events), NEW s \in State!States, NEW event \in State!Events,
         event.of \in Timers, ~State!Begins(event), ~EndedBy(past), Shows(past, s),
         State!ConstantsTyped
  PROVE  /\ State!UpdateTimer(s, event.what) \in State!States
         /\ State!UpdateTimer(s, event.what).of = s.of
         /\ Shows(Append(past, event), State!UpdateTimer(s, event.what))
<1>1. event.what \in State!Endings
  BY DEF State!Events, State!ConstantsTyped, State!Begins
<1>2. /\ EndedBy(Append(past, event)) /\ EndBy(Append(past, event)) = event.what
  BY <1>1, PastAppended
<1>3. s.closeTime = "none" /\ s.failure = FALSE
  BY DEF Shows, State!States
<1> QED
  BY <1>1, <1>2, <1>3 DEF Shows, State!UpdateTimer, State!Closed, State!States

Entry == {s \in State!States : s.of # "workflow"}

\* Entries that stay what they are of stay in order.
LEMMA OrderKept ==
  ASSUME State!TypeOK, State!EntriesInOrder, State!Begun' = State!Begun,
         entries' = [i \in DOMAIN entries |-> entries'[i]],
         \A i \in DOMAIN entries :
           entries'[i] \in State!States /\ entries'[i].of = entries[i].of
  PROVE  DOMAIN entries' = DOMAIN entries /\ entries' \in Seq(Entry) /\ State!EntriesInOrder'
<1>1. entries \in Seq(Entry)
  BY DEF State!TypeOK, Entry
<1>2. \A i \in DOMAIN entries : entries[i].of # "workflow"
  <2>1. \A i \in 1..Len(entries) : entries[i] \in Entry
    BY <1>1
  <2> QED
    BY <1>1, <2>1 DEF Entry
<1>3. \A i \in DOMAIN entries : entries'[i] \in Entry
  BY <1>2 DEF Entry
<1>4. DOMAIN entries' = DOMAIN entries
  BY Zenon
<1>5. entries' \in Seq(Entry)
  <2>1. Len(entries) \in Nat /\ DOMAIN entries = 1..Len(entries)
    BY <1>1
  <2>2. entries' \in [1..Len(entries) -> Entry]
    BY <1>3, <2>1, Zenon
  <2> QED
    <3>1. ASSUME NEW T, NEW n \in Nat PROVE [1..n -> T] \subseteq Seq(T)
      OBVIOUS
    <3>2. [1..Len(entries) -> Entry] \subseteq Seq(Entry)
      BY <2>1, <3>1
    <3> QED
      BY <2>2, <3>2
<1>6. State!EntriesInOrder'
  <2>1. [i \in DOMAIN entries' |-> entries'[i].of] = [i \in DOMAIN entries |-> entries[i].of]
    BY <1>4
  <2> QED
    BY <2>1, Zenon DEF State!EntriesInOrder
<1> QED
  BY <1>4, <1>5, <1>6

\* The initial states.
LEMMA StateInit == ASSUME State!ConstantsTyped, State!Init PROVE StateInv
<1>1. history \in Histories /\ applied = 0 /\ ownApplied = 0 /\ entries = <<>>
      /\ writing = "none" /\ ownWriting = "none"
      /\ workflow = State!State("workflow", "unspecified")
  BY DEF State!Init
<1>2. Len(history.events) \in Nat /\ Len(history.own) \in Nat
  BY <1>1, EventType, Zenon
<1>3. Past = <<>>
  <2>1. history.events \in Seq(State!Events)
    BY <1>1, EventType, Zenon
  <2> QED
    BY <1>1, <2>1 DEF Past
<1>4. State!PastOf("workflow") = <<>>
  <2> DEFINE set == {e \in State!ToSet(history.events) : e.of = "workflow"}
  <2>1. State!PastOf("workflow") = Filtered(Past, set)
    BY DEF State!PastOf, State!Past, Past, State!Filtered, Filtered
  <2> HIDE DEF set
  <2> QED
    BY <1>3, <2>1, FilteredEmpty
<1>5. State!Begun = <<>>
  <2> DEFINE set == {e \in State!ToSet(history.events) : State!Begins(e)}
  <2>1. State!Begun = Filtered(Past, set)
    BY DEF State!Begun, State!Past, Past, State!Filtered, Filtered
  <2> HIDE DEF set
  <2> QED
    BY <1>3, <2>1, FilteredEmpty
<1>6. workflow \in State!States /\ workflow.of = "workflow" /\ workflow.closeTime = "none"
      /\ workflow.failure = FALSE
  BY <1>1 DEF State!State, State!States
<1>7. State!TypeOK
  BY <1>1, <1>2, <1>6 DEF State!TypeOK
<1>8. State!EntriesInOrder
  BY <1>1, <1>5 DEF State!EntriesInOrder
<1>9. Shows(<<>>, workflow)
  BY <1>6 DEF Shows, EndedBy
<1>10. WritingInv /\ OwnWritingInv
  BY <1>1 DEF WritingInv, OwnWritingInv
<1> QED
  BY <1>1, <1>4, <1>6, <1>7, <1>8, <1>9, <1>10 DEF StateInv

\* What the parent's job knows when it applies an event.
LEMMA EventKnows ==
  ASSUME State!ConstantsTyped, StateInv, applied < Len(history.events)
  PROVE  LET event == history.events[applied + 1] IN
         /\ history \in Histories
         /\ applied \in 0..(Len(history.events) - 1) /\ Len(history.events) \in Nat
         /\ event \in State!Events
         /\ event.of \in {"workflow", Child} \cup Activities \cup Timers
         /\ \A name : State!PastOf(name) \in Seq(State!Events)
         /\ ~EndedBy(State!PastOf(event.of))
         /\ State!Begins(event) =>
              /\ State!PastOf(event.of) = <<>>
              /\ \A j \in 1..applied : history.events[j].of # event.of
         /\ ownApplied > 0 \/ ownWriting # "none" =>
              (event.of = Child => event.what # "started" /\ ~State!Begins(event))
<1> DEFINE event == history.events[applied + 1]
<1>1. history \in Histories /\ applied \in 0..Len(history.events)
  BY DEF StateInv, State!TypeOK
<1>2. /\ Len(history.events) \in Nat
      /\ \A i \in 1..Len(history.events) :
           /\ history.events[i] \in State!Events
           /\ history.events[i].of \in {"workflow", Child} \cup Activities \cup Timers
  BY <1>1, EventType, Zenon
<1>3. applied \in 0..(Len(history.events) - 1) /\ applied + 1 \in 1..Len(history.events)
  BY <1>1, <1>2
<1>4. event \in State!Events /\ event.of \in {"workflow", Child} \cup Activities \cup Timers
  BY <1>2, <1>3
<1>5. \A name : State!PastOf(name) \in Seq(State!Events)
  BY <1>1, PastOfType, Zenon
<1>6. /\ ~EndedBy(State!PastOf(event.of))
      /\ State!Begins(event) =>
           /\ State!PastOf(event.of) = <<>>
           /\ \A j \in 1..applied : history.events[j].of # event.of
      /\ event.of = Child => \A j \in 1..applied : history.events[j] # event
  BY <1>1, <1>3, LifeGoesOn, Zenon
<1>7. ASSUME ownApplied > 0 \/ ownWriting # "none", event.of = Child
      PROVE  event.what # "started" /\ ~State!Begins(event)
  <2>1. PICK j \in 1..applied : history.events[j].of = Child /\ history.events[j].what = "started"
    BY <1>7 DEF StateInv, ChildStarted
  <2>2. ~State!Begins(event)
    BY <1>6, <1>7, <2>1
  <2>3. history.events[j] \in State!Events
    BY <1>2, <1>3, <2>1
  <2>4. \A e, f \in State!Events : e.of = f.of /\ e.what = f.what => e = f
    <3>1. ASSUME NEW A, NEW B, NEW e \in [of : A, what : B] PROVE e = [of |-> e.of, what |-> e.what]
      OBVIOUS
    <3>2. \A e \in State!Events : e = [of |-> e.of, what |-> e.what]
      BY <3>1 DEF State!Events
    <3> HIDE DEF State!Events
    <3> QED
      BY <3>2
  <2>5. event.what # "started"
    <3> HIDE DEF event
    <3> QED
      BY <1>4, <1>6, <1>7, <2>1, <2>3, <2>4
  <2> QED
    BY <2>2, <2>5
<1> HIDE DEF event
<1> QED
  BY <1>1, <1>2, <1>3, <1>4, <1>5, <1>6, <1>7 DEF event

\* What it knows after the event.
LEMMA EventTells ==
  ASSUME State!ConstantsTyped, StateInv, applied < Len(history.events),
         history' = history, applied' = applied + 1
  PROVE  LET event == history.events[applied + 1] IN
         /\ \A name : State!PastOf(name)' =
              IF event.of = name THEN Append(State!PastOf(name), event) ELSE State!PastOf(name)
         /\ State!Begun' = IF State!Begins(event) THEN Append(State!Begun, event) ELSE State!Begun
<1>1. history \in Histories /\ applied \in 0..(Len(history.events) - 1)
  BY EventKnows, Zenon
<1> QED
  BY <1>1, OneEventMore, Zenon

\* An event that is applied in one step changes nothing of what is said of a
\* child's end.
LEMMA UpdateKnows ==
  ASSUME State!ConstantsTyped, StateInv, State!Update
  PROVE  LET event == history.events[applied + 1] IN
         /\ history' = history /\ applied' = applied + 1 /\ ownApplied' = ownApplied
         /\ writing = "none" /\ writing' = "none" /\ ownWriting' = ownWriting
         /\ ~State!OfBegunChild(event)
         /\ applied \in 0..(Len(history.events) - 1) /\ Len(history.events) \in Nat
         /\ event \in State!Events
         /\ event.of \in {"workflow", Child} \cup Activities \cup Timers
         /\ \A name :
              /\ State!PastOf(name) \in Seq(State!Events)
              /\ State!PastOf(name)' =
                   IF event.of = name THEN Append(State!PastOf(name), event) ELSE State!PastOf(name)
         /\ State!Begun' = IF State!Begins(event) THEN Append(State!Begun, event) ELSE State!Begun
         /\ ~EndedBy(State!PastOf(event.of))
         /\ State!Begins(event) =>
              /\ State!PastOf(event.of) = <<>>
              /\ \A j \in 1..applied : history.events[j].of # event.of
         /\ (OwnEnded' <=> OwnEnded) /\ OwnEnd' = OwnEnd
         /\ (OwnSaid' <=> OwnSaid) /\ (OwnFailed' <=> OwnFailed)
         /\ Ends' = Ends /\ (ParentFailed' <=> ParentFailed)
         /\ event.of = Child /\ State!Begins(event) => ~OwnSaid /\ ~OwnFailed /\ ~OwnEnded
<1> DEFINE event == history.events[applied + 1]
<1>1. /\ history' = history /\ applied' = applied + 1 /\ ownApplied' = ownApplied
      /\ writing' = writing /\ ownWriting' = ownWriting
      /\ applied < Len(history.events) /\ ~State!OfBegunChild(event)
  BY DEF State!Update
<1>2. writing = "none"
  BY <1>1 DEF StateInv, WritingInv
<1>3. /\ applied \in 0..(Len(history.events) - 1) /\ Len(history.events) \in Nat
      /\ event \in State!Events
      /\ event.of \in {"workflow", Child} \cup Activities \cup Timers
      /\ \A name : State!PastOf(name) \in Seq(State!Events)
      /\ ~EndedBy(State!PastOf(event.of))
      /\ State!Begins(event) =>
           /\ State!PastOf(event.of) = <<>>
           /\ \A j \in 1..applied : history.events[j].of # event.of
      /\ ownApplied > 0 \/ ownWriting # "none" =>
           (event.of = Child => event.what # "started" /\ ~State!Begins(event))
  BY <1>1, EventKnows, Zenon
<1>4. /\ \A name : State!PastOf(name)' =
           IF event.of = name THEN Append(State!PastOf(name), event) ELSE State!PastOf(name)
      /\ State!Begun' = IF State!Begins(event) THEN Append(State!Begun, event) ELSE State!Begun
  BY <1>1, EventTells, Zenon
<1>5. (OwnEnded' <=> OwnEnded) /\ OwnEnd' = OwnEnd
  BY <1>1 DEF OwnEnded, OwnEnd, State!Endings
<1>6. (OwnSaid' <=> OwnSaid) /\ (OwnFailed' <=> OwnFailed)
  BY <1>1, <1>5 DEF OwnSaid, OwnFailed, OwnTold
<1>7. Ends = IF EndedBy(State!PastOf(Child)) THEN {EndBy(State!PastOf(Child))} ELSE {}
  BY <1>2 DEF Ends
<1>8. Ends' = IF EndedBy(State!PastOf(Child)') THEN {EndBy(State!PastOf(Child)')} ELSE {}
  BY <1>1, <1>2 DEF Ends, EndedBy, EndBy, State!Endings
<1>9. Ends' = Ends
  <2>1. CASE event.of # Child
    <3>1. State!PastOf(Child)' = State!PastOf(Child)
      BY <1>4, <2>1, Zenon
    <3> QED
      BY <1>7, <1>8, <3>1
  <2>2. CASE event.of = Child
    <3>1. State!PastOf(Child) \in Seq(State!Events) /\ ~EndedBy(State!PastOf(Child))
          /\ State!PastOf(Child)' = Append(State!PastOf(Child), event)
      BY <1>3, <1>4, <2>2, Zenon
    <3>2. event.what \notin State!Endings
      BY <1>1, <2>2 DEF State!OfBegunChild
    <3>3. ~EndedBy(State!PastOf(Child)')
      BY <1>3, <3>1, <3>2, PastAppended, Zenon
    <3> QED
      BY <1>7, <1>8, <3>1, <3>3
  <2> QED
    BY <2>1, <2>2
<1>10. ParentFailed' <=> ParentFailed
  BY <1>1, <1>9 DEF ParentFailed
<1>11. ASSUME event.of = Child, State!Begins(event) PROVE ~OwnSaid /\ ~OwnFailed /\ ~OwnEnded
  <2>1. ~(ownApplied > 0) /\ ownWriting = "none"
    BY <1>3, <1>11
  <2>2. Len(history.own) \in Nat /\ history.own # <<>> => Len(history.own) > 0
    <3>1. history \in Histories
      BY DEF StateInv
    <3>2. history.own \in Seq([of : {Child}, what : {"started", "cancelRequested"} \cup State!Endings])
      BY <3>1, EventType, Zenon
    <3> QED
      BY <3>2
  <2>3. ~OwnEnded
    BY <2>1, <2>2 DEF OwnEnded
  <2> QED
    BY <2>1, <2>3 DEF OwnSaid, OwnFailed
<1> HIDE DEF event
<1> QED
  BY <1>1, <1>2, <1>3, <1>4, <1>5, <1>6, <1>9, <1>10, <1>11 DEF event

\* What is asked of the states and of each of them, after an event.
LEMMA StatesAfter ==
  ASSUME State!ConstantsTyped, StateInv, State!Update,
         workflow' \in State!States, workflow'.of = "workflow",
         Shows(State!PastOf("workflow")', workflow'),
         entries' \in Seq(Entry), State!EntriesInOrder',
         \A i \in DOMAIN entries' : EntryInv(entries[i])'
  PROVE  StateInv'
<1>1. /\ history' = history /\ applied' = applied + 1 /\ ownApplied' = ownApplied
      /\ writing' = "none" /\ ownWriting' = ownWriting
      /\ applied \in 0..(Len(history.events) - 1) /\ Len(history.events) \in Nat
  BY UpdateKnows, Zenon
<1>2. /\ history \in Histories /\ ownApplied \in 0..Len(history.own)
      /\ ownWriting \in {"none", "start", "failure", "cancel", "close"}
  BY DEF StateInv, State!TypeOK
<1>3. State!TypeOK'
  <2>1. State!TypeOK' <=> /\ applied' \in 0..Len(history'.events)
                          /\ ownApplied' \in 0..Len(history'.own)
                          /\ writing' \in {"none", "start", "failure", "test", "close"}
                          /\ ownWriting' \in {"none", "start", "failure", "cancel", "close"}
                          /\ workflow' \in State!States /\ entries' \in Seq(Entry)
    BY DEF State!TypeOK, State!States, State!Endings, Entry
  <2>2. applied + 1 \in 0..Len(history.events)
    BY <1>1
  <2> QED
    BY <1>1, <1>2, <2>1, <2>2
<1>4. ownApplied' > 0 \/ ownWriting' # "none" => ChildStarted'
  <2>1. 1..applied \subseteq 1..applied'
    BY <1>1
  <2> QED
    BY <1>1, <2>1 DEF StateInv, ChildStarted
<1>5. WritingInv' /\ OwnWritingInv'
  <2>1. WritingInv'
    BY <1>1 DEF WritingInv
  <2>2. OwnWritingInv
    BY DEF StateInv
  <2> QED
    BY <1>1, <2>1, <2>2 DEF OwnWritingInv, OwnTold, State!Endings
<1> QED
  BY <1>1, <1>2, <1>3, <1>4, <1>5 DEF StateInv, Shows

\* What is asked of an entry after an event.
LEMMA EntryAfter ==
  ASSUME NEW i, NEW name, entries'[i].of = name,
         \E j \in 1..applied' : history'.events[j].of = name,
         name # Child => Shows(State!PastOf(name)', entries'[i]),
         name = Child => ShowsChild(entries[i])'
  PROVE  EntryInv(entries[i])'
BY DEF EntryInv

\* An event of something else leaves an entry as it is.
LEMMA EntryUnmoved ==
  ASSUME StateInv, NEW i \in DOMAIN entries, entries'[i] = entries[i], history' = history,
         applied' = applied + 1, applied \in Nat,
         NEW event, entries[i].of # event.of \/ entries[i].of = Child,
         \A name : State!PastOf(name)' =
           IF event.of = name THEN Append(State!PastOf(name), event) ELSE State!PastOf(name),
         OwnEnded' <=> OwnEnded, OwnEnd' = OwnEnd, OwnSaid' <=> OwnSaid, OwnFailed' <=> OwnFailed,
         Ends' = Ends, ParentFailed' <=> ParentFailed
  PROVE  EntryInv(entries[i])' 
<1>1. PICK name : name = entries[i].of
  OBVIOUS
<1>2. /\ name # Child => Shows(State!PastOf(name), entries[i])
      /\ name = Child => ShowsChild(entries[i])
      /\ \E j \in 1..applied : history.events[j].of = name
  BY <1>1 DEF EntryInv, StateInv
<1>3. name # Child => State!PastOf(name)' = State!PastOf(name)
  BY <1>1
<1>4. \E j \in 1..applied' : history'.events[j].of = name
  <2>1. 1..applied \subseteq 1..applied'
    OBVIOUS
  <2> QED
    BY <1>2, <2>1
<1>5. entries'[i].of = name
  BY <1>1
<1>6. name # Child => Shows(State!PastOf(name)', entries'[i])
  BY <1>2, <1>3
<1>7. name = Child => ShowsChild(entries[i])'
  BY <1>2 DEF ShowsChild
<1> QED
  BY <1>4, <1>5, <1>6, <1>7, EntryAfter, Zenon

\* An event of the workflow itself.
LEMMA WorkflowEvent ==
  ASSUME State!ConstantsTyped, StateInv, State!Update, history.events[applied + 1].of = "workflow"
  PROVE  StateInv'
<1> DEFINE event == history.events[applied + 1]
<1>1. /\ history' = history /\ applied' = applied + 1 /\ event \in State!Events
      /\ applied \in 0..(Len(history.events) - 1)
      /\ \A name :
           /\ State!PastOf(name) \in Seq(State!Events)
           /\ State!PastOf(name)' =
                IF event.of = name THEN Append(State!PastOf(name), event) ELSE State!PastOf(name)
      /\ State!Begun' = IF State!Begins(event) THEN Append(State!Begun, event) ELSE State!Begun
      /\ ~EndedBy(State!PastOf(event.of))
      /\ (OwnEnded' <=> OwnEnded) /\ OwnEnd' = OwnEnd
      /\ (OwnSaid' <=> OwnSaid) /\ (OwnFailed' <=> OwnFailed)
      /\ Ends' = Ends /\ (ParentFailed' <=> ParentFailed)
  BY UpdateKnows, Zenon
<1>2. workflow' = State!UpdateWorkflow(workflow, event.what) /\ entries' = entries
  BY DEF State!Update
<1>3. event.of = "workflow"
  OBVIOUS
<1>4. workflow \in State!States /\ workflow.of = "workflow" /\ Shows(State!PastOf("workflow"), workflow)
  BY DEF StateInv, State!TypeOK
<1> HIDE DEF event
<1>5. /\ workflow' \in State!States /\ workflow'.of = "workflow"
      /\ Shows(Append(State!PastOf("workflow"), event), workflow')
  <2>1. State!PastOf("workflow") \in Seq(State!Events) /\ ~EndedBy(State!PastOf("workflow"))
    BY <1>1, <1>3
  <2> QED
    BY <1>1, <1>2, <1>3, <1>4, <2>1, WorkflowShown
<1>6. Shows(State!PastOf("workflow")', workflow')
  BY <1>1, <1>3, <1>5
<1>7. ~State!Begins(event)
  BY <1>1, <1>3 DEF State!Events, State!Begins, State!Endings, State!ConstantsTyped
<1>8. entries \in Seq(Entry) /\ \A i \in DOMAIN entries : entries[i].of # "workflow"
  <2>1. entries \in Seq(Entry)
    BY DEF StateInv, State!TypeOK, Entry
  <2>2. \A i \in 1..Len(entries) : entries[i] \in Entry
    BY <2>1
  <2> QED
    BY <2>1, <2>2 DEF Entry
<1>9. State!EntriesInOrder'
  BY <1>1, <1>2, <1>7 DEF StateInv, State!EntriesInOrder
<1>10. ASSUME NEW i \in DOMAIN entries PROVE EntryInv(entries[i])'
  <2>1. EntryInv(entries[i]) /\ entries[i].of # "workflow"
    BY <1>8 DEF StateInv
  <2>2. entries'[i] = entries[i] /\ entries[i].of # event.of /\ applied \in Nat
    BY <1>1, <1>2, <1>3, <2>1
  <2> QED
    BY <1>1, <2>2, EntryUnmoved, Zenon
<1> QED
  BY <1>2, <1>5, <1>6, <1>8, <1>9, <1>10, StatesAfter

\* What begins with an event.
LEMMA NewEntryShown ==
  ASSUME State!ConstantsTyped, NEW event \in State!Events, State!Begins(event)
  PROVE  /\ State!NewEntry(event) \in Entry /\ State!NewEntry(event).of = event.of
         /\ Shows(<<event>>, State!NewEntry(event))
         /\ State!NewEntry(event).failure = FALSE
<1>1. event.what \notin State!Endings /\ event.of \in {Child} \cup Activities \cup Timers
  BY DEF State!Begins, State!Endings, State!Events
<1>2. ~EndedBy(<<event>>)
  BY <1>1 DEF EndedBy
<1>3. /\ State!NewEntry(event) \in State!States /\ State!NewEntry(event).of = event.of
      /\ State!NewEntry(event).closeTime = "none" /\ State!NewEntry(event).failure = FALSE
  BY <1>1 DEF State!NewEntry, State!State, State!States
<1>4. event.of # "workflow"
  BY <1>1 DEF State!ConstantsTyped
<1> QED
  BY <1>2, <1>3, <1>4 DEF Shows, Entry

\* Sequences with the same indices have one length.
LEMMA SameLength ==
  ASSUME NEW T, NEW s \in Seq(T), NEW U, NEW t \in Seq(U), DOMAIN s = DOMAIN t
  PROVE  Len(s) = Len(t)
<1>1. \A m, n \in Nat : 1..m = 1..n => m <= n
  <2> SUFFICES ASSUME NEW m \in Nat, NEW n \in Nat, 1..m = 1..n PROVE m <= n
    OBVIOUS
  <2>1. m # 0 => m \in 1..n
    OBVIOUS
  <2> QED
    BY <2>1
<1>2. DOMAIN s = 1..Len(s) /\ DOMAIN t = 1..Len(t) /\ Len(s) \in Nat /\ Len(t) \in Nat
  OBVIOUS
<1>3. Len(s) <= Len(t) /\ Len(t) <= Len(s)
  BY <1>1, <1>2
<1>4. \A m, n \in Nat : m <= n /\ n <= m => m = n
  OBVIOUS
<1> QED
  BY <1>2, <1>3, <1>4, Zenon

\* What equal functions say of the things that they are of.
LEMMA SameValues ==
  ASSUME NEW s, NEW t, [i \in DOMAIN s |-> s[i].of] = [i \in DOMAIN t |-> t[i].of]
  PROVE  DOMAIN s = DOMAIN t /\ \A i \in DOMAIN s : s[i].of = t[i].of
<1>1. /\ DOMAIN [i \in DOMAIN s |-> s[i].of] = DOMAIN s
      /\ DOMAIN [i \in DOMAIN t |-> t[i].of] = DOMAIN t
      /\ \A j \in DOMAIN s : [i \in DOMAIN s |-> s[i].of][j] = s[j].of
      /\ \A j \in DOMAIN t : [i \in DOMAIN t |-> t[i].of][j] = t[j].of
  BY Zenon
<1> QED
  BY <1>1, Zenon

\* Sequences of the same things in the same order, with one more.
LEMMA OrderAppended ==
  \A s \in Seq(Entry), t \in Seq(State!Events) : \A x \in Entry, y \in State!Events :
    x.of = y.of /\ DOMAIN s = DOMAIN t /\ (\A i \in DOMAIN s : s[i].of = t[i].of) =>
      [i \in DOMAIN Append(s, x) |-> Append(s, x)[i].of]
        = [i \in DOMAIN Append(t, y) |-> Append(t, y)[i].of]
<1> SUFFICES ASSUME NEW s \in Seq(Entry), NEW t \in Seq(State!Events),
                    NEW x \in Entry, NEW y \in State!Events,
                    x.of = y.of, DOMAIN s = DOMAIN t, \A i \in DOMAIN s : s[i].of = t[i].of
             PROVE  [i \in DOMAIN Append(s, x) |-> Append(s, x)[i].of]
                      = [i \in DOMAIN Append(t, y) |-> Append(t, y)[i].of]
  OBVIOUS
<1>1. DOMAIN s = 1..Len(s) /\ Len(s) \in Nat /\ Len(t) = Len(s)
  BY SameLength
<1>2. /\ DOMAIN Append(s, x) = 1..(Len(s) + 1) /\ DOMAIN Append(t, y) = 1..(Len(s) + 1)
      /\ \A i \in 1..(Len(s) + 1) : Append(s, x)[i] = IF i = Len(s) + 1 THEN x ELSE s[i]
      /\ \A i \in 1..(Len(s) + 1) : Append(t, y)[i] = IF i = Len(s) + 1 THEN y ELSE t[i]
  BY <1>1
<1>3. \A i \in 1..(Len(s) + 1) : Append(s, x)[i].of = Append(t, y)[i].of
  <2> SUFFICES ASSUME NEW i \in 1..(Len(s) + 1) PROVE Append(s, x)[i].of = Append(t, y)[i].of
    OBVIOUS
  <2>1. i # Len(s) + 1 => i \in DOMAIN s
    BY <1>1
  <2> QED
    BY <1>2, <2>1, Zenon
<1> QED
  BY <1>2, <1>3

\* An event that begins something under the workflow.
LEMMA BeginningEvent ==
  ASSUME State!ConstantsTyped, StateInv, State!Update, history.events[applied + 1].of # "workflow",
         State!Begins(history.events[applied + 1])
  PROVE  StateInv'
<1> DEFINE event == history.events[applied + 1]
<1> DEFINE new == State!NewEntry(event)
<1>1. /\ history' = history /\ applied' = applied + 1 /\ event \in State!Events
      /\ applied \in 0..(Len(history.events) - 1) /\ Len(history.events) \in Nat
      /\ \A name : State!PastOf(name)' =
           IF event.of = name THEN Append(State!PastOf(name), event) ELSE State!PastOf(name)
      /\ State!Begun' = (IF State!Begins(event) THEN Append(State!Begun, event) ELSE State!Begun)
      /\ State!Begins(event) =>
           /\ State!PastOf(event.of) = <<>>
           /\ \A j \in 1..applied : history.events[j].of # event.of
      /\ (OwnEnded' <=> OwnEnded) /\ OwnEnd' = OwnEnd
      /\ (OwnSaid' <=> OwnSaid) /\ (OwnFailed' <=> OwnFailed)
      /\ Ends' = Ends /\ (ParentFailed' <=> ParentFailed)
      /\ event.of = Child /\ State!Begins(event) => ~OwnSaid /\ ~OwnFailed /\ ~OwnEnded
  BY UpdateKnows, Zenon
<1>2. entries' = Append(entries, new) /\ workflow' = workflow
  BY DEF State!Update
<1>3. State!Begins(event) /\ event.of # "workflow"
  OBVIOUS
<1>4. workflow \in State!States /\ workflow.of = "workflow" /\ Shows(State!PastOf("workflow"), workflow)
      /\ entries \in Seq(Entry) /\ State!EntriesInOrder
  BY DEF StateInv, State!TypeOK, Entry
<1>5. State!Begun \in Seq(State!Events)
  <2> DEFINE set == {e \in State!ToSet(history.events) : State!Begins(e)}
  <2>1. State!Begun = Filtered(Past, set)
    BY DEF State!Begun, State!Past, Past, State!Filtered, Filtered
  <2>2. Past \in Seq(State!Events)
    <3>1. history \in Histories /\ applied \in 0..Len(history.events)
      BY <1>1 DEF StateInv
    <3> QED
      BY <3>1, PastOfType, Zenon
  <2> HIDE DEF set
  <2>3. Filtered(Past, set) \in Seq(State!Events \cap set)
    BY <2>2, FilteredType
  <2>4. State!Events \cap set \subseteq State!Events
    OBVIOUS
  <2> QED
    BY <2>1, <2>3, <2>4, SeqMonotonic, Zenon
<1> HIDE DEF event
<1>6. new \in Entry /\ new.of = event.of /\ Shows(<<event>>, new) /\ new.failure = FALSE
  BY <1>1, <1>3, NewEntryShown, Zenon
<1> HIDE DEF new
<1>7. entries' \in Seq(Entry) /\ Len(entries') = Len(entries) + 1 /\ entries'[Len(entries) + 1] = new
      /\ \A i \in 1..Len(entries) : entries'[i] = entries[i]
      /\ DOMAIN entries' = 1..(Len(entries) + 1) /\ DOMAIN entries = 1..Len(entries)
      /\ Len(entries) \in Nat
  BY <1>2, <1>4, <1>6
<1>8. State!EntriesInOrder'
  <2>1. [i \in DOMAIN Append(entries, new) |-> Append(entries, new)[i].of]
          = [i \in DOMAIN Append(State!Begun, event) |-> Append(State!Begun, event)[i].of]
    <3>1. DOMAIN entries = DOMAIN State!Begun
          /\ \A i \in DOMAIN entries : entries[i].of = State!Begun[i].of
      BY <1>4, SameValues, Zenon DEF State!EntriesInOrder
    <3> QED
      <4>1. entries \in Seq(Entry) /\ State!Begun \in Seq(State!Events) /\ new \in Entry
            /\ event \in State!Events /\ new.of = event.of
        BY <1>1, <1>4, <1>5, <1>6
      <4> QED
        BY <3>1, <4>1, OrderAppended, Zenon
  <2>2. State!Begun' = Append(State!Begun, event)
    BY <1>1, <1>3
  <2> QED
    BY <1>2, <2>1, <2>2, Zenon DEF State!EntriesInOrder
<1>9. Shows(State!PastOf("workflow")', workflow')
  BY <1>1, <1>2, <1>3, <1>4
<1>10. applied \in Nat
  BY <1>1
<1>11. ASSUME NEW i \in 1..Len(entries) PROVE EntryInv(entries[i])'
  <2>1. i \in DOMAIN entries /\ entries'[i] = entries[i]
    BY <1>7
  <2>2. entries[i].of # event.of
    BY <1>1, <1>3, <2>1 DEF StateInv, EntryInv
  <2> QED
    BY <1>1, <1>10, <2>1, <2>2, EntryUnmoved, Zenon
<1>12. ASSUME NEW k, k = Len(entries) + 1 PROVE EntryInv(entries[k])'
  <2>1. PICK name : name = event.of
    OBVIOUS
  <2>2. entries'[k] = new /\ entries'[k].of = name
    BY <1>6, <1>7, <1>12, <2>1
  <2>3. State!PastOf(name)' = <<event>>
    <3>1. State!PastOf(name)' = Append(State!PastOf(name), event)
      BY <1>1, <2>1, Zenon
    <3>2. State!PastOf(name) = <<>>
      BY <1>1, <1>3, <2>1, Zenon
    <3>3. Append(<<>>, event) = <<event>>
      OBVIOUS
    <3> QED
      BY <3>1, <3>2, <3>3, Zenon
  <2>4. \E j \in 1..applied' : history'.events[j].of = name
    <3>1. applied + 1 \in 1..applied'
      BY <1>1
    <3> QED
      BY <1>1, <2>1, <3>1 DEF event
  <2>5. name # Child => Shows(State!PastOf(name)', entries'[k])
    BY <1>6, <2>2, <2>3
  <2>6. name = Child => ShowsChild(entries[k])'
    BY <1>1, <1>3, <1>6, <1>12, <2>1, <2>2 DEF ShowsChild
  <2> QED
    BY <2>2, <2>4, <2>5, <2>6, EntryAfter, Zenon
<1>13. \A i \in DOMAIN entries' : EntryInv(entries[i])'
  <2> SUFFICES ASSUME NEW i \in DOMAIN entries' PROVE EntryInv(entries[i])'
    OBVIOUS
  <2>1. i \in 1..Len(entries) \/ i = Len(entries) + 1
    BY <1>7
  <2> QED
    BY <1>11, <1>12, <2>1
<1> QED
  BY <1>2, <1>4, <1>7, <1>8, <1>9, <1>13, StatesAfter

\* Any other event is one of an entry that it finds by what it is of.
LEMMA EntryEvent ==
  ASSUME State!ConstantsTyped, StateInv, State!Update, history.events[applied + 1].of # "workflow",
         ~State!Begins(history.events[applied + 1])
  PROVE  StateInv'
<1> DEFINE event == history.events[applied + 1]
<1>1. /\ history' = history /\ applied' = applied + 1 /\ event \in State!Events
      /\ applied \in 0..(Len(history.events) - 1) /\ Len(history.events) \in Nat
      /\ event.of \in {"workflow", Child} \cup Activities \cup Timers
      /\ \A name :
           /\ State!PastOf(name) \in Seq(State!Events)
           /\ State!PastOf(name)' =
                IF event.of = name THEN Append(State!PastOf(name), event) ELSE State!PastOf(name)
      /\ State!Begun' = (IF State!Begins(event) THEN Append(State!Begun, event) ELSE State!Begun)
      /\ ~EndedBy(State!PastOf(event.of))
      /\ (OwnEnded' <=> OwnEnded) /\ OwnEnd' = OwnEnd
      /\ (OwnSaid' <=> OwnSaid) /\ (OwnFailed' <=> OwnFailed)
      /\ Ends' = Ends /\ (ParentFailed' <=> ParentFailed)
  BY UpdateKnows, Zenon
<1>2. entries' = State!UpdateEntry(event) /\ workflow' = workflow
  BY DEF State!Update
<1>3. ~State!Begins(event) /\ event.of # "workflow"
  OBVIOUS
<1>4. workflow \in State!States /\ workflow.of = "workflow" /\ Shows(State!PastOf("workflow"), workflow)
      /\ entries \in Seq(Entry) /\ State!EntriesInOrder /\ State!TypeOK
  BY DEF StateInv, State!TypeOK, Entry
<1> HIDE DEF event
<1>5. applied \in Nat
  BY <1>1
<1>6. \A i \in DOMAIN entries : entries[i] \in State!States
  BY <1>4 DEF Entry
<1>7. /\ entries' = [i \in DOMAIN entries |-> entries'[i]]
      /\ \A i \in DOMAIN entries : entries'[i] =
           IF entries[i].of # event.of THEN entries[i]
           ELSE CASE event.of \in Activities -> State!UpdateActivity(entries[i], event.what)
                  [] event.of \in Timers -> State!UpdateTimer(entries[i], event.what)
                  [] OTHER -> entries[i]
  <2> DEFINE f(i) ==
        IF entries[i].of # event.of THEN entries[i]
        ELSE CASE event.of \in Activities -> State!UpdateActivity(entries[i], event.what)
               [] event.of \in Timers -> State!UpdateTimer(entries[i], event.what)
               [] OTHER -> entries[i]
  <2>1. entries' = [i \in DOMAIN entries |-> f(i)]
    BY <1>2 DEF State!UpdateEntry
  <2> HIDE DEF f
  <2>2. entries' = [i \in DOMAIN entries |-> entries'[i]] /\ \A i \in DOMAIN entries : entries'[i] = f(i)
    BY <2>1
  <2> QED
    BY <2>2 DEF f
<1>8. ASSUME NEW i \in DOMAIN entries
      PROVE  /\ entries'[i] \in State!States /\ entries'[i].of = entries[i].of
             /\ EntryInv(entries[i])'
  <2>1. CASE entries[i].of # event.of \/ entries[i].of = Child
    <3>1. entries'[i] = entries[i]
      BY <1>7, <2>1 DEF State!ConstantsTyped
    <3>2. EntryInv(entries[i])'
      BY <1>1, <1>5, <2>1, <3>1, EntryUnmoved, Zenon
    <3> QED
      BY <1>6, <3>1, <3>2
  <2>2. CASE entries[i].of = event.of /\ event.of # Child
    <3>1. PICK name, s, past : name = event.of /\ s = entries[i] /\ past = State!PastOf(name)
      OBVIOUS
    <3>2. /\ past \in Seq(State!Events) /\ ~EndedBy(past) /\ s \in State!States /\ s.of = name
          /\ State!PastOf(name)' = Append(past, event)
      <4>1. past \in Seq(State!Events) /\ ~EndedBy(past)
            /\ State!PastOf(name)' = Append(past, event)
        BY <1>1, <3>1, Zenon
      <4> QED
        BY <1>6, <2>2, <3>1, <4>1, Zenon
    <3>3. EntryInv(s)
      BY <3>1 DEF StateInv
    <3>4. (\E j \in 1..applied : history.events[j].of = name) /\ Shows(past, s)
      BY <2>2, <3>1, <3>2, <3>3 DEF EntryInv
    <3>5. \E j \in 1..applied' : history'.events[j].of = name
      <4>1. 1..applied \subseteq 1..applied'
        BY <1>1
      <4> QED
        BY <1>1, <3>4, <4>1
    <3>6. /\ entries'[i] \in State!States /\ entries'[i].of = s.of
          /\ Shows(Append(past, event), entries'[i])
      <4>0. Activities \cap Timers = {}
        BY DEF State!ConstantsTyped
      <4>1. CASE name \in Activities
        <5>1. entries'[i] = State!UpdateActivity(s, event.what)
          BY <1>7, <2>2, <3>1, <4>0, <4>1
        <5> QED
          BY <1>1, <1>3, <3>1, <3>2, <3>4, <4>1, <5>1, ActivityShown
      <4>2. CASE name \in Timers
        <5>1. entries'[i] = State!UpdateTimer(s, event.what)
          BY <1>7, <2>2, <3>1, <4>0, <4>2
        <5> QED
          BY <1>1, <1>3, <3>1, <3>2, <3>4, <4>2, <5>1, TimerShown
      <4> QED
        BY <1>1, <1>3, <2>2, <3>1, <4>1, <4>2
    <3>7. entries'[i].of = name /\ name # Child
      BY <2>2, <3>1, <3>2, <3>6
    <3>8. Shows(State!PastOf(name)', entries'[i])
      BY <3>2, <3>6
    <3>9. EntryInv(entries[i])'
      BY <3>5, <3>7, <3>8, EntryAfter, Zenon
    <3> QED
      BY <3>1, <3>6, <3>9
  <2> QED
    BY <2>1, <2>2
<1>9. DOMAIN entries' = DOMAIN entries /\ entries' \in Seq(Entry) /\ State!EntriesInOrder'
  <2>1. State!Begun' = State!Begun
    BY <1>1, <1>3
  <2> QED
    BY <1>4, <1>7, <1>8, <2>1, OrderKept
<1>10. Shows(State!PastOf("workflow")', workflow')
  BY <1>1, <1>2, <1>3, <1>4
<1>11. \A i \in DOMAIN entries' : EntryInv(entries[i])'
  BY <1>8, <1>9
<1> QED
  BY <1>2, <1>4, <1>9, <1>10, <1>11, StatesAfter

\* The fields that a job writes, and the test.
Fields == {"status", "start", "failure", "cancel", "test", "close"}

\* A child's state stays one, and the child's, whatever a job writes.
LEMMA WrittenType ==
  ASSUME NEW s \in State!States, NEW field \in Fields, NEW by \in {"own", "parent"},
         NEW what \in {"started", "cancelRequested"} \cup State!Endings,
         field = "status" => what # "cancelRequested"
  PROVE  /\ State!Written(s, field, what, by) \in State!States
         /\ State!Written(s, field, what, by).of = s.of
BY DEF State!Written, State!States, Fields

\* A write to a child's state keeps the invariant if what is shown of the child
\* stays true.
LEMMA WriteKeeps ==
  ASSUME State!ConstantsTyped, StateInv,
         NEW field \in Fields, NEW by \in {"own", "parent"},
         NEW what \in {"started", "cancelRequested"} \cup State!Endings,
         field = "status" => what # "cancelRequested",
         State!Write(field, what, by),
         history' = history, workflow' = workflow, State!Begun' = State!Begun,
         \A name : name # Child => State!PastOf(name)' = State!PastOf(name),
         applied \in Nat, applied' = applied \/ applied' = applied + 1,
         applied' \in 0..Len(history.events), ownApplied' \in 0..Len(history.own),
         writing' \in {"none", "start", "failure", "test", "close"},
         ownWriting' \in {"none", "start", "failure", "cancel", "close"},
         WritingInv', OwnWritingInv', ownApplied' > 0 \/ ownWriting' # "none" => ChildStarted',
         \A s \in State!States :
           s.of = Child /\ ShowsChild(s) => ShowsChild(State!Written(s, field, what, by))'
  PROVE  StateInv'
<1>1. /\ history \in Histories /\ State!TypeOK /\ State!EntriesInOrder
      /\ workflow.of = "workflow" /\ Shows(State!PastOf("workflow"), workflow)
      /\ \A i \in DOMAIN entries : EntryInv(entries[i])
  BY DEF StateInv
<1>2. entries' = [i \in DOMAIN entries |->
                    IF entries[i].of = Child THEN State!Written(entries[i], field, what, by)
                    ELSE entries[i]]
  BY DEF State!Write
<1>3. \A i \in DOMAIN entries : entries[i] \in State!States
  <2>1. entries \in Seq({s \in State!States : s.of # "workflow"})
    BY <1>1 DEF State!TypeOK
  <2> QED
    BY <2>1
<1>4. 1..applied \subseteq 1..applied'
  OBVIOUS
<1>5. ASSUME NEW i \in DOMAIN entries
      PROVE  /\ entries'[i] \in State!States /\ entries'[i].of = entries[i].of
             /\ EntryInv(entries[i])'
  <2>1. EntryInv(entries[i]) /\ entries[i] \in State!States
    BY <1>1, <1>3
  <2>2. \E j \in 1..applied' : history'.events[j].of = entries[i].of
    BY <1>4, <2>1 DEF EntryInv
  <2>3. CASE entries[i].of # Child
    <3>1. entries'[i] = entries[i]
      BY <1>2, <2>3
    <3>2. PICK name : name = entries[i].of
      OBVIOUS
    <3>3. name # Child /\ Shows(State!PastOf(name), entries[i])
      BY <2>1, <2>3, <3>2 DEF EntryInv
    <3>4. /\ entries'[i].of = name /\ \E j \in 1..applied' : history'.events[j].of = name
          /\ Shows(State!PastOf(name)', entries'[i]) /\ name # Child
      BY <2>2, <3>1, <3>2, <3>3
    <3>5. EntryInv(entries[i])'
      BY <3>4, EntryAfter, Zenon
    <3> QED
      BY <2>1, <3>1, <3>5
  <2>4. CASE entries[i].of = Child
    <3>1. PICK s : s = entries[i]
      OBVIOUS
    <3>2. PICK x : x = State!Written(s, field, what, by)
      OBVIOUS
    <3>3. x \in State!States /\ x.of = Child /\ entries'[i] = x
      BY <1>2, <2>1, <2>4, <3>1, <3>2, WrittenType
    <3>4. ShowsChild(s)
      BY <2>1, <2>4, <3>1 DEF EntryInv
    <3>5. ShowsChild(x)'
      BY <2>1, <2>4, <3>1, <3>2, <3>4
    <3>6. ShowsChild(entries[i])'
      BY <3>3, <3>5 DEF ShowsChild
    <3>7. EntryInv(entries[i])'
      BY <2>2, <2>4, <3>3, <3>6, EntryAfter, Zenon
    <3> QED
      BY <2>4, <3>3, <3>7
  <2> QED
    BY <2>3, <2>4
<1>6. DOMAIN entries' = DOMAIN entries /\ entries' \in Seq(Entry) /\ State!EntriesInOrder'
  <2>1. entries' = [i \in DOMAIN entries |-> entries'[i]]
    BY <1>2, Zenon
  <2> QED
    BY <1>1, <1>5, <2>1, OrderKept
<1>7. State!TypeOK'
  <2>1. State!TypeOK' <=> /\ applied' \in 0..Len(history'.events)
                          /\ ownApplied' \in 0..Len(history'.own)
                          /\ writing' \in {"none", "start", "failure", "test", "close"}
                          /\ ownWriting' \in {"none", "start", "failure", "cancel", "close"}
                          /\ workflow' \in State!States /\ entries' \in Seq(Entry)
    BY DEF State!TypeOK, State!States, State!Endings, Entry
  <2>2. workflow \in State!States
    BY <1>1 DEF State!TypeOK
  <2> QED
    BY <1>6, <2>1, <2>2
<1>8. Shows(State!PastOf("workflow")', workflow')
  BY <1>1 DEF State!ConstantsTyped
<1>9. \A i \in DOMAIN entries' : EntryInv(entries[i])'
  BY <1>5, <1>6
<1> QED
  BY <1>1, <1>6, <1>7, <1>8, <1>9 DEF StateInv, Shows

\* What the child's job has said before and after a write.
LEMMA OwnWriteTells ==
  ASSUME State!ConstantsTyped, StateInv, State!UpdateOwn,
         NEW field, field = IF ownWriting # "none" THEN ownWriting
                            ELSE IF OwnTold = "cancelRequested" THEN "cancel" ELSE "status"
  PROVE  /\ OwnTold \in {"started", "cancelRequested"} \cup State!Endings /\ field \in Fields
         /\ field = "status" => OwnTold # "cancelRequested"
         /\ history' = history /\ applied' = applied /\ writing' = writing
         /\ ownApplied' \in 0..Len(history.own)
         /\ ownWriting' \in {"none", "start", "failure", "cancel", "close"} /\ OwnWritingInv'
         /\ Ends' = Ends /\ (ParentFailed' <=> ParentFailed) /\ OwnEnd' = OwnEnd
         /\ ~OwnEnded
         /\ OwnTold \notin State!Endings => ~OwnSaid /\ ~OwnSaid' /\ ~OwnFailed /\ ~OwnFailed' /\ ~OwnEnded'
         /\ OwnTold \in State!Endings =>
              /\ OwnTold = OwnEnd /\ OwnSaid' /\ field \in {"status", "failure", "close"}
              /\ field = "status" => ~OwnSaid /\ ~OwnFailed /\ ~OwnFailed' /\ ~OwnEnded'
              /\ field = "failure" => OwnSaid /\ ~OwnFailed /\ OwnFailed' /\ ~OwnEnded'
                                      /\ OwnTold = "failed"
              /\ field = "close" => OwnSaid /\ (OwnFailed' <=> OwnFailed)
<1> DEFINE what == OwnTold
<1>1. /\ history' = history /\ applied' = applied /\ writing' = writing
      /\ ownApplied < Len(history.own)
      /\ ownWriting' = State!OwnFieldAfter(field, what)
      /\ ownApplied' = IF ownWriting' = "none" THEN ownApplied + 1 ELSE ownApplied
  BY DEF State!UpdateOwn, OwnTold
<1>2. Len(history.own) \in Nat /\ ownApplied \in Nat /\ ownApplied + 1 \in 1..Len(history.own)
  <2>1. Len(history.own) \in Nat
    BY EventType, Zenon DEF StateInv
  <2>2. ownApplied \in 0..Len(history.own)
    BY DEF StateInv, State!TypeOK
  <2> QED
    BY <1>1, <2>1, <2>2
<1>3. what \in {"started", "cancelRequested"} \cup State!Endings
      /\ (what \in State!Endings => ownApplied + 1 = Len(history.own))
  <2>1. State!OneRun(history.own) /\ DOMAIN history.own = 1..Len(history.own)
        /\ \A i \in 1..Len(history.own) :
             history.own[i].what \in {"started", "cancelRequested"} \cup State!Endings
    BY EventType, Zenon DEF StateInv
  <2> QED
    BY <1>2, <2>1 DEF State!OneRun, OwnTold
<1>4. history.own # <<>>
  BY <1>2
<1>5. ~OwnEnded /\ OwnEnd' = OwnEnd /\ (ownApplied + 1 = Len(history.own) => OwnEnd = what)
  BY <1>1, <1>2 DEF OwnEnded, OwnEnd, OwnTold
<1>6. OwnWritingInv /\ ownWriting \in {"none", "start", "failure", "cancel", "close"}
  BY DEF StateInv, State!TypeOK
<1>7. OwnEnded' <=> ownWriting' = "none" /\ what \in State!Endings
  <2>1. OwnEnded' <=> ownApplied' = Len(history.own) /\ OwnEnd \in State!Endings
    BY <1>1, <1>4, <1>5 DEF OwnEnded, State!Endings
  <2>2. ownApplied' = Len(history.own) <=> ownWriting' = "none" /\ ownApplied + 1 = Len(history.own)
    BY <1>1, <1>2
  <2> HIDE DEF what
  <2> QED
    BY <1>3, <1>5, <2>1, <2>2
<1>8. ownWriting' # "none" => OwnTold' = what
  BY <1>1 DEF OwnTold
<1>9. /\ OwnSaid <=> ownWriting = "close" \/ (ownWriting = "failure" /\ what # "started")
      /\ OwnFailed <=> OwnEnd = "failed" /\ ownWriting = "close"
  BY <1>5 DEF OwnSaid, OwnFailed
<1>10. OwnSaid' <=> OwnEnded' \/ ownWriting' = "close" \/ (ownWriting' = "failure" /\ what # "started")
  BY <1>8 DEF OwnSaid
<1>11. OwnFailed' <=> OwnEnd = "failed" /\ (OwnEnded' \/ ownWriting' = "close")
  BY <1>5 DEF OwnFailed
<1>12. "started" \notin State!Endings /\ "cancelRequested" \notin State!Endings
       /\ "failed" \in State!Endings
  BY DEF State!Endings
<1>13. /\ ownWriting \in {"start", "cancel"} => what = "started"
       /\ ownWriting = "failure" => what \in {"started", "failed"}
       /\ ownWriting = "close" => what \in State!Endings
  BY <1>6 DEF OwnWritingInv
<1>14. /\ field = IF ownWriting # "none" THEN ownWriting
                 ELSE IF what = "cancelRequested" THEN "cancel" ELSE "status"
       /\ ownWriting' =
            CASE field = "status" /\ what = "started" -> "start"
              [] field = "start" \/ (field = "status" /\ what = "failed") -> "failure"
              [] field = "failure" /\ what = "started" -> "cancel"
              [] \/ field = "failure" /\ what # "started"
                 \/ field = "status" /\ what \notin {"started", "failed"} -> "close"
              [] OTHER -> "none"
  BY <1>1 DEF State!OwnFieldAfter
<1>15. Ends' = Ends /\ (ParentFailed' <=> ParentFailed)
  <2>1. State!PastOf(Child)' = State!PastOf(Child)
    BY <1>1 DEF State!PastOf, State!Past
  <2>2. Ends' = Ends
    BY <1>1, <2>1 DEF Ends, EndedBy, EndBy, Told, State!Endings
  <2> QED
    BY <1>1, <2>2 DEF ParentFailed
<1> HIDE DEF what
<1>16. /\ field \in Fields /\ (field = "status" => what # "cancelRequested")
       /\ ownWriting' \in {"none", "start", "failure", "cancel", "close"}
  BY <1>6, <1>14 DEF Fields
<1>17. ownApplied' \in 0..Len(history.own)
  BY <1>1, <1>2
<1>18. /\ ownWriting' \in {"start", "cancel"} => what = "started"
       /\ ownWriting' = "failure" => what \in {"started", "failed"}
       /\ ownWriting' = "close" => what \in State!Endings
  BY <1>3, <1>6, <1>12, <1>13, <1>14
<1>19. OwnWritingInv'
  <2>1. ownWriting' # "none" => ownApplied' < Len(history'.own)
    BY <1>1
  <2> QED
    BY <1>8, <1>18, <2>1 DEF OwnWritingInv, State!Endings
<1>20. what \notin State!Endings => ~OwnSaid /\ ~OwnSaid' /\ ~OwnFailed /\ ~OwnFailed' /\ ~OwnEnded'
  BY <1>7, <1>9, <1>10, <1>11, <1>12, <1>13, <1>18
<1>21. ASSUME what \in State!Endings
       PROVE  /\ what = OwnEnd /\ OwnSaid' /\ field \in {"status", "failure", "close"}
              /\ field = "status" => ~OwnSaid /\ ~OwnFailed /\ ~OwnFailed' /\ ~OwnEnded'
              /\ field = "failure" => OwnSaid /\ ~OwnFailed /\ OwnFailed' /\ ~OwnEnded'
                                      /\ what = "failed"
              /\ field = "close" => OwnSaid /\ (OwnFailed' <=> OwnFailed)
  <2>1. what = OwnEnd
    BY <1>3, <1>5, <1>21
  <2>2. what # "started" /\ what # "cancelRequested"
    BY <1>12, <1>21
  <2>3. ownWriting \in {"none", "failure", "close"} /\ (ownWriting = "failure" => what = "failed")
    BY <1>6, <1>13, <2>2
  <2>4. CASE ownWriting = "none"
    BY <1>7, <1>9, <1>10, <1>11, <1>14, <1>21, <2>1, <2>2, <2>4
  <2>5. CASE ownWriting = "failure"
    BY <1>7, <1>9, <1>10, <1>11, <1>14, <1>21, <2>1, <2>2, <2>3, <2>5
  <2>6. CASE ownWriting = "close"
    BY <1>7, <1>9, <1>10, <1>11, <1>14, <1>21, <2>1, <2>2, <2>6
  <2> QED
    BY <2>3, <2>4, <2>5, <2>6
<1> QED
  BY <1>1, <1>3, <1>5, <1>15, <1>16, <1>17, <1>19, <1>20, <1>21 DEF what

\* The child's own job.
LEMMA UpdateOwnKeeps ==
  ASSUME State!ConstantsTyped, StateInv, State!UpdateOwn PROVE StateInv'
<1>1. PICK field, what :
        /\ field = IF ownWriting # "none" THEN ownWriting
                   ELSE IF OwnTold = "cancelRequested" THEN "cancel" ELSE "status"
        /\ what = OwnTold
  OBVIOUS
<1>2. /\ what \in {"started", "cancelRequested"} \cup State!Endings /\ field \in Fields
      /\ field = "status" => what # "cancelRequested"
      /\ history' = history /\ applied' = applied /\ writing' = writing
      /\ ownApplied' \in 0..Len(history.own)
      /\ ownWriting' \in {"none", "start", "failure", "cancel", "close"} /\ OwnWritingInv'
      /\ Ends' = Ends /\ (ParentFailed' <=> ParentFailed) /\ OwnEnd' = OwnEnd
      /\ ~OwnEnded
      /\ what \notin State!Endings => ~OwnSaid /\ ~OwnSaid' /\ ~OwnFailed /\ ~OwnFailed' /\ ~OwnEnded'
      /\ what \in State!Endings =>
           /\ what = OwnEnd /\ OwnSaid' /\ field \in {"status", "failure", "close"}
           /\ field = "status" => ~OwnSaid /\ ~OwnFailed /\ ~OwnFailed' /\ ~OwnEnded'
           /\ field = "failure" => OwnSaid /\ ~OwnFailed /\ OwnFailed' /\ ~OwnEnded'
                                   /\ what = "failed"
           /\ field = "close" => OwnSaid /\ (OwnFailed' <=> OwnFailed)
  BY <1>1, OwnWriteTells, Zenon
<1>3. State!Write(field, what, "own") /\ workflow' = workflow
  BY <1>1 DEF State!UpdateOwn, OwnTold
<1>4. (\A name : State!PastOf(name)' = State!PastOf(name)) /\ State!Begun' = State!Begun
  BY <1>2 DEF State!PastOf, State!Begun, State!Past
<1>5. applied \in Nat /\ applied' \in 0..Len(history.events)
      /\ writing' \in {"none", "start", "failure", "test", "close"} /\ WritingInv'
  <2>1. history \in Histories /\ applied \in 0..Len(history.events)
        /\ writing \in {"none", "start", "failure", "test", "close"} /\ WritingInv
    BY DEF StateInv, State!TypeOK
  <2>2. WritingInv'
    BY <1>2, <2>1 DEF WritingInv, Told, State!OfBegunChild, State!Endings
  <2> QED
    BY <1>2, <2>1, <2>2
<1>6. ChildStarted'
  <2>1. [of |-> Child, what |-> "started"] \in State!ToSet(SubSeq(history.events, 1, applied))
    BY DEF State!UpdateOwn
  <2>2. history \in Histories /\ applied \in 0..Len(history.events)
    BY DEF StateInv, State!TypeOK
  <2>3. Past \in Seq(State!Events) /\ Len(Past) = applied
    BY <2>2, PastOfType, Zenon
  <2>4. PICK j \in 1..applied : Past[j] = [of |-> Child, what |-> "started"]
    BY <2>1, <2>3 DEF State!ToSet, Past
  <2>5. Past[j] = history.events[j]
    <3>1. history.events \in Seq(State!Events)
      BY <2>2, EventType, Zenon
    <3> QED
      BY <2>2, <3>1 DEF Past
  <2> QED
    BY <1>2, <2>4, <2>5 DEF ChildStarted
<1>7. ASSUME NEW s \in State!States, ShowsChild(s)
      PROVE  ShowsChild(State!Written(s, field, what, "own"))'
  <2>1. PICK x : x = State!Written(s, field, what, "own")
    OBVIOUS
  <2>2. ShowsChild(x)'
    <3>1. CASE what \notin State!Endings
      <4>1. s.failure => ParentFailed
        BY <1>2, <1>7, <3>1 DEF ShowsChild
      <4>2. x.failure => s.failure
        BY <1>2, <2>1, <3>1 DEF State!Written, State!States, Fields, State!Endings
      <4> QED
        BY <1>2, <3>1, <4>1, <4>2 DEF ShowsChild
    <3>2. CASE what \in State!Endings /\ field = "status"
      <4>1. x.status = what /\ x.failure = s.failure
        BY <2>1, <3>2 DEF State!Written, State!States, State!Endings
      <4> QED
        BY <1>2, <1>7, <3>2, <4>1 DEF ShowsChild
    <3>3. CASE what \in State!Endings /\ field = "failure"
      <4>1. x.status = s.status /\ x.failure
        BY <1>2, <2>1, <3>3 DEF State!Written, State!States
      <4> QED
        BY <1>2, <1>7, <3>3, <4>1 DEF ShowsChild
    <3>4. CASE what \in State!Endings /\ field = "close"
      <4>1. x.status = s.status /\ x.failure = s.failure /\ x.closeTime = "own"
        BY <2>1, <3>4 DEF State!Written, State!States
      <4> QED
        BY <1>2, <1>7, <3>4, <4>1 DEF ShowsChild
    <3> QED
      BY <1>2, <3>1, <3>2, <3>3, <3>4
  <2> QED
    BY <2>1, <2>2
<1> QED
  BY <1>2, <1>3, <1>4, <1>5, <1>6, <1>7, WriteKeeps

\* What the parent's job has said before and after a write.
LEMMA ParentWriteTells ==
  ASSUME State!ConstantsTyped, StateInv, State!UpdateChild,
         NEW field, field = IF writing = "none" THEN "status" ELSE writing
  PROVE  /\ Told \in {"started"} \cup State!Endings /\ field \in Fields
         /\ history' = history /\ workflow' = workflow
         /\ ownApplied' = ownApplied /\ ownWriting' = ownWriting
         /\ applied \in Nat /\ (applied' = applied \/ applied' = applied + 1)
         /\ applied' \in 0..Len(history.events)
         /\ writing' \in {"none", "start", "failure", "test", "close"} /\ WritingInv'
         /\ State!Begun' = State!Begun
         /\ \A name : name # Child => State!PastOf(name)' = State!PastOf(name)
         /\ OwnEnd' = OwnEnd /\ (OwnEnded' <=> OwnEnded)
         /\ (OwnSaid' <=> OwnSaid) /\ (OwnFailed' <=> OwnFailed)
         /\ Told = "started" =>
              field \in {"status", "start"} /\ ~OwnSaid /\ ~OwnFailed /\ ~OwnEnded
              /\ Ends' = Ends /\ (ParentFailed' <=> ParentFailed)
         /\ Told \in State!Endings =>
              /\ field \in {"status", "failure", "test", "close"} /\ Ends' = {Told}
              /\ field = "status" => ~ParentFailed
              /\ field = "failure" => Ends = Ends' /\ ParentFailed'
              /\ field \in {"test", "close"} => Ends = Ends' /\ (ParentFailed' <=> ParentFailed)
<1> DEFINE what == Told
<1>1. /\ history' = history /\ workflow' = workflow /\ ownApplied' = ownApplied
      /\ ownWriting' = ownWriting /\ applied < Len(history.events)
      /\ State!OfBegunChild(history.events[applied + 1])
      /\ writing' = State!FieldAfter(field, what)
      /\ applied' = IF writing' = "none" THEN applied + 1 ELSE applied
  BY DEF State!UpdateChild, Told
<1>2. PICK event : event = history.events[applied + 1]
  OBVIOUS
<1>3. /\ event.of = Child /\ event.what = what /\ what \in {"started"} \cup State!Endings
      /\ ~State!Begins(event)
  BY <1>1, <1>2 DEF State!OfBegunChild, State!Begins, State!Endings, Told
<1>4. /\ applied \in 0..(Len(history.events) - 1) /\ Len(history.events) \in Nat
      /\ event \in State!Events
      /\ \A name : State!PastOf(name) \in Seq(State!Events)
      /\ ~EndedBy(State!PastOf(event.of))
      /\ ownApplied > 0 \/ ownWriting # "none" => (event.of = Child => event.what # "started")
  BY <1>1, <1>2, EventKnows, Zenon
<1>5. applied \in Nat /\ (applied' = applied \/ applied' = applied + 1)
      /\ applied' \in 0..Len(history.events)
  BY <1>1, <1>4
<1>6. /\ State!Begun' = State!Begun
      /\ \A name : name # Child => State!PastOf(name)' = State!PastOf(name)
      /\ State!PastOf(Child)' =
           IF writing' = "none" THEN Append(State!PastOf(Child), event) ELSE State!PastOf(Child)
  <2>1. CASE writing' # "none"
    <3>1. applied' = applied
      BY <1>1, <2>1
    <3>2. State!Begun' = State!Begun /\ \A name : State!PastOf(name)' = State!PastOf(name)
      BY <1>1, <3>1 DEF State!PastOf, State!Begun, State!Past
    <3> QED
      BY <2>1, <3>2
  <2>2. CASE writing' = "none"
    <3>1. applied' = applied + 1
      BY <1>1, <2>2
    <3>2. /\ \A name : State!PastOf(name)' =
               IF event.of = name THEN Append(State!PastOf(name), event) ELSE State!PastOf(name)
          /\ State!Begun' = IF State!Begins(event) THEN Append(State!Begun, event) ELSE State!Begun
      BY <1>1, <1>2, <3>1, EventTells, Zenon
    <3> QED
      BY <1>3, <2>2, <3>2
  <2> QED
    BY <2>1, <2>2
<1>7. OwnEnd' = OwnEnd /\ (OwnEnded' <=> OwnEnded)
  BY <1>1 DEF OwnEnd, OwnEnded, State!Endings
<1>8. (OwnSaid' <=> OwnSaid) /\ (OwnFailed' <=> OwnFailed)
  BY <1>1, <1>7 DEF OwnSaid, OwnFailed, OwnTold
<1>9. WritingInv /\ writing \in {"none", "start", "failure", "test", "close"}
  BY DEF StateInv, State!TypeOK
<1>10. ~EndedBy(State!PastOf(Child))
  BY <1>3, <1>4
<1>11. /\ EndedBy(State!PastOf(Child)') <=> writing' = "none" /\ what \in State!Endings
       /\ EndedBy(State!PastOf(Child)') => EndBy(State!PastOf(Child)') = what
  <2>1. CASE writing' = "none"
    <3>1. State!PastOf(Child)' = Append(State!PastOf(Child), event)
          /\ State!PastOf(Child) \in Seq(State!Events)
      BY <1>4, <1>6, <2>1
    <3>2. /\ EndedBy(Append(State!PastOf(Child), event)) <=> event.what \in State!Endings
          /\ EndBy(Append(State!PastOf(Child), event)) = event.what
      BY <1>4, <3>1, PastAppended, Zenon
    <3> QED
      BY <1>3, <2>1, <3>1, <3>2
  <2>2. CASE writing' # "none"
    BY <1>6, <1>10, <2>2
  <2> QED
    BY <2>1, <2>2
<1>12. writing' # "none" => Told' = what
  BY <1>1 DEF Told
<1>13. "started" \notin State!Endings /\ "failed" \in State!Endings
  BY DEF State!Endings
<1>14. /\ writing = "start" => what = "started"
       /\ writing \in {"failure", "test", "close"} => what \in State!Endings
       /\ writing = "failure" => what = "failed"
  BY <1>9 DEF WritingInv
<1>15. Ends = IF writing \in {"failure", "test", "close"} THEN {what} ELSE {}
  BY <1>10 DEF Ends
<1>16. Ends' = IF (writing' = "none" /\ what \in State!Endings) \/ writing' \in {"failure", "test", "close"}
               THEN {what} ELSE {}
  <2>1. Ends' = (IF EndedBy(State!PastOf(Child)') THEN {EndBy(State!PastOf(Child)')} ELSE {})
                  \cup (IF writing' \in {"failure", "test", "close"} THEN {Told'} ELSE {})
    BY DEF Ends, EndedBy, EndBy, State!Endings
  <2> HIDE DEF what
  <2> QED
    BY <1>11, <1>12, <2>1
<1>17. (ParentFailed <=> "failed" \in Ends /\ writing # "failure")
       /\ (ParentFailed' <=> "failed" \in Ends' /\ writing' # "failure")
  BY DEF ParentFailed
<1>18. /\ field = IF writing = "none" THEN "status" ELSE writing
       /\ \E open \in BOOLEAN : writing' =
            CASE field = "status" /\ what = "started" -> "start"
              [] field = "status" /\ what = "failed" -> "failure"
              [] field = "failure" \/ (field = "status" /\ what \notin {"started", "failed"}) -> "test"
              [] field = "test" /\ open -> "close"
              [] OTHER -> "none"
  <2>1. State!NoCloseTime \in BOOLEAN
    BY Zenon DEF State!NoCloseTime
  <2> QED
    BY <1>1, <2>1 DEF State!FieldAfter
<1> HIDE DEF what
<1>19. field \in Fields /\ writing' \in {"none", "start", "failure", "test", "close"}
  BY <1>9, <1>18 DEF Fields
<1>20. /\ writing' = "start" => what = "started"
       /\ writing' \in {"failure", "test", "close"} => what \in State!Endings
       /\ writing' = "failure" => what = "failed"
  BY <1>3, <1>9, <1>13, <1>14, <1>18
<1>21. WritingInv'
  <2>1. writing' # "none" => applied' = applied
    BY <1>1
  <2>2. writing' # "none" =>
          applied' < Len(history'.events) /\ State!OfBegunChild(history.events[applied + 1])'
    BY <1>1, <2>1 DEF State!OfBegunChild, State!Endings
  <2> QED
    BY <1>12, <1>20, <2>2 DEF WritingInv, State!OfBegunChild, State!Endings
<1>22. ASSUME what = "started"
       PROVE  /\ field \in {"status", "start"} /\ ~OwnSaid /\ ~OwnFailed /\ ~OwnEnded
              /\ Ends' = Ends /\ (ParentFailed' <=> ParentFailed)
  <2>1. writing \in {"none", "start"} /\ writing' \in {"none", "start"}
    BY <1>9, <1>13, <1>14, <1>18, <1>22
  <2>2. Ends = {} /\ Ends' = {}
    BY <1>13, <1>15, <1>16, <1>22, <2>1
  <2>3. ~(ownApplied > 0) /\ ownWriting = "none"
    BY <1>3, <1>4, <1>22
  <2>4. Len(history.own) \in Nat /\ (history.own # <<>> => Len(history.own) > 0)
    <3>1. history \in Histories
      BY DEF StateInv
    <3>2. history.own \in Seq([of : {Child}, what : {"started", "cancelRequested"} \cup State!Endings])
      BY <3>1, EventType, Zenon
    <3> QED
      BY <3>2
  <2>5. ~OwnEnded
    BY <2>3, <2>4 DEF OwnEnded
  <2> QED
    BY <1>17, <1>18, <2>1, <2>2, <2>3, <2>5 DEF OwnSaid, OwnFailed
<1>23. ASSUME what \in State!Endings
       PROVE  /\ field \in {"status", "failure", "test", "close"} /\ Ends' = {what}
              /\ field = "status" => ~ParentFailed
              /\ field = "failure" => Ends = Ends' /\ ParentFailed'
              /\ field \in {"test", "close"} => Ends = Ends' /\ (ParentFailed' <=> ParentFailed)
  <2>1. writing \in {"none", "failure", "test", "close"} /\ what # "started"
    BY <1>9, <1>13, <1>14, <1>23
  <2>2. writing' \in {"none", "failure", "test", "close"}
    BY <1>18, <2>1
  <2>3. Ends' = {what}
    BY <1>16, <1>23, <2>2
  <2>4. CASE writing = "none"
    BY <1>15, <1>17, <1>18, <2>3, <2>4
  <2>5. CASE writing = "failure"
    BY <1>14, <1>15, <1>17, <1>18, <2>3, <2>5
  <2>6. CASE writing \in {"test", "close"}
    BY <1>15, <1>17, <1>18, <2>3, <2>6
  <2> QED
    BY <2>1, <2>3, <2>4, <2>5, <2>6
<1> QED
  BY <1>1, <1>3, <1>5, <1>6, <1>7, <1>8, <1>19, <1>21, <1>22, <1>23 DEF what

\* The parent's job, of a child.
LEMMA UpdateChildKeeps ==
  ASSUME State!ConstantsTyped, StateInv, State!UpdateChild PROVE StateInv'
<1>1. PICK field, what : field = (IF writing = "none" THEN "status" ELSE writing) /\ what = Told
  OBVIOUS
<1>2. /\ what \in {"started"} \cup State!Endings /\ field \in Fields
      /\ history' = history /\ workflow' = workflow
      /\ ownApplied' = ownApplied /\ ownWriting' = ownWriting
      /\ applied \in Nat /\ (applied' = applied \/ applied' = applied + 1)
      /\ applied' \in 0..Len(history.events)
      /\ writing' \in {"none", "start", "failure", "test", "close"} /\ WritingInv'
      /\ State!Begun' = State!Begun
      /\ \A name : name # Child => State!PastOf(name)' = State!PastOf(name)
      /\ OwnEnd' = OwnEnd /\ (OwnEnded' <=> OwnEnded)
      /\ (OwnSaid' <=> OwnSaid) /\ (OwnFailed' <=> OwnFailed)
      /\ what = "started" =>
           field \in {"status", "start"} /\ ~OwnSaid /\ ~OwnFailed /\ ~OwnEnded
           /\ Ends' = Ends /\ (ParentFailed' <=> ParentFailed)
      /\ what \in State!Endings =>
           /\ field \in {"status", "failure", "test", "close"} /\ Ends' = {what}
           /\ field = "status" => ~ParentFailed
           /\ field = "failure" => Ends = Ends' /\ ParentFailed'
           /\ field \in {"test", "close"} => Ends = Ends' /\ (ParentFailed' <=> ParentFailed)
  BY <1>1, ParentWriteTells, Zenon
<1>3. State!Write(field, what, "parent")
  BY <1>1 DEF State!UpdateChild, Told
<1>4. what # "cancelRequested"
  BY <1>2 DEF State!Endings
<1>5. ownApplied' \in 0..Len(history.own) /\ OwnWritingInv'
      /\ ownWriting' \in {"none", "start", "failure", "cancel", "close"}
  <2>1. ownApplied \in 0..Len(history.own) /\ OwnWritingInv
        /\ ownWriting \in {"none", "start", "failure", "cancel", "close"}
    BY DEF StateInv, State!TypeOK
  <2>2. OwnWritingInv'
    BY <1>2, <2>1 DEF OwnWritingInv, OwnTold, State!Endings
  <2> QED
    BY <1>2, <2>1, <2>2
<1>6. ownApplied' > 0 \/ ownWriting' # "none" => ChildStarted'
  <2>1. 1..applied \subseteq 1..applied'
    BY <1>2
  <2> QED
    BY <1>2, <2>1 DEF StateInv, ChildStarted
<1>7. ASSUME NEW s \in State!States, ShowsChild(s)
      PROVE  ShowsChild(State!Written(s, field, what, "parent"))'
  <2>1. PICK x : x = State!Written(s, field, what, "parent")
    OBVIOUS
  <2>2. ShowsChild(x)'
    <3>1. CASE what = "started"
      <4>1. x.failure = s.failure
        BY <1>2, <2>1, <3>1 DEF State!Written, State!States
      <4> QED
        BY <1>2, <1>7, <3>1, <4>1 DEF ShowsChild
    <3>2. CASE what \in State!Endings /\ field = "status"
      <4>1. x.status = what /\ x.failure = s.failure /\ x.closeTime = s.closeTime
        BY <2>1, <3>2 DEF State!Written, State!States, State!Endings
      <4> QED
        BY <1>2, <1>7, <3>2, <4>1 DEF ShowsChild
    <3>3. CASE what \in State!Endings /\ field = "failure"
      <4>1. x.status = s.status /\ x.closeTime = s.closeTime /\ x.failure \in BOOLEAN
        BY <2>1, <3>3 DEF State!Written, State!States
      <4>2. OwnFailed => x.failure
        <5>1. what = "failed"
          BY <1>1, <3>3 DEF StateInv, WritingInv
        <5> QED
          BY <2>1, <3>3, <5>1 DEF State!Written, State!States
      <4> QED
        BY <1>2, <1>7, <3>3, <4>1, <4>2 DEF ShowsChild
    <3>4. CASE what \in State!Endings /\ field = "test"
      <4>1. x = s
        BY <2>1, <3>4 DEF State!Written
      <4> QED
        BY <1>2, <1>7, <3>4, <4>1 DEF ShowsChild
    <3>5. CASE what \in State!Endings /\ field = "close"
      <4>1. x.status = s.status /\ x.failure = s.failure /\ x.closeTime = "parent"
        BY <2>1, <3>5 DEF State!Written, State!States
      <4> QED
        BY <1>2, <1>7, <3>5, <4>1 DEF ShowsChild
    <3> QED
      BY <1>2, <3>1, <3>2, <3>3, <3>4, <3>5
  <2> QED
    BY <2>1, <2>2
<1> QED
  BY <1>2, <1>3, <1>4, <1>5, <1>6, <1>7, WriteKeeps

\* Every step keeps the invariant.
LEMMA StateStep ==
  ASSUME State!ConstantsTyped, StateInv, [State!Next]_State!stateVars PROVE StateInv'
<1>1. CASE State!Update
  BY <1>1, WorkflowEvent, BeginningEvent, EntryEvent
<1>2. CASE State!UpdateOwn
  BY <1>2, UpdateOwnKeeps
<1>4. CASE State!UpdateChild
  BY <1>4, UpdateChildKeeps
<1>3. CASE UNCHANGED State!stateVars
  <2>1. history' = history /\ applied' = applied /\ ownApplied' = ownApplied
        /\ writing' = writing /\ ownWriting' = ownWriting
        /\ workflow' = workflow /\ entries' = entries
    BY <1>3 DEF State!stateVars
  <2>2. (WritingInv' <=> WritingInv) /\ (OwnWritingInv' <=> OwnWritingInv)
        /\ (ChildStarted' <=> ChildStarted)
    BY <2>1 DEF WritingInv, OwnWritingInv, Told, OwnTold, ChildStarted, State!OfBegunChild,
      State!Endings
  <2>3. (\A name : State!PastOf(name)' = State!PastOf(name)) /\ State!Begun' = State!Begun
    BY <2>1 DEF State!Begun, State!PastOf, State!Past
  <2>4. OwnEnd' = OwnEnd /\ (OwnEnded' <=> OwnEnded)
    BY <2>1 DEF OwnEnd, OwnEnded, State!Endings
  <2>5. (OwnSaid' <=> OwnSaid) /\ (OwnFailed' <=> OwnFailed)
    BY <2>1, <2>4 DEF OwnSaid, OwnFailed, OwnTold
  <2>6. Ends' = Ends
    BY <2>1, <2>3 DEF Ends, EndedBy, EndBy, Told, State!Endings
  <2>7. ParentFailed' <=> ParentFailed
    BY <2>1, <2>6 DEF ParentFailed
  <2>8. \A i \in DOMAIN entries : EntryInv(entries[i]) => EntryInv(entries[i])'
    BY <2>1, <2>3, <2>4, <2>5, <2>6, <2>7 DEF EntryInv, ShowsChild, Shows
  <2>9. State!TypeOK' <=> State!TypeOK
    BY <2>1 DEF State!TypeOK, State!States, State!Endings
  <2> QED
    BY <2>1, <2>2, <2>3, <2>8, <2>9 DEF StateInv, State!EntriesInOrder, Shows
<1> QED
  BY <1>1, <1>2, <1>3, <1>4 DEF State!Next

\* What the invariant says of a state, in the words of the property.
LEMMA StatesShown ==
  ASSUME State!ConstantsTyped, StateInv PROVE State!StateMatchesHistory
<1>1. ASSUME NEW s, Shows(State!PastOf(s.of), s) PROVE State!ShownAsEnded(s)
  BY <1>1 DEF Shows, EndedBy, EndBy, State!ShownAsEnded, State!Last
<1>2. ASSUME NEW s, ShowsChild(s)
      PROVE  State!ChildShownAsEnded(s)
  <2> SUFFICES ASSUME applied = Len(history.events), ownApplied = Len(history.own), State!PastOf(Child) # <<>>,
                      State!Last(State!PastOf(Child)).what \in State!Endings,
                      history.own # <<>>, State!Last(history.own).what \in State!Endings
               PROVE  /\ s.status \in {State!Last(State!PastOf(Child)).what, State!Last(history.own).what}
                      /\ s.closeTime # "none"
                      /\ State!Last(State!PastOf(Child)).what = State!Last(history.own).what =>
                           (s.failure <=> s.status = "failed")
    BY DEF State!ChildShownAsEnded
  <2>1. /\ EndedBy(State!PastOf(Child))
        /\ EndBy(State!PastOf(Child)) = State!Last(State!PastOf(Child)).what
        /\ OwnEnd = State!Last(history.own).what /\ OwnEnded
    BY DEF EndedBy, EndBy, OwnEnd, OwnEnded, State!Last
  <2>2. writing = "none" /\ ownWriting = "none"
    <3>1. applied \in Nat /\ ownApplied \in Nat
      <4>1. Len(history.events) \in Nat /\ Len(history.own) \in Nat
        BY EventType, Zenon DEF StateInv
      <4> QED
        BY <4>1
    <3> QED
      BY <3>1 DEF StateInv, WritingInv, OwnWritingInv
  <2>3. Ends = {EndBy(State!PastOf(Child))} /\ OwnSaid
    BY <2>1, <2>2 DEF Ends, OwnSaid
  <2>4. (ParentFailed <=> EndBy(State!PastOf(Child)) = "failed") /\ (OwnFailed <=> OwnEnd = "failed")
    BY <2>1, <2>2, <2>3 DEF ParentFailed, OwnFailed
  <2> QED
    BY <1>2, <2>1, <2>3, <2>4 DEF ShowsChild
<1>3. State!ShownAsEnded(workflow)
  BY <1>1 DEF StateInv
<1>4. \A i \in DOMAIN entries :
        IF entries[i].of = Child THEN State!ChildShownAsEnded(entries[i])
        ELSE State!ShownAsEnded(entries[i])
  BY <1>1, <1>2 DEF StateInv, EntryInv
<1> QED
  BY <1>3, <1>4 DEF StateInv, State!StateMatchesHistory

\* Whatever the pace of the two jobs of a trace, each state shows what was
\* said last of it.
THEOREM StateInvariant ==
  ASSUME State!ConstantsTyped
  PROVE  State!Spec => []StateInv
<1>1. State!Init => StateInv
  BY StateInit
<1>2. StateInv /\ [State!Next]_State!stateVars => StateInv'
  BY StateStep
<1> QED
  BY <1>1, <1>2, PTL DEF State!Spec

\* The states of a trace are states: nothing but the workflow, its
\* activities, timers and child is shown, and the workflow never among the
\* things under it.
THEOREM StateTypeCorrect ==
  ASSUME State!ConstantsTyped
  PROVE  State!Spec => []State!TypeOK
<1>1. State!Spec => []StateInv
  BY StateInvariant
<1>2. StateInv => State!TypeOK
  BY DEF StateInv
<1> QED
  BY <1>1, <1>2, PTL

\* workflow trace shows what the histories say, after any events of the
\* parent's and the child's, in any order: what has begun once and in its
\* order, what has ended as it ended, and a child whose two histories have
\* been read as one of them says, closed at its own time, and as failed only
\* if it failed.
THEOREM StatesMatchHistory ==
  ASSUME State!ConstantsTyped
  PROVE  State!Spec => []State!StateMatchesHistory
<1>1. State!Spec => []StateInv
  BY StateInvariant
<1>2. StateInv => State!StateMatchesHistory
  BY StatesShown
<1> QED
  BY <1>1, <1>2, PTL

-----------------------------------------------------------------------------
(* Lists: what is printed or waits for its table is what is wanted of the  *)
(* rows handled so far.                                                    *)

RowSet == {List!Row(i) : i \in List!Rows}
Token == {List!Mark(sign) : sign \in {"[", "]", ",", "header"}} \cup RowSet

\* The rows in some output, those of a table, and those that are wanted of the
\* first k.
RowsIn(s) == Filtered(s, RowSet)
TableOf(t) == [i \in DOMAIN t |-> List!Row(t[i])]
WantedOf(blank, k) ==
  Filtered([i \in 1..k |-> List!Row(i)], {List!Row(i) : i \in List!Rows \ blank})

\* Rows with commas between them.
Joined(p) ==
  [i \in 1..(IF Len(p) = 0 THEN 0 ELSE 2 * Len(p) - 1) |->
     IF i % 2 = 1 THEN p[(i + 1) \div 2] ELSE List!Mark(",")]

ListType ==
  /\ list \in ListCommands /\ at \in {"start", "fetch", "page", "rest", "close", "ended"}
  /\ sent \in 0..RowCount /\ pages \in 0..2 /\ taken \in Nat
  /\ page \in Seq(List!Rows) /\ table \in Seq(List!Rows) /\ out \in Seq(Token)
  /\ more \in BOOLEAN /\ headed \in BOOLEAN /\ status \in {"running", "ok", "error"}
  /\ ~more => sent = RowCount
  /\ pages = 0 => sent = 0
  /\ at # "page" => page = <<>>
  /\ list.limit > 0 => taken <= list.limit

\* The rows up to k are handled: they are printed, or in the table, or blank.
Handled(k) ==
  /\ RowsIn(out) \o TableOf(table) = WantedOf(list.blank, k)
  /\ taken = Len(WantedOf(list.blank, k))
  /\ at = "page" => page = [i \in 1..(sent - k) |-> k + i]
  /\ at \in {"start", "fetch"} => k = sent
  /\ at = "rest" \/ (at \in {"close", "ended"} /\ status = "ok") =>
       List!CutShort \/ List!LimitReached \/ k = RowCount

\* Where there may be a table.
TableInv ==
  /\ ~List!Text => table = <<>>
  /\ ~List!Grows /\ at \in {"start", "fetch", "rest"} => table = <<>>
  /\ at \in {"close", "ended"} /\ status = "ok" => table = <<>>

\* A header is printed before anything else or not at all.
HeaderInv ==
  /\ at = "start" => out = <<>> /\ pages = 0
  /\ at = "page" => pages # 0
  /\ \A i \in DOMAIN out : out[i] = List!Mark("header") => List!Text /\ i = 1
  /\ List!Text /\ List!Grows =>
       /\ headed <=> out # <<>>
       /\ out # <<>> => out[1] = List!Mark("header")
  /\ List!Text /\ ~List!Grows /\ (pages = 0 \/ (pages = 1 /\ at = "page")) => out = <<>>

\* One document, to the end of what is written so far.
DocumentInv ==
  list.form = "json" /\ at # "start" =>
    out = <<List!Mark("[")>> \o Joined(RowsIn(out)) \o
            (IF at = "ended" THEN <<List!Mark("]")>> ELSE <<>>)

ListInv ==
  /\ ListType /\ TableInv /\ HeaderInv /\ DocumentInv
  /\ \E k \in 0..sent : Handled(k)

\* A row is no mark, and rows are told apart.
LEMMA RowsAndMarks ==
  /\ \A i, sign : List!Row(i) # List!Mark(sign)
  /\ \A i, j : List!Row(i) = List!Row(j) => i = j
  /\ \A i \in List!Rows : List!Row(i) \in RowSet /\ List!Row(i) \in Token
  /\ \A sign \in {"[", "]", ",", "header"} :
       List!Mark(sign) \in Token /\ List!Mark(sign) \notin RowSet
  /\ List!Mark("[") # List!Mark("header") /\ List!Mark("]") # List!Mark("header")
  /\ List!Mark(",") # List!Mark("header")
<1>1. \A i, sign : List!Row(i) # List!Mark(sign)
  BY DEF List!Row, List!Mark
<1>2. \A i, j : List!Row(i) = List!Row(j) => i = j
  BY DEF List!Row
<1>3. \A a, b : List!Mark(a) = List!Mark(b) => a = b
  BY DEF List!Mark
<1> QED
  BY <1>1, <1>2, <1>3, Zenon DEF RowSet, Token

\* A sequence of elements of a set is kept whole.
LEMMA FilteredAll ==
  ASSUME NEW set
  PROVE  \A s \in Seq(set) : Filtered(s, set) = s
<1> DEFINE S == {s \in Seq(set) : Filtered(s, set) = s}
<1>1. <<>> \in S
  BY FilteredEmpty
<1>2. ASSUME NEW s \in Seq(set), NEW e \in set, s \in S PROVE Append(s, e) \in S
  <2>1. Filtered(Append(s, e), set) = Append(Filtered(s, set), e)
    BY FilteredAppend
  <2> QED
    BY <1>2, <2>1
<1> HIDE DEF S
<1>3. \A s \in Seq(set) : s \in S
  BY <1>1, <1>2, SequenceSet, Zenon
<1> QED
  BY <1>3 DEF S

\* No more is kept than there is.
LEMMA FilteredLength ==
  ASSUME NEW T, NEW set
  PROVE  \A s \in Seq(T) : Len(Filtered(s, set)) <= Len(s)
<1> DEFINE S == {s \in Seq(T) : Len(Filtered(s, set)) <= Len(s)}
<1>1. <<>> \in S
  BY FilteredEmpty
<1>2. ASSUME NEW s \in Seq(T), NEW e \in T, s \in S PROVE Append(s, e) \in S
  <2>1. Filtered(Append(s, e), set) =
          IF e \in set THEN Append(Filtered(s, set), e) ELSE Filtered(s, set)
    BY FilteredAppend
  <2>2. Filtered(s, set) \in Seq(T \cap set)
    BY FilteredType
  <2>3. Len(Append(s, e)) = Len(s) + 1 /\ Len(s) \in Nat /\ Len(Filtered(s, set)) \in Nat
    BY <2>2
  <2>4. e \in set => Len(Append(Filtered(s, set), e)) = Len(Filtered(s, set)) + 1
    BY <2>2
  <2> QED
    BY <1>2, <2>1, <2>3, <2>4
<1> HIDE DEF S
<1>3. \A s \in Seq(T) : s \in S
  BY <1>1, <1>2, SequenceSet, Zenon
<1> QED
  BY <1>3 DEF S

\* What is wanted of no row, and of one row more.
LEMMA WantedStep ==
  ASSUME RowCount \in Nat, NEW blank
  PROVE  /\ WantedOf(blank, 0) = <<>>
         /\ \A k \in 0..RowCount : WantedOf(blank, k) \in Seq(RowSet) /\ Len(WantedOf(blank, k)) <= k
         /\ \A k \in 0..(RowCount - 1) :
              WantedOf(blank, k + 1) = IF k + 1 \in blank THEN WantedOf(blank, k)
                                      ELSE Append(WantedOf(blank, k), List!Row(k + 1))
<1> DEFINE first(k) == [i \in 1..k |-> List!Row(i)]
<1> DEFINE set == {List!Row(i) : i \in List!Rows \ blank}
<1>1. first(0) = <<>>
  OBVIOUS
<1>2. \A k \in 0..RowCount : first(k) \in Seq(RowSet) /\ Len(first(k)) = k
  BY DEF RowSet, List!Rows
<1>3. \A k \in 0..(RowCount - 1) : first(k + 1) = Append(first(k), List!Row(k + 1))
  OBVIOUS
<1>4. ASSUME NEW k \in 0..(RowCount - 1)
      PROVE  List!Row(k + 1) \in RowSet /\ (List!Row(k + 1) \in set <=> k + 1 \notin blank)
  <2>1. k + 1 \in List!Rows
    BY DEF List!Rows
  <2>2. \A i \in List!Rows : List!Row(i) \in RowSet /\ (List!Row(i) \in set <=> i \notin blank)
    BY RowsAndMarks, Zenon
  <2> QED
    BY <2>1, <2>2
<1>5. \A k : WantedOf(blank, k) = Filtered(first(k), set)
  BY DEF WantedOf
<1> HIDE DEF first, set
<1>6. \A s \in Seq(RowSet) : Filtered(s, set) \in Seq(RowSet) /\ Len(Filtered(s, set)) <= Len(s)
  <2>1. \A s \in Seq(RowSet) : Filtered(s, set) \in Seq(RowSet \cap set)
    BY FilteredType
  <2>2. \A s \in Seq(RowSet) : Len(Filtered(s, set)) <= Len(s)
    BY FilteredLength
  <2> QED
    BY <2>1, <2>2
<1>7. WantedOf(blank, 0) = <<>>
  BY <1>1, <1>5, FilteredEmpty
<1>8. ASSUME NEW k \in 0..(RowCount - 1)
      PROVE  WantedOf(blank, k + 1) = IF k + 1 \in blank THEN WantedOf(blank, k)
                                      ELSE Append(WantedOf(blank, k), List!Row(k + 1))
  <2>1. k \in 0..RowCount
    OBVIOUS
  <2>2. first(k) \in Seq(RowSet) /\ List!Row(k + 1) \in RowSet
    BY <1>2, <1>4, <2>1
  <2>3. Filtered(Append(first(k), List!Row(k + 1)), set) =
          IF List!Row(k + 1) \in set THEN Append(Filtered(first(k), set), List!Row(k + 1))
          ELSE Filtered(first(k), set)
    <3>1. \A s \in Seq(RowSet) : \A e \in RowSet :
            Filtered(Append(s, e), set) =
              IF e \in set THEN Append(Filtered(s, set), e) ELSE Filtered(s, set)
      BY FilteredAppend
    <3> QED
      BY <2>2, <3>1
  <2> QED
    BY <1>3, <1>4, <1>5, <2>3
<1> QED
  BY <1>2, <1>5, <1>6, <1>7, <1>8

\* What is wanted of some rows is a start of what is wanted of more.
LEMMA WantedPrefix ==
  ASSUME RowCount \in Nat, NEW blank, NEW k \in 0..RowCount
  PROVE  \A m \in 0..RowCount : k <= m =>
           /\ Len(WantedOf(blank, k)) <= Len(WantedOf(blank, m))
           /\ \A i \in 1..Len(WantedOf(blank, k)) : WantedOf(blank, m)[i] = WantedOf(blank, k)[i]
<1> DEFINE W(m) == WantedOf(blank, m)
<1> DEFINE Starts(m) == /\ Len(W(k)) <= Len(W(m))
                        /\ \A i \in 1..Len(W(k)) : W(m)[i] = W(k)[i]
<1> DEFINE S == {m \in Nat : m \in 0..RowCount /\ k <= m => Starts(m)}
<1>1. \A m \in 0..RowCount : W(m) \in Seq(RowSet)
  BY WantedStep
<1>2. \A m \in 0..(RowCount - 1) : W(m + 1) = W(m) \/ W(m + 1) = Append(W(m), List!Row(m + 1))
  BY WantedStep
<1> HIDE DEF W
<1>3. Starts(k)
  BY <1>1
<1>4. 0 \in S
  BY <1>3
<1>5. ASSUME NEW m \in Nat, m \in S PROVE m + 1 \in S
  <2> SUFFICES ASSUME m + 1 \in 0..RowCount, k <= m + 1, k # m + 1 PROVE Starts(m + 1)
    BY <1>3
  <2>1. Starts(m) /\ m \in 0..(RowCount - 1) /\ m \in 0..RowCount
    BY <1>5
  <2>2. W(m) \in Seq(RowSet) /\ W(k) \in Seq(RowSet)
    BY <1>1, <2>1
  <2>3. CASE W(m + 1) = W(m)
    BY <2>1, <2>3
  <2>4. CASE W(m + 1) = Append(W(m), List!Row(m + 1))
    <3>1. /\ Len(W(m + 1)) = Len(W(m)) + 1 /\ Len(W(m)) \in Nat /\ Len(W(k)) \in Nat
          /\ \A i \in 1..Len(W(m)) : W(m + 1)[i] = W(m)[i]
      BY <2>2, <2>4
    <3> QED
      BY <2>1, <3>1
  <2> QED
    BY <1>2, <2>1, <2>3, <2>4
<1>6. \A m \in Nat : m \in S
  <2> HIDE DEF S
  <2> QED
    BY <1>4, <1>5, NumberSet, Zenon
<1> QED
  BY <1>6 DEF W


\* What is written adds its rows to those printed.
LEMMA PrintedMore ==
  /\ \A u, v \in Seq(RowSet) : \A x \in RowSet : Append(u \o v, x) = u \o Append(v, x)
  /\ \A s \in Seq(Token) :
       /\ RowsIn(s) \in Seq(RowSet)
       /\ \A sign \in {"[", "]", ",", "header"} :
            /\ s \o <<List!Mark(sign)>> \in Seq(Token)
            /\ RowsIn(s \o <<List!Mark(sign)>>) = RowsIn(s)
       /\ \A t \in Seq(RowSet) : s \o t \in Seq(Token) /\ RowsIn(s \o t) = RowsIn(s) \o t
       /\ \A e \in Token : RowsIn(Append(s, e)) =
                       IF e \in RowSet THEN Append(RowsIn(s), e) ELSE RowsIn(s)
<1>1. ASSUME NEW s \in Seq(Token)
      PROVE  /\ RowsIn(s) \in Seq(RowSet)
             /\ \A sign \in {"[", "]", ",", "header"} :
                  /\ s \o <<List!Mark(sign)>> \in Seq(Token)
                  /\ RowsIn(s \o <<List!Mark(sign)>>) = RowsIn(s)
             /\ \A t \in Seq(RowSet) : s \o t \in Seq(Token) /\ RowsIn(s \o t) = RowsIn(s) \o t
             /\ \A e \in Token : RowsIn(Append(s, e)) =
                                 IF e \in RowSet THEN Append(RowsIn(s), e) ELSE RowsIn(s)
  <2>1. RowsIn(s) \in Seq(RowSet)
    <3>1. Filtered(s, RowSet) \in Seq(Token \cap RowSet)
      BY FilteredType
    <3>2. Token \cap RowSet = RowSet
      BY DEF Token
    <3> QED
      BY <3>1, <3>2 DEF RowsIn
  <2>2. ASSUME NEW sign \in {"[", "]", ",", "header"}
        PROVE  /\ s \o <<List!Mark(sign)>> \in Seq(Token)
               /\ RowsIn(s \o <<List!Mark(sign)>>) = RowsIn(s)
    <3> DEFINE mark == List!Mark(sign)
    <3>1. mark \in Token /\ mark \notin RowSet
      BY RowsAndMarks
    <3> HIDE DEF mark
    <3>2. s \o <<mark>> = Append(s, mark) /\ Append(s, mark) \in Seq(Token)
      BY <3>1, AppendIsConcat, AppendProperties, Zenon
    <3>3. RowsIn(Append(s, mark)) = RowsIn(s)
      BY <3>1, FilteredAppend DEF RowsIn
    <3> QED
      BY <3>2, <3>3 DEF mark
  <2>3. ASSUME NEW t \in Seq(RowSet)
        PROVE  s \o t \in Seq(Token) /\ RowsIn(s \o t) = RowsIn(s) \o t
    <3>1. t \in Seq(Token)
      <4>1. RowSet \subseteq Token
        BY DEF Token
      <4> QED
        BY <4>1
    <3>2. RowsIn(s \o t) = RowsIn(s) \o RowsIn(t)
      BY <3>1, FilteredConcat DEF RowsIn
    <3>3. RowsIn(t) = t
      BY FilteredAll DEF RowsIn
    <3>4. s \o t \in Seq(Token)
      BY <3>1
    <3> QED
      BY <3>2, <3>3, <3>4
  <2>4. \A e \in Token : RowsIn(Append(s, e)) =
                          IF e \in RowSet THEN Append(RowsIn(s), e) ELSE RowsIn(s)
    BY FilteredAppend DEF RowsIn
  <2> QED
    BY <2>1, <2>2, <2>3, <2>4
<1>2. \A u, v \in Seq(RowSet) : \A x \in RowSet : Append(u \o v, x) = u \o Append(v, x)
  OBVIOUS
<1> QED
  BY <1>1, <1>2

\* A table's rows, one by one.
LEMMA TableSteps ==
  /\ TableOf(<<>>) = <<>>
  /\ \A t \in Seq(List!Rows) :
       /\ TableOf(t) \in Seq(RowSet) /\ Len(TableOf(t)) = Len(t)
       /\ \A r \in List!Rows : TableOf(Append(t, r)) = Append(TableOf(t), List!Row(r))
<1>1. TableOf(<<>>) = <<>>
  BY DEF TableOf
<1>2. ASSUME NEW t \in Seq(List!Rows)
      PROVE  /\ TableOf(t) \in Seq(RowSet) /\ Len(TableOf(t)) = Len(t)
             /\ \A r \in List!Rows : TableOf(Append(t, r)) = Append(TableOf(t), List!Row(r))
  <2>1. \A i \in DOMAIN t : List!Row(t[i]) \in RowSet
    BY DEF RowSet
  <2>2. TableOf(t) \in Seq(RowSet) /\ Len(TableOf(t)) = Len(t)
    BY <2>1 DEF TableOf
  <2>3. ASSUME NEW r \in List!Rows PROVE TableOf(Append(t, r)) = Append(TableOf(t), List!Row(r))
    BY DEF TableOf
  <2> QED
    BY <2>2, <2>3
<1> QED
  BY <1>1, <1>2

\* Printing a table.
LEMMA TablePrinted ==
  ASSUME NEW s \in Seq(Token), NEW t \in Seq(List!Rows), NEW noHeader \in BOOLEAN,
         NEW s2, s2 = s \o List!PrintTable(t, noHeader)
  PROVE  /\ s2 \in Seq(Token)
         /\ RowsIn(s2) = RowsIn(s) \o TableOf(t)
         /\ noHeader => s2 = s \o TableOf(t)
         /\ ~noHeader => s2 = (s \o <<List!Mark("header")>>) \o TableOf(t)
<1>1. TableOf(t) \in Seq(RowSet) /\ TableOf(t) = [i \in DOMAIN t |-> List!Row(t[i])]
  BY TableSteps DEF TableOf
<1>2. TableOf(t) \in Seq(Token)
  <2>1. RowSet \subseteq Token
    BY DEF Token
  <2> QED
    BY <1>1, <2>1
<1>3. CASE noHeader
  <2>1. s2 = s \o (<<>> \o TableOf(t))
    BY <1>1, <1>3 DEF List!PrintTable
  <2>2. <<>> \o TableOf(t) = TableOf(t)
    BY <1>1
  <2>3. s2 = s \o TableOf(t)
    BY <2>1, <2>2
  <2> QED
    BY <1>1, <1>3, <2>3, PrintedMore
<1>4. CASE ~noHeader
  <2> DEFINE header == List!Mark("header")
  <2>1. header \in Token /\ RowsIn(s \o <<header>>) = RowsIn(s) /\ s \o <<header>> \in Seq(Token)
    BY RowsAndMarks, PrintedMore
  <2>2. s2 = s \o (<<header>> \o TableOf(t))
    BY <1>1, <1>4 DEF List!PrintTable
  <2> HIDE DEF header
  <2>3. s \o (<<header>> \o TableOf(t)) = (s \o <<header>>) \o TableOf(t)
    <3>1. <<header>> \in Seq(Token)
      BY <2>1
    <3> QED
      BY <1>2, <3>1, ConcatAssociative
  <2>4. RowsIn((s \o <<header>>) \o TableOf(t)) = RowsIn(s \o <<header>>) \o TableOf(t)
        /\ (s \o <<header>>) \o TableOf(t) \in Seq(Token)
    BY <1>1, <2>1, PrintedMore
  <2> QED
    BY <1>4, <2>1, <2>2, <2>3, <2>4 DEF header
<1> QED
  BY <1>3, <1>4

\* One row more in a document.
LEMMA JoinedSteps ==
  /\ Joined(<<>>) = <<>>
  /\ \A p \in Seq(RowSet) :
       /\ Joined(p) \in Seq(Token)
       /\ p # <<>> => Joined(p) # <<>> /\ Joined(p)[Len(Joined(p))] \in RowSet
       /\ \A r \in RowSet :
            Joined(Append(p, r)) =
              Joined(p) \o (IF p = <<>> THEN <<r>> ELSE <<List!Mark(","), r>>)
<1> DEFINE comma == List!Mark(",")
<1>0. comma \in Token /\ RowSet \subseteq Token
  BY RowsAndMarks DEF Token
<1>00. \A p : Joined(p) = [i \in 1..(IF Len(p) = 0 THEN 0 ELSE 2 * Len(p) - 1) |->
                             IF i % 2 = 1 THEN p[(i + 1) \div 2] ELSE comma]
  BY DEF Joined
<1> HIDE DEF comma
<1>1. Joined(<<>>) = <<>>
  BY <1>00
<1>2. ASSUME NEW p \in Seq(RowSet), p # <<>>
      PROVE  /\ Joined(p) \in Seq(Token) /\ Len(Joined(p)) = 2 * Len(p) - 1
             /\ Joined(p)[2 * Len(p) - 1] = p[Len(p)]
             /\ \A i \in 1..(2 * Len(p) - 1) :
                  Joined(p)[i] = IF i % 2 = 1 THEN p[(i + 1) \div 2] ELSE comma
  <2>1. Len(p) \in Nat \ {0} /\ \A i \in 1..Len(p) : p[i] \in RowSet
    BY <1>2
  <2> DEFINE n == Len(p)
  <2>2. Joined(p) = [i \in 1..(2 * n - 1) |-> IF i % 2 = 1 THEN p[(i + 1) \div 2] ELSE comma]
    BY <1>00, <2>1
  <2> HIDE DEF n
  <2>3. ASSUME NEW i \in 1..(2 * n - 1), i % 2 = 1 PROVE (i + 1) \div 2 \in 1..n
    BY <2>1, <2>3 DEF n
  <2>4. \A i \in 1..(2 * n - 1) : (IF i % 2 = 1 THEN p[(i + 1) \div 2] ELSE comma) \in Token
    BY <1>0, <2>1, <2>3 DEF n
  <2>5. (2 * n - 1) % 2 = 1 /\ ((2 * n - 1) + 1) \div 2 = n /\ 2 * n - 1 \in 1..(2 * n - 1)
        /\ 2 * n - 1 \in Nat
    BY <2>1 DEF n
  <2>6. Joined(p) \in Seq(Token) /\ Len(Joined(p)) = 2 * n - 1
    <3> DEFINE m == 2 * n - 1
    <3>1. m \in Nat /\ Joined(p) \in [1..m -> Token]
      BY <2>2, <2>4, <2>5
    <3> HIDE DEF m
    <3>2. Joined(p) \in Seq(Token) /\ Len(Joined(p)) = m
      BY <3>1
    <3> QED
      BY <3>2 DEF m
  <2>7. Joined(p)[2 * n - 1] = p[n]
    BY <2>2, <2>5
  <2>8. \A i \in 1..(2 * n - 1) : Joined(p)[i] = IF i % 2 = 1 THEN p[(i + 1) \div 2] ELSE comma
    BY <2>2
  <2> QED
    BY <2>6, <2>7, <2>8 DEF n
<1>3. ASSUME NEW p \in Seq(RowSet)
      PROVE  /\ Joined(p) \in Seq(Token)
             /\ p # <<>> => Joined(p) # <<>> /\ Joined(p)[Len(Joined(p))] \in RowSet
  <2>1. CASE p = <<>>
    <3>1. Joined(p) = <<>> /\ <<>> \in Seq(Token)
      BY <1>1, <2>1, EmptySeq, Zenon
    <3> QED
      BY <2>1, <3>1, Zenon
  <2>2. CASE p # <<>>
    <3>1. Len(p) \in Nat \ {0} /\ p[Len(p)] \in RowSet
      BY <2>2
    <3>2. Joined(p) \in Seq(Token) /\ Len(Joined(p)) = 2 * Len(p) - 1
          /\ Joined(p)[2 * Len(p) - 1] = p[Len(p)]
      BY <1>2, <2>2
    <3>3. Len(Joined(p)) # 0 /\ Joined(p)[Len(Joined(p))] = p[Len(p)]
      BY <3>1, <3>2
    <3>4. Joined(p) # <<>>
      BY <3>3
    <3> QED
      BY <3>1, <3>2, <3>3, <3>4
  <2> QED
    BY <2>1, <2>2
<1>4. ASSUME NEW p \in Seq(RowSet), NEW r \in RowSet
      PROVE  Joined(Append(p, r)) = Joined(p) \o (IF p = <<>> THEN <<r>> ELSE <<comma, r>>)
  <2> DEFINE q == Append(p, r)
  <2>1. /\ q \in Seq(RowSet) /\ q # <<>> /\ Len(q) = Len(p) + 1 /\ q[Len(q)] = r
        /\ \A i \in 1..Len(p) : q[i] = p[i]
    OBVIOUS
  <2> HIDE DEF q
  <2>2. CASE p = <<>>
    <3>1. Len(q) = 1 /\ q[1] = r
      BY <2>1, <2>2
    <3>2. Joined(q) \in Seq(Token) /\ Len(Joined(q)) = 1 /\ Joined(q)[1] = r
      BY <1>2, <2>1, <3>1
    <3>3. Joined(q) = <<r>>
      BY <3>2
    <3>4. <<>> \o <<r>> = <<r>>
      OBVIOUS
    <3> QED
      BY <1>1, <2>2, <3>3, <3>4 DEF q
  <2>3. CASE p # <<>>
    <3> DEFINE n == Len(p)
    <3>1. n \in Nat \ {0}
      BY <2>3
    <3>2. /\ Joined(p) \in Seq(Token) /\ Len(Joined(p)) = 2 * n - 1
          /\ \A i \in 1..(2 * n - 1) :
               Joined(p)[i] = IF i % 2 = 1 THEN p[(i + 1) \div 2] ELSE comma
      BY <1>2, <2>3
    <3>3. /\ Joined(q) \in Seq(Token) /\ Len(Joined(q)) = 2 * n + 1
          /\ Joined(q)[2 * n + 1] = r
          /\ \A i \in 1..(2 * n + 1) :
               Joined(q)[i] = IF i % 2 = 1 THEN q[(i + 1) \div 2] ELSE comma
      <4>1. 2 * Len(q) - 1 = 2 * n + 1
        BY <2>1, <3>1
      <4> QED
        BY <1>2, <2>1, <4>1
    <3>30. \A i \in 1..Len(p) : q[i] = p[i]
      BY <2>1
    <3> HIDE DEF n
    <3>4. ASSUME NEW i \in 1..(2 * n - 1), i % 2 = 1 PROVE (i + 1) \div 2 \in 1..n
      BY <3>1, <3>4
    <3>5. \A i \in 1..(2 * n - 1) : Joined(q)[i] = Joined(p)[i]
      <4> TAKE i \in 1..(2 * n - 1)
      <4>1. i \in 1..(2 * n + 1)
        BY <3>1
      <4>2. i % 2 = 1 => q[(i + 1) \div 2] = p[(i + 1) \div 2]
        BY <3>30, <3>4 DEF n
      <4>3. Joined(p)[i] = IF i % 2 = 1 THEN p[(i + 1) \div 2] ELSE comma
        BY <3>2
      <4>4. Joined(q)[i] = IF i % 2 = 1 THEN q[(i + 1) \div 2] ELSE comma
        BY <3>3, <4>1
      <4> QED
        BY <4>2, <4>3, <4>4
    <3>6. Joined(q)[2 * n] = comma
      <4>1. (2 * n) % 2 = 0 /\ 2 * n \in 1..(2 * n + 1)
        BY <3>1
      <4> QED
        BY <3>3, <4>1
    <3> DEFINE end == <<comma, r>>
    <3>7. end \in Seq(Token) /\ Len(end) = 2 /\ end[1] = comma /\ end[2] = r
      BY <1>0
    <3> HIDE DEF end
    <3> DEFINE whole == Joined(p) \o end
    <3>8. /\ whole \in Seq(Token) /\ Len(whole) = 2 * n + 1
          /\ \A i \in 1..(2 * n - 1) : whole[i] = Joined(p)[i]
          /\ whole[2 * n] = comma /\ whole[2 * n + 1] = r
      <4> DEFINE m == 2 * n - 1
      <4>1. m \in Nat /\ m + 2 = 2 * n + 1 /\ m + 1 = 2 * n
        BY <3>1
      <4>2. Joined(p) \in Seq(Token) /\ Len(Joined(p)) = m
        BY <3>2
      <4> HIDE DEF m
      <4>3. /\ whole \in Seq(Token) /\ Len(whole) = m + 2
            /\ \A i \in 1..m : whole[i] = Joined(p)[i]
            /\ whole[m + 1] = comma /\ whole[m + 2] = r
        <5>1. /\ whole \in Seq(Token) /\ Len(whole) = m + 2
              /\ \A i \in 1..(m + 2) : whole[i] = IF i <= m THEN Joined(p)[i] ELSE end[i - m]
          <6>1. /\ whole \in Seq(Token) /\ Len(whole) = Len(Joined(p)) + Len(end)
                /\ \A i \in 1..(Len(Joined(p)) + Len(end)) :
                     whole[i] = IF i <= Len(Joined(p)) THEN Joined(p)[i] ELSE end[i - Len(Joined(p))]
            BY <3>7, <4>2, ConcatProperties, Zenon
          <6> QED
            BY <3>7, <4>2, <6>1
        <5>2. /\ m + 1 \in 1..(m + 2) /\ m + 2 \in 1..(m + 2) /\ (m + 1) - m = 1 /\ (m + 2) - m = 2
              /\ ~(m + 1 <= m) /\ ~(m + 2 <= m) /\ \A i \in 1..m : i \in 1..(m + 2) /\ i <= m
          BY <4>1
        <5> HIDE DEF whole
        <5> QED
          BY <3>7, <5>1, <5>2, Zenon
      <4> HIDE DEF whole
      <4> QED
        BY <4>1, <4>3 DEF m
    <3> HIDE DEF whole
    <3>9. Joined(q) = whole
      <4>1. \A i \in 1..(2 * n + 1) : Joined(q)[i] = whole[i]
        <5>1. \A i \in 1..(2 * n + 1) : i \in 1..(2 * n - 1) \/ i = 2 * n \/ i = 2 * n + 1
          BY <3>1
        <5> QED
          BY <3>3, <3>5, <3>6, <3>8, <5>1, Zenon
      <4> QED
        BY <3>3, <3>8, <4>1
    <3> QED
      BY <2>3, <3>9 DEF whole, q, end
  <2> QED
    BY <2>2, <2>3
<1> QED
  BY <1>1, <1>3, <1>4 DEF comma


\* The constants, and the command.
LEMMA ListConstants ==
  ASSUME List!ConstantsTyped, list \in ListCommands
  PROVE  /\ RowCount \in Nat /\ PageRows \in Nat /\ TableRows \in Nat \ {0}
         /\ list.limit \in Nat /\ list.form \in {"text", "json", "jsonl"}
         /\ List!Rows = 1..RowCount
BY DEF List!ConstantsTyped, List!Rows

\* Before anything is written nothing is handled, and nothing is missing.
LEMMA ListInit ==
  ASSUME List!ConstantsTyped, List!Init
  PROVE  ListInv
<1> USE DEF List!Init
<1>1. RowCount \in Nat /\ list.limit \in Nat
  BY ListConstants
<1>2. ListType
  <2>1. <<>> \in Seq(List!Rows) /\ <<>> \in Seq(Token)
    BY EmptySeq, Zenon
  <2>2. sent \in 0..RowCount /\ pages \in 0..2 /\ taken \in Nat
        /\ (list.limit > 0 => taken <= list.limit)
    BY <1>1
  <2> QED
    BY <2>1, <2>2, Zenon DEF ListType
<1>3. TableInv /\ HeaderInv /\ DocumentInv
  BY DEF TableInv, HeaderInv, DocumentInv
<1>4. Handled(0)
  <2>1. WantedOf(list.blank, 0) = <<>>
    BY <1>1, WantedStep
  <2>2. RowsIn(<<>>) = <<>> /\ TableOf(<<>>) = <<>>
    BY FilteredEmpty, TableSteps DEF RowsIn
  <2>3. <<>> \o <<>> = <<>> /\ Len(<<>>) = 0
    OBVIOUS
  <2> QED
    BY <2>1, <2>2, <2>3 DEF Handled
<1> QED
  BY <1>1, <1>2, <1>3, <1>4 DEF ListInv

\* The bracket that opens a JSON list comes before any page.
LEMMA BeginStep ==
  ASSUME List!ConstantsTyped, ListInv, List!Begin
  PROVE  ListInv'
<1>1. PICK k \in 0..sent : Handled(k)
  BY DEF ListInv
<1>2. at = "start" /\ at' = "fetch" /\ out = <<>> /\ out' = List!StartList /\ page = <<>>
      /\ UNCHANGED <<list, sent, more, pages, page, table, headed, taken, status>>
  BY DEF List!Begin, ListInv, HeaderInv, ListType
<1>3. /\ out' \in Seq(Token) /\ RowsIn(out') = <<>>
      /\ list.form = "json" => out' = <<List!Mark("[")>>
      /\ list.form # "json" => out' = <<>>
  <2>1. <<>> \in Seq(Token) /\ <<>> \o <<List!Mark("[")>> = <<List!Mark("[")>>
    OBVIOUS
  <2>2. RowsIn(<<>>) = <<>>
    BY FilteredEmpty DEF RowsIn
  <2>3. <<List!Mark("[")>> \in Seq(Token) /\ RowsIn(<<List!Mark("[")>>) = <<>>
    BY <2>1, <2>2, PrintedMore
  <2> QED
    BY <1>2, <2>1, <2>2, <2>3 DEF List!StartList
<1>4. ListType'
  BY <1>2, <1>3 DEF ListInv, ListType
<1>5. TableInv'
  BY <1>2 DEF ListInv, TableInv, List!Text, List!Grows
<1>6. HeaderInv'
  <2>1. \A i \in DOMAIN out' : out'[i] # List!Mark("header")
    <3>1. \A x : DOMAIN <<x>> = {1} /\ <<x>>[1] = x
      OBVIOUS
    <3>2. DOMAIN <<>> = {}
      OBVIOUS
    <3>3. List!Mark("[") # List!Mark("header")
      BY RowsAndMarks
    <3>4. out' = <<>> \/ out' = <<List!Mark("[")>>
      BY <1>3
    <3> QED
      BY <3>1, <3>2, <3>3, <3>4, Zenon
  <2>2. ~headed \/ ~List!Text \/ ~List!Grows
    BY <1>2 DEF ListInv, HeaderInv
  <2> QED
    BY <1>2, <1>3, <2>1, <2>2 DEF ListInv, HeaderInv, List!Text, List!Grows
<1>7. DocumentInv'
  <2>1. Joined(<<>>) = <<>>
    BY JoinedSteps
  <2>2. <<List!Mark("[")>> \o <<>> \o <<>> = <<List!Mark("[")>>
    OBVIOUS
  <2> QED
    BY <1>2, <1>3, <2>1, <2>2 DEF DocumentInv
<1>8. Handled(k)'
  <2>1. RowsIn(out) = RowsIn(out')
    BY <1>2, <1>3, FilteredEmpty DEF RowsIn
  <2> QED
    BY <1>1, <1>2, <2>1 DEF Handled
<1> QED
  BY <1>2, <1>4, <1>5, <1>6, <1>7, <1>8 DEF ListInv

\* The rows of a page are those that come after the rows sent before.
LEMMA FetchStep ==
  ASSUME List!ConstantsTyped, ListInv, List!Fetch
  PROVE  ListInv'
<1>0. RowCount \in Nat /\ List!Rows = 1..RowCount /\ list.limit \in Nat
  BY ListConstants DEF ListInv, ListType
<1>1. PICK k \in 0..sent : Handled(k)
  BY DEF ListInv
<1>2. at = "fetch" /\ page = <<>> /\ sent \in 0..RowCount /\ pages \in 0..2 /\ k = sent
  BY <1>1 DEF List!Fetch, ListInv, ListType, Handled
<1>3. PICK n \in 0..List!AskedRows :
        /\ sent + n <= RowCount /\ sent' = sent + n
        /\ page' = [i \in 1..n |-> sent + i]
        /\ more' \in (IF sent' < RowCount THEN {TRUE} ELSE IF n > 0 THEN BOOLEAN ELSE {FALSE})
        /\ pages' = (IF pages = 2 THEN 2 ELSE pages + 1)
        /\ at' = (IF list.kind = "batch" /\ pages = 0 /\ n = 0 THEN "close" ELSE "page")
        /\ status' = (IF at' = "close" THEN "ok" ELSE status)
  BY DEF List!Fetch
<1>4. UNCHANGED <<list, table, headed, taken, out>>
  BY DEF List!Fetch
<1>5. n \in Nat /\ sent' \in 0..RowCount /\ (more' = FALSE => sent' = RowCount) /\ more' \in BOOLEAN
  <2>1. List!AskedRows \in Nat
    BY ListConstants DEF List!AskedRows, ListInv, ListType
  <2>2. n \in Nat /\ sent' \in 0..RowCount
    BY <1>0, <1>2, <1>3, <2>1
  <2>3. sent' < RowCount \/ sent' = RowCount
    BY <1>0, <2>2
  <2>4. more' \in BOOLEAN /\ (sent' < RowCount => more' = TRUE)
    BY <1>3
  <2> QED
    BY <2>2, <2>3, <2>4
<1>6. page' \in Seq(List!Rows) /\ (n = 0 => page' = <<>>)
  <2>1. \A i \in 1..n : sent + i \in List!Rows
    BY <1>0, <1>2, <1>3, <1>5
  <2> QED
    BY <1>3, <1>5, <2>1
<1>7. ListType'
  BY <1>2, <1>3, <1>4, <1>5, <1>6 DEF ListInv, ListType
<1>8. TableInv'
  BY <1>2, <1>3, <1>4 DEF ListInv, TableInv, List!Text, List!Grows
<1>9. HeaderInv'
  BY <1>2, <1>3, <1>4 DEF ListInv, HeaderInv, List!Text, List!Grows
<1>10. DocumentInv'
  BY <1>2, <1>3, <1>4 DEF ListInv, DocumentInv
<1>11. Handled(k)'
  <2>1. at' = "page" => page' = [i \in 1..(sent' - k) |-> k + i]
    BY <1>2, <1>3, <1>5
  <2>2. at' = "close" => List!CutShort'
    <3>1. at' = "close" => list.kind = "batch" /\ taken = 0
      <4>1. at' = "close" => list.kind = "batch" /\ pages = 0
        BY <1>3
      <4>2. pages = 0 => k = 0
        BY <1>2 DEF ListInv, ListType
      <4>3. k = 0 => taken = 0
        BY <1>0, <1>1, WantedStep DEF Handled
      <4> QED
        BY <4>1, <4>2, <4>3
    <3> QED
      BY <1>4, <3>1 DEF List!CutShort
  <2> QED
    BY <1>1, <1>2, <1>3, <1>4, <2>1, <2>2 DEF Handled
<1>12. k \in 0..sent'
  BY <1>2, <1>3, <1>5
<1> QED
  BY <1>7, <1>8, <1>9, <1>10, <1>11, <1>12 DEF ListInv

\* A page that could not be read leaves what was printed as it stands.
LEMMA FetchFailsStep ==
  ASSUME List!ConstantsTyped, ListInv, List!FetchFails
  PROVE  ListInv'
<1>1. PICK k \in 0..sent : Handled(k)
  BY DEF ListInv
<1>2. at = "fetch" /\ at' = "close" /\ status' = "error"
      /\ UNCHANGED <<list, sent, more, pages, page, table, headed, taken, out>>
  BY DEF List!FetchFails
<1>3. ListType'
  BY <1>2 DEF ListInv, ListType
<1>4. TableInv' /\ HeaderInv' /\ DocumentInv'
  BY <1>2 DEF ListInv, TableInv, HeaderInv, DocumentInv, List!Text, List!Grows
<1>5. Handled(k)'
  BY <1>1, <1>2 DEF Handled
<1> QED
  BY <1>2, <1>3, <1>4, <1>5 DEF ListInv


\* The first row of the page is the one after those handled.
LEMMA NextRow ==
  ASSUME List!ConstantsTyped, ListInv, at = "page", page # <<>>, NEW k \in 0..sent, Handled(k)
  PROVE  /\ Head(page) = k + 1 /\ k + 1 \in 0..sent /\ k + 1 \in List!Rows
         /\ k \in 0..(RowCount - 1) /\ k \in 0..RowCount
         /\ Tail(page) = [i \in 1..(sent - (k + 1)) |-> (k + 1) + i]
         /\ Tail(page) \in Seq(List!Rows)
<1>1. page = [i \in 1..(sent - k) |-> k + i] /\ sent \in 0..RowCount /\ page \in Seq(List!Rows)
  BY DEF Handled, ListInv, ListType
<1>2. RowCount \in Nat /\ List!Rows = 1..RowCount
  BY ListConstants DEF ListInv, ListType
<1>3. sent - k # 0
  <2>1. sent - k = 0 => page = <<>>
    BY <1>1
  <2> QED
    BY <2>1
<1>4. k + 1 \in 0..sent /\ k \in 0..(RowCount - 1) /\ k \in 0..RowCount /\ k + 1 \in 1..RowCount
  BY <1>1, <1>2, <1>3
<1> DEFINE n == sent - k
<1>5. n \in Nat \ {0} /\ sent - (k + 1) = n - 1 /\ page = [i \in 1..n |-> k + i] /\ k \in Nat
  BY <1>1, <1>2, <1>3
<1> HIDE DEF n
<1>6. Len(page) = n /\ Head(page) = k + 1
  BY <1>5
<1>7. Tail(page) = [i \in 1..(n - 1) |-> page[i + 1]]
  BY <1>1, <1>5, <1>6
<1>8. \A i \in 1..(n - 1) : page[i + 1] = (k + 1) + i
  BY <1>5
<1>9. Tail(page) = [i \in 1..(n - 1) |-> (k + 1) + i]
  BY <1>7, <1>8
<1>10. Tail(page) \in Seq(List!Rows)
  BY <1>1, HeadTailProperties
<1> QED
  BY <1>2, <1>4, <1>5, <1>6, <1>9, <1>10

\* A worker without a heartbeat is handled, and nothing is printed of it.
LEMMA SkipRowStep ==
  ASSUME List!ConstantsTyped, ListInv, List!SkipRow
  PROVE  ListInv'
<1>1. PICK k \in 0..sent : Handled(k)
  BY DEF ListInv
<1>2. at = "page" /\ page # <<>> /\ Head(page) \in list.blank /\ page' = Tail(page)
      /\ UNCHANGED <<list, at, sent, more, pages, table, headed, taken, out, status>>
  BY DEF List!SkipRow
<1>3. /\ Head(page) = k + 1 /\ k + 1 \in 0..sent /\ k \in 0..(RowCount - 1)
      /\ Tail(page) = [i \in 1..(sent - (k + 1)) |-> (k + 1) + i]
      /\ Tail(page) \in Seq(List!Rows)
  BY <1>1, <1>2, NextRow
<1>4. ListType'
  BY <1>2, <1>3 DEF ListInv, ListType
<1>5. TableInv' /\ HeaderInv' /\ DocumentInv'
  BY <1>2 DEF ListInv, TableInv, HeaderInv, DocumentInv, List!Text, List!Grows
<1>6. WantedOf(list.blank, k + 1) = WantedOf(list.blank, k)
  <2>1. RowCount \in Nat
    BY ListConstants DEF ListInv, ListType
  <2>2. \A m \in 0..(RowCount - 1) :
          WantedOf(list.blank, m + 1) = IF m + 1 \in list.blank THEN WantedOf(list.blank, m)
                                        ELSE Append(WantedOf(list.blank, m), List!Row(m + 1))
    BY <2>1, WantedStep, Zenon
  <2> QED
    BY <1>2, <1>3, <2>2
<1>7. Handled(k + 1)'
  BY <1>1, <1>2, <1>3, <1>6 DEF Handled
<1> QED
  BY <1>2, <1>3, <1>4, <1>5, <1>7 DEF ListInv

\* Two sequences, one after the other.
LEMMA TwoParts ==
  \A s, t \in Seq(Token) :
    /\ s \o t \in Seq(Token)
    /\ \A i \in 1..Len(s) : (s \o t)[i] = s[i] /\ i \in DOMAIN (s \o t)
    /\ \A i \in DOMAIN (s \o t) :
         i \in 1..Len(s) \/ \E j \in 1..Len(t) : i = Len(s) + j /\ (s \o t)[i] = t[j]
<1>1. ASSUME NEW s \in Seq(Token), NEW t \in Seq(Token)
      PROVE  /\ s \o t \in Seq(Token)
             /\ \A i \in 1..Len(s) : (s \o t)[i] = s[i] /\ i \in DOMAIN (s \o t)
             /\ \A i \in DOMAIN (s \o t) :
                  i \in 1..Len(s) \/ \E j \in 1..Len(t) : i = Len(s) + j /\ (s \o t)[i] = t[j]
  <2> DEFINE m == Len(s)
  <2> DEFINE n == Len(t)
  <2>1. m \in Nat /\ n \in Nat
    OBVIOUS
  <2>2. /\ s \o t \in Seq(Token) /\ Len(s \o t) = m + n
        /\ \A i \in 1..(m + n) : (s \o t)[i] = IF i <= m THEN s[i] ELSE t[i - m]
    BY ConcatProperties, Zenon
  <2>3. DOMAIN (s \o t) = 1..(m + n)
    <3> DEFINE u == s \o t
    <3> HIDE DEF u
    <3>1. u \in Seq(Token) /\ Len(u) = m + n
      BY <2>2 DEF u
    <3>2. DOMAIN u = 1..(m + n)
      BY <3>1
    <3> QED
      BY <3>2 DEF u
  <2> HIDE DEF m, n
  <2>4. \A i \in 1..m : i \in 1..(m + n) /\ i <= m
    BY <2>1
  <2>5. \A i \in 1..(m + n) : i \in 1..m \/ (~(i <= m) /\ i - m \in 1..n /\ i = m + (i - m))
    BY <2>1
  <2> QED
    BY <2>2, <2>3, <2>4, <2>5, Zenon DEF m, n
<1> QED
  BY <1>1

\* Printing a table keeps the header where it is.
LEMMA HeaderStays ==
  ASSUME NEW s \in Seq(Token), NEW t \in Seq(List!Rows), NEW noHeader \in BOOLEAN,
         NEW s2, s2 = s \o List!PrintTable(t, noHeader),
         \A i \in DOMAIN s : s[i] = List!Mark("header") => i = 1,
         ~noHeader => s = <<>>
  PROVE  /\ \A i \in DOMAIN s2 : s2[i] = List!Mark("header") => i = 1
         /\ ~noHeader => s2 # <<>> /\ s2[1] = List!Mark("header")
         /\ s # <<>> => s2 # <<>> /\ s2[1] = s[1]
<1> DEFINE header == List!Mark("header")
<1> DEFINE r == TableOf(t)
<1>1. r \in Seq(Token) /\ \A i \in 1..Len(r) : r[i] # header
  <2>1. r \in Seq(RowSet)
    BY TableSteps
  <2>2. RowSet \subseteq Token /\ header \notin RowSet
    BY RowsAndMarks DEF Token
  <2> HIDE DEF header, r
  <2> QED
    BY <2>1, <2>2
<1>2. noHeader => s2 = s \o r
  BY TablePrinted
<1>3. ~noHeader => s2 = (s \o <<header>>) \o r
  BY TablePrinted
<1>4. header \in Token
  BY RowsAndMarks
<1> HIDE DEF header, r
<1>5. CASE noHeader
  <2>1. /\ \A i \in 1..Len(s) : s2[i] = s[i] /\ i \in DOMAIN s2
        /\ \A i \in DOMAIN s2 :
             i \in 1..Len(s) \/ \E j \in 1..Len(r) : i = Len(s) + j /\ s2[i] = r[j]
    <3>1. s2 = s \o r
      BY <1>2, <1>5
    <3>2. /\ \A i \in 1..Len(s) : (s \o r)[i] = s[i] /\ i \in DOMAIN (s \o r)
          /\ \A i \in DOMAIN (s \o r) :
               i \in 1..Len(s) \/ \E j \in 1..Len(r) : i = Len(s) + j /\ (s \o r)[i] = r[j]
      BY <1>1, TwoParts, Zenon
    <3> QED
      BY <3>1, <3>2, Zenon
  <2>2. \A i \in DOMAIN s2 : s2[i] = header => i = 1
    BY <1>1, <2>1 DEF header
  <2>3. s # <<>> => s2 # <<>> /\ s2[1] = s[1]
    <3>1. s # <<>> => 1 \in 1..Len(s)
      OBVIOUS
    <3>2. DOMAIN <<>> = {}
      OBVIOUS
    <3> QED
      BY <2>1, <3>1, <3>2
  <2> QED
    BY <1>5, <2>2, <2>3 DEF header
<1>6. CASE ~noHeader
  <2> DEFINE h == <<header>>
  <2>1. s2 = h \o r /\ h \in Seq(Token) /\ Len(h) = 1 /\ h[1] = header
    <3>1. s = <<>> /\ <<>> \o <<header>> = <<header>>
      BY <1>6
    <3> QED
      BY <1>3, <1>4, <1>6, <3>1
  <2> HIDE DEF h
  <2>2. /\ \A i \in 1..1 : s2[i] = h[i] /\ i \in DOMAIN s2
        /\ \A i \in DOMAIN s2 : i \in 1..1 \/ \E j \in 1..Len(r) : i = 1 + j /\ s2[i] = r[j]
    <3>1. /\ \A i \in 1..Len(h) : (h \o r)[i] = h[i] /\ i \in DOMAIN (h \o r)
          /\ \A i \in DOMAIN (h \o r) :
               i \in 1..Len(h) \/ \E j \in 1..Len(r) : i = Len(h) + j /\ (h \o r)[i] = r[j]
      BY <1>1, <2>1, TwoParts, Zenon
    <3> QED
      BY <2>1, <3>1, Zenon
  <2>3. s2[1] = header /\ 1 \in DOMAIN s2
    BY <2>1, <2>2
  <2>4. \A i \in DOMAIN s2 : s2[i] = header => i = 1
    BY <1>1, <2>2
  <2>5. DOMAIN <<>> = {}
    OBVIOUS
  <2>6. s = <<>>
    BY <1>6
  <2> QED
    BY <1>6, <2>3, <2>4, <2>5, <2>6 DEF header
<1> QED
  BY <1>5, <1>6

\* The same of any output and any table.
LEMMA TablesPrinted ==
  \A s \in Seq(Token) : \A t \in Seq(List!Rows) : \A noHeader \in BOOLEAN :
    LET s2 == s \o List!PrintTable(t, noHeader) IN
    /\ s2 \in Seq(Token) /\ RowsIn(s2) = RowsIn(s) \o TableOf(t) /\ RowsIn(s2) \o <<>> = RowsIn(s2)
    /\ (\A i \in DOMAIN s : s[i] = List!Mark("header") => i = 1) /\ (~noHeader => s = <<>>) =>
         /\ \A i \in DOMAIN s2 : s2[i] = List!Mark("header") => i = 1
         /\ ~noHeader => s2 # <<>> /\ s2[1] = List!Mark("header")
         /\ s # <<>> => s2 # <<>> /\ s2[1] = s[1]
<1> TAKE s \in Seq(Token)
<1> TAKE t \in Seq(List!Rows)
<1> TAKE noHeader \in BOOLEAN
<1> DEFINE s2 == s \o List!PrintTable(t, noHeader)
<1>0. s2 = s \o List!PrintTable(t, noHeader)
  OBVIOUS
<1> HIDE DEF s2
<1>1. s2 \in Seq(Token) /\ RowsIn(s2) = RowsIn(s) \o TableOf(t)
  BY <1>0, TablePrinted
<1>2. RowsIn(s2) \o <<>> = RowsIn(s2)
  <2>1. RowsIn(s2) \in Seq(RowSet)
    BY <1>1, PrintedMore, Zenon
  <2> QED
    BY <2>1
<1>3. ASSUME \A i \in DOMAIN s : s[i] = List!Mark("header") => i = 1, ~noHeader => s = <<>>
      PROVE  /\ \A i \in DOMAIN s2 : s2[i] = List!Mark("header") => i = 1
             /\ ~noHeader => s2 # <<>> /\ s2[1] = List!Mark("header")
             /\ s # <<>> => s2 # <<>> /\ s2[1] = s[1]
  BY <1>0, <1>3, HeaderStays
<1>4. /\ s2 \in Seq(Token) /\ RowsIn(s2) = RowsIn(s) \o TableOf(t) /\ RowsIn(s2) \o <<>> = RowsIn(s2)
      /\ (\A i \in DOMAIN s : s[i] = List!Mark("header") => i = 1) /\ (~noHeader => s = <<>>) =>
           /\ \A i \in DOMAIN s2 : s2[i] = List!Mark("header") => i = 1
           /\ ~noHeader => s2 # <<>> /\ s2[1] = List!Mark("header")
           /\ s # <<>> => s2 # <<>> /\ s2[1] = s[1]
  BY <1>1, <1>2, <1>3, Zenon
<1> QED
  BY <1>4, Zenon DEF s2


\* A row of a document.
LEMMA JSONRow ==
  ASSUME ListInv, at = "page", ~List!Text, NEW r \in List!Rows,
         out' = out \o List!PrintJSON(r)
  PROVE  /\ out' \in Seq(Token) /\ RowsIn(out') = Append(RowsIn(out), List!Row(r))
         /\ list.form = "json" =>
              out' = <<List!Mark("[")>> \o Joined(Append(RowsIn(out), List!Row(r)))
         /\ \A i \in DOMAIN out' : out'[i] # List!Mark("header")
<1> DEFINE bracket == List!Mark("[")
<1> DEFINE comma == List!Mark(",")
<1> DEFINE row == List!Row(r)
<1> DEFINE p == RowsIn(out)
<1>1. /\ out \in Seq(Token) /\ p \in Seq(RowSet) /\ row \in RowSet /\ row \in Token
      /\ bracket \in Token /\ comma \in Token /\ bracket \notin RowSet
  BY PrintedMore, RowsAndMarks DEF ListInv, ListType
<1>2. \A i \in DOMAIN out : out[i] # List!Mark("header")
  BY DEF ListInv, HeaderInv
<1>3. List!PrintJSON(r) = IF list.form = "json" /\ List!Last(out) # bracket THEN <<comma, row>>
                          ELSE <<row>>
  BY DEF List!PrintJSON
<1>4. List!Last(out) = out[Len(out)]
  BY DEF List!Last
<1>5. RowsIn(out \o <<comma>>) = p /\ out \o <<comma>> \in Seq(Token)
  BY <1>1, PrintedMore
<1>6. \A s \in Seq(Token) : s \o <<row>> = Append(s, row) /\ Append(s, row) \in Seq(Token)
  BY <1>1, AppendIsConcat, AppendProperties, Zenon
<1>7. \A s \in Seq(Token) : RowsIn(Append(s, row)) = Append(RowsIn(s), row)
  BY <1>1, PrintedMore
<1>8. out \o <<comma, row>> = Append(out \o <<comma>>, row)
  <2> HIDE DEF comma, row
  <2> QED
    BY <1>1
<1>9. list.form = "json" => out = <<bracket>> \o Joined(p)
  <2>1. list.form = "json" => out = (<<bracket>> \o Joined(p)) \o <<>>
    BY DEF ListInv, DocumentInv
  <2>2. <<bracket>> \in Seq(Token) /\ Joined(p) \in Seq(Token)
    <3> HIDE DEF bracket, p
    <3>1. Joined(p) \in Seq(Token)
      BY <1>1, JoinedSteps
    <3>2. bracket \in Token
      BY <1>1
    <3>3. <<bracket>> \in Seq(Token)
      BY <3>2
    <3> QED
      BY <3>1, <3>3
  <2>3. <<bracket>> \o Joined(p) \in Seq(Token)
    BY <2>2
  <2>4. (<<bracket>> \o Joined(p)) \o <<>> = <<bracket>> \o Joined(p)
    BY <2>3
  <2> QED
    BY <2>1, <2>4
<1> HIDE DEF bracket, comma, row, p
<1>10. out' \in Seq(Token) /\ RowsIn(out') = Append(p, row)
       /\ \A i \in DOMAIN out' : out'[i] # List!Mark("header")
  <2>0. comma # List!Mark("header") /\ row # List!Mark("header")
    BY RowsAndMarks DEF comma, row
  <2>1. CASE out' = out \o <<comma, row>>
    <3>1. out' = Append(out \o <<comma>>, row)
      BY <1>8, <2>1
    <3>2. RowsIn(out') = Append(p, row) /\ out' \in Seq(Token)
      BY <1>5, <1>6, <1>7, <3>1
    <3>3. \A i \in DOMAIN out' : out'[i] # List!Mark("header")
      BY <1>1, <1>2, <2>0, <2>1
    <3> QED
      BY <3>2, <3>3
  <2>2. CASE out' = out \o <<row>>
    <3>1. out' = Append(out, row)
      BY <1>1, <1>6, <2>2
    <3>2. RowsIn(out') = Append(p, row) /\ out' \in Seq(Token)
      BY <1>1, <1>6, <1>7, <3>1 DEF p
    <3>3. \A i \in DOMAIN out' : out'[i] # List!Mark("header")
      BY <1>1, <1>2, <2>0, <3>1
    <3> QED
      BY <3>2, <3>3
  <2> QED
    BY <1>3, <2>1, <2>2
<1>11. list.form = "json" => out' = <<bracket>> \o Joined(Append(p, row))
  <2> SUFFICES ASSUME list.form = "json" PROVE out' = <<bracket>> \o Joined(Append(p, row))
    OBVIOUS
  <2> DEFINE b == <<bracket>>
  <2>1. b \in Seq(Token) /\ Len(b) = 1 /\ b[1] = bracket
    BY <1>1
  <2> HIDE DEF b
  <2>2. out = b \o Joined(p)
    BY <1>9 DEF b
  <2>3. CASE p = <<>>
    <3>1. Joined(p) = <<>> /\ Joined(Append(p, row)) = <<>> \o <<row>>
      BY <1>1, <2>3, JoinedSteps
    <3>2. <<>> \o <<row>> = <<row>> /\ b \o <<>> = b
      BY <2>1
    <3>3. out = b
      BY <2>2, <3>1, <3>2
    <3>4. List!Last(out) = bracket
      BY <1>4, <2>1, <3>3
    <3> QED
      BY <1>3, <3>1, <3>2, <3>3, <3>4 DEF b
  <2>4. CASE p # <<>>
    <3> DEFINE j == Joined(p)
    <3> DEFINE end == <<comma, row>>
    <3>1. j \in Seq(Token) /\ j # <<>> /\ j[Len(j)] \in RowSet /\ Joined(Append(p, row)) = j \o end
      BY <1>1, <2>4, JoinedSteps DEF comma
    <3>2. end \in Seq(Token)
      BY <1>1
    <3> HIDE DEF j, end
    <3>3. Len(j) \in Nat \ {0}
      BY <3>1
    <3>4. Len(b \o j) = 1 + Len(j) /\ (b \o j)[1 + Len(j)] = j[Len(j)]
      <4> DEFINE u == b \o j
      <4> DEFINE m == Len(j)
      <4>1. m \in Nat \ {0} /\ 1 + m \in 1..(1 + m) /\ ~(1 + m <= 1) /\ (1 + m) - 1 = m
        BY <3>3
      <4>2. /\ Len(u) = Len(b) + Len(j)
            /\ \A i \in 1..(Len(b) + Len(j)) :
                 u[i] = IF i <= Len(b) THEN b[i] ELSE j[i - Len(b)]
        BY <2>1, <3>1, ConcatProperties, Zenon
      <4> HIDE DEF u
      <4>3. Len(u) = 1 + m /\ u[1 + m] = j[m]
        BY <2>1, <4>1, <4>2
      <4> QED
        BY <4>3 DEF u
    <3>5. List!Last(out) # bracket
      BY <1>1, <1>4, <2>2, <3>1, <3>4 DEF j
    <3>6. out' = (b \o j) \o end
      BY <1>3, <2>2, <3>5 DEF j, end
    <3>7. (b \o j) \o end = b \o (j \o end)
      BY <2>1, <3>1, <3>2, ConcatAssociative
    <3> QED
      BY <3>1, <3>6, <3>7 DEF b
  <2> QED
    BY <2>3, <2>4
<1> QED
  BY <1>10, <1>11 DEF bracket, p, row

\* A row is printed or put into the table, after all rows handled before it.
LEMMA TakeRowStep ==
  ASSUME List!ConstantsTyped, ListInv, List!TakeRow
  PROVE  ListInv'
<1>1. PICK k \in 0..sent : Handled(k)
  BY DEF ListInv
<1> DEFINE r == k + 1
<1> DEFINE full == List!Grows /\ Len(Append(table, r)) = TableRows
<1>2. /\ at = "page" /\ page # <<>> /\ ~List!LimitReached /\ Head(page) \notin list.blank
      /\ page' = Tail(page) /\ taken' = taken + 1
      /\ UNCHANGED <<list, at, sent, more, pages, status>>
  BY DEF List!TakeRow
<1>3. /\ Head(page) = r /\ r \in 0..sent /\ r \in List!Rows
      /\ k \in 0..(RowCount - 1) /\ k \in 0..RowCount
      /\ Tail(page) = [i \in 1..(sent - r) |-> r + i]
      /\ Tail(page) \in Seq(List!Rows)
  BY <1>1, <1>2, NextRow
<1>4. WantedOf(list.blank, r) = Append(WantedOf(list.blank, k), List!Row(r))
      /\ WantedOf(list.blank, k) \in Seq(RowSet)
  <2>1. RowCount \in Nat
    BY ListConstants DEF ListInv, ListType
  <2>2. /\ \A m \in 0..RowCount : WantedOf(list.blank, m) \in Seq(RowSet)
        /\ \A m \in 0..(RowCount - 1) :
            WantedOf(list.blank, m + 1) = IF m + 1 \in list.blank THEN WantedOf(list.blank, m)
                                          ELSE Append(WantedOf(list.blank, m), List!Row(m + 1))
    BY <2>1, WantedStep, Zenon
  <2> QED
    BY <1>2, <1>3, <2>2
<1>5. taken' = Len(WantedOf(list.blank, r)) /\ taken' \in Nat
      /\ (list.limit > 0 => taken' <= list.limit)
  <2>1. taken \in Nat /\ taken = Len(WantedOf(list.blank, k)) /\ list.limit \in Nat
    BY <1>1, ListConstants DEF ListInv, ListType, Handled
  <2>2. Len(WantedOf(list.blank, r)) = Len(WantedOf(list.blank, k)) + 1
    BY <1>4
  <2> QED
    BY <1>2, <2>1, <2>2 DEF List!LimitReached
<1>6. /\ List!Text => /\ table' = (IF full THEN <<>> ELSE Append(table, r))
                      /\ headed' = (headed \/ full)
                      /\ out' = (IF full THEN out \o List!PrintTable(Append(table, r), headed) ELSE out)
      /\ ~List!Text => out' = out \o List!PrintJSON(r) /\ UNCHANGED <<table, headed>>
  BY <1>3 DEF List!TakeRow
<1>7. /\ out \in Seq(Token) /\ table \in Seq(List!Rows) /\ headed \in BOOLEAN
      /\ RowsIn(out) \in Seq(RowSet) /\ List!Row(r) \in RowSet
  BY <1>3, PrintedMore, RowsAndMarks DEF ListInv, ListType
<1>8. Append(table, r) \in Seq(List!Rows) /\ TableOf(table) \in Seq(RowSet)
      /\ TableOf(Append(table, r)) = Append(TableOf(table), List!Row(r))
  BY <1>3, <1>7, TableSteps
<1>9. RowsIn(out) \o Append(TableOf(table), List!Row(r)) = WantedOf(list.blank, r)
  <2>1. RowsIn(out) \o TableOf(table) = WantedOf(list.blank, k)
    BY <1>1 DEF Handled
  <2>2. Append(RowsIn(out) \o TableOf(table), List!Row(r)) =
          RowsIn(out) \o Append(TableOf(table), List!Row(r))
    <3> DEFINE u == RowsIn(out)
    <3> DEFINE v == TableOf(table)
    <3> DEFINE x == List!Row(r)
    <3>1. u \in Seq(RowSet) /\ v \in Seq(RowSet) /\ x \in RowSet
      BY <1>7, <1>8
    <3> HIDE DEF u, v, x
    <3>2. Append(u \o v, x) = u \o Append(v, x)
      BY <3>1
    <3> QED
      BY <3>2 DEF u, v, x
  <2> QED
    BY <1>4, <2>1, <2>2, Zenon
<1> HIDE DEF r, full
<1>10. /\ out' \in Seq(Token) /\ table' \in Seq(List!Rows) /\ headed' \in BOOLEAN
       /\ RowsIn(out') \o TableOf(table') = WantedOf(list.blank, r)
       /\ ~List!Text => table' = <<>>
       /\ HeaderInv' /\ DocumentInv'
  <2>1. CASE List!Text /\ full
    <3>1. out' = out \o List!PrintTable(Append(table, r), headed) /\ table' = <<>> /\ headed' = TRUE
      BY <1>6, <2>1
    <3>2. out' \in Seq(Token) /\ RowsIn(out') = RowsIn(out) \o TableOf(Append(table, r))
      BY <1>7, <1>8, <3>1, TablesPrinted
    <3>3. TableOf(table') = <<>> /\ table' \in Seq(List!Rows)
      BY <3>1, TableSteps
    <3>4. RowsIn(out') \o <<>> = RowsIn(out')
      BY <1>7, <1>8, <3>1, TablesPrinted
    <3>5. List!Grows
      BY <2>1 DEF full
    <3>6. /\ \A i \in DOMAIN out' : out'[i] = List!Mark("header") => List!Text /\ i = 1
          /\ ~headed => out' # <<>> /\ out'[1] = List!Mark("header")
          /\ out # <<>> => out' # <<>> /\ out'[1] = out[1]
      <4>1. /\ ~headed => out = <<>>
            /\ \A i \in DOMAIN out : out[i] = List!Mark("header") => List!Text /\ i = 1
        BY <2>1, <3>5 DEF ListInv, HeaderInv
      <4>2. \A i \in DOMAIN out : out[i] = List!Mark("header") => i = 1
        BY <4>1
      <4>3. /\ \A i \in DOMAIN out' : out'[i] = List!Mark("header") => i = 1
            /\ ~headed => out' # <<>> /\ out'[1] = List!Mark("header")
            /\ out # <<>> => out' # <<>> /\ out'[1] = out[1]
        <5>1. (\A i \in DOMAIN out : out[i] = List!Mark("header") => i = 1)
                /\ (~headed => out = <<>>) =>
                /\ \A i \in DOMAIN out' : out'[i] = List!Mark("header") => i = 1
                /\ ~headed => out' # <<>> /\ out'[1] = List!Mark("header")
                /\ out # <<>> => out' # <<>> /\ out'[1] = out[1]
          BY <1>7, <1>8, <3>1, TablesPrinted
        <5> QED
          BY <4>1, <4>2, <5>1
      <4> QED
        BY <2>1, <4>3
    <3>7. HeaderInv'
      <4>1. /\ headed <=> out # <<>>
            /\ out # <<>> => out[1] = List!Mark("header")
        BY <2>1, <3>5 DEF ListInv, HeaderInv
      <4>2. out' # <<>> /\ out'[1] = List!Mark("header")
        BY <3>6, <4>1
      <4> QED
        BY <1>2, <2>1, <3>1, <3>5, <3>6, <4>2 DEF ListInv, HeaderInv, List!Text, List!Grows
    <3>8. DocumentInv'
      BY <1>2, <2>1 DEF DocumentInv, List!Text
    <3> QED
      BY <1>8, <1>9, <2>1, <3>1, <3>2, <3>3, <3>4, <3>7, <3>8
  <2>2. CASE List!Text /\ ~full
    <3>1. out' = out /\ table' = Append(table, r) /\ headed' = headed
      BY <1>6, <1>7, <2>2
    <3>2. HeaderInv'
      BY <1>2, <3>1 DEF ListInv, HeaderInv, List!Text, List!Grows
    <3>3. DocumentInv'
      BY <1>2, <2>2 DEF DocumentInv, List!Text
    <3> QED
      BY <1>7, <1>8, <1>9, <2>2, <3>1, <3>2, <3>3
  <2>3. CASE ~List!Text
    <3>1. out' = out \o List!PrintJSON(r) /\ table' = table /\ headed' = headed
      BY <1>6, <2>3
    <3>2. r \in List!Rows
      BY <1>3 DEF r
    <3>3. /\ out' \in Seq(Token) /\ RowsIn(out') = Append(RowsIn(out), List!Row(r))
          /\ list.form = "json" =>
               out' = <<List!Mark("[")>> \o Joined(Append(RowsIn(out), List!Row(r)))
          /\ \A i \in DOMAIN out' : out'[i] # List!Mark("header")
      BY <1>2, <2>3, <3>1, <3>2, JSONRow
    <3>4. table = <<>>
      BY <2>3 DEF ListInv, TableInv
    <3>5. TableOf(table) = <<>>
      BY <3>4, TableSteps
    <3>6. RowsIn(out) \o Append(<<>>, List!Row(r)) = Append(RowsIn(out), List!Row(r))
          /\ Append(RowsIn(out), List!Row(r)) \o <<>> = Append(RowsIn(out), List!Row(r))
      <4> DEFINE x == List!Row(r)
      <4> DEFINE p == RowsIn(out)
      <4>1. x \in RowSet /\ p \in Seq(RowSet)
        BY <1>7
      <4> HIDE DEF x, p
      <4>2. p \o Append(<<>>, x) = Append(p, x) /\ Append(p, x) \o <<>> = Append(p, x)
        BY <4>1
      <4> QED
        BY <4>2 DEF x, p
    <3>7. RowsIn(out') \o TableOf(table') = WantedOf(list.blank, r)
      BY <1>9, <3>1, <3>3, <3>5, <3>6
    <3>8. HeaderInv'
      BY <1>2, <2>3, <3>3 DEF ListInv, HeaderInv, List!Text, List!Grows
    <3>9. DocumentInv'
      <4>1. list.form = "json" => out' = <<List!Mark("[")>> \o Joined(RowsIn(out'))
        BY <3>3
      <4> DEFINE d == <<List!Mark("[")>> \o Joined(RowsIn(out'))
      <4>2. list.form = "json" => d \o <<>> = d
        <5>1. list.form = "json" => d \in Seq(Token)
          BY <3>3, <4>1
        <5> HIDE DEF d
        <5> QED
          BY <5>1
      <4> QED
        BY <1>2, <4>1, <4>2 DEF DocumentInv
    <3> QED
      BY <1>7, <3>1, <3>3, <3>4, <3>7, <3>8, <3>9
  <2> QED
    BY <2>1, <2>2, <2>3
<1>11. ListType'
  BY <1>2, <1>3, <1>5, <1>10 DEF ListInv, ListType
<1>12. TableInv'
  BY <1>2, <1>10 DEF TableInv, List!Text, List!Grows
<1>13. r \in 0..sent /\ Tail(page) = [i \in 1..(sent - r) |-> r + i]
  BY <1>3 DEF r
<1>14. Handled(r)'
  BY <1>2, <1>5, <1>10, <1>13 DEF Handled
<1> QED
  BY <1>2, <1>10, <1>11, <1>12, <1>13, <1>14 DEF ListInv


\* The table of a page is printed before the next page, or kept until it is
\* full.
LEMMA EndPageStep ==
  ASSUME List!ConstantsTyped, ListInv, List!EndPage
  PROVE  ListInv'
<1>1. PICK k \in 0..sent : Handled(k)
  BY DEF ListInv
<1> DEFINE noHeader == pages > 1 \/ list.kind \in {"all", "endpoint"}
<1> DEFINE stays == List!Grows \/ ~List!Text \/ table = <<>>
<1>2. /\ at = "page" /\ (page = <<>> \/ List!LimitReached) /\ page' = <<>>
      /\ at' = (IF List!Stops THEN "rest" ELSE "fetch")
      /\ UNCHANGED <<list, sent, more, pages, taken, status>>
      /\ stays => UNCHANGED <<table, headed, out>>
      /\ ~stays => /\ out' = out \o List!PrintTable(table, noHeader)
                   /\ headed' = (headed \/ ~noHeader)
                   /\ table' = <<>>
  BY DEF List!EndPage
<1>3. /\ out \in Seq(Token) /\ table \in Seq(List!Rows) /\ headed \in BOOLEAN /\ pages \in 0..2
      /\ sent \in 0..RowCount /\ RowCount \in Nat
  BY ListConstants DEF ListInv, ListType
<1>4. noHeader \in BOOLEAN
  OBVIOUS
<1>5. page = <<>> => k = sent
  <2>1. page = [i \in 1..(sent - k) |-> k + i] /\ k \in Nat /\ sent \in Nat /\ k <= sent
    BY <1>1, <1>2, <1>3 DEF Handled
  <2>2. k # sent => 1 \in 1..(sent - k)
    BY <2>1
  <2>3. k # sent => 1 \in DOMAIN page
    BY <2>1, <2>2
  <2>4. DOMAIN <<>> = {}
    OBVIOUS
  <2> QED
    BY <2>3, <2>4
<1> HIDE DEF noHeader, stays
<1>6. /\ out' \in Seq(Token) /\ table' \in Seq(List!Rows) /\ headed' \in BOOLEAN
      /\ RowsIn(out') \o TableOf(table') = RowsIn(out) \o TableOf(table)
      /\ ~List!Grows => table' = <<>>
      /\ ~List!Text => table' = <<>>
      /\ HeaderInv' /\ DocumentInv'
  <2>1. CASE stays
    <3>1. table' = table /\ headed' = headed /\ out' = out
      BY <1>2, <2>1
    <3>2. HeaderInv'
      BY <1>2, <3>1 DEF ListInv, HeaderInv, List!Text, List!Grows
    <3>3. DocumentInv'
      BY <1>2, <3>1 DEF ListInv, DocumentInv
    <3>4. (~List!Grows => table' = <<>>) /\ (~List!Text => table' = <<>>)
      BY <2>1, <3>1 DEF ListInv, TableInv, stays
    <3> QED
      BY <1>3, <3>1, <3>2, <3>3, <3>4
  <2>2. CASE ~stays
    <3>1. out' = out \o List!PrintTable(table, noHeader) /\ headed' = (headed \/ ~noHeader)
          /\ table' = <<>>
      BY <1>2, <2>2
    <3>2. List!Text /\ ~List!Grows
      BY <2>2 DEF stays
    <3>3. out' \in Seq(Token) /\ RowsIn(out') = RowsIn(out) \o TableOf(table)
          /\ RowsIn(out') \o <<>> = RowsIn(out')
      BY <1>3, <1>4, <3>1, TablesPrinted
    <3>4. TableOf(<<>>) = <<>> /\ <<>> \in Seq(List!Rows)
      BY TableSteps
    <3>5. /\ ~noHeader => out = <<>>
          /\ \A i \in DOMAIN out : out[i] = List!Mark("header") => i = 1
      <4>1. ~noHeader => pages = 0 \/ pages = 1
        BY <1>3 DEF noHeader
      <4> QED
        BY <1>2, <3>2, <4>1 DEF ListInv, HeaderInv
    <3>6. \A i \in DOMAIN out' : out'[i] = List!Mark("header") => i = 1
      <4>1. (\A i \in DOMAIN out : out[i] = List!Mark("header") => i = 1)
              /\ (~noHeader => out = <<>>) =>
              \A i \in DOMAIN out' : out'[i] = List!Mark("header") => i = 1
        BY <1>3, <1>4, <3>1, TablesPrinted
      <4> QED
        BY <3>5, <4>1
    <3>7. HeaderInv'
      <4>1. pages' # 0 /\ at' # "page" /\ at' # "start" /\ List!Text' /\ ~List!Grows'
        BY <1>2, <3>2 DEF ListInv, HeaderInv, List!Text, List!Grows
      <4> QED
        BY <3>6, <4>1 DEF HeaderInv
    <3>8. DocumentInv'
      BY <1>2, <3>2 DEF DocumentInv, List!Text
    <3> QED
      BY <1>3, <3>1, <3>2, <3>3, <3>4, <3>7, <3>8
  <2> QED
    BY <2>1, <2>2
<1>7. ListType'
  <2>1. <<>> \in Seq(List!Rows)
    OBVIOUS
  <2> QED
    BY <1>2, <1>6, <2>1 DEF ListInv, ListType
<1>8. TableInv'
  BY <1>2, <1>6 DEF TableInv, List!Text, List!Grows
<1>9. Handled(k)'
  <2>1. at' = "fetch" => k = sent
    <3>1. at' = "fetch" => ~List!LimitReached
      BY <1>2 DEF List!Stops
    <3> QED
      BY <1>2, <1>5, <3>1
  <2>2. at' = "rest" => List!CutShort \/ List!LimitReached \/ k = RowCount
    <3>1. at' = "rest" => ~more \/ List!LimitReached \/ (list.kind = "endpoint" /\ List!Text)
      BY <1>2 DEF List!Stops
    <3>2. ~more => sent = RowCount
      BY DEF ListInv, ListType
    <3> QED
      BY <1>2, <1>5, <3>1, <3>2 DEF List!CutShort
  <2>3. (List!CutShort' <=> List!CutShort) /\ (List!LimitReached' <=> List!LimitReached)
    BY <1>2 DEF List!CutShort, List!LimitReached, List!Text
  <2>4. RowsIn(out') \o TableOf(table') = WantedOf(list.blank, k)
        /\ taken = Len(WantedOf(list.blank, k))
    BY <1>1, <1>6 DEF Handled
  <2> QED
    BY <1>2, <2>1, <2>2, <2>3, <2>4 DEF Handled
<1> QED
  BY <1>2, <1>6, <1>7, <1>8, <1>9 DEF ListInv

\* The rows left in the table are printed when there are no more pages.
LEMMA PrintRestStep ==
  ASSUME List!ConstantsTyped, ListInv, List!PrintRest
  PROVE  ListInv'
<1>1. PICK k \in 0..sent : Handled(k)
  BY DEF ListInv
<1>2. /\ at = "rest" /\ at' = "close" /\ status' = "ok"
      /\ UNCHANGED <<list, sent, more, pages, page, taken>>
      /\ List!Grows /\ List!Text =>
           out' = out \o List!PrintTable(table, headed) /\ headed' = TRUE /\ table' = <<>>
      /\ ~(List!Grows /\ List!Text) => UNCHANGED <<out, headed, table>>
  BY DEF List!PrintRest
<1>3. out \in Seq(Token) /\ table \in Seq(List!Rows) /\ headed \in BOOLEAN
  BY DEF ListInv, ListType
<1>4. TableOf(<<>>) = <<>> /\ <<>> \in Seq(List!Rows)
  BY TableSteps
<1>5. /\ out' \in Seq(Token) /\ table' = <<>> /\ headed' \in BOOLEAN
      /\ RowsIn(out') \o TableOf(table') = RowsIn(out) \o TableOf(table)
      /\ HeaderInv' /\ DocumentInv'
  <2>1. CASE List!Grows /\ List!Text
    <3>1. out' = out \o List!PrintTable(table, headed) /\ headed' = TRUE /\ table' = <<>>
      BY <1>2, <2>1
    <3>2. out' \in Seq(Token) /\ RowsIn(out') = RowsIn(out) \o TableOf(table)
          /\ RowsIn(out') \o <<>> = RowsIn(out')
      BY <1>3, <3>1, TablesPrinted
    <3>3. /\ headed <=> out # <<>>
          /\ out # <<>> => out[1] = List!Mark("header")
          /\ \A i \in DOMAIN out : out[i] = List!Mark("header") => i = 1
      BY <2>1 DEF ListInv, HeaderInv
    <3>4. (\A i \in DOMAIN out : out[i] = List!Mark("header") => i = 1)
            /\ (~headed => out = <<>>) =>
            /\ \A i \in DOMAIN out' : out'[i] = List!Mark("header") => i = 1
            /\ ~headed => out' # <<>> /\ out'[1] = List!Mark("header")
            /\ out # <<>> => out' # <<>> /\ out'[1] = out[1]
      BY <1>3, <3>1, TablesPrinted
    <3>5. /\ \A i \in DOMAIN out' : out'[i] = List!Mark("header") => i = 1
          /\ out' # <<>> /\ out'[1] = List!Mark("header")
      BY <3>3, <3>4
    <3>6. at' # "page" /\ at' # "start" /\ List!Text' /\ List!Grows'
      BY <1>2, <2>1 DEF List!Text, List!Grows
    <3>7. HeaderInv'
      BY <3>1, <3>5, <3>6 DEF HeaderInv
    <3>8. DocumentInv'
      BY <1>2, <2>1 DEF DocumentInv, List!Text
    <3> QED
      BY <1>4, <3>1, <3>2, <3>7, <3>8
  <2>2. CASE ~(List!Grows /\ List!Text)
    <3>1. out' = out /\ headed' = headed /\ table' = table
      BY <1>2, <2>2
    <3>2. table = <<>>
      BY <1>2, <2>2 DEF ListInv, TableInv
    <3>3. HeaderInv'
      BY <1>2, <3>1 DEF ListInv, HeaderInv, List!Text, List!Grows
    <3>4. DocumentInv'
      BY <1>2, <3>1 DEF ListInv, DocumentInv
    <3> QED
      BY <1>3, <3>1, <3>2, <3>3, <3>4
  <2> QED
    BY <2>1, <2>2
<1>6. ListType'
  BY <1>2, <1>4, <1>5 DEF ListInv, ListType
<1>7. TableInv'
  BY <1>5 DEF TableInv
<1>8. Handled(k)'
  <2>1. (List!CutShort' <=> List!CutShort) /\ (List!LimitReached' <=> List!LimitReached)
    BY <1>2 DEF List!CutShort, List!LimitReached, List!Text
  <2> QED
    BY <1>1, <1>2, <1>5, <2>1 DEF Handled
<1> QED
  BY <1>2, <1>5, <1>6, <1>7, <1>8 DEF ListInv

\* The list is closed, however the command ends.
LEMMA CloseStep ==
  ASSUME List!ConstantsTyped, ListInv, List!Close
  PROVE  ListInv'
<1>1. PICK k \in 0..sent : Handled(k)
  BY DEF ListInv
<1>2. /\ at = "close" /\ at' = "ended" /\ out' = out \o List!EndList
      /\ UNCHANGED <<list, sent, more, pages, page, table, headed, taken, status>>
  BY DEF List!Close
<1> DEFINE close == List!Mark("]")
<1>3. out \in Seq(Token) /\ close \in Token /\ close # List!Mark("header")
  BY RowsAndMarks DEF ListInv, ListType
<1>4. /\ out' \in Seq(Token) /\ RowsIn(out') = RowsIn(out)
      /\ list.form # "json" => out' = out
      /\ list.form = "json" => out' = out \o <<close>>
  <2>1. out \o <<>> = out
    BY <1>3
  <2>2. out \o <<close>> \in Seq(Token) /\ RowsIn(out \o <<close>>) = RowsIn(out)
    BY <1>3, PrintedMore
  <2> QED
    BY <1>2, <1>3, <2>1, <2>2 DEF List!EndList
<1> HIDE DEF close
<1>5. ListType'
  BY <1>2, <1>4 DEF ListInv, ListType
<1>6. TableInv'
  BY <1>2 DEF ListInv, TableInv, List!Text, List!Grows
<1>7. HeaderInv'
  <2>1. CASE list.form # "json"
    BY <1>2, <1>4, <2>1 DEF ListInv, HeaderInv, List!Text, List!Grows
  <2>2. CASE list.form = "json"
    <3>1. out' = Append(out, close)
      BY <1>3, <1>4, <2>2, AppendIsConcat, Zenon
    <3>2. ~List!Text /\ ~List!Text'
      BY <1>2, <2>2 DEF List!Text
    <3>3. \A i \in DOMAIN out : out[i] # List!Mark("header")
      BY <3>2 DEF ListInv, HeaderInv
    <3>4. \A i \in DOMAIN out' : out'[i] # List!Mark("header")
      BY <1>3, <3>1, <3>3
    <3> QED
      BY <1>2, <3>2, <3>4 DEF HeaderInv
  <2> QED
    BY <2>1, <2>2
<1>8. DocumentInv'
  <2> SUFFICES ASSUME list.form = "json"
               PROVE  out' = <<List!Mark("[")>> \o Joined(RowsIn(out')) \o <<close>>
    BY <1>2 DEF DocumentInv, close
  <2> DEFINE d == <<List!Mark("[")>> \o Joined(RowsIn(out))
  <2>1. out = d \o <<>>
    BY <1>2 DEF ListInv, DocumentInv
  <2>2. d \in Seq(Token)
    <3>1. Joined(RowsIn(out)) \in Seq(Token)
      BY <1>3, PrintedMore, JoinedSteps
    <3> DEFINE b == <<List!Mark("[")>>
    <3> DEFINE j == Joined(RowsIn(out))
    <3>2. List!Mark("[") \in Token
      BY RowsAndMarks
    <3>3. b \in Seq(Token) /\ j \in Seq(Token)
      BY <3>1, <3>2
    <3> HIDE DEF b, j
    <3>4. b \o j \in Seq(Token)
      BY <3>3
    <3> QED
      BY <3>4 DEF b, j
  <2> HIDE DEF d
  <2>3. d \o <<>> = d
    BY <2>2
  <2> QED
    BY <1>4, <2>1, <2>3 DEF d
<1>9. Handled(k)'
  <2>1. (List!CutShort' <=> List!CutShort) /\ (List!LimitReached' <=> List!LimitReached)
    BY <1>2 DEF List!CutShort, List!LimitReached, List!Text
  <2> QED
    BY <1>1, <1>2, <1>4, <2>1 DEF Handled
<1> QED
  BY <1>2, <1>5, <1>6, <1>7, <1>8, <1>9 DEF ListInv

\* Every step keeps the invariant of lists.
LEMMA ListStep ==
  ASSUME List!ConstantsTyped, ListInv, [List!Next]_List!listVars
  PROVE  ListInv'
<1>1. CASE UNCHANGED List!listVars
  <2>1. PICK k \in 0..sent : Handled(k)
    BY DEF ListInv
  <2>2. UNCHANGED <<list, at, sent, more, pages, page, table, headed, taken, out, status>>
    BY <1>1 DEF List!listVars
  <2>3. ListType'
    BY <2>2 DEF ListInv, ListType
  <2>4. TableInv' /\ HeaderInv' /\ DocumentInv'
    BY <2>2 DEF ListInv, TableInv, HeaderInv, DocumentInv, List!Text, List!Grows
  <2>5. Handled(k)'
    BY <2>1, <2>2 DEF Handled, List!LimitReached, List!CutShort, List!Text
  <2> QED
    BY <2>2, <2>3, <2>4, <2>5 DEF ListInv
<1> QED
  BY <1>1, BeginStep, FetchStep, FetchFailsStep, SkipRowStep, TakeRowStep, EndPageStep,
     PrintRestStep, CloseStep DEF List!Next

\* The type invariant of lists follows: no more rows are taken than there
\* are.
LEMMA ListTypeShown ==
  ASSUME List!ConstantsTyped, ListInv
  PROVE  List!TypeOK
<1>1. PICK k \in 0..sent : Handled(k)
  BY DEF ListInv
<1>2. RowCount \in Nat /\ sent \in 0..RowCount
  BY ListConstants DEF ListInv, ListType
<1>3. taken \in 0..RowCount
  <2>1. k \in 0..RowCount
    BY <1>2
  <2>2. \A m \in 0..RowCount : WantedOf(list.blank, m) \in Seq(RowSet)
                               /\ Len(WantedOf(list.blank, m)) <= m
    BY <1>2, WantedStep, Zenon
  <2>3. taken <= k /\ taken \in Nat
    BY <1>1, <2>1, <2>2 DEF Handled, ListInv, ListType
  <2> QED
    BY <1>2, <2>1, <2>3
<1>4. /\ List!ToSet(page) \cup List!ToSet(table) \subseteq List!Rows
      /\ List!ToSet(out) \subseteq Token
  BY DEF List!ToSet, ListInv, ListType
<1> QED
  BY <1>3, <1>4 DEF List!TypeOK, ListInv, ListType, Token, RowSet

\* What the invariant says, in the words of the property.
LEMMA ListShown ==
  ASSUME List!ConstantsTyped, ListInv
  PROVE  List!ReadableList
<1>1. PICK k \in 0..sent : Handled(k)
  BY DEF ListInv
<1>2. RowCount \in Nat /\ k \in 0..RowCount /\ RowCount \in 0..RowCount /\ k <= RowCount
      /\ list.limit \in Nat /\ taken \in Nat /\ out \in Seq(Token) /\ table \in Seq(List!Rows)
  BY ListConstants DEF ListInv, ListType
<1> DEFINE P == RowsIn(out)
<1> DEFINE t == TableOf(table)
<1> DEFINE W(m) == WantedOf(list.blank, m)
<1>3. List!Printed = P /\ List!Wanted = W(RowCount)
  <2>1. \A s, set : List!Filtered(s, set) = Filtered(s, set)
    BY DEF List!Filtered, Filtered
  <2> QED
    BY <2>1 DEF List!Printed, RowsIn, RowSet, List!Wanted, WantedOf, List!Rows
<1>4. P \in Seq(RowSet) /\ t \in Seq(RowSet) /\ W(k) = P \o t /\ taken = Len(W(k))
  BY <1>1, <1>2, PrintedMore, TableSteps DEF Handled
<1>5. /\ W(k) \in Seq(RowSet) /\ W(RowCount) \in Seq(RowSet)
      /\ Len(W(k)) <= Len(W(RowCount))
      /\ \A i \in 1..Len(W(k)) : W(RowCount)[i] = W(k)[i]
  <2>1. W(k) \in Seq(RowSet) /\ W(RowCount) \in Seq(RowSet)
    <3>1. \A m \in 0..RowCount : WantedOf(list.blank, m) \in Seq(RowSet)
      BY <1>2, WantedStep, Zenon
    <3> QED
      BY <1>2, <3>1
  <2>2. \A m \in 0..RowCount : k <= m =>
           /\ Len(WantedOf(list.blank, k)) <= Len(WantedOf(list.blank, m))
           /\ \A i \in 1..Len(WantedOf(list.blank, k)) :
                WantedOf(list.blank, m)[i] = WantedOf(list.blank, k)[i]
    BY <1>2, WantedPrefix
  <2> QED
    BY <1>2, <2>1, <2>2
<1> HIDE DEF P, t, W
<1>6. /\ Len(P) \in Nat /\ Len(W(k)) = Len(P) + Len(t) /\ Len(t) \in Nat
      /\ \A i \in 1..Len(P) : i \in 1..Len(W(k)) /\ W(k)[i] = P[i]
  BY <1>4
<1>7. List!IsPrefix(P, W(RowCount))
  <2>1. DOMAIN P = 1..Len(P)
    BY <1>4
  <2>2. Len(W(RowCount)) \in Nat
    BY <1>5
  <2> QED
    BY <1>5, <1>6, <2>1, <2>2 DEF List!IsPrefix
<1>8. list.limit > 0 => Len(P) <= list.limit
  <2>1. list.limit > 0 => taken <= list.limit
    BY DEF ListInv, ListType
  <2> QED
    BY <1>2, <1>4, <1>6, <2>1
<1>9. ASSUME at = "ended", status = "ok", ~List!CutShort
      PROVE  Len(P) = (IF list.limit > 0 /\ list.limit < Len(W(RowCount)) THEN list.limit
                       ELSE Len(W(RowCount)))
  <2>1. table = <<>>
    BY <1>9 DEF ListInv, TableInv
  <2>2. t = <<>>
    BY <2>1, TableSteps DEF t
  <2>3. Len(P) = Len(W(k))
    BY <1>6, <2>2
  <2>4. List!LimitReached \/ k = RowCount
    BY <1>1, <1>9 DEF Handled
  <2>5. Len(W(RowCount)) \in Nat
    BY <1>5
  <2>6. List!LimitReached => list.limit > 0 /\ taken = list.limit
    BY <1>2 DEF List!LimitReached, ListInv, ListType
  <2>7. CASE List!LimitReached
    BY <1>2, <1>4, <1>5, <2>3, <2>5, <2>6, <2>7
  <2>8. CASE k = RowCount
    <3>1. list.limit > 0 => Len(W(RowCount)) <= list.limit
      BY <1>4, <2>8 DEF ListInv, ListType
    <3> QED
      BY <1>2, <2>3, <2>5, <2>8, <3>1
  <2> QED
    BY <2>4, <2>7, <2>8
<1>10. List!AllRowsInOrder
  BY <1>3, <1>7, <1>8, <1>9 DEF List!AllRowsInOrder
<1>11. List!OneJSONList
  BY <1>3 DEF List!OneJSONList, ListInv, DocumentInv, Joined, P
<1>12. List!OneHeader
  <2>1. P # <<>> => out # <<>>
    BY FilteredEmpty DEF P, RowsIn
  <2> QED
    BY <1>3, <2>1 DEF List!OneHeader, ListInv, HeaderInv
<1> QED
  BY <1>10, <1>11, <1>12 DEF List!ReadableList

-----------------------------------------------------------------------------
(* Waiting for an outcome: what the command has been told is what the      *)
(* server knows, since what has closed stays so.                           *)

\* An error that is looked at is a deadline only if there was one.
PollInv ==
  /\ Poll!TypeOK /\ Poll!TellsWhatHappened
  /\ poll = "outcome" => answer \in Poll!Outcomes /\ answer = operation
  /\ poll \in {"failed", "decide"} => answer \in {"deadline", "error"}
  /\ poll = "failed" /\ answer = "deadline" => expired \/ cancelled
  /\ poll = "decide" /\ ~timedOut => answer = "error" /\ ~expired
  /\ poll = "decide" /\ timedOut => expired \/ cancelled

\* The invariant holds before the first request.
LEMMA PollInit == Poll!Init => PollInv
BY DEF Poll!Init, PollInv, Poll!TypeOK, Poll!TellsWhatHappened, Poll!Outcomes, Poll!Closed

\* Every step keeps the invariant.
LEMMA PollStep ==
  ASSUME PollInv, [Poll!Next]_Poll!pollVars
  PROVE  PollInv'
<1> USE DEF PollInv, Poll!TypeOK, Poll!TellsWhatHappened, Poll!Outcomes, Poll!Closed
<1>1. CASE Poll!Close
  BY <1>1 DEF Poll!Close
<1>2. CASE Poll!RequestExpires
  BY <1>2 DEF Poll!RequestExpires
<1>3. CASE Poll!Cancel
  BY <1>3 DEF Poll!Cancel
<1>4. CASE Poll!AnswerOutcome
  BY <1>4 DEF Poll!AnswerOutcome
<1>5. CASE Poll!AnswerEmpty
  BY <1>5 DEF Poll!AnswerEmpty
<1>6. CASE Poll!AnswerError
  BY <1>6 DEF Poll!AnswerError
<1>7. CASE Poll!Request
  BY <1>7 DEF Poll!Request
<1>8. CASE Poll!RequestFails
  BY <1>8 DEF Poll!RequestFails
<1>9. CASE Poll!ReadTimedOut
  BY <1>9 DEF Poll!ReadTimedOut
<1>10. CASE Poll!Decide
  BY <1>10 DEF Poll!Decide
<1>11. CASE Poll!Tell
  BY <1>11 DEF Poll!Tell
<1>12. CASE UNCHANGED Poll!pollVars
  BY <1>12 DEF Poll!pollVars
<1> QED
  BY <1>1, <1>2, <1>3, <1>4, <1>5, <1>6, <1>7, <1>8, <1>9, <1>10, <1>11, <1>12
  DEF Poll!Next, Poll!Loop

-----------------------------------------------------------------------------
(* The screen: under what was there stands the last frame, cut to what     *)
(* fits; and the writer knows how many lines it has to clear.              *)

ScreenRows == Nat \X Nat \X Nat

\* The model's operators, of a width that is named.
HeightAt(w, width) == IF width = 0 THEN 1 ELSE (width + w - 1) \div w

RowsAt(w, which, lines) ==
  LET upTo[n \in 0..Len(lines)] ==
        IF n = 0 THEN <<>>
        ELSE upTo[n - 1] \o [p \in 1..HeightAt(w, lines[n]) |-> Screen!ScreenRow(which, n, p)]
  IN upTo[Len(lines)]

\* The end of a frame that fits above the cursor.
EndsAt(w, h, lines) ==
  {n \in 0..Len(lines) : Len(RowsAt(w, 1, Screen!End(lines, n))) < h}
CutAt(w, h, lines) == Screen!End(lines, Screen!Largest(EndsAt(w, h, lines)))

AboveAt(above) == [i \in 1..above |-> Screen!ScreenRow(0, i, 1)]

\* The rows of one line; upTo and counted, for the first k lines.
LineRows(w, which, lines, n) ==
  [p \in 1..HeightAt(w, lines[n]) |-> Screen!ScreenRow(which, n, p)]
IsRows(f, w, which, lines, k) ==
  f = [n \in 0..k |-> IF n = 0 THEN <<>> ELSE f[n - 1] \o LineRows(w, which, lines, n)]
RowByRow(f, w, which, lines, k) ==
  /\ f[0] = <<>>
  /\ \A n \in Nat : n < k => f[n + 1] = f[n] \o LineRows(w, which, lines, n + 1)
IsCount(f, w, lines, k) ==
  f = [n \in 0..k |-> IF n = 0 THEN 1 ELSE f[n - 1] + HeightAt(w, lines[n])]

ScreenType ==
  /\ terminal \in Sizes /\ frame \in Frames \cup {<<>>}
  /\ drawn \in 0..(MaxFrames + 1) /\ lineCount \in Nat
  /\ rows \in Seq(ScreenRows) /\ gone \in 0..Len(rows)
  /\ tracing \in {"on", "ended", "error"}

\* The frame that is on the terminal, and what the writer knows of it.
FrameInv ==
  LET shownRows == RowsAt(terminal.width, drawn, CutAt(terminal.width, terminal.height, frame)) IN
  tracing = "on" =>
    /\ gone <= terminal.above /\ drawn <= MaxFrames
    /\ rows = AboveAt(terminal.above) \o shownRows
    /\ lineCount = (IF drawn = 0 THEN 0 ELSE Len(shownRows) + 1)
    /\ drawn = 0 => frame = <<>>

ScreenInv ==
  /\ ScreenType /\ FrameInv
  /\ tracing = "ended" =>
       rows = AboveAt(terminal.above) \o RowsAt(terminal.width, drawn, frame)

\* One more line is begun after each full one.
LEMMA DivisionStep ==
  ASSUME NEW a \in Nat, NEW w \in Nat \ {0}
  PROVE  (a + w) \div w = (a \div w) + 1 /\ a \div w \in Nat
OBVIOUS

\* The writer's height of a line is the terminal's.
LEMMA HeightsAgree ==
  ASSUME NEW w \in Nat \ {0, 1}, NEW width \in Nat
  PROVE  /\ HeightAt(w, width) \in Nat
         /\ width # 0 => HeightAt(w, width) = 1 + (width - 1) \div w
<1>1. CASE width = 0
  BY <1>1 DEF HeightAt
<1>2. CASE width # 0
  <2> DEFINE a == width - 1
  <2>1. a \in Nat /\ width + w - 1 = a + w
    BY <1>2
  <2> HIDE DEF a
  <2>2. (a + w) \div w = (a \div w) + 1 /\ a \div w \in Nat
    BY <2>1, DivisionStep
  <2>3. HeightAt(w, width) = (a + w) \div w
    BY <1>2, <2>1 DEF HeightAt
  <2> QED
    BY <2>2, <2>3 DEF a
<1> QED
  BY <1>1, <1>2

\* There are such functions.
LEMMA RowsExist ==
  ASSUME NEW w, NEW which, NEW lines
  PROVE  \A k \in Nat : \E f : IsRows(f, w, which, lines, k)
<1> DEFINE S == {k \in Nat : \E f : IsRows(f, w, which, lines, k)}
<1> DEFINE parts(n) == LineRows(w, which, lines, n)
<1>1. 0 \in S
  <2>1. IsRows([n \in 0..0 |-> <<>>], w, which, lines, 0)
    BY DEF IsRows
  <2> QED
    BY <2>1
<1>0. \A f, k : IsRows(f, w, which, lines, k)
                  <=> f = [n \in 0..k |-> IF n = 0 THEN <<>> ELSE f[n - 1] \o parts(n)]
  BY Zenon DEF IsRows
<1>2. ASSUME NEW k \in Nat, k \in S PROVE k + 1 \in S
  <2>1. PICK f : IsRows(f, w, which, lines, k)
    BY <1>2
  <2> HIDE DEF parts
  <2> DEFINE g == [n \in 0..(k + 1) |-> IF n = k + 1 THEN f[k] \o parts(n) ELSE f[n]]
  <2>2. ASSUME NEW n \in 0..(k + 1)
        PROVE  g[n] = IF n = 0 THEN <<>> ELSE g[n - 1] \o parts(n)
    <3>1. CASE n = k + 1
      <4>1. k + 1 # 0 /\ (k + 1) - 1 = k /\ k # k + 1 /\ k \in 0..(k + 1)
        OBVIOUS
      <4>2. g[k] = f[k]
        BY <4>1
      <4> QED
        BY <3>1, <4>1, <4>2
    <3>2. CASE n \in 0..k
      <4>1. n # 0 => n - 1 \in 0..k
        BY <3>2
      <4>2. f[n] = IF n = 0 THEN <<>> ELSE f[n - 1] \o parts(n)
        BY <1>0, <2>1, <3>2
      <4> QED
        BY <3>2, <4>1, <4>2
    <3> QED
      BY <3>1, <3>2
  <2>3. g = [n \in 0..(k + 1) |-> IF n = 0 THEN <<>> ELSE g[n - 1] \o parts(n)]
    BY <2>2
  <2>4. IsRows(g, w, which, lines, k + 1)
    <3> HIDE DEF g
    <3> QED
      BY <1>0, <2>3, Zenon
  <2> QED
    BY <2>4
<1> HIDE DEF S
<1>3. \A n \in Nat : n \in S
  BY <1>1, <1>2, NumberSet, Zenon
<1> QED
  BY <1>3 DEF S

\* The same of the function that counts lines.
LEMMA CountExists ==
  ASSUME NEW w, NEW lines
  PROVE  \A k \in Nat : \E f : IsCount(f, w, lines, k)
<1> DEFINE S == {k \in Nat : \E f : IsCount(f, w, lines, k)}
<1>1. 0 \in S
  <2>1. IsCount([n \in 0..0 |-> 1], w, lines, 0)
    BY DEF IsCount
  <2> QED
    BY <2>1
<1>2. ASSUME NEW k \in Nat, k \in S PROVE k + 1 \in S
  <2>1. PICK f : IsCount(f, w, lines, k)
    BY <1>2
  <2> DEFINE h(n) == HeightAt(w, lines[n])
  <2>2. \A n \in 0..k : f[n] = IF n = 0 THEN 1 ELSE f[n - 1] + h(n)
    BY <2>1 DEF IsCount
  <2> HIDE DEF h
  <2> DEFINE g == [n \in 0..(k + 1) |-> IF n = k + 1 THEN f[k] + h(n) ELSE f[n]]
  <2>3. ASSUME NEW n \in 0..(k + 1)
        PROVE  g[n] = IF n = 0 THEN 1 ELSE g[n - 1] + h(n)
    <3>1. CASE n = k + 1
      BY <3>1
    <3>2. CASE n \in 0..k
      <4>1. n # 0 => n - 1 \in 0..k
        BY <3>2
      <4> QED
        BY <2>2, <3>2, <4>1
    <3> QED
      BY <3>1, <3>2
  <2>4. g = [n \in 0..(k + 1) |-> IF n = 0 THEN 1 ELSE g[n - 1] + h(n)]
    BY <2>3
  <2>5. IsCount(g, w, lines, k + 1)
    <3> HIDE DEF g
    <3> QED
      BY <2>4, Zenon DEF IsCount, h
  <2> QED
    BY <2>5
<1> HIDE DEF S
<1>3. \A n \in Nat : n \in S
  BY <1>1, <1>2, NumberSet, Zenon
<1> QED
  BY <1>3 DEF S

\* Their values, line by line.
LEMMA RowsSteps ==
  ASSUME NEW f, NEW w, NEW which, NEW lines, NEW k \in Nat, IsRows(f, w, which, lines, k)
  PROVE  RowByRow(f, w, which, lines, k)
<1> DEFINE parts(n) == LineRows(w, which, lines, n)
<1>1. f = [n \in 0..k |-> IF n = 0 THEN <<>> ELSE f[n - 1] \o parts(n)]
  BY Zenon DEF IsRows
<1> HIDE DEF parts
<1>2. \A m \in 0..k : f[m] = IF m = 0 THEN <<>> ELSE f[m - 1] \o parts(m)
  BY <1>1
<1>3. ASSUME NEW n \in Nat, n < k PROVE f[n + 1] = f[n] \o parts(n + 1)
  <2>1. n + 1 \in 0..k /\ n + 1 # 0 /\ (n + 1) - 1 = n
    BY <1>3
  <2> QED
    BY <1>2, <2>1
<1>4. f[0] = <<>>
  BY <1>2
<1> QED
  BY <1>3, <1>4, Zenon DEF parts, RowByRow

\* The same of the function that counts lines.
LEMMA CountSteps ==
  ASSUME NEW f, NEW w, NEW lines, NEW k \in Nat, IsCount(f, w, lines, k)
  PROVE  /\ f[0] = 1
         /\ \A n \in Nat : n < k => f[n + 1] = f[n] + HeightAt(w, lines[n + 1])
<1>1. \A m \in 0..k : f[m] = IF m = 0 THEN 1 ELSE f[m - 1] + HeightAt(w, lines[m])
  BY DEF IsCount
<1>2. ASSUME NEW n \in Nat, n < k PROVE f[n + 1] = f[n] + HeightAt(w, lines[n + 1])
  <2>1. n + 1 \in 0..k /\ n + 1 # 0 /\ (n + 1) - 1 = n
    BY <1>2
  <2> QED
    BY <1>1, <2>1
<1> QED
  BY <1>1, <1>2

\* The rows are rows of the screen, and the writer counts them and one more.
LEMMA RowsCounted ==
  ASSUME NEW w \in Nat \ {0, 1}, NEW lines \in Seq(Nat), NEW which \in Nat,
         NEW c, IsCount(c, w, lines, Len(lines))
  PROVE  /\ RowsAt(w, which, lines) \in Seq(ScreenRows)
         /\ c[Len(lines)] = Len(RowsAt(w, which, lines)) + 1
<1> DEFINE k == Len(lines)
<1>1. k \in Nat
  OBVIOUS
<1>3. IsCount(c, w, lines, k)
  OBVIOUS
<1> HIDE DEF k
<1>2. PICK f : IsRows(f, w, which, lines, k) /\ RowsAt(w, which, lines) = f[k]
  <2> DEFINE f == CHOOSE g : IsRows(g, w, which, lines, k)
  <2>1. IsRows(f, w, which, lines, k)
    BY <1>1, RowsExist, Zenon
  <2>2. RowsAt(w, which, lines) = f[k]
    BY Zenon DEF RowsAt, IsRows, LineRows, k
  <2> QED
    BY <2>1, <2>2
<1>4. /\ f[0] = <<>>
      /\ \A n \in Nat : n < k => f[n + 1] = f[n] \o LineRows(w, which, lines, n + 1)
  <2>1. RowByRow(f, w, which, lines, k)
    BY <1>1, <1>2, RowsSteps, Zenon
  <2> QED
    BY <2>1 DEF RowByRow
<1>5. c[0] = 1 /\ \A n \in Nat : n < k => c[n + 1] = c[n] + HeightAt(w, lines[n + 1])
  BY <1>1, <1>3, CountSteps
<1> DEFINE S == {n \in Nat : n <= k => f[n] \in Seq(ScreenRows) /\ c[n] = Len(f[n]) + 1}
<1>6. 0 \in S
  <2>1. <<>> \in Seq(ScreenRows) /\ Len(<<>>) = 0
    OBVIOUS
  <2>2. f[0] \in Seq(ScreenRows) /\ c[0] = Len(f[0]) + 1
    BY <1>4, <1>5, <2>1
  <2> QED
    BY <2>2
<1>7. ASSUME NEW n \in Nat, n \in S PROVE n + 1 \in S
  <2> SUFFICES ASSUME n + 1 <= k
               PROVE  f[n + 1] \in Seq(ScreenRows) /\ c[n + 1] = Len(f[n + 1]) + 1
    OBVIOUS
  <2> DEFINE h == HeightAt(w, lines[n + 1])
  <2> DEFINE t == LineRows(w, which, lines, n + 1)
  <2>0. n < k /\ n <= k /\ lines[n + 1] \in Nat
    BY <1>1 DEF k
  <2>1. h \in Nat
    BY <2>0, HeightsAgree
  <2>2. f[n] \in Seq(ScreenRows) /\ c[n] = Len(f[n]) + 1
    BY <1>7, <2>0
  <2>3. f[n + 1] = f[n] \o t /\ c[n + 1] = c[n] + h
    BY <1>4, <1>5, <2>0
  <2>4. t \in Seq(ScreenRows) /\ Len(t) = h
    <3> HIDE DEF h
    <3>1. t = [p \in 1..h |-> Screen!ScreenRow(which, n + 1, p)]
      BY DEF h, LineRows
    <3> HIDE DEF t
    <3> QED
      BY <2>1, <3>1 DEF ScreenRows, Screen!ScreenRow
  <2> HIDE DEF h
  <2> HIDE DEF t
  <2>5. f[n] \o t \in Seq(ScreenRows) /\ Len(f[n] \o t) = Len(f[n]) + Len(t)
    BY <2>2, <2>4, ConcatProperties, Zenon
  <2>6. Len(f[n]) \in Nat
    BY <2>2
  <2>7. c[n + 1] = Len(f[n + 1]) + 1
    BY <2>1, <2>2, <2>3, <2>4, <2>5, <2>6
  <2> QED
    BY <2>3, <2>5, <2>7
<1>8. k \in S
  <2> HIDE DEF S
  <2> QED
    BY <1>1, <1>6, <1>7, NumberSet, Zenon
<1> QED
  BY <1>1, <1>2, <1>8 DEF k

\* However often a frame was drawn before, it takes the same rows.
LEMMA RowsTyped ==
  ASSUME NEW w \in Nat \ {0, 1}, NEW lines \in Seq(Nat), NEW which \in Nat
  PROVE  /\ RowsAt(w, which, lines) \in Seq(ScreenRows)
         /\ Len(RowsAt(w, which, lines)) = Len(RowsAt(w, 1, lines))
         /\ Len(RowsAt(w, which, lines)) \in Nat
<1>0. Len(lines) \in Nat
  OBVIOUS
<1>1. PICK c : IsCount(c, w, lines, Len(lines))
  BY <1>0, CountExists, Zenon
<1>2. /\ RowsAt(w, which, lines) \in Seq(ScreenRows)
      /\ c[Len(lines)] = Len(RowsAt(w, which, lines)) + 1
  BY <1>1, RowsCounted
<1>3. /\ RowsAt(w, 1, lines) \in Seq(ScreenRows)
      /\ c[Len(lines)] = Len(RowsAt(w, 1, lines)) + 1
  BY <1>1, RowsCounted
<1>4. Len(RowsAt(w, which, lines)) \in Nat /\ Len(RowsAt(w, 1, lines)) \in Nat
  BY <1>2, <1>3
<1> QED
  BY <1>2, <1>3, <1>4

\* No line takes no row.
LEMMA NoRows == ASSUME NEW w, NEW which PROVE RowsAt(w, which, <<>>) = <<>>
<1>1. Len(<<>>) = 0 /\ Len(<<>>) \in Nat
  OBVIOUS
<1> DEFINE f == CHOOSE g : IsRows(g, w, which, <<>>, Len(<<>>))
<1>2. IsRows(f, w, which, <<>>, Len(<<>>))
  BY <1>1, RowsExist, Zenon
<1>3. RowsAt(w, which, <<>>) = f[Len(<<>>)]
  BY Zenon DEF RowsAt, IsRows, LineRows
<1> HIDE DEF f
<1>4. RowByRow(f, w, which, <<>>, 0)
  BY <1>1, <1>2, RowsSteps
<1> QED
  BY <1>1, <1>3, <1>4 DEF RowByRow

\* Numbers up to a bound, if there are any, have a largest.
LEMMA LargestIn ==
  ASSUME NEW N \in Nat, NEW s \in SUBSET (0..N), s # {}
  PROVE  Screen!Largest(s) \in s /\ \A n \in s : n <= Screen!Largest(s)
<1> DEFINE S == {m \in Nat : \A t \in SUBSET (0..m) :
                               t # {} => \E x \in t : \A n \in t : n <= x}
<1>1. 0 \in S
  <2>1. \A x \in 0..0 : x = 0
    OBVIOUS
  <2>2. ASSUME NEW t \in SUBSET (0..0), t # {} PROVE \E x \in t : \A n \in t : n <= x
    <3>1. 0 \in t /\ \A n \in t : n = 0
      BY <2>1, <2>2
    <3> QED
      BY <3>1
  <2> QED
    BY <2>2
<1>2. ASSUME NEW m \in Nat, m \in S PROVE m + 1 \in S
  <2> SUFFICES ASSUME NEW t \in SUBSET (0..(m + 1)), t # {}
               PROVE  \E x \in t : \A n \in t : n <= x
    OBVIOUS
  <2>1. CASE m + 1 \in t
    BY <2>1
  <2>2. CASE m + 1 \notin t
    <3>1. t \in SUBSET (0..m)
      BY <2>2
    <3> QED
      BY <1>2, <3>1
  <2> QED
    BY <2>1, <2>2
<1>3. N \in S
  <2> HIDE DEF S
  <2> QED
    BY <1>1, <1>2, NumberSet, Zenon
<1>4. \E x \in s : \A n \in s : n <= x
  BY <1>3
<1> QED
  BY <1>4, Zenon DEF Screen!Largest


\* The constants of the screen, and the terminal that is one of the sizes.
LEMMA ScreenConstants ==
  ASSUME Screen!ConstantsTyped, terminal \in Sizes
  PROVE  /\ terminal.width \in Nat \ {0, 1} /\ terminal.height \in Nat \ {0}
         /\ terminal.above \in Nat
         /\ \A buf \in Frames \cup {<<>>} : buf \in Seq(Nat)
         /\ MaxFrames \in Nat
<1>1. terminal \in [width : Nat \ {0, 1}, height : Nat \ {0}, above : Nat]
  BY DEF Screen!ConstantsTyped
<1>2. Frames \subseteq Seq(Nat) /\ MaxFrames \in Nat /\ <<>> \in Seq(Nat)
  BY DEF Screen!ConstantsTyped
<1> QED
  BY <1>1, <1>2

\* The model's operators are those of the terminal's width.
LEMMA RowsNamed ==
  ASSUME NEW which, NEW lines
  PROVE  /\ Screen!RowsOf(which, lines) = RowsAt(terminal.width, which, lines)
         /\ Screen!Above = AboveAt(terminal.above)
BY Zenon DEF Screen!RowsOf, RowsAt, Screen!Height, HeightAt, Screen!Above, AboveAt

\* The last lines of a frame.
LEMMA EndTyped ==
  ASSUME NEW buf \in Seq(Nat), NEW n \in 0..Len(buf)
  PROVE  /\ Screen!End(buf, n) \in Seq(Nat) /\ Len(Screen!End(buf, n)) = n
         /\ n = 0 => Screen!End(buf, n) = <<>>
         /\ n = Len(buf) => Screen!End(buf, n) = buf
<1>1. n \in Nat /\ Len(buf) \in Nat /\ Len(buf) - n + 1 \in 1..(Len(buf) + 1)
  OBVIOUS
<1>2. /\ Screen!End(buf, n) \in Seq(Nat) /\ Len(Screen!End(buf, n)) = n
      /\ \A i \in 1..n : Screen!End(buf, n)[i] = buf[Len(buf) - n + i]
  <2> DEFINE a == Len(buf) - n + 1
  <2>1. a \in 1..(Len(buf) + 1) /\ a - 1 \in Nat /\ (Len(buf) \in a..Len(buf) \/ n = 0)
    BY <1>1
  <2> SUFFICES /\ SubSeq(buf, a, Len(buf)) \in Seq(Nat) /\ Len(SubSeq(buf, a, Len(buf))) = n
               /\ \A i \in 1..n : SubSeq(buf, a, Len(buf))[i] = buf[a + i - 1]
    BY <1>1 DEF Screen!End
  <2> QED
    OBVIOUS
<1>3. n = Len(buf) => Screen!End(buf, n) = buf
  <2>1. n = Len(buf) => Len(buf) - n + 1 = 1
    BY <1>1
  <2>2. SubSeq(buf, 1, Len(buf)) = buf
    BY SubSeqFull, Zenon
  <2> QED
    BY <2>1, <2>2, Zenon DEF Screen!End
<1> QED
  BY <1>2, <1>3

\* The writer counts the rows of the last lines, and one more.
LEMMA LinesCounted ==
  ASSUME terminal.width \in Nat \ {0, 1}, NEW buf \in Seq(Nat), NEW n \in 0..Len(buf)
  PROVE  Screen!Lines(buf, n) = Len(RowsAt(terminal.width, 1, Screen!End(buf, n))) + 1
<1> DEFINE e == Screen!End(buf, n)
<1> DEFINE before(m) == Screen!LineHeight(e[m])
<1>1. e \in Seq(Nat) /\ Len(e) = n /\ n \in Nat
  BY EndTyped
<1> HIDE DEF e
<1>2. Screen!LineHeight(0) = 1
  BY DEF Screen!LineHeight
<1>3. ASSUME NEW m \in 1..n PROVE Screen!LineHeight(e[m]) = HeightAt(terminal.width, e[m])
  <2>1. e[m] \in Nat
    BY <1>1
  <2>2. e[m] # 0 => HeightAt(terminal.width, e[m]) = 1 + (e[m] - 1) \div terminal.width
    BY <2>1, HeightsAgree
  <2>3. CASE e[m] = 0
    BY <2>3 DEF HeightAt, Screen!LineHeight
  <2>4. CASE e[m] # 0
    BY <2>2, <2>4 DEF Screen!LineHeight
  <2> QED
    BY <2>3, <2>4
<1> DEFINE writer(f) ==
      f = [m \in 0..n |-> IF m = 0 THEN Screen!LineHeight(0)
                          ELSE f[m - 1] + Screen!LineHeight(e[m])]
<1>4. ASSUME NEW f PROVE writer(f) <=> IsCount(f, terminal.width, e, Len(e))
  <2> DEFINE A(m) == IF m = 0 THEN Screen!LineHeight(0) ELSE f[m - 1] + Screen!LineHeight(e[m])
  <2> DEFINE B(m) == IF m = 0 THEN 1 ELSE f[m - 1] + HeightAt(terminal.width, e[m])
  <2>1. \A m \in 0..n : A(m) = B(m)
    <3> SUFFICES ASSUME NEW m \in 0..n PROVE A(m) = B(m)
      OBVIOUS
    <3>1. m = 0 \/ m \in 1..n
      BY <1>1
    <3> QED
      BY <1>2, <1>3, <3>1, Zenon
  <2> HIDE DEF A, B
  <2>2. [m \in 0..n |-> A(m)] = [m \in 0..n |-> B(m)]
    BY <2>1
  <2> QED
    BY <1>1, <2>2, Zenon DEF A, B, IsCount
<1>5. \E f : writer(f)
  <2> HIDE DEF writer
  <2> QED
    BY <1>1, <1>4, CountExists, Zenon
<1> DEFINE c == CHOOSE f : writer(f)
<1>6. Screen!Lines(buf, n) = c[n]
  BY Zenon DEF Screen!Lines, e
<1>7. writer(c)
  <2> HIDE DEF writer
  <2> QED
    BY <1>5, Zenon
<1> HIDE DEF c, writer
<1>8. IsCount(c, terminal.width, e, Len(e))
  BY <1>4, <1>7, Zenon
<1>9. c[Len(e)] = Len(RowsAt(terminal.width, 1, e)) + 1
  BY <1>1, <1>8, RowsCounted
<1> QED
  BY <1>1, <1>6, <1>9 DEF e

\* The writer takes the longest end of a frame that the terminal shows above
\* the cursor, or all of it, and knows how many lines it is.
LEMMA LastLinesFit ==
  ASSUME Screen!ConstantsTyped, terminal \in Sizes, NEW buf \in Seq(Nat)
  PROVE  LET w == terminal.width
             h == terminal.height IN
         /\ CutAt(w, h, buf) \in Seq(Nat)
         /\ Len(RowsAt(w, 1, CutAt(w, h, buf))) < h
         /\ Screen!LastLines(buf, h).lines = CutAt(w, h, buf)
         /\ Screen!LastLines(buf, h).count = Len(RowsAt(w, 1, CutAt(w, h, buf))) + 1
         /\ Screen!LastLines(buf, 0).lines = buf
         /\ Screen!LastLines(buf, 0).count \in Nat
<1> DEFINE w == terminal.width
<1> DEFINE h == terminal.height
<1>1. w \in Nat \ {0, 1} /\ h \in Nat \ {0}
  BY ScreenConstants
<1>2. \A n \in 0..Len(buf) :
        /\ Screen!Lines(buf, n) = Len(RowsAt(w, 1, Screen!End(buf, n))) + 1
        /\ Len(RowsAt(w, 1, Screen!End(buf, n))) \in Nat
  <2> SUFFICES ASSUME NEW n \in 0..Len(buf)
               PROVE  /\ Screen!Lines(buf, n) = Len(RowsAt(w, 1, Screen!End(buf, n))) + 1
                      /\ Len(RowsAt(w, 1, Screen!End(buf, n))) \in Nat
    BY Zenon
  <2>1. Screen!Lines(buf, n) = Len(RowsAt(w, 1, Screen!End(buf, n))) + 1
    BY <1>1, LinesCounted
  <2>2. Screen!End(buf, n) \in Seq(Nat)
    BY EndTyped
  <2>3. Len(RowsAt(w, 1, Screen!End(buf, n))) \in Nat
    BY <1>1, <2>2, RowsTyped
  <2> QED
    BY <2>1, <2>3
<1> HIDE DEF w, h
<1> DEFINE kept(max) == {n \in 0..Len(buf) : max = 0 \/ Screen!Lines(buf, n) <= max}
<1>3. Len(buf) \in Nat /\ 0 \in 0..Len(buf) /\ Len(buf) \in 0..Len(buf)
  OBVIOUS
<1>4. kept(h) = EndsAt(w, h, buf)
  BY <1>1, <1>2 DEF EndsAt
<1>5. 0 \in EndsAt(w, h, buf)
  <2>1. Screen!End(buf, 0) = <<>>
    BY <1>3, EndTyped
  <2>2. RowsAt(w, 1, Screen!End(buf, 0)) = <<>>
    BY <2>1, NoRows
  <2>3. Len(RowsAt(w, 1, Screen!End(buf, 0))) = 0
    BY <2>2
  <2> QED
    BY <1>1, <1>3, <2>3 DEF EndsAt
<1> DEFINE n == Screen!Largest(EndsAt(w, h, buf))
<1>6. n \in EndsAt(w, h, buf)
  <2>1. EndsAt(w, h, buf) \in SUBSET (0..Len(buf)) /\ EndsAt(w, h, buf) # {}
    BY <1>5 DEF EndsAt
  <2> QED
    BY <1>3, <2>1, LargestIn
<1>7. kept(0) = 0..Len(buf)
  OBVIOUS
<1> DEFINE m == Screen!Largest(0..Len(buf))
<1>8. m = Len(buf)
  <2>1. m \in 0..Len(buf) /\ \A i \in 0..Len(buf) : i <= m
    BY <1>3, LargestIn
  <2> QED
    BY <1>3, <2>1
<1>9. \A max : kept(max) # {} =>
        /\ Screen!LastLines(buf, max).lines = Screen!End(buf, Screen!Largest(kept(max)))
        /\ Screen!LastLines(buf, max).count = Screen!Lines(buf, Screen!Largest(kept(max)))
  BY DEF Screen!LastLines
<1> HIDE DEF kept, m, n
<1>10. /\ Screen!LastLines(buf, h).lines = Screen!End(buf, n)
       /\ Screen!LastLines(buf, h).count = Screen!Lines(buf, n)
  BY <1>4, <1>5, <1>9, Zenon DEF n
<1>11. /\ Screen!LastLines(buf, 0).lines = Screen!End(buf, m)
       /\ Screen!LastLines(buf, 0).count = Screen!Lines(buf, m)
  BY <1>3, <1>7, <1>9, Zenon DEF m
<1>12. Screen!End(buf, m) = buf
  BY <1>3, <1>8, EndTyped
<1>13. n \in 0..Len(buf) /\ Len(RowsAt(w, 1, Screen!End(buf, n))) < h
  BY <1>6 DEF EndsAt
<1>14. CutAt(w, h, buf) = Screen!End(buf, n)
  BY DEF CutAt, n
<1>15. CutAt(w, h, buf) \in Seq(Nat)
  BY <1>13, <1>14, EndTyped
<1>16. Screen!Lines(buf, m) \in Nat
  BY <1>2, <1>3, <1>8
<1> QED
  BY <1>2, <1>10, <1>11, <1>12, <1>13, <1>14, <1>15, <1>16, Zenon DEF w, h

\* What the terminal should show.
LEMMA ShownNamed ==
  ASSUME Screen!ConstantsTyped, terminal \in Sizes, frame \in Seq(Nat)
  PROVE  Screen!Shown = IF tracing = "ended" THEN frame
                        ELSE CutAt(terminal.width, terminal.height, frame)
<1>1. CASE tracing = "ended"
  <2>1. Len(frame) \in Nat /\ 0 \in 0..Len(frame) /\ Len(frame) \in 0..Len(frame)
    OBVIOUS
  <2>2. {n \in 0..Len(frame) : \/ tracing = "ended"
                               \/ Len(Screen!RowsOf(1, Screen!End(frame, n))) < terminal.height}
          = 0..Len(frame)
    BY <1>1
  <2> DEFINE m == Screen!Largest(0..Len(frame))
  <2>3. m \in 0..Len(frame) /\ \A i \in 0..Len(frame) : i <= m
    BY <2>1, LargestIn
  <2>4. m = Len(frame)
    BY <2>1, <2>3
  <2>5. Screen!Shown = Screen!End(frame, m)
    BY <2>2, Zenon DEF Screen!Shown
  <2> QED
    BY <1>1, <2>1, <2>4, <2>5, EndTyped
<1>2. CASE tracing # "ended"
  <2>1. {n \in 0..Len(frame) : \/ tracing = "ended"
                               \/ Len(Screen!RowsOf(1, Screen!End(frame, n))) < terminal.height}
          = EndsAt(terminal.width, terminal.height, frame)
    BY <1>2, RowsNamed DEF EndsAt
  <2> QED
    BY <1>2, <2>1, Zenon DEF Screen!Shown, CutAt
<1> QED
  BY <1>1, <1>2


\* A frame of no lines is shown whole.
LEMMA EmptyFrame ==
  ASSUME NEW w \in Nat \ {0, 1}, NEW h \in Nat \ {0}
  PROVE  CutAt(w, h, <<>>) = <<>>
<1>1. EndsAt(w, h, <<>>) \subseteq {0}
  BY DEF EndsAt
<1>2. Screen!End(<<>>, 0) = <<>>
  <2>1. 0 \in 0..Len(<<>>) /\ <<>> \in Seq(Nat)
    OBVIOUS
  <2> QED
    BY <2>1, EndTyped
<1>3. RowsAt(w, 1, Screen!End(<<>>, 0)) = <<>>
  BY <1>2, NoRows
<1>4. 0 \in EndsAt(w, h, <<>>)
  BY <1>3 DEF EndsAt
<1>5. Screen!Largest(EndsAt(w, h, <<>>)) = 0
  <2>1. 0 \in Nat /\ EndsAt(w, h, <<>>) \in SUBSET (0..0) /\ EndsAt(w, h, <<>>) # {}
    BY <1>1, <1>4
  <2>2. Screen!Largest(EndsAt(w, h, <<>>)) \in EndsAt(w, h, <<>>)
    BY <2>1, LargestIn
  <2> QED
    BY <1>1, <2>2
<1> QED
  BY <1>2, <1>5, Zenon DEF CutAt

\* What was above the first frame.
LEMMA AboveTyped ==
  ASSUME NEW above \in Nat
  PROVE  AboveAt(above) \in Seq(ScreenRows) /\ Len(AboveAt(above)) = above
BY DEF AboveAt, ScreenRows, Screen!ScreenRow

\* Cut after the first of two sequences, they are the first.
LEMMA FirstOfTwo ==
  ASSUME NEW T, NEW u \in Seq(T), NEW v \in Seq(T)
  PROVE  SubSeq(u \o v, 1, Len(u)) = u
<1> DEFINE a == u \o v
<1>1. /\ a \in Seq(T) /\ Len(a) = Len(u) + Len(v)
      /\ \A i \in 1..Len(u) : a[i] = u[i]
  BY ConcatProperties
<1>2. Len(u) \in Nat /\ Len(v) \in Nat
  OBVIOUS
<1> HIDE DEF a
<1> DEFINE b == SubSeq(a, 1, Len(u))
<1>3. b \in Seq(T) /\ Len(b) = Len(u) /\ \A i \in 1..Len(u) : b[i] = a[i]
  BY <1>1, <1>2
<1> HIDE DEF b
<1>4. \A i \in 1..Len(u) : b[i] = u[i]
  BY <1>1, <1>3
<1>5. b = u
  BY <1>3, <1>4
<1> QED
  BY <1>5 DEF a, b

\* The types of what is shown while the trace goes on.
LEMMA ScreenFacts ==
  ASSUME Screen!ConstantsTyped, ScreenInv
  PROVE  LET shownRows == RowsAt(terminal.width, drawn,
                                 CutAt(terminal.width, terminal.height, frame)) IN
         /\ terminal.width \in Nat \ {0, 1} /\ terminal.height \in Nat \ {0}
         /\ terminal.above \in Nat /\ MaxFrames \in Nat
         /\ frame \in Seq(Nat) /\ drawn \in Nat /\ lineCount \in Nat
         /\ AboveAt(terminal.above) \in Seq(ScreenRows)
         /\ Len(AboveAt(terminal.above)) = terminal.above
         /\ shownRows \in Seq(ScreenRows) /\ Len(shownRows) \in Nat
<1>1. /\ terminal.width \in Nat \ {0, 1} /\ terminal.height \in Nat \ {0}
      /\ terminal.above \in Nat /\ MaxFrames \in Nat
      /\ frame \in Seq(Nat)
  BY ScreenConstants DEF ScreenInv, ScreenType
<1>2. drawn \in Nat /\ lineCount \in Nat
  BY <1>1 DEF ScreenInv, ScreenType
<1>3. AboveAt(terminal.above) \in Seq(ScreenRows) /\ Len(AboveAt(terminal.above)) = terminal.above
  BY <1>1, AboveTyped
<1>4. CutAt(terminal.width, terminal.height, frame) \in Seq(Nat)
  BY <1>1, LastLinesFit, Zenon DEF ScreenInv, ScreenType
<1>5. /\ RowsAt(terminal.width, drawn, CutAt(terminal.width, terminal.height, frame))
           \in Seq(ScreenRows)
      /\ Len(RowsAt(terminal.width, drawn, CutAt(terminal.width, terminal.height, frame))) \in Nat
  BY <1>1, <1>2, <1>4, RowsTyped
<1> QED
  BY <1>1, <1>2, <1>3, <1>5, Zenon

\* What the writer clears is the frame, and nothing above it.
LEMMA FrameCleared ==
  ASSUME Screen!ConstantsTyped, ScreenInv, tracing = "on"
  PROVE  (IF lineCount = 0 THEN rows ELSE Screen!Cleared(lineCount - 1))
           = AboveAt(terminal.above)
<1> DEFINE A == AboveAt(terminal.above)
<1> DEFINE R == RowsAt(terminal.width, drawn, CutAt(terminal.width, terminal.height, frame))
<1>1. /\ A \in Seq(ScreenRows) /\ Len(A) = terminal.above /\ R \in Seq(ScreenRows)
      /\ Len(R) \in Nat /\ terminal.above \in Nat
  BY ScreenFacts, Zenon
<1>2. /\ rows = A \o R /\ gone <= terminal.above /\ gone \in Nat
      /\ lineCount = (IF drawn = 0 THEN 0 ELSE Len(R) + 1)
      /\ drawn = 0 => frame = <<>>
  <2>1. rows \in Seq(ScreenRows) /\ gone \in 0..Len(rows)
    BY DEF ScreenInv, ScreenType
  <2>2. gone \in Nat
    BY <2>1
  <2> QED
    BY <2>2, Zenon DEF ScreenInv, FrameInv
<1>3. drawn = 0 => R = <<>>
  <2> SUFFICES ASSUME drawn = 0 PROVE R = <<>>
    OBVIOUS
  <2>1. frame = <<>> /\ <<>> \in Seq(Nat)
    BY <1>2
  <2>2. Len(R) \in Nat
    BY <1>1
  <2>3. CutAt(terminal.width, terminal.height, <<>>) = <<>>
    BY ScreenFacts, EmptyFrame, Zenon
  <2> QED
    BY <2>1, <2>3, NoRows, Zenon
<1> HIDE DEF A, R
<1>4. Len(rows) = Len(A) + Len(R)
  BY <1>1, <1>2, ConcatProperties, Zenon
<1>5. CASE drawn = 0
  <2>1. A \o <<>> = A
    BY <1>1
  <2> QED
    BY <1>2, <1>3, <1>5, <2>1, Zenon DEF A
<1>6. CASE drawn # 0
  <2>1. lineCount # 0 /\ lineCount - 1 = Len(R)
    BY <1>1, <1>2, <1>6
  <2>2. Screen!Larger(gone, Len(rows) - (lineCount - 1)) = Len(A)
    BY <1>1, <1>2, <1>4, <2>1 DEF Screen!Larger
  <2>3. SubSeq(rows, 1, Len(A)) = A
    BY <1>1, <1>2, FirstOfTwo, Zenon
  <2> QED
    BY <2>1, <2>2, <2>3, Zenon DEF Screen!Cleared, A
<1> QED
  BY <1>5, <1>6

\* The invariant holds before anything is drawn.
LEMMA ScreenInit ==
  ASSUME Screen!ConstantsTyped, Screen!Init
  PROVE  ScreenInv
<1> DEFINE C == CutAt(terminal.width, terminal.height, frame)
<1>1. /\ terminal \in Sizes /\ frame = <<>> /\ drawn = 0 /\ lineCount = 0 /\ tracing = "on"
      /\ rows = AboveAt(terminal.above)
      /\ gone = Screen!Larger(0, Len(rows) + 1 - terminal.height)
  BY RowsNamed DEF Screen!Init
<1>2. /\ terminal.width \in Nat \ {0, 1} /\ terminal.height \in Nat \ {0}
      /\ terminal.above \in Nat /\ MaxFrames \in Nat
  BY <1>1, ScreenConstants
<1>3. rows \in Seq(ScreenRows) /\ Len(rows) = terminal.above
  BY <1>1, <1>2, AboveTyped
<1>4. gone \in 0..Len(rows) /\ gone <= terminal.above
  BY <1>1, <1>2, <1>3 DEF Screen!Larger
<1>5. ScreenType
  BY <1>1, <1>2, <1>3, <1>4 DEF ScreenType
<1>6. C = <<>>
  BY <1>1, <1>2, EmptyFrame, Zenon
<1>7. RowsAt(terminal.width, drawn, C) = <<>>
  BY <1>6, NoRows, Zenon
<1>8. AboveAt(terminal.above) \o <<>> = AboveAt(terminal.above)
  BY <1>1, <1>3
<1>9. 0 <= MaxFrames
  BY <1>2
<1>10. FrameInv
  BY <1>1, <1>4, <1>7, <1>8, <1>9, Zenon DEF FrameInv
<1>11. tracing # "ended"
  BY <1>1
<1> QED
  BY <1>5, <1>10, <1>11, Zenon DEF ScreenInv


\* A flush draws all of the frame it is given, or as much as fits, in place of
\* the one before, or the output fails.
LEMMA FlushDraws ==
  ASSUME Screen!ConstantsTyped, ScreenInv, tracing = "on",
         NEW buf \in Frames, NEW trim \in {TRUE, FALSE}, Screen!Flush(buf, trim),
         terminal' = terminal
  PROVE  LET A == AboveAt(terminal.above)
             fit == Screen!LastLines(buf, IF trim THEN terminal.height ELSE 0) IN
         /\ drawn' = drawn + 1 /\ frame' = buf
         /\ \/ /\ rows' = A \o RowsAt(terminal.width, drawn', fit.lines)
               /\ lineCount' = fit.count
               /\ tracing' = IF trim THEN "on" ELSE "ended"
            \/ /\ rows' = rows /\ lineCount' = lineCount /\ tracing' = "error"
            \/ /\ rows' = A /\ lineCount' = fit.count /\ tracing' = "error"
         /\ gone' = Screen!Larger(gone, Len(rows') + 1 - terminal.height)
<1>1. (IF lineCount = 0 THEN rows ELSE Screen!Cleared(lineCount - 1))
        = AboveAt(terminal.above)
  BY FrameCleared
<1>2. \A which, lines : Screen!RowsOf(which, lines) = RowsAt(terminal.width, which, lines)
  BY RowsNamed, Zenon
<1> DEFINE cleared == IF lineCount = 0 THEN rows ELSE Screen!Cleared(lineCount - 1)
<1> DEFINE fit == Screen!LastLines(buf, IF trim THEN terminal.height ELSE 0)
<1>3. /\ drawn' = drawn + 1 /\ frame' = buf
      /\ \/ /\ rows' = cleared \o Screen!RowsOf(drawn', fit.lines)
            /\ lineCount' = fit.count
            /\ tracing' = IF trim THEN "on" ELSE "ended"
         \/ rows' = rows /\ lineCount' = lineCount /\ tracing' = "error"
         \/ rows' = cleared /\ lineCount' = fit.count /\ tracing' = "error"
      /\ gone' = Screen!Larger(gone, Len(rows') + 1 - terminal.height)
  BY DEF Screen!Flush
<1> HIDE DEF cleared, fit
<1>4. Screen!RowsOf(drawn', fit.lines) = RowsAt(terminal.width, drawn', fit.lines)
  BY <1>2, Zenon
<1>5. cleared = AboveAt(terminal.above)
  BY <1>1, Zenon DEF cleared
<1> QED
  BY <1>3, <1>4, <1>5, Zenon DEF fit

\* A tick draws a frame that is cut.
LEMMA DrawStep ==
  ASSUME Screen!ConstantsTyped, ScreenInv, Screen!Draw
  PROVE  ScreenInv'
<1> DEFINE w == terminal.width
<1> DEFINE h == terminal.height
<1> DEFINE A == AboveAt(terminal.above)
<1>1. PICK buf \in Frames : Screen!Flush(buf, TRUE)
  BY DEF Screen!Draw
<1>2. tracing = "on" /\ drawn < MaxFrames /\ terminal' = terminal
  BY DEF Screen!Draw
<1> DEFINE fit == Screen!LastLines(buf, h)
<1> DEFINE R == RowsAt(w, drawn', fit.lines)
<1>3. /\ drawn' = drawn + 1 /\ frame' = buf
      /\ \/ rows' = A \o R /\ lineCount' = fit.count /\ tracing' = "on"
         \/ rows' = rows /\ lineCount' = lineCount /\ tracing' = "error"
         \/ rows' = A /\ lineCount' = fit.count /\ tracing' = "error"
      /\ gone' = Screen!Larger(gone, Len(rows') + 1 - h)
  BY <1>1, <1>2, FlushDraws, Zenon
<1>4. buf \in Seq(Nat) /\ terminal \in Sizes
  BY ScreenConstants DEF ScreenInv, ScreenType
<1>5. /\ w \in Nat \ {0, 1} /\ h \in Nat \ {0} /\ terminal.above \in Nat /\ MaxFrames \in Nat
      /\ drawn \in Nat /\ lineCount \in Nat /\ A \in Seq(ScreenRows) /\ Len(A) = terminal.above
  BY ScreenFacts, Zenon
<1>6. /\ fit.lines = CutAt(w, h, buf) /\ fit.lines \in Seq(Nat)
      /\ Len(RowsAt(w, 1, fit.lines)) < h /\ fit.count = Len(RowsAt(w, 1, fit.lines)) + 1
  BY <1>4, LastLinesFit, Zenon
<1>7. drawn' \in Nat /\ drawn' # 0 /\ drawn' <= MaxFrames /\ drawn' \in 0..(MaxFrames + 1)
  BY <1>2, <1>3, <1>5
<1>8. R \in Seq(ScreenRows) /\ Len(R) = Len(RowsAt(w, 1, fit.lines)) /\ Len(R) \in Nat
  BY <1>5, <1>6, <1>7, RowsTyped
<1>9. gone \in 0..Len(rows) /\ rows \in Seq(ScreenRows) /\ gone <= terminal.above /\ gone \in Nat
  <2>1. gone \in 0..Len(rows) /\ rows \in Seq(ScreenRows)
    BY DEF ScreenInv, ScreenType
  <2>2. gone <= terminal.above
    BY <1>2, Zenon DEF ScreenInv, FrameInv
  <2> QED
    BY <2>1, <2>2
<1>10. /\ frame' \in Frames \cup {<<>>} /\ terminal' \in Sizes
       /\ tracing' \in {"on", "ended", "error"} /\ tracing' # "ended"
       /\ lineCount' \in Nat
  <2>1. fit.count \in Nat
    BY <1>6, <1>8
  <2> QED
    BY <1>2, <1>3, <1>4, <1>5, <2>1
<1>11. /\ A \o R \in Seq(ScreenRows) /\ Len(A \o R) = terminal.above + Len(R)
  <2>1. /\ A \o R \in Seq(ScreenRows) /\ Len(A \o R) = Len(A) + Len(R)
    BY <1>5, <1>8, ConcatProperties, Zenon
  <2> QED
    BY <1>5, <2>1
<1> HIDE DEF w, h, A, R, fit
<1>12. rows' \in Seq(ScreenRows)
  BY <1>3, <1>5, <1>9, <1>11, Zenon
<1>13. gone' \in 0..Len(rows') /\ (tracing' = "on" => gone' <= terminal.above)
  <2> DEFINE l == Len(rows')
  <2>1. \/ l = terminal.above + Len(R) /\ tracing' = "on"
        \/ l = Len(rows) /\ tracing' = "error"
        \/ l = terminal.above /\ tracing' = "error"
    BY <1>3, <1>5, <1>11, Zenon
  <2>2. gone' = Screen!Larger(gone, l + 1 - h) /\ Len(R) < h
    BY <1>3, <1>6, <1>8
  <2> HIDE DEF l
  <2>3. gone' \in 0..l /\ (tracing' = "on" => gone' <= terminal.above)
    <3>1. CASE l = terminal.above + Len(R) /\ tracing' = "on"
      BY <1>5, <1>8, <1>9, <2>2, <3>1 DEF Screen!Larger
    <3>2. CASE l = Len(rows) /\ tracing' = "error"
      BY <1>5, <1>9, <2>2, <3>2 DEF Screen!Larger
    <3>3. CASE l = terminal.above /\ tracing' = "error"
      BY <1>5, <1>9, <2>2, <3>3 DEF Screen!Larger
    <3> QED
      BY <2>1, <3>1, <3>2, <3>3
  <2> QED
    BY <2>3 DEF l
<1>14. ScreenType'
  BY <1>7, <1>10, <1>12, <1>13, Zenon DEF ScreenType
<1>15. FrameInv'
  <2>1. tracing' = "on" => /\ rows' = A \o R /\ lineCount' = Len(R) + 1
    BY <1>3, <1>6, <1>8
  <2>2. R = RowsAt(terminal'.width, drawn', CutAt(terminal'.width, terminal'.height, frame'))
    BY <1>2, <1>3, <1>6, Zenon DEF R, w, h
  <2>3. A = AboveAt(terminal'.above) /\ terminal'.above = terminal.above
    BY <1>2, Zenon DEF A
  <2> QED
    BY <1>7, <1>13, <2>1, <2>2, <2>3, Zenon DEF FrameInv
<1> QED
  BY <1>10, <1>14, <1>15, Zenon DEF ScreenInv

\* The last frame is drawn whole.
LEMMA PrintAndExitStep ==
  ASSUME Screen!ConstantsTyped, ScreenInv, Screen!PrintAndExit
  PROVE  ScreenInv'
<1> DEFINE w == terminal.width
<1> DEFINE h == terminal.height
<1> DEFINE A == AboveAt(terminal.above)
<1>1. PICK buf \in Frames : Screen!Flush(buf, FALSE)
  BY DEF Screen!PrintAndExit
<1>2. tracing = "on" /\ terminal' = terminal
  BY DEF Screen!PrintAndExit
<1> DEFINE fit == Screen!LastLines(buf, 0)
<1> DEFINE R == RowsAt(w, drawn', buf)
<1>4. buf \in Seq(Nat) /\ terminal \in Sizes
  BY ScreenConstants DEF ScreenInv, ScreenType
<1>5. /\ w \in Nat \ {0, 1} /\ h \in Nat \ {0} /\ terminal.above \in Nat /\ MaxFrames \in Nat
      /\ drawn \in Nat /\ lineCount \in Nat /\ A \in Seq(ScreenRows) /\ Len(A) = terminal.above
  BY ScreenFacts, Zenon
<1>6. fit.lines = buf /\ fit.count \in Nat
  BY <1>4, LastLinesFit, Zenon
<1>3. /\ drawn' = drawn + 1 /\ frame' = buf
      /\ \/ rows' = A \o R /\ lineCount' = fit.count /\ tracing' = "ended"
         \/ rows' = rows /\ lineCount' = lineCount /\ tracing' = "error"
         \/ rows' = A /\ lineCount' = fit.count /\ tracing' = "error"
      /\ gone' = Screen!Larger(gone, Len(rows') + 1 - h)
  BY <1>1, <1>2, <1>6, FlushDraws, Zenon
<1>7. drawn' \in Nat /\ drawn' \in 0..(MaxFrames + 1)
  <2>1. drawn <= MaxFrames
    BY <1>2, Zenon DEF ScreenInv, FrameInv
  <2> QED
    BY <1>3, <1>5, <2>1
<1>8. R \in Seq(ScreenRows)
  BY <1>4, <1>5, <1>7, RowsTyped
<1>9. gone \in 0..Len(rows) /\ rows \in Seq(ScreenRows) /\ gone <= terminal.above /\ gone \in Nat
  <2>1. gone \in 0..Len(rows) /\ rows \in Seq(ScreenRows)
    BY DEF ScreenInv, ScreenType
  <2>2. gone <= terminal.above
    BY <1>2, Zenon DEF ScreenInv, FrameInv
  <2> QED
    BY <2>1, <2>2
<1>10. /\ frame' \in Frames \cup {<<>>} /\ terminal' \in Sizes
       /\ tracing' \in {"on", "ended", "error"} /\ tracing' # "on"
       /\ lineCount' \in Nat
  BY <1>2, <1>3, <1>4, <1>5, <1>6
<1>11. A \o R \in Seq(ScreenRows) /\ Len(A \o R) = terminal.above + Len(R) /\ Len(R) \in Nat
  <2>1. /\ A \o R \in Seq(ScreenRows) /\ Len(A \o R) = Len(A) + Len(R)
    BY <1>5, <1>8, ConcatProperties, Zenon
  <2>2. Len(R) \in Nat
    BY <1>8
  <2> QED
    BY <1>5, <2>1, <2>2
<1> HIDE DEF w, h, A, R, fit
<1>12. rows' \in Seq(ScreenRows)
  BY <1>3, <1>5, <1>9, <1>11, Zenon
<1>13. gone' \in 0..Len(rows')
  <2> DEFINE l == Len(rows')
  <2>1. l = terminal.above + Len(R) \/ l = Len(rows) \/ l = terminal.above
    BY <1>3, <1>5, <1>11, Zenon
  <2>2. gone' = Screen!Larger(gone, l + 1 - h)
    BY <1>3
  <2> HIDE DEF l
  <2>3. gone' \in 0..l
    <3>1. CASE l = terminal.above + Len(R)
      BY <1>5, <1>9, <1>11, <2>2, <3>1 DEF Screen!Larger
    <3>2. CASE l = Len(rows)
      BY <1>5, <1>9, <2>2, <3>2 DEF Screen!Larger
    <3>3. CASE l = terminal.above
      BY <1>5, <1>9, <2>2, <3>3 DEF Screen!Larger
    <3> QED
      BY <2>1, <3>1, <3>2, <3>3
  <2> QED
    BY <2>3 DEF l
<1>14. ScreenType'
  BY <1>7, <1>10, <1>12, <1>13, Zenon DEF ScreenType
<1>15. FrameInv'
  BY <1>10, Zenon DEF FrameInv
<1>16. tracing' = "ended" =>
         rows' = AboveAt(terminal'.above) \o RowsAt(terminal'.width, drawn', frame')
  <2>1. tracing' = "ended" => rows' = A \o R
    BY <1>3
  <2>2. A = AboveAt(terminal'.above) /\ R = RowsAt(terminal'.width, drawn', frame')
    BY <1>2, <1>3, Zenon DEF A, R, w
  <2> QED
    BY <2>1, <2>2, Zenon
<1> QED
  BY <1>14, <1>15, <1>16, Zenon DEF ScreenInv

\* Every step keeps the invariant.
LEMMA ScreenStep ==
  ASSUME Screen!ConstantsTyped, ScreenInv, [Screen!Next]_Screen!screenVars
  PROVE  ScreenInv'
<1>1. CASE Screen!Draw
  BY <1>1, DrawStep
<1>2. CASE Screen!PrintAndExit
  BY <1>2, PrintAndExitStep
<1>3. CASE UNCHANGED Screen!screenVars
  BY <1>3, Zenon DEF Screen!screenVars, ScreenInv, ScreenType, FrameInv
<1> QED
  BY <1>1, <1>2, <1>3 DEF Screen!Next

\* The type invariant follows.
LEMMA ScreenTypeShown == ScreenInv => Screen!TypeOK
BY Zenon DEF ScreenInv, ScreenType, Screen!TypeOK

\* One frame is shown.
LEMMA ScreenShown ==
  ASSUME Screen!ConstantsTyped, ScreenInv
  PROVE  Screen!OneFrameShown
<1>1. frame \in Seq(Nat) /\ terminal \in Sizes
  BY ScreenConstants DEF ScreenInv, ScreenType
<1>2. Screen!Shown = IF tracing = "ended" THEN frame
                     ELSE CutAt(terminal.width, terminal.height, frame)
  BY <1>1, ShownNamed
<1>3. /\ Screen!Above = AboveAt(terminal.above)
      /\ Screen!RowsOf(drawn, Screen!Shown) = RowsAt(terminal.width, drawn, Screen!Shown)
  BY RowsNamed, Zenon
<1>4. CASE tracing = "on"
  <2>1. Screen!Shown = CutAt(terminal.width, terminal.height, frame)
    BY <1>2, <1>4
  <2>2. rows = AboveAt(terminal.above)
                 \o RowsAt(terminal.width, drawn, CutAt(terminal.width, terminal.height, frame))
    BY <1>4, Zenon DEF ScreenInv, FrameInv
  <2> QED
    BY <1>3, <2>1, <2>2, Zenon DEF Screen!OneFrameShown
<1>5. CASE tracing = "ended"
  <2>1. Screen!Shown = frame
    BY <1>2, <1>5
  <2>2. rows = AboveAt(terminal.above) \o RowsAt(terminal.width, drawn, frame)
    BY <1>5, Zenon DEF ScreenInv
  <2> QED
    BY <1>3, <2>1, <2>2, Zenon DEF Screen!OneFrameShown
<1>6. CASE tracing = "error"
  BY <1>6, Zenon DEF Screen!OneFrameShown
<1> QED
  BY <1>4, <1>5, <1>6 DEF ScreenInv, ScreenType

-----------------------------------------------------------------------------
(* All parts: one of them runs, and the others stand still.                *)

\* The part that runs takes its own steps and the others stand still.
LEMMA OnePartRuns ==
  ASSUME [Next]_vars
  PROVE  /\ part' = part
         /\ IF part = "history" THEN [History!Next]_History!historyVars
            ELSE UNCHANGED History!historyVars
         /\ IF part = "state" THEN [State!Next]_State!stateVars ELSE UNCHANGED State!stateVars
         /\ IF part = "endpoint" THEN [Endpoint!Next]_Endpoint!endpointVars
            ELSE UNCHANGED Endpoint!endpointVars
         /\ IF part = "rules" THEN [Rules!Next]_Rules!rulesVars ELSE UNCHANGED Rules!rulesVars
         /\ IF part = "list" THEN [List!Next]_List!listVars ELSE UNCHANGED List!listVars
         /\ IF part = "poll" THEN [Poll!Next]_Poll!pollVars ELSE UNCHANGED Poll!pollVars
         /\ IF part = "screen" THEN [Screen!Next]_Screen!screenVars
            ELSE UNCHANGED Screen!screenVars
<1> USE DEF History!historyVars, State!stateVars, Endpoint!endpointVars, Rules!rulesVars,
            historyVars, stateVars, endpointVars, rulesVars, List!listVars, Poll!pollVars,
            Screen!screenVars, listVars, pollVars, screenVars
<1>1. CASE NextList
  BY <1>1 DEF NextList
<1>2. CASE NextHistory
  BY <1>2 DEF NextHistory
<1>3. CASE NextState
  BY <1>3 DEF NextState
<1>4. CASE NextEndpoint
  BY <1>4 DEF NextEndpoint
<1>5. CASE NextRules
  BY <1>5 DEF NextRules
<1>6. CASE UNCHANGED vars
  BY <1>6 DEF vars
<1>7. CASE NextPoll
  BY <1>7 DEF NextPoll
<1>8. CASE NextScreen
  BY <1>8 DEF NextScreen
<1> QED
  BY <1>1, <1>2, <1>3, <1>4, <1>5, <1>6, <1>7, <1>8 DEF Next

\* The part that runs keeps its invariant.
PartsInv ==
  /\ part \in Parts
  /\ part = "list" => ListInv
  /\ part = "poll" => PollInv
  /\ part = "history" => HistoryInv
  /\ part = "state" => StateInv
  /\ part = "endpoint" => EndpointInv
  /\ part = "rules" => RulesInv
  /\ part = "screen" => ScreenInv

\* All parts together.
LEMMA PartsInvariant == Spec => []PartsInv
<1>1. Init => PartsInv
  BY ConstantsAssumption, ListInit, PollInit, HistoryInit, StateInit, EndpointInit, RulesInit,
     ScreenInit, Zenon
  DEF Init, InitList, InitPoll, InitHistory, InitState, InitEndpoint, InitRules, InitScreen,
      PartsInv
<1>2. ASSUME PartsInv, [Next]_vars PROVE PartsInv'
  <2>1. part' = part /\ part' \in Parts
    BY <1>2, OnePartRuns DEF PartsInv
  <2>2. part = "list" => ListInv'
    BY <1>2, ConstantsAssumption, OnePartRuns, ListStep, Zenon DEF PartsInv
  <2>3. part = "poll" => PollInv'
    BY <1>2, OnePartRuns, PollStep, Zenon DEF PartsInv
  <2>4. part = "history" => HistoryInv'
    BY <1>2, ConstantsAssumption, OnePartRuns, HistoryStep, Zenon DEF PartsInv
  <2>5. part = "state" => StateInv'
    BY <1>2, ConstantsAssumption, OnePartRuns, StateStep, Zenon DEF PartsInv
  <2>6. part = "endpoint" => EndpointInv'
    BY <1>2, ConstantsAssumption, OnePartRuns, EndpointStep, Zenon DEF PartsInv
  <2>7. part = "rules" => RulesInv'
    BY <1>2, ConstantsAssumption, OnePartRuns, RulesStep, Zenon DEF PartsInv
  <2>8. part = "screen" => ScreenInv'
    BY <1>2, ConstantsAssumption, OnePartRuns, ScreenStep, Zenon DEF PartsInv
  <2> QED
    BY <2>1, <2>2, <2>3, <2>4, <2>5, <2>6, <2>7, <2>8, Zenon DEF PartsInv
<1> QED
  BY <1>1, <1>2, PTL DEF Spec

\* Whatever part runs, its state stays one of the states that its module
\* describes, for all commands, histories, endpoints, rules, terminals and
\* frames.
THEOREM TypesKept == Spec => []TypeOK
<1>1. PartsInv => TypeOK
  <2> SUFFICES ASSUME PartsInv PROVE TypeOK
    OBVIOUS
  <2>1. part = "list" => List!TypeOK
    BY ConstantsAssumption, ListTypeShown, Zenon DEF PartsInv
  <2>2. part = "poll" => Poll!TypeOK
    BY Zenon DEF PartsInv, PollInv
  <2>3. part = "history" => History!TypeOK
    BY DEF PartsInv, HistoryInv, PlaceInv, History!TypeOK
  <2>4. part = "state" => State!TypeOK
    BY Zenon DEF PartsInv, StateInv
  <2>5. part = "endpoint" => Endpoint!TypeOK
    BY ConstantsAssumption, EndpointTypeShown, Zenon DEF PartsInv
  <2>6. part = "rules" => Rules!TypeOK
    BY Zenon DEF PartsInv, RulesInv
  <2>7. part = "screen" => Screen!TypeOK
    BY ScreenTypeShown, Zenon DEF PartsInv
  <2>8. part \in Parts
    BY DEF PartsInv
  <2> QED
    BY <2>1, <2>2, <2>3, <2>4, <2>5, <2>6, <2>7, <2>8 DEF TypeOK, Parts
<1> QED
  BY <1>1, PartsInvariant, PTL

\* A list command has printed the server's rows in their order, each once and
\* no more than its limit, none missing when it ends well, in one list with
\* its header above it, whatever the pages are and wherever they fail. And
\* under what stood on the terminal there is one frame of workflow trace, the
\* last one, as much of it as fits: for any terminal wider than one column,
\* any frames, and any number of them.
THEOREM OutputIsReadable == Spec => []OutputReadable
<1>1. PartsInv => OutputReadable
  BY ConstantsAssumption, ListShown, ScreenShown, Zenon DEF PartsInv, OutputReadable
<1> QED
  BY <1>1, PartsInvariant, PTL

\* A command that waits for an activity or a nexus operation ends with the
\* outcome, with an interrupt if there was one, or with an error of the
\* server, and never because one of its requests has expired. That it does
\* end is left to TLC.
THEOREM VerdictsAreTrue == Spec => [](part = "poll" => Poll!TellsWhatHappened)
<1>1. PartsInv => (part = "poll" => Poll!TellsWhatHappened)
  BY Zenon DEF PartsInv, PollInv
<1> QED
  BY <1>1, PartsInvariant, PTL

\* workflow execute, result and show, beside the other parts: what is printed
\* is the whole history in its order, and the result is that of the run that is
\* not continued as new.
THEOREM ResultsAreShown == Spec => []LastRunShown
<1>1. PartsInv => LastRunShown
  BY HistoryShown, Zenon DEF PartsInv, LastRunShown
<1> QED
  BY <1>1, PartsInvariant, PTL

\* workflow trace, beside the other parts: its states say what the histories
\* say, whatever the pace of its two jobs.
THEOREM StatesAreShown == Spec => []StateMatchesHistory
<1>1. PartsInv => StateMatchesHistory
  BY ConstantsAssumption, StatesShown, Zenon DEF PartsInv, StateMatchesHistory
<1> QED
  BY <1>1, PartsInvariant, PTL

\* Endpoints and versioning rules, beside the other parts, are changed as
\* they were when last looked at, and an update leaves what it does not name.
THEOREM ChangesAreSeen == Spec => ChangedAsSeen
<1> DEFINE Inv == /\ part = "endpoint" => EndpointInv
                  /\ part = "rules" => RulesInv
<1>1. Init => Inv
  BY ConstantsAssumption, EndpointInit, RulesInit DEF Init, InitEndpoint, InitRules
<1>2. Init => Endpoint!Record!Init
  BY ConstantsAssumption
  DEF Init, InitEndpoint, Endpoint!ConstantsTyped, Endpoint!Init, Endpoint!Record!Init,
      Endpoint!Process
<1>3. Init => Rules!Record!Init
  BY ConstantsAssumption DEF Init, InitRules, Rules!ConstantsTyped, Rules!Init, Rules!Record!Init
<1>4. Inv /\ [Next]_vars => Inv'
  BY ConstantsAssumption, OnePartRuns, EndpointStep, RulesStep
<1>5. Inv /\ [Next]_vars => [Endpoint!Record!Next]_<<endpoint, held, maker>>
  BY ConstantsAssumption, OnePartRuns, EndpointStepSeen DEF Endpoint!endpointVars
<1>6. Inv /\ [Next]_vars => [Endpoint!UnnamedStays]_Endpoint!endpointVars
  BY ConstantsAssumption, OnePartRuns, EndpointStepKeeps
<1>7. Inv /\ Inv' /\ [Next]_vars => [Rules!Record!Next]_<<rules, shown, ruler>>
  BY OnePartRuns, RulesStepSeen DEF Rules!rulesVars
<1> QED
  BY <1>1, <1>2, <1>3, <1>4, <1>5, <1>6, <1>7, PTL
  DEF Spec, ChangedAsSeen, Endpoint!ChangedAsSeen, Endpoint!Record!Spec, Rules!ChangedAsShown,
      Rules!Record!Spec

==============================================================================
