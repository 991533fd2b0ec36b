--------------------------- MODULE SequenceOperators ---------------------------
(* The few operators on sequences that modules of Answers need. They mean  *)
(* what SequencesExt and SelectSeq mean by them. SequencesExt itself would *)
(* put some hundred definitions before the provers for every instance, and *)
(* the provers know nothing of SelectSeq and of folds.                     *)
EXTENDS Naturals, Sequences

ToSet(s) == {s[i] : i \in DOMAIN s}

Last(s) == s[Len(s)]

Reverse(s) == [i \in 1..Len(s) |-> s[Len(s) + 1 - i]]

InsertAt(s, i, e) == SubSeq(s, 1, i - 1) \o <<e>> \o SubSeq(s, i, Len(s))

RemoveAt(s, i) == SubSeq(s, 1, i - 1) \o SubSeq(s, i + 1, Len(s))

\* The elements that are in a set, in their order.
Filtered(s, set) ==
  LET upTo[n \in 0..Len(s)] ==
        IF n = 0 THEN <<>>
        ELSE IF s[n] \in set THEN Append(upTo[n - 1], s[n]) ELSE upTo[n - 1]
  IN upTo[Len(s)]

\* The first sequence stands at the start of the second.
IsPrefix(s, t) == Len(s) <= Len(t) /\ \A i \in DOMAIN s : s[i] = t[i]
================================================================================
