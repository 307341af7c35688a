------------------------------ MODULE Folding -------------------------------
(***************************************************************************)
(* A loop over a sequence: an accumulator that starts as base and takes    *)
(* the elements in order.  The step is a function on pairs, not an         *)
(* operator, so that facts about every loop can be stated and proved once; *)
(* the folds of the community modules take their steps as operators.       *)
(***************************************************************************)
EXTENDS Integers, Sequences, FiniteSets

Fold(step, base, s) ==
  LET after[n \in 0..Len(s)] == IF n = 0 THEN base ELSE step[<<after[n - 1], s[n]>>]
  IN after[Len(s)]

Plus == [p \in Int \X Int |-> p[1] + p[2]]

SumOf(s) == Fold(Plus, 0, s)

(* How many elements of s are in S. *)
CountIn(s, S) == Cardinality({i \in DOMAIN s : s[i] \in S})
=============================================================================
