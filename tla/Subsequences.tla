---------------------------- MODULE Subsequences ----------------------------
(***************************************************************************)
(* The elements of a sequence at some of its positions, in their order:    *)
(* what a comprehension with a condition leaves of a list; and their sum.  *)
(* They are defined by counting, without an operator as a parameter, so    *)
(* that they can be reasoned about.                                        *)
(***************************************************************************)
EXTENDS Integers, Sequences, FiniteSets

\* The place of position i among the positions in at.
Place(i, at) == Cardinality({j \in at : j <= i})

Picked(s, at) == [k \in 1..Cardinality(at) |-> s[CHOOSE i \in at : Place(i, at) = k]]

SumAt(s, at) ==
  LET sum[n \in 0..Len(s)] ==
        IF n = 0 THEN 0 ELSE sum[n - 1] + (IF n \in at THEN s[n] ELSE 0)
  IN  sum[Len(s)]

===========================================================================
