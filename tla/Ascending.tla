------------------------------- MODULE Ascending -------------------------------
(***************************************************************************)
(* A finite set of numbers as the sequence in which a BTreeMap with these  *)
(* keys is walked.                                                         *)
(***************************************************************************)
EXTENDS Integers, FiniteSets

InOrder(numbers) ==
  [i \in 1..Cardinality(numbers) |->
     CHOOSE n \in numbers : Cardinality({m \in numbers : m < n}) = i - 1]
=============================================================================
