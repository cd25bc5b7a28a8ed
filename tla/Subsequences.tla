---------------------------- MODULE Subsequences ----------------------------
(***************************************************************************)
(* The loops over a list that keep some of its items in their order, and   *)
(* the rows of a table in the order of their numbers, as functions that    *)
(* need no recursion.                                                      *)
(***************************************************************************)
EXTENDS Naturals, Sequences, FiniteSets

\* A set of numbers as an ascending sequence.
InOrder(ids) ==
  [n \in 1 .. Cardinality(ids) |->
     CHOOSE id \in ids : Cardinality({other \in ids : other < id}) = n - 1]

\* What a sequence has at some of its places.
EntriesAt(s, places) ==
  LET order == InOrder(places)
  IN  [n \in 1 .. Cardinality(places) |-> s[order[n]]]
=============================================================================
