------------------------------- MODULE Ordered -------------------------------
(***************************************************************************)
(* Lists made of sets of numbers and of parts of other lists: what a query *)
(* sorts and what a client filters.  The members are counted and none is   *)
(* compared with another by recursion, so that what these lists hold, and  *)
(* in which order, can be proved.                                          *)
(***************************************************************************)
EXTENDS Integers, FiniteSets

(* The members of a finite set, the least first: each stands at the number *)
(* of members up to it.                                                    *)
Ascending(S) ==
  [i \in 1 .. Cardinality(S) |-> CHOOSE x \in S : Cardinality({y \in S : y <= x}) = i]

(* The greatest first.                                                     *)
Descending(S) ==
  LET up == Ascending(S)
  IN  [i \in 1 .. Cardinality(S) |-> up[Cardinality(S) + 1 - i]]

(* What a list holds at some of its places, in its order.                  *)
Kept(s, places) == [i \in 1 .. Cardinality(places) |-> s[Ascending(places)[i]]]
=============================================================================
