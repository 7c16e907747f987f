---------------------------- MODULE Collections ----------------------------
(***************************************************************************)
(* Parts of lists, and numbers summed over a set, in the forms the proofs  *)
(* can reason about.                                                       *)
(***************************************************************************)
EXTENDS Integers, FiniteSets, Sequences

(***************************************************************************)
(* The part of a list the loops of the program make of it: the elements at *)
(* the places of K, in order.  Each goes to the place given by the number  *)
(* of places of K up to its own.                                           *)
(***************************************************************************)
Rank(K, i) == Cardinality({j \in K : j <= i})

Picked(s, K) == [k \in 1..Cardinality(K) |-> s[CHOOSE i \in K : Rank(K, i) = k]]

\* Where v is in a list.
PlacesOf(v, s) == {i \in DOMAIN s : s[i] = v}

(***************************************************************************)
(* The elements of every F[a], each with its a: the sum of the sizes of    *)
(* the F[a] is the size of this set.                                       *)
(***************************************************************************)
Tagged(A, F) == UNION {{a} \X F[a] : a \in A}

Total(A, F) == Cardinality(Tagged(A, F))
=============================================================================
