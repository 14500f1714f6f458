-------------------------------- MODULE Sifting --------------------------------
(***************************************************************************)
(* What a query leaves of a list, in the order of the list: the entries at *)
(* a set of places.  Sequences!SelectSeq by another definition, which can  *)
(* be reasoned about.                                                      *)
(***************************************************************************)
EXTENDS Naturals, Sequences, FiniteSets, Functions

\* How many of places come no later than i.
Upto(places, i) == Cardinality({j \in places : j <= i})

Picked(seq, places) ==
  [k \in 1 .. Cardinality(places) |-> seq[CHOOSE i \in places : Upto(places, i) = k]]

Without(seq, e) == Picked(seq, {i \in DOMAIN seq : seq[i] # e})

\* A set in some order.
LineUp(S) == CHOOSE seq \in [1 .. Cardinality(S) -> S] : IsInjective(seq)
===============================================================================
