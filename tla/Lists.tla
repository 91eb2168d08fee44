-------------------------------- MODULE Lists --------------------------------
(***************************************************************************)
(* What common/list.c leaves of a list when entries are taken out of it    *)
(* while it is gone through: the others, in their order.  The definition   *)
(* is explicit, by the place of an entry among those that stay, so that    *)
(* theorems about the queues can be proved from it.                        *)
(***************************************************************************)
EXTENDS Integers, Sequences, FiniteSets

\* How many of the indices in I are not above i.
Place(I, i) == Cardinality({k \in I : k <= i})

\* The entries of list l with the indices in I.
Kept(l, I) == [n \in 1..Cardinality(I) |-> l[CHOOSE i \in I : Place(I, i) = n]]
==============================================================================
