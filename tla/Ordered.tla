------------------------------- MODULE Ordered -------------------------------
(***************************************************************************)
(* What comes out in order: the rows of a query with ORDER BY, or what a   *)
(* loop visits one after the other.  SetToSortSeq of the community modules *)
(* says the same by way of SortSeq, which TLAPS takes for a black box.     *)
(***************************************************************************)
EXTENDS Naturals, FiniteSets

(* No element twice, and none before one it has to come after.               *)
Arranged(q, before) ==
    \A i, j \in DOMAIN q : i < j => q[i] # q[j] /\ <<q[j], q[i]>> \notin before

(* The elements of S in order.  Which of two comes first is left open where  *)
(* `before' does not say.                                                    *)
InOrder(S, before) ==
    CHOOSE q \in [1 .. Cardinality(S) -> S] : Arranged(q, before)
=============================================================================
