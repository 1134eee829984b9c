------------------------------ MODULE Indexes -------------------------------
(***************************************************************************)
(* The order in which the batcher reads its HashMap of results: by the     *)
(* indexes that the inputs had in the batch, which skip those that failed. *)
(***************************************************************************)
EXTENDS Integers, FiniteSets

\* The elements of a finite set of indexes, in increasing order.
InOrder(S) ==
  CHOOSE e \in [1 .. Cardinality(S) -> S] :
    \A i, j \in DOMAIN e : i < j => e[i] < e[j]
=============================================================================
