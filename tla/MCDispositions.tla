--------------------------- MODULE MCDispositions ---------------------------
(* Constants of Dispositions for model checking. *)
EXTENDS Dispositions, TLC

(* Task 1 found article 11 and then 12, as results 1 and 2, and task 2      *)
(* found article 11 again, as result 3.  Batches of results 1 and 2 and of  *)
(* results 2 and 3 take the articles in opposite order; the second of them  *)
(* mixes tasks.                                                             *)
MCArticleOf == [r \in Results |-> IF r = 2 THEN 12 ELSE 11]
MCTaskOf    == [r \in Results |-> IF r <= 2 THEN 1 ELSE 2]

RequestSymmetry == Permutations(Requests)
=============================================================================
