------------------------- MODULE MCArticleLifecycle -------------------------
(* Constants of ArticleLifecycle for model checking. *)
EXTENDS ArticleLifecycle, TLC

CallSymmetry == Permutations(Calls)
=============================================================================
