--------------------------- MODULE MCAdminSession ---------------------------
(* Constants of AdminSession for model checking. *)
EXTENDS AdminSession, TLC

(* A token with a numeric and a text claim that expires at 2, and one with *)
(* a negative user id.                                                     *)
Token(v) == [id |-> [kind |-> "number", val |-> v],
             orgid |-> [kind |-> "text", val |-> 1], exp |-> 2, signed |-> TRUE]
MCTokens == {Token(2), Token(-4)}

Symmetry == Permutations(Codes) \cup Permutations(Requests)
=============================================================================
