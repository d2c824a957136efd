---------------------------- MODULE MCTaskOutbox ----------------------------
(* Constants of TaskOutbox for model checking. *)
EXTENDS TaskOutbox, TLC

(* Relay runs are interchangeable; task ids are not (batches are ordered). *)
RelaySymmetry == Permutations(Relays)
=============================================================================
