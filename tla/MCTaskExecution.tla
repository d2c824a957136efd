-------------------------- MODULE MCTaskExecution --------------------------
(* Constants of TaskExecution for model checking. *)
EXTENDS TaskExecution, TLC

(* Article 1 has two hits, 2 none, 3 one; the scanner fails on article 4. *)
MCScan == [a \in Articles |-> CASE a = 1 -> 2 [] a = 2 -> 0 [] a = 3 -> 1
                                [] OTHER -> ScanError]

WorkerSymmetry == Permutations(Workers)
=============================================================================
