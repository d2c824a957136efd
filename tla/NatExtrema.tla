----------------------------- MODULE NatExtrema -----------------------------
(* Least and greatest elements of sets of natural numbers, which the proofs *)
(* about lock orders, pages and logs rest on.                               *)
EXTENDS Naturals, WellFoundedInduction, TLAPS

(* The order of Nat as a well-founded relation. *)
LEMMA NatOrder ==
  \E R : IsWellFoundedOn(R, Nat) /\ \A x, y \in Nat : x < y => <<x, y>> \in R
<1>1. \A x, y \in Nat : x < y => <<x, y>> \in OpToRel(<, Nat)
  BY DEF OpToRel
<1> QED
  BY <1>1, NatLessThanWellFounded

(* A set of naturals that is not empty has a least element. *)
LEMMA LeastNat ==
  ASSUME NEW T, T \subseteq Nat, T # {}
  PROVE  \E x \in T : \A y \in T : x <= y
<1>1. PICK R : IsWellFoundedOn(R, Nat) /\ \A x, y \in Nat : x < y => <<x, y>> \in R
  BY NatOrder
<1>2. IsWellFoundedOn(R, Nat)
  BY <1>1
<1>3. PICK x \in T : \A y \in T : ~(<<y, x>> \in R)
  BY <1>2, WFMin, Zenon
<1>4. ASSUME NEW y \in T PROVE x <= y
  <2>1. x \in Nat /\ y \in Nat /\ ~(y < x)
    BY <1>1, <1>3
  <2> QED
    BY <2>1
<1> QED
  BY <1>4

(* A set of indices that is not empty has a greatest element. *)
LEMMA GreatestIndex ==
  ASSUME NEW n \in Nat, NEW M \in SUBSET (1 .. n), M # {}
  PROVE  \E i \in M : \A j \in M : j <= i
<1> DEFINE T == {n - i : i \in M}
<1>1. \A i \in M : n - i \in Nat
  OBVIOUS
<1>2. T \subseteq Nat
  BY <1>1
<1>3. T # {}
  OBVIOUS
<1>4. PICK x \in T : \A y \in T : x <= y
  <2> HIDE DEF T
  <2> QED BY <1>2, <1>3, LeastNat
<1>5. PICK i \in M : x = n - i
  BY <1>4
<1>6. ASSUME NEW j \in M PROVE j <= i
  <2>1. n - j \in T
    OBVIOUS
  <2>2. n - i <= n - j
    BY <1>4, <1>5, <2>1
  <2> QED
    BY <1>5, <2>2
<1> QED
  BY <1>6
=============================================================================
