------------------------------ MODULE Induction ------------------------------
(***************************************************************************)
(* Induction over the natural numbers, stated over sets instead of         *)
(* predicates, for the proofs about functions defined by recursion.        *)
(***************************************************************************)
EXTENDS Integers, WellFoundedInduction, TLAPS

Less == {p \in Nat \X Nat : p[1] < p[2]}

\* Every set of numbers that is not empty has a least element.
LEMMA LeastNumber ==
    ASSUME NEW T, T \subseteq Nat, T # {}
    PROVE  \E x \in T : \A y \in T : x <= y
  <1>1. Less = OpToRel(<, Nat)
    BY Zenon DEF Less, OpToRel
  <1>2. IsWellFoundedOn(Less, Nat)
    BY <1>1, NatLessThanWellFounded, Zenon
  <1>3. PICK x \in T : \A y \in T : ~ (<<y, x>> \in Less)
    BY <1>2, WFMin, Zenon
  <1>4. ASSUME NEW y \in T PROVE x <= y
    <2>1. x \in Nat /\ y \in Nat /\ ~ (<<y, x>> \in Less)
      BY <1>3
    <2> QED BY <2>1 DEF Less
  <1> QED BY <1>4

\* A set that holds 0 and with every number the next one holds all numbers.
LEMMA SetInduction ==
    ASSUME NEW S, 0 \in S, \A n \in Nat : n \in S => n + 1 \in S
    PROVE  Nat \subseteq S
  <1> SUFFICES ASSUME Nat \ S # {} PROVE FALSE
    OBVIOUS
  <1>1. PICK n \in Nat \ S : \A m \in Nat \ S : n <= m
    BY LeastNumber
  <1>2. n # 0 /\ n - 1 \in Nat /\ n - 1 \in S
    BY <1>1
  <1> QED BY <1>1, <1>2

=============================================================================
