---------------------------- MODULE InductionLemmas ----------------------------
(***************************************************************************)
(* Induction, for the proof modules.  The induction theorems of the        *)
(* library take an operator as a parameter, which the provers cannot       *)
(* instantiate; what they say of a set can be cited.  A fact is proved of  *)
(* all numbers by looking at a smallest one that it fails for.             *)
(***************************************************************************)
EXTENDS FiniteSetTheorems, WellFoundedInduction, TLAPS

LEMMA LeastFailure ==
  ASSUME NEW T, T \subseteq Nat, T # {}
  PROVE  \E m \in T : \A k \in T : m <= k
<1>1. PICK m \in T : \A k \in T : ~ (<<k, m>> \in OpToRel(<, Nat))
  BY WFMin, NatLessThanWellFounded
<1>2. ASSUME NEW k \in T PROVE m <= k
  <2>1. <<k, m>> \in Nat \X Nat
    OBVIOUS
  <2>2. ~ (k < m)
    BY <1>1, <2>1 DEF OpToRel
  <2> QED
    BY <2>2
<1> QED
  BY <1>2
================================================================================
