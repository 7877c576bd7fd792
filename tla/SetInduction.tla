------------------------------ MODULE SetInduction -----------------------------
(***************************************************************************)
(* Induction over the natural numbers, stated for a set instead of a       *)
(* predicate.  CallData_proof and Transport_proof use it for recursive     *)
(* functions, Loading_proof for the greatest element of a set.             *)
(***************************************************************************)
EXTENDS Naturals, WellFoundedInduction, TLAPS

\* Induction over the natural numbers, on a set.
LEMMA Induction ==
    ASSUME NEW S, 0 \in S, \A n \in Nat : n \in S => n + 1 \in S
    PROVE  Nat \subseteq S
<1>. DEFINE T == Nat \ S
<1>. SUFFICES ASSUME T # {}
              PROVE  FALSE
  OBVIOUS
<1>1. PICK k \in T : \A l \in T : ~(<<l, k>> \in OpToRel(<, Nat))
  <2>. HIDE DEF T
  <2>1. T \subseteq Nat
    BY DEF T
  <2>. QED
    BY <2>1, WFMin, NatLessThanWellFounded
<1>2. k \in Nat /\ k # 0 /\ k - 1 \in Nat /\ k - 1 < k /\ k - 1 + 1 = k
  OBVIOUS
<1>3. k - 1 \notin T
  BY <1>1, <1>2 DEF OpToRel
<1>. QED
  BY <1>2, <1>3
===============================================================================
