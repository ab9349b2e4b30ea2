----------------------------- MODULE NumberFacts -----------------------------
(* Least elements of sets of natural numbers, the choice of Min, and induction *)
(* up to a number with a set in the place of the predicate.                   *)
EXTENDS FiniteSetsExt, WellFoundedInduction, TLAPS

\* A set of natural numbers that is not empty has a least element.
LEMMA LeastNumber ==
    ASSUME NEW T \in SUBSET Nat, T # {}
    PROVE  \E x \in T : \A y \in T : x <= y
  <1> DEFINE R == OpToRel(<, Nat)
  <1>1. IsWellFoundedOn(R, Nat)
    BY NatLessThanWellFounded, Zenon
  <1>2. \A x, y \in Nat : y < x => <<y, x>> \in R
    BY Zenon DEF OpToRel
  <1> HIDE DEF R
  <1>3. PICK x \in T : \A y \in T : ~(<<y, x>> \in R)
    BY <1>1, WFMin
  <1>4. ASSUME NEW y \in T PROVE ~(y < x)
    BY <1>2, <1>3
  <1> QED
    BY <1>4

LEMMA MinNumber ==
    ASSUME NEW T \in SUBSET Nat, T # {}
    PROVE  Min(T) \in T /\ \A y \in T : Min(T) <= y
  BY LeastNumber DEF Min

\* A set with 1 that goes on to the next number has all numbers up to n.
LEMMA InductionTo ==
    ASSUME NEW G, NEW n \in Nat, 1 \in G,
           \A k \in 1 .. n - 1 : k \in G => k + 1 \in G
    PROVE  1 .. n \subseteq G
  <1> DEFINE T == (1 .. n) \ G
  <1> SUFFICES ASSUME T # {} PROVE FALSE
    OBVIOUS
  <1>1. T \in SUBSET Nat
    OBVIOUS
  <1>2. PICK m \in T : \A y \in T : m <= y
    <2> HIDE DEF T
    <2> QED
      BY <1>1, LeastNumber
  <1>3. m \in 1 .. n /\ m # 1
    OBVIOUS
  <1>4. m - 1 \in 1 .. n - 1 /\ m - 1 \notin T
    BY <1>2, <1>3
  <1>5. m - 1 \in G
    BY <1>3, <1>4
  <1> QED
    BY <1>4, <1>5
=============================================================================
