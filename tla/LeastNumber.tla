----------------------------- MODULE LeastNumber -----------------------------
(***************************************************************************)
(* Least and greatest elements of sets of natural numbers, from the        *)
(* well-foundedness of < on Nat.                                           *)
(***************************************************************************)
EXTENDS Integers, FiniteSetTheorems, TLAPS

(* A set of numbers has a least one, and a bounded one a greatest.          *)
LEMMA LeastNat ==
  ASSUME NEW S \in SUBSET Nat, S # {}
  PROVE  \E n \in S : \A m \in S : n <= m
<1>1. PICK R : R = OpToRel(<, Nat)
  BY Zenon
<1>2. \A x, y \in Nat : x < y => <<x, y>> \in R
  BY <1>1 DEF OpToRel
<1>3. IsWellFoundedOn(R, Nat)
  BY <1>1, NatLessThanWellFounded, Zenon
<1>4. PICK n \in S : \A y \in S : ~ (<<y, n>> \in R)
  BY <1>3, WFMin
<1>5. \A y \in S : ~(y < n)
  BY <1>2, <1>4
<1> QED
  BY <1>5

(* The greatest number of a set is as far from the bound as can be least.   *)
LEMMA GreatestNat ==
  ASSUME NEW S \in SUBSET Nat, S # {}, NEW b \in Nat, \A n \in S : n <= b
  PROVE  \E n \in S : \A m \in S : n >= m
<1> DEFINE T == {b - n : n \in S}
<1>1. T \in SUBSET Nat /\ T # {}
  <2>1. \A n \in S : b - n \in Nat
    OBVIOUS
  <2>2. \E n \in S : b - n \in T
    OBVIOUS
  <2> QED
    BY <2>1, <2>2
<1>2. PICK t \in T : \A u \in T : t <= u
  BY <1>1, LeastNat
<1>3. PICK n \in S : t = b - n
  OBVIOUS
<1>4. ASSUME NEW m \in S PROVE n >= m
  <2>1. b - n <= b - m
    BY <1>2, <1>3
  <2> QED
    BY <2>1
<1> QED
  BY <1>4

(* A finite set of numbers has a greatest one: a smallest set without one   *)
(* would have one with an element taken out.                                *)
LEMMA GreatestOfFinite ==
  ASSUME NEW S \in SUBSET Int, IsFiniteSet(S), S # {}
  PROVE  \E x \in S : \A y \in S : x >= y
<1> DEFINE HasGreatest(T) == \E x \in T : \A y \in T : x >= y
           B == {n \in Nat : \E T \in SUBSET Int :
                   IsFiniteSet(T) /\ T # {} /\ Cardinality(T) = n /\ ~HasGreatest(T)}
<1> SUFFICES ASSUME ~HasGreatest(S) PROVE FALSE
  OBVIOUS
<1>1. Cardinality(S) \in B
  BY FS_CardinalityType
<1>2. PICK n \in B : \A m \in B : n <= m
  <2> HIDE DEF B
  <2>1. B \in SUBSET Nat /\ B # {}
    BY <1>1 DEF B
  <2> QED
    BY <2>1, LeastNat
<1>3. PICK T \in SUBSET Int :
        IsFiniteSet(T) /\ T # {} /\ Cardinality(T) = n /\ ~HasGreatest(T)
  BY <1>2
<1>4. PICK e \in T : TRUE
  BY <1>3
<1> DEFINE U == T \ {e}
<1>5. IsFiniteSet(U) /\ Cardinality(U) = n - 1 /\ U \in SUBSET Int /\ Cardinality(U) \in Nat
  BY <1>3, <1>4, FS_RemoveElement, FS_CardinalityType
<1>6. U # {}
  <2> SUFFICES ASSUME U = {} PROVE FALSE
    OBVIOUS
  <2>1. T = {e} /\ e \in Int
    BY <1>4
  <2> QED
    BY <1>3, <2>1
<1>7. HasGreatest(U)
  <2>1. n - 1 \notin B
    BY <1>2
  <2> QED
    BY <1>5, <1>6, <2>1
<1>8. PICK x \in U : \A y \in U : x >= y
  BY <1>7
<1>9. x \in Int /\ e \in Int /\ x \in T /\ \A y \in T : y = e \/ y \in U
  BY <1>4
<1>10. CASE x >= e
  BY <1>3, <1>8, <1>9, <1>10
<1>11. CASE e >= x
  BY <1>3, <1>5, <1>8, <1>9, <1>11
<1> QED
  BY <1>9, <1>10, <1>11
================================================================================
