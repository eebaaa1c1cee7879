---------------------------- MODULE NaturalFacts ----------------------------
(* Facts about sets of naturals that the proofs share. *)
EXTENDS Integers, FiniteSetTheorems, WellFoundedInduction, TLAPS

\* Every nonempty set of naturals has a least element.
LEMMA LeastNatural ==
    ASSUME NEW T \in SUBSET Nat, T # {}
    PROVE  \E n \in T : \A m \in T : n <= m
<1> DEFINE R == {ss \in Nat \X Nat : ss[1] < ss[2]}
<1>0. IsWellFoundedOn(R, Nat)
  BY NatLessThanWellFounded DEF OpToRel
<1>1. PICK x \in T : \A y \in T : ~(<<y, x>> \in R)
  <2> HIDE DEF R
  <2> QED BY <1>0, WFMin
<1>2. \A y \in T : y < x => <<y, x>> \in R
  OBVIOUS
<1>3. \A y \in T : ~(y < x)
  BY <1>1, <1>2
<1> QED BY <1>3

\* Every nonempty set of naturals with a bound has a greatest element.
LEMMA GreatestNatural ==
    ASSUME NEW N \in Nat, NEW T \in SUBSET (0..N), T # {}
    PROVE  \E n \in T : \A m \in T : m <= n
<1> DEFINE D == {d \in Nat : N - d \in T}
<1>1. D # {}
  <2>1. PICK b \in T : TRUE
    OBVIOUS
  <2>2. N - b \in D
    OBVIOUS
  <2> QED BY <2>2
<1>2. PICK d \in D : \A e \in D : d <= e
  BY <1>1, LeastNatural
<1>3. \A c \in T : N - c \in D
  OBVIOUS
<1>4. N - d \in T /\ \A c \in T : c <= N - d
  BY <1>2, <1>3
<1> QED BY <1>4

\* Every nonempty finite set of naturals has a greatest element: of the sets without one, a smallest would lose an
\* element and gain one.
LEMMA GreatestOfFinite ==
    ASSUME NEW T \in SUBSET Nat, IsFiniteSet(T), T # {}
    PROVE  \E n \in T : \A m \in T : m <= n
<1> DEFINE Open == {S \in SUBSET T : S # {} /\ \A n \in S : \E m \in S : ~(m <= n)}
<1> DEFINE Sizes == {Cardinality(S) : S \in Open}
<1>1. SUFFICES ASSUME T \in Open PROVE FALSE
  OBVIOUS
<1>2. \A S \in Open : IsFiniteSet(S) /\ Cardinality(S) \in Nat
  BY FS_Subset, FS_CardinalityType
<1>3. Sizes \in SUBSET Nat /\ Sizes # {}
  BY <1>1, <1>2
<1>4. PICK c \in Sizes : \A d \in Sizes : c <= d
  <2> HIDE DEF Sizes
  <2> QED BY <1>3, LeastNatural
<1>5. PICK S \in Open : c = Cardinality(S)
  BY <1>4
<1>6. PICK x \in S : TRUE
  BY <1>5
<1> DEFINE R == S \ {x}
<1>7. Cardinality(R) = c - 1 /\ c \in Nat
  BY <1>2, <1>5, <1>6, FS_RemoveElement
<1>8. R \notin Open
  <2>1. R \in Open => c - 1 \in Sizes
    BY <1>7
  <2> HIDE DEF Sizes, Open
  <2> QED BY <1>4, <1>7, <2>1
<1>9. R # {}
  BY <1>5, <1>6
<1>10. PICK n \in R : \A m \in R : m <= n
  BY <1>8, <1>9
<1>11. x \in Nat /\ n \in Nat /\ \A m \in S : m = x \/ m <= n
  BY <1>10
<1>12. CASE x <= n
  BY <1>5, <1>10, <1>11, <1>12
<1>13. CASE n < x
  <2>1. \A m \in S : m \in Nat /\ m <= x
    BY <1>11, <1>13
  <2> QED BY <1>5, <1>6, <2>1
<1> QED BY <1>11, <1>12, <1>13
=============================================================================
