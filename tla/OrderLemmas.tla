---------------------------- MODULE OrderLemmas ----------------------------
(***************************************************************************)
(* Greatest and least elements, for the proofs that argue from a peak, or  *)
(* from the first place where something goes wrong.                        *)
(***************************************************************************)
EXTENDS Integers, FiniteSetTheorems, TLAPS

\* A finite set has a greatest element in a total order, given as a relation.
LEMMA FiniteMaximum ==
    ASSUME NEW S, IsFiniteSet(S), S # {}, NEW leq,
           \A x, y \in S : <<x, y>> \in leq \/ <<y, x>> \in leq,
           \A x, y, z \in S : <<x, y>> \in leq /\ <<y, z>> \in leq => <<x, z>> \in leq
    PROVE  \E m \in S : \A x \in S : <<x, m>> \in leq
  <1> DEFINE HasMax(U) == \E m \in U : \A x \in U : <<x, m>> \in leq
             T == {U \in SUBSET S : U # {} /\ ~HasMax(U)}
             below == StrictSubsetOrdering(S)
  <1>1. SUFFICES ASSUME ~HasMax(S) PROVE FALSE
    OBVIOUS
  <1>2. T \subseteq SUBSET S /\ T # {}
    BY <1>1
  <1>3. IsWellFoundedOn(below, SUBSET S)
    BY FS_StrictSubsetOrderingWellFounded, FS_FiniteSubsetsOfFinite
  <1>4. PICK U \in T : \A V \in T : <<V, U>> \notin below
    <2> HIDE DEF T, below
    <2> QED BY <1>2, <1>3, WFMin
  <1>5. PICK x \in U : TRUE
    BY <1>4
  <1> DEFINE V == U \ {x}
  <1>6. V \in SUBSET S /\ V \subseteq U /\ V # U
    BY <1>4, <1>5
  <1>7. <<V, U>> \in below
    BY <1>4, <1>6 DEF StrictSubsetOrdering
  <1>8. V = {} \/ HasMax(V)
    BY <1>4, <1>6, <1>7
  <1>9. CASE V = {}
    <2>1. \A y \in U : y = x
      BY <1>9
    <2>2. <<x, x>> \in leq
      BY <1>4, <1>5
    <2> QED BY <1>4, <1>5, <2>1, <2>2
  <1>10. CASE HasMax(V)
    <2>1. PICK m \in V : \A y \in V : <<y, m>> \in leq
      BY <1>10
    <2>2. m \in S /\ x \in S /\ U \subseteq S /\ m \in U
      BY <1>4, <1>5, <1>6, <2>1
    <2>3. <<x, x>> \in leq
      BY <2>2
    <2>4. CASE <<x, m>> \in leq
      <3>1. \A y \in U : <<y, m>> \in leq
        BY <2>1, <2>4
      <3> QED BY <1>4, <2>2, <3>1
    <2>5. CASE <<m, x>> \in leq
      <3>1. \A y \in U : <<y, x>> \in leq
        <4> SUFFICES ASSUME NEW y \in U PROVE <<y, x>> \in leq
          OBVIOUS
        <4>1. CASE y = x
          BY <2>3, <4>1
        <4>2. CASE y # x
          <5>1. <<y, m>> \in leq /\ y \in S
            BY <2>1, <2>2, <4>2
          <5> QED BY <2>2, <2>5, <5>1
        <4> QED BY <4>1, <4>2
      <3> QED BY <1>4, <1>5, <3>1
    <2> QED BY <2>2, <2>4, <2>5
  <1> QED BY <1>8, <1>9, <1>10

\* A set of naturals that is not empty has a least element.
LEMMA LeastNatural ==
    ASSUME NEW S \in SUBSET Nat, S # {}
    PROVE  \E m \in S : \A x \in S : m <= x
  <1>1. PICK k \in S : TRUE
    OBVIOUS
  <1> DEFINE B == {x \in S : x <= k}
             leq == {pair \in B \X B : pair[2] <= pair[1]}
  <1>2. IsFiniteSet(B)
    <2>1. 0 \in Int /\ k \in Int
      OBVIOUS
    <2>2. IsFiniteSet(0..k)
      BY <2>1, FS_Interval
    <2>3. ASSUME NEW x \in B PROVE x \in 0..k
      <3>1. x \in Nat /\ x <= k
        OBVIOUS
      <3> QED BY <2>1, <3>1
    <2>4. B \in SUBSET (0..k)
      BY <2>3
    <2> QED BY <2>2, <2>4, FS_Subset
  <1>3. B # {} /\ \A x \in B : x \in Nat
    BY <1>1
  <1>4. \A x, y \in B : <<x, y>> \in leq <=> y <= x
    OBVIOUS
  <1>5. PICK m \in B : \A x \in B : <<x, m>> \in leq
    <2>1. \A x, y \in B : <<x, y>> \in leq \/ <<y, x>> \in leq
      <3> HIDE DEF B, leq
      <3>1. \A x, y \in B : y <= x \/ x <= y
        BY <1>3
      <3> QED BY <1>4, <3>1
    <2>2. \A x, y, z \in B : <<x, y>> \in leq /\ <<y, z>> \in leq => <<x, z>> \in leq
      <3> HIDE DEF B, leq
      <3> QED BY <1>3, <1>4
    <2> HIDE DEF B, leq
    <2> QED BY <1>2, <1>3, <2>1, <2>2, FiniteMaximum
  <1>6. \A x \in B : m <= x
    BY <1>4, <1>5
  <1>7. ASSUME NEW x \in S PROVE m <= x
    BY <1>1, <1>5, <1>6
  <1> QED BY <1>5, <1>7
=============================================================================
