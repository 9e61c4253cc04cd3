----------------------------- MODULE InductionFacts -----------------------------
(***************************************************************************)
(* Induction over the natural numbers as a fact about a set, for proofs    *)
(* about recursive functions: the hypothesis is a set, so a proof that     *)
(* uses it instantiates no operator.                                       *)
(***************************************************************************)
EXTENDS Naturals, FiniteSetsExt, FiniteSetTheorems, WellFoundedInduction, TLAPS

\* A set that holds 0 and with every number the next one holds all of them.
LEMMA NatSetInduction ==
  ASSUME NEW T, 0 \in T, \A n \in Nat : n \in T => n + 1 \in T
  PROVE  \A n \in Nat : n \in T
<1> DEFINE Missing == { 0 .. n : n \in { m \in Nat : m \notin T } }
<1>1. SUFFICES ASSUME Missing # {} PROVE FALSE
  OBVIOUS
<1>2. Missing \subseteq FiniteSubsetsOf(Nat)
  <2>1. \A n \in Nat : 0 .. n \subseteq Nat /\ IsFiniteSet(0 .. n)
    BY FS_Interval
  <2> QED
    BY <2>1 DEF FiniteSubsetsOf
<1>3. PICK least \in Missing :
        \A other \in Missing : ~(<< other, least >> \in StrictSubsetOrdering(Nat))
  <2>1. IsWellFoundedOn(StrictSubsetOrdering(Nat), FiniteSubsetsOf(Nat))
    BY FS_StrictSubsetOrderingWellFounded
  <2> HIDE DEF Missing
  <2> QED
    BY <1>1, <1>2, <2>1, WFMin
<1>4. PICK k \in Nat : k \notin T /\ least = 0 .. k
  BY <1>3
<1>5. k # 0 /\ k - 1 \in Nat /\ (k - 1) + 1 = k
  BY <1>4
<1>6. k - 1 \notin T
  BY <1>4, <1>5
<1>7. 0 .. (k - 1) \in Missing
  BY <1>5, <1>6
<1>8. << 0 .. (k - 1), least >> \in StrictSubsetOrdering(Nat)
  <2>1. 0 .. (k - 1) \subseteq 0 .. k /\ k \in 0 .. k /\ k \notin 0 .. (k - 1)
    BY <1>5
  <2> QED
    BY <1>4, <2>1 DEF StrictSubsetOrdering
<1> QED
  BY <1>3, <1>7, <1>8

\* A set of natural numbers that is not empty has a least one.
LEMMA MinOfNats ==
  ASSUME NEW S, S \subseteq Nat, S # {}
  PROVE  Min(S) \in S /\ \A n \in S : Min(S) <= n
<1>1. \E m \in S : \A n \in S : m <= n
  <2>1. SUFFICES ASSUME \A m \in S : \E n \in S : ~(m <= n) PROVE FALSE
    OBVIOUS
  <2> DEFINE Below == { k \in Nat : \A n \in S : k <= n }
  <2>2. 0 \in Below
    OBVIOUS
  <2>3. ASSUME NEW k \in Nat, k \in Below PROVE k + 1 \in Below
    <3>1. k \notin S
      BY <2>1, <2>3
    <3> QED BY <2>3, <3>1
  <2>4. \A k \in Nat : k \in Below
    <3> HIDE DEF Below
    <3> QED BY <2>2, <2>3, NatSetInduction
  <2>5. PICK n \in S : TRUE
    OBVIOUS
  <2>6. n \in Nat /\ n + 1 \in Below
    BY <2>4, <2>5
  <2> QED BY <2>5, <2>6
<1> QED BY <1>1 DEF Min
================================================================================
