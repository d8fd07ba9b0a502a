----------------------------- MODULE LeastNumber -----------------------------
(***************************************************************************)
(* The least-number principle, in a form that can be cited without an      *)
(* operator: what holds of some number has a least number of which it      *)
(* holds.  It replaces induction in the proofs about this project.         *)
(***************************************************************************)
EXTENDS Integers, FiniteSetTheorems, TLAPS

\* Every set of numbers that is not empty has a least element: the intervals
\* that end in its elements are ordered by inclusion, which is well-founded.
LEMMA LeastElement ==
  ASSUME NEW T \in SUBSET Nat, T # {}
  PROVE  \E least \in T : \A n \in T : least <= n
<1> DEFINE R == StrictSubsetOrdering(Nat)
           Intervals == {0..n : n \in T}
<1>1. \A n \in Nat : 0..n \subseteq Nat /\ IsFiniteSet(0..n)
  BY FS_Interval
<1>2. Intervals \subseteq FiniteSubsetsOf(Nat) /\ Intervals # {}
  BY <1>1 DEF FiniteSubsetsOf
<1>3. IsWellFoundedOn(R, FiniteSubsetsOf(Nat))
  BY FS_StrictSubsetOrderingWellFounded
<1>4. PICK X \in Intervals : \A Y \in Intervals : ~(<<Y, X>> \in R)
  <2> HIDE DEF Intervals, R
  <2> QED
    BY <1>2, <1>3, WFMin
<1>5. PICK least \in T : X = 0..least
  OBVIOUS
<1>6. ASSUME NEW n \in T, n < least
      PROVE  FALSE
  <2>1. 0..n \subseteq 0..least /\ 0..n \subseteq Nat /\ 0..least \subseteq Nat
    BY <1>6
  <2>2. least \in 0..least /\ least \notin 0..n
    BY <1>6
  <2>3. <<0..n, X>> \in R
    BY <1>5, <2>1, <2>2 DEF R, StrictSubsetOrdering
  <2> QED
    BY <1>4, <2>3
<1> QED
  BY <1>6
=============================================================================
