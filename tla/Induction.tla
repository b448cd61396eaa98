---------------------------- MODULE Induction ----------------------------
(***************************************************************************)
(* Induction over the natural numbers, for a set in place of a predicate.  *)
(***************************************************************************)
EXTENDS Integers, FiniteSetTheorems, TLAPS

\* Every set of natural numbers has a least element: the intervals from 0 to
\* its members are well-founded by inclusion.
LEMMA Least ==
  ASSUME NEW S \in SUBSET Nat, S # {}
  PROVE  \E x \in S : \A y \in S : x <= y
<1> DEFINE Up == {0 .. k : k \in S}
<1>1. IsWellFoundedOn(StrictSubsetOrdering(Nat), FiniteSubsetsOf(Nat))
  BY FS_StrictSubsetOrderingWellFounded
<1>2. \A k \in S : 0 .. k \in FiniteSubsetsOf(Nat)
  <2> TAKE k \in S
  <2>1. 0 \in Int /\ k \in Int /\ 0 .. k \in SUBSET Nat
    OBVIOUS
  <2>2. IsFiniteSet(0 .. k)
    BY <2>1, FS_Interval
  <2> QED
    BY <2>1, <2>2 DEF FiniteSubsetsOf
<1>3. Up \subseteq FiniteSubsetsOf(Nat) /\ Up # {}
  BY <1>2
<1> HIDE DEF Up
<1>4. PICK u \in Up : \A v \in Up : ~(<<v, u>> \in StrictSubsetOrdering(Nat))
  BY <1>1, <1>3, WFMin
<1> USE DEF Up
<1>5. PICK x \in S : u = 0 .. x
  OBVIOUS
<1>6. ASSUME NEW y \in S PROVE x <= y
  <2>1. ~(<<0 .. y, 0 .. x>> \in StrictSubsetOrdering(Nat))
    BY <1>4, <1>5
  <2>2. SUFFICES ASSUME y < x PROVE FALSE
    OBVIOUS
  <2>3. 0 .. y \subseteq 0 .. x /\ x \in 0 .. x /\ x \notin 0 .. y
    BY <2>2
  <2> QED
    BY <2>1, <2>3 DEF StrictSubsetOrdering
<1> QED
  BY <1>5, <1>6

\* A set with 0 and with the successors of its members is all of them.
LEMMA Induct ==
  ASSUME NEW S \in SUBSET Nat, 0 \in S, \A n \in S : n + 1 \in S
  PROVE  S = Nat
<1>1. SUFFICES ASSUME Nat \ S # {} PROVE FALSE
  OBVIOUS
<1>2. PICK x \in Nat \ S : \A y \in Nat \ S : x <= y
  BY <1>1, Least
<1>3. x - 1 \in S
  BY <1>2
<1>4. (x - 1) + 1 \in S
  BY <1>3
<1> QED
  BY <1>2, <1>4
============================================================================
