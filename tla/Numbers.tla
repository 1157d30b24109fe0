------------------------------ MODULE Numbers ------------------------------
(***************************************************************************)
(* Least and greatest elements of sets of natural numbers, for the proofs  *)
(* about event numbers, steps of plans and processes.                      *)
(***************************************************************************)
EXTENDS Integers, FiniteSetsExt, WellFoundedInduction, TLAPS

\* A set of numbers has a least element.
LEMMA LeastNumber ==
  ASSUME NEW S \in SUBSET Nat, NEW x \in S
  PROVE  Min(S) \in S /\ Min(S) <= x
<1> DEFINE R == {ss \in Nat \X Nat : ss[1] < ss[2]}
<1>1. OpToRel(<, Nat) = R
  BY DEF OpToRel
<1>2. IsWellFoundedOn(R, Nat)
  BY NatLessThanWellFounded, <1>1, Zenon
<1>3. PICK y \in S : \A z \in S : <<z, y>> \notin R
  BY <1>2, WFMin
<1>4. \A z \in S : y <= z
  <2> SUFFICES ASSUME NEW z \in S, z < y PROVE FALSE
    OBVIOUS
  <2>1. <<z, y>> \in R
    OBVIOUS
  <2> QED BY <2>1, <1>3
<1> QED BY <1>4 DEF Min

\* The least of an interval is where it begins.
LEMMA LeastOfInterval ==
  ASSUME NEW m \in Nat, NEW n \in Nat, m <= n
  PROVE  Min(m..n) = m
<1>1. m..n \in SUBSET Nat /\ m \in m..n
  OBVIOUS
<1> QED BY <1>1, LeastNumber

\* The greatest of an interval is where it ends.
LEMMA GreatestOfInterval ==
  ASSUME NEW n \in Nat
  PROVE  Max(1..(n + 1)) = n + 1
<1>1. \E x \in 1..(n + 1) : \A y \in 1..(n + 1) : x >= y
  OBVIOUS
<1> DEFINE m == Max(1..(n + 1))
<1>2. m \in 1..(n + 1) /\ \A y \in 1..(n + 1) : m >= y
  BY <1>1 DEF Max
<1> HIDE DEF m
<1>3. m = n + 1
  BY <1>2
<1> QED BY <1>3 DEF m
=============================================================================
