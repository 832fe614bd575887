--------------------------- MODULE MinimumLemmas ---------------------------
(* What Min of the community modules returns for sets of natural numbers.  *)
EXTENDS Naturals, FiniteSetsExt, TLAPS, WellFoundedInduction

\* A nonempty set of naturals has a least element, which Min returns.
LEMMA MinOfNaturals ==
    ASSUME NEW S \in SUBSET Nat, S # {}
    PROVE  Min(S) \in S /\ \A y \in S : Min(S) <= y
<1> DEFINE R == {ss \in Nat \X Nat : ss[1] < ss[2]}
<1>1. IsWellFoundedOn(R, Nat)
    BY NatLessThanWellFounded, Zenon DEF OpToRel
<1>2. \E x \in S : \A y \in S : ~(<<y, x>> \in R)
    BY <1>1, WFMin, Zenon
<1>3. \A x, y \in Nat : ~(<<y, x>> \in R) => x <= y
    OBVIOUS
<1> HIDE DEF R
<1>4. \E x \in S : \A y \in S : x <= y
    BY <1>2, <1>3
<1> QED  BY <1>4, Zenon DEF Min
=============================================================================
