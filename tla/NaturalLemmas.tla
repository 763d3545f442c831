--------------------------- MODULE NaturalLemmas ---------------------------
(***************************************************************************)
(* What the proofs need to know of the natural numbers beyond arithmetic.  *)
(***************************************************************************)
EXTENDS Naturals, WellFoundedInduction, TLAPS

\* A non-empty set of natural numbers has a least element: what makes
\* pending_.begin() the smallest buffered sequence number, and what makes a
\* probing loop stop at a first position.
LEMMA LeastElement ==
    ASSUME NEW T, T \subseteq Nat, T # {}
    PROVE  \E x \in T : \A y \in T : x <= y
<1>1. PICK x \in T : \A y \in T : ~(<<y, x>> \in OpToRel(<, Nat))
  BY NatLessThanWellFounded, WFMin
<1>2. \A y \in T : ~(y < x)
  BY <1>1 DEF OpToRel
<1> QED
  BY <1>2
=============================================================================
