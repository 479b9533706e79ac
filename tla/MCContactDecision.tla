------------------------- MODULE MCContactDecision -------------------------
(* Instances of ContactDecision. *)
EXTENDS ContactDecision, TLC

MCContactSymmetry ==
  Permutations(Workers) \cup Permutations(Admins) \cup Permutations(Customers)
    \cup Permutations(OfferIds)
=============================================================================
