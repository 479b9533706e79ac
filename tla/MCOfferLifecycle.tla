-------------------------- MODULE MCOfferLifecycle --------------------------
(* Instances of OfferLifecycle. *)
EXTENDS OfferLifecycle, TLC

MCOfferSymmetry == Permutations(Workers) \cup Permutations(OfferIds) \cup Permutations(Sellers)
=============================================================================
