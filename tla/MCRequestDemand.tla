--------------------------- MODULE MCRequestDemand ---------------------------
(* Instances of RequestDemand: two spellings of one item and a second item. *)
EXTENDS RequestDemand, TLC

CONSTANTS n1, n2, n3, k1, k2

TwoItemKey == (n1 :> k1) @@ (n3 :> k2)
OneItemKey == (n1 :> k1) @@ (n2 :> k1)
\* Two keys that hash alike: the advisory lock over-serialises.
TwoHashText == (k1 :> 1) @@ (k2 :> 1)
OneHashText == (k1 :> 1)

MCSymmetry == Permutations(Handlers) \cup Permutations(Customers) \cup Permutations(RequestIds)
=============================================================================
