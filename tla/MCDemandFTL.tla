----------------------------- MODULE MCDemandFTL -----------------------------
(* Instances of DemandFTL for TLC; requests are interchangeable.            *)
EXTENDS DemandFTL

Symmetry == Permutations(Rid)
=============================================================================
