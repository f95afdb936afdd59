------------------------------ MODULE MCPageFTL ------------------------------
(* Instances of PageFTL for TLC.  Requests are interchangeable, and so are  *)
(* the keys other than the one an erased spare area reads as, so the safety *)
(* runs may identify states that differ by a permutation of them.          *)
EXTENDS PageFTL, TLC

Symmetry == Permutations(Rid) \cup Permutations(Key \ {ZeroKey})
=============================================================================
