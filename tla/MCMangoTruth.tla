---------------------------- MODULE MCMangoTruth ----------------------------
(* Instances of MangoTruth for TLC.                                          *)
EXTENDS MangoTruthInv, TLC

Symmetry == Permutations(Puts)
=============================================================================
