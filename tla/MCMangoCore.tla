----------------------------- MODULE MCMangoCore -----------------------------
(* Instances of MangoCore for TLC.                                           *)
EXTENDS MangoCoreInv, TLC

Symmetry == Permutations(Puts) \cup Permutations(Gets)
=============================================================================
