------------------------------ MODULE MCFrontend ------------------------------
(* Instances of Frontend for TLC.                                            *)
EXTENDS FrontendInv, TLC

Symmetry == Permutations(Requests)
=============================================================================
