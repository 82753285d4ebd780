---------------------------- MODULE MCClientDir ----------------------------
(***************************************************************************)
(* ClientDir for TLC.                                                      *)
(***************************************************************************)
EXTENDS ClientDir, TLC

Symmetry == Permutations(Inits)
=============================================================================
