---------------------------- MODULE MCContainer ----------------------------
(***************************************************************************)
(* A small instance of Container.                                          *)
(***************************************************************************)
EXTENDS Container, TLC

MCSymmetry == Permutations(Call) \cup Permutations(Configured)
=============================================================================
