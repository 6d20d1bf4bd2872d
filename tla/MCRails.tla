------------------------------ MODULE MCRails ------------------------------
(***************************************************************************)
(* Instances of RailCalls for TLC.                                         *)
(***************************************************************************)
EXTENDS RailCalls, TLC

\* Mandates are interchangeable.
NameSymmetry == Permutations(Mandates)
=============================================================================
