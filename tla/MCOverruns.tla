----------------------------- MODULE MCOverruns -----------------------------
(***************************************************************************)
(* An instance of Overruns for TLC: every worker is a process of its own,  *)
(* and workers and order ids are interchangeable.                          *)
(***************************************************************************)
EXTENDS Overruns, TLC

OwnProcess == [w \in Workers |-> w]

NameSymmetry == Permutations(Orders) \cup Permutations(Workers)
=============================================================================
