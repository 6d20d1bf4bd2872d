----------------------------- MODULE MCLiveness -----------------------------
(***************************************************************************)
(* Instances of Payments for liveness, where symmetry would be unsound:    *)
(* orders are numbers and TLC follows only the behaviours that mint them   *)
(* in sequence.  The ones it leaves out differ by a permutation of the ids.*)
(***************************************************************************)
EXTENDS Payments

OwnProcess == [w \in Workers |-> w]

MintedInSequence ==
  \A o \in Orders : rail[o] # "unused" => \A n \in Orders : n < o => rail[n] # "unused"
=============================================================================
