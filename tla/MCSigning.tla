----------------------------- MODULE MCSigning -----------------------------
(***************************************************************************)
(* Instances of Signing for TLC.                                           *)
(***************************************************************************)
EXTENDS Signing, TLC

\* One purchase above the limit.
OneHold == {<<ACart, Max(Prices)>>}

\* Calls are interchangeable.
CallSymmetry == Permutations(Callers)
=============================================================================
