------------------------------ MODULE MCTrail ------------------------------
(***************************************************************************)
(* Instances of Webhooks for TLC.                                          *)
(***************************************************************************)
EXTENDS Webhooks

\* Whoever tampers makes a row say that money moved.
OneForgery == {MoneyRow}
=============================================================================
