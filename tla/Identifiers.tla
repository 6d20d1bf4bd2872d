---------------------------- MODULE Identifiers ----------------------------
(***************************************************************************)
(* The names the ledger and the rail share.                                *)
(***************************************************************************)
CONSTANTS Mandates,    \* Payment Mandates, i.e. idempotency keys
          Orders,      \* order ids the rail can mint
          None         \* "no value"

ASSUME NoneAssumption == None \notin Mandates /\ None \notin Orders
=============================================================================
