----------------------------- MODULE OneCharge ------------------------------
(***************************************************************************)
(* What gateway/payments.py promises of each Payment Mandate, without      *)
(* attempts, leases, probes or recovery: at most one order is ever charged,*)
(* the budget counts it only after that, one receipt is issued, a captured *)
(* one only for booked money, and once there is a receipt nothing moves.   *)
(***************************************************************************)
EXTENDS Identifiers

VARIABLES charge,    \* the orders charged for each mandate
          booked,    \* mandates counted against their budget
          outcome    \* "open", or the status of the receipt

vars == <<charge, booked, outcome>>

Init ==
  /\ charge = [m \in Mandates |-> {}]
  /\ booked = {}
  /\ outcome = [m \in Mandates |-> "open"]

Charge(m) ==
  /\ outcome[m] = "open"
  /\ charge[m] = {}
  /\ \E o \in Orders :
       /\ \A n \in Mandates : o \notin charge[n]
       /\ charge' = [charge EXCEPT ![m] = {o}]
  /\ UNCHANGED <<booked, outcome>>

Book(m) ==
  /\ outcome[m] = "open"
  /\ charge[m] # {}
  /\ booked' = booked \cup {m}
  /\ UNCHANGED <<charge, outcome>>

ConfirmReceipt(m) ==
  /\ outcome[m] = "open"
  /\ m \in booked
  /\ outcome' = [outcome EXCEPT ![m] = "captured"]
  /\ UNCHANGED <<charge, booked>>

RefuseReceipt(m) ==
  /\ outcome[m] = "open"
  /\ outcome' = [outcome EXCEPT ![m] = "failed"]
  /\ UNCHANGED <<charge, booked>>

Next == \E m \in Mandates :
  Charge(m) \/ Book(m) \/ ConfirmReceipt(m) \/ RefuseReceipt(m)

Spec == Init /\ [][Next]_vars
=============================================================================
