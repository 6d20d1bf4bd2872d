----------------------------- MODULE MoneyPath ------------------------------
(***************************************************************************)
(* What gateway/payments.py and gateway/recovery.py keep to however many   *)
(* calls pay for one Payment Mandate at once, on any rail, and whether or  *)
(* not an attempt outlasts its lease: orders stay with their mandate, the  *)
(* budget counts only a mandate that was charged, and a captured receipt   *)
(* is written only for one that was counted.  OneCharge is what is added   *)
(* while a mandate is in one call at a time: here a mandate may be charged *)
(* again, and one receipt may be written over another.                     *)
(***************************************************************************)
EXTENDS Identifiers

VARIABLES charge,    \* the orders charged for each mandate
          booked,    \* mandates counted against their budget
          outcome    \* "open", or the status of the receipt

vars == <<charge, booked, outcome>>

Init ==
  /\ charge = [m \in Mandates |-> {}]
  /\ booked = {}
  /\ outcome = [m \in Mandates |-> "open"]

Charge(m) ==
  /\ \E o \in Orders :
       /\ \A n \in Mandates : o \notin charge[n]
       /\ charge' = [charge EXCEPT ![m] = @ \cup {o}]
  /\ UNCHANGED <<booked, outcome>>

Book(m) ==
  /\ charge[m] # {}
  /\ booked' = booked \cup {m}
  /\ UNCHANGED <<charge, outcome>>

\* The UPDATE of finalise, which does not ask what it replaces.
ConfirmReceipt(m) ==
  /\ m \in booked
  /\ outcome' = [outcome EXCEPT ![m] = "captured"]
  /\ UNCHANGED <<charge, booked>>

RefuseReceipt(m) ==
  /\ outcome' = [outcome EXCEPT ![m] = "failed"]
  /\ UNCHANGED <<charge, booked>>

Next == \E m \in Mandates :
  Charge(m) \/ Book(m) \/ ConfirmReceipt(m) \/ RefuseReceipt(m)

Spec == Init /\ [][Next]_vars
=============================================================================
