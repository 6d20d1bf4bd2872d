---------------------------- MODULE RailContract ----------------------------
(***************************************************************************)
(* What the money path may rely on when it talks to a payment rail: the    *)
(* protocol PaymentRail of gateway/razorpay_client.py.  An order is made   *)
(* for one mandate, is asked to be paid, and the call ends with an answer. *)
(* On a rail whose orders stay payable (paidLate) only the answer that it  *)
(* was paid says anything; otherwise a refusal is final too, and a timeout *)
(* is the one answer that leaves the caller in the dark.                   *)
(***************************************************************************)
EXTENDS Identifiers

VARIABLES paid,      \* the order's money has moved
          owner,     \* the mandate an order was made for
          answer,    \* what the last call to pay an order said
          paidLate   \* the rail leaves orders payable

vars == <<paid, owner, answer, paidLate>>

Refusals == {"declined", "terminal", "unavailable"}
Answers == Refusals \cup {"captured", "timeout"}

Init ==
  /\ paid = [o \in Orders |-> FALSE]
  /\ owner = [o \in Orders |-> None]
  /\ answer = [o \in Orders |-> None]
  /\ paidLate \in BOOLEAN

\* create_order.
Create(o, m) ==
  /\ owner[o] = None
  /\ owner' = [owner EXCEPT ![o] = m]
  /\ UNCHANGED <<paid, answer, paidLate>>

\* complete_test_payment is called.
Ask(o) ==
  /\ owner[o] # None
  /\ answer' = [answer EXCEPT ![o] = "asked"]
  /\ UNCHANGED <<paid, owner, paidLate>>

\* The money moves, which takes somebody to have asked for it.
Pay(o) ==
  /\ answer[o] = "asked" \/ paidLate
  /\ owner[o] # None
  /\ paid' = [paid EXCEPT ![o] = TRUE]
  /\ UNCHANGED <<owner, answer, paidLate>>

\* The call ends, with the money moving in the same instant or not at all.
Answer(o, a) ==
  /\ answer[o] = "asked"
  /\ answer' = [answer EXCEPT ![o] = a]
  /\ \/ UNCHANGED paid
     \/ paid' = [paid EXCEPT ![o] = TRUE]
  /\ a = "captured" => paid'[o]
  /\ a \in Refusals /\ ~paidLate => ~paid'[o]
  /\ UNCHANGED <<owner, paidLate>>

\* The caller died with the call under way.
Forget(o) ==
  /\ answer' = [answer EXCEPT ![o] = None]
  /\ UNCHANGED <<paid, owner, paidLate>>

Next ==
  \E o \in Orders :
    \/ \E m \in Mandates : Create(o, m)
    \/ Ask(o)
    \/ Pay(o)
    \/ \E a \in Answers : Answer(o, a)
    \/ Forget(o)

Spec == Init /\ [][Next]_vars
=============================================================================
