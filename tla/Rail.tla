-------------------------------- MODULE Rail --------------------------------
(***************************************************************************)
(* The payment rail as gateway/razorpay_client.py presents it: orders, each*)
(* created for one mandate, and whether one has a captured payment.  The   *)
(* simulator (FakeRail) and Razorpay itself differ in what may happen to a *)
(* call, and that is what the constants say:                               *)
(*   CallsMayFail  an order creation or a probe may raise instead of       *)
(*                 answering (RazorpayRail._call; FakeRail never does);    *)
(*   PaidLate      an order stays payable after the gateway stopped waiting*)
(*                 for it (Razorpay's payment link; never on FakeRail).    *)
(* An order's payment link is made after the order, so an order nobody was *)
(* asked to pay yet, "created", cannot capture.                            *)
(***************************************************************************)
EXTENDS Identifiers

CONSTANTS CallsMayFail, PaidLate

ASSUME RailAssumption == CallsMayFail \in BOOLEAN /\ PaidLate \in BOOLEAN

VARIABLES rail,     \* state of each order
          owner     \* the mandate in the order's notes.reference

railVars == <<rail, owner>>

RailTypeOK ==
  /\ rail \in [Orders -> {"unused", "created", "payable", "captured"}]
  /\ owner \in [Orders -> Mandates \cup {None}]

RailInit ==
  /\ rail = [o \in Orders |-> "unused"]
  /\ owner = [o \in Orders |-> None]

OrdersOf(m) == {o \in Orders : owner[o] = m}
Captured(m) == {o \in OrdersOf(m) : rail[o] = "captured"}

\* create_order: a fresh id, noted for the mandate that authorised it.
CreateOrder(o, m) ==
  /\ rail[o] = "unused"
  /\ rail' = [rail EXCEPT ![o] = "created"]
  /\ owner' = [owner EXCEPT ![o] = m]

\* complete_test_payment, the money moves.
CaptureOrder(o) ==
  /\ rail' = [rail EXCEPT ![o] = "captured"]
  /\ UNCHANGED owner

\* complete_test_payment, no money moved by the time the call ends.  At worst
\* the payment link exists by then.
LeaveOrder(o) ==
  /\ rail' = [rail EXCEPT ![o] = IF PaidLate THEN "payable" ELSE @]
  /\ UNCHANGED owner

\* The buyer pays a link the gateway no longer waits for.
BuyerPaysLate(o) ==
  /\ rail[o] = "payable"
  /\ rail' = [rail EXCEPT ![o] = "captured"]
  /\ UNCHANGED owner

\* Mutants: the probe is skipped; it does not look at the payment's status.
FoundNothing(ids, lost) == {}
FoundAny(ids, lost) == ids \ lost

\* fetch_order_payments over a list of orders, as _find_prior_capture does:
\* the orders whose fetch raised are passed over.
Unanswered(ids) == IF CallsMayFail THEN SUBSET ids ELSE {{}}
FoundCaptured(ids, lost) == {o \in ids \ lost : rail[o] = "captured"}
=============================================================================
