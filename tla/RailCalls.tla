----------------------------- MODULE RailCalls -----------------------------
(***************************************************************************)
(* Inside the calls of a payment rail: both implementations in             *)
(* gateway/razorpay_client.py, the simulator's scripted rules and the real *)
(* rail's payment link and polling.  Rail.tla takes a call as one step;    *)
(* this module says what it is made of, and that either rail keeps         *)
(* RailContract.  The rail outlives the gateway, whose process may die     *)
(* during a call.                                                          *)
(***************************************************************************)
EXTENDS Identifiers, Naturals, Sequences

CONSTANTS MaxPayments,  \* payments a buyer makes on one order
          MaxRules      \* rules a simulator is programmed with

ASSUME RailAssumption ==
  /\ MaxPayments \in Nat /\ MaxRules \in Nat
  /\ None \notin {"created", "failed", "captured", "asked", "amount", "link", "poll",
                  "declined", "terminal", "timeout", "unavailable"}

VARIABLES kind,      \* which rail build_rail made
          owner,     \* the mandate in an order's notes.reference
          payments,  \* payments of an order, as fetch_order_payments lists them
          link,      \* the order has a payment link
          call,      \* where the call that pays an order stands, or its answer
          rules      \* the simulator's programmed misbehaviour, in order

vars == <<kind, owner, payments, link, call, rules>>

Methods == {"upi", "payment_link", "card"}
RuleKinds == {"decline", "terminal_decline", "timeout", "timeout_after_capture", "unavailable"}
Answers == {"captured", "declined", "terminal", "timeout", "unavailable"}
UnderWay == {"asked", "amount", "link", "poll"}

\* reference, methods and remaining may each be None: no restriction.
Rule == [kind : RuleKinds, reference : Mandates \cup {None},
         methods : {None} \cup {{x} : x \in Methods}, remaining : {None, 0, 1}]

TypeOK ==
  /\ kind \in {"fake", "razorpay"}
  /\ owner \in [Orders -> Mandates \cup {None}]
  /\ payments \in [Orders -> Seq({"created", "failed", "captured"})]
  /\ link \in [Orders -> BOOLEAN]
  /\ call \in [Orders -> UnderWay \cup Answers \cup {None}]
  /\ rules \in Seq(Rule)
  /\ \A o \in Orders :
       /\ Len(payments[o]) <= MaxPayments
       /\ link[o] => owner[o] # None /\ kind = "razorpay"

\* PAYMENT_RAIL and the two credentials to the rail that is built; anything
\* else refuses to start.
RailKind(selected, key, secret) ==
  CASE selected \in {None, "fake"} -> "fake"
    [] selected = "razorpay" /\ key = "test" /\ secret -> "razorpay"
    [] OTHER -> "refused"

Init ==
  /\ \E selected \in {None, "fake", "razorpay", "other"}, key \in {None, "live", "test"},
        secret \in BOOLEAN :
       /\ kind = RailKind(selected, key, secret)
       /\ kind # "refused"
  /\ owner = [o \in Orders |-> None]
  /\ payments = [o \in Orders |-> <<>>]
  /\ link = [o \in Orders |-> FALSE]
  /\ call = [o \in Orders |-> None]
  /\ rules = <<>>

Listed(o, s) == \E i \in DOMAIN payments[o] : payments[o][i] = s
Paid(o) == Listed(o, "captured")
\* The look at the payments that both rails take before anything else.
\* Mutant: it is left out.
FoundUnpaid(o) == FALSE
FoundCapture(o) == Paid(o)
Ends(o, a) == call' = [call EXCEPT ![o] = a]

(***************************************************************************)
(* Both rails.                                                             *)
(***************************************************************************)
\* create_order.  When Razorpay made the order but its answer was lost, the
\* order exists and nobody ever asks for its payment.
CreateOrder(o, m) ==
  /\ owner[o] = None
  /\ owner' = [owner EXCEPT ![o] = m]
  /\ UNCHANGED <<kind, payments, link, call, rules>>

\* complete_test_payment, which may be called again once it has answered.
Ask(o) ==
  /\ owner[o] # None /\ call[o] \in Answers \cup {None}
  /\ Ends(o, "asked")
  /\ UNCHANGED <<kind, owner, payments, link, rules>>

CallerDies(o) ==
  /\ call[o] \in UnderWay
  /\ Ends(o, None)
  /\ UNCHANGED <<kind, owner, payments, link, rules>>

\* An order that is paid already is not paid again.
AlreadyPaid(o) ==
  /\ call[o] = "asked" /\ FoundCapture(o)
  /\ Ends(o, "captured")
  /\ UNCHANGED <<kind, owner, payments, link, rules>>

(***************************************************************************)
(* FakeRail.                                                               *)
(***************************************************************************)
Program(r) ==
  /\ kind = "fake" /\ Len(rules) < MaxRules
  /\ rules' = Append(rules, r)
  /\ UNCHANGED <<kind, owner, payments, link, call>>

ResetRules ==
  /\ kind = "fake" /\ rules # <<>>
  /\ rules' = <<>>
  /\ UNCHANGED <<kind, owner, payments, link, call>>

\* Mutant: a rule that is spent goes on matching.
MatchesSpent(r, reference, method) ==
  /\ r.reference \in {None, reference}
  /\ r.methods = None \/ method \in r.methods

Matches(r, reference, method) ==
  /\ r.remaining # 0
  /\ r.reference \in {None, reference}
  /\ r.methods = None \/ method \in r.methods

\* The first rule that matches, 0 if none does.
FirstMatch(reference, method) ==
  LET matching == {i \in DOMAIN rules : Matches(rules[i], reference, method)}
  IN IF matching = {} THEN 0 ELSE CHOOSE i \in matching : \A j \in matching : i <= j

ConsumeRule(i) ==
  rules' = IF i = 0 \/ rules[i].remaining = None THEN rules
           ELSE [rules EXCEPT ![i].remaining = @ - 1]

\* The simulator lists payments in the order they were made.
AddPayment(o, s) == payments' = [payments EXCEPT ![o] = Append(@, s)]

\* What a call to the simulator comes to: the payment it records, if any, and
\* its answer.  A decline is also had from the test VPA that always fails.
\* Mutant: every silence is reported as the rail being unreachable.
FakeOutcomeFlattened(ruleKind, failingVpa) ==
  IF ruleKind = "timeout_after_capture" THEN [payment |-> "captured", answer |-> "unavailable"]
  ELSE IF ruleKind # None THEN [payment |-> None, answer |-> "unavailable"]
  ELSE [payment |-> "captured", answer |-> "captured"]

FakeOutcome(ruleKind, failingVpa) ==
  CASE ruleKind = "timeout_after_capture" -> [payment |-> "captured", answer |-> "timeout"]
    [] ruleKind = "timeout" -> [payment |-> None, answer |-> "timeout"]
    [] ruleKind = "unavailable" -> [payment |-> None, answer |-> "unavailable"]
    [] ruleKind = "terminal_decline" -> [payment |-> "failed", answer |-> "terminal"]
    [] ruleKind = "decline" \/ failingVpa -> [payment |-> "failed", answer |-> "declined"]
    [] OTHER -> [payment |-> "captured", answer |-> "captured"]

FakePays(o, method, failingVpa) ==
  /\ kind = "fake"
  /\ call[o] = "asked" /\ ~FoundCapture(o)
  /\ Len(payments[o]) < MaxPayments
  /\ LET i == FirstMatch(owner[o], method)
         outcome == FakeOutcome(IF i = 0 THEN None ELSE rules[i].kind,
                                failingVpa /\ method = "upi")
     IN /\ ConsumeRule(i)
        /\ IF outcome.payment = None THEN UNCHANGED payments ELSE AddPayment(o, outcome.payment)
        /\ Ends(o, outcome.answer)
  /\ UNCHANGED <<kind, owner, link>>

(***************************************************************************)
(* RazorpayRail.                                                           *)
(***************************************************************************)
\* Nothing captured yet: fetch the order's amount, then make a link.
NotYetPaid(o) ==
  /\ kind = "razorpay"
  /\ call[o] = "asked" /\ ~FoundCapture(o)
  /\ Ends(o, "amount")
  /\ UNCHANGED <<kind, owner, payments, link, rules>>

FetchAmount(o) ==
  /\ call[o] = "amount"
  /\ Ends(o, "link")
  /\ UNCHANGED <<kind, owner, payments, link, rules>>

\* The link is made, and the call hears of it or not.
MakeLink(o) ==
  /\ call[o] = "link"
  /\ link' = [link EXCEPT ![o] = TRUE]
  /\ \E next \in {"poll", "timeout", "unavailable"} : Ends(o, next)
  /\ UNCHANGED <<kind, owner, payments, rules>>

\* The first payment listed that has ended decides.
Decisive(o, i) ==
  /\ payments[o][i] \in {"captured", "failed"}
  /\ \A j \in DOMAIN payments[o] : j < i => payments[o][j] = "created"

Poll(o) ==
  /\ call[o] = "poll"
  /\ \E i \in DOMAIN payments[o] :
       /\ Decisive(o, i)
       /\ Ends(o, IF payments[o][i] = "captured" THEN "captured" ELSE "declined")
  /\ UNCHANGED <<kind, owner, payments, link, rules>>

\* No payment had ended when the call last looked.
DeadlinePasses(o) ==
  /\ call[o] = "poll"
  /\ Ends(o, "timeout")
  /\ UNCHANGED <<kind, owner, payments, link, rules>>

\* Any request can fail, and _call says how: a 400 is terminal, a 5xx or a
\* refused connection is "unavailable", a silence is a timeout.
ApiErrors == {"terminal", "unavailable", "timeout"}

RequestFails(o) ==
  /\ kind = "razorpay" /\ call[o] \in UnderWay
  /\ \E a \in ApiErrors : Ends(o, a)
  /\ UNCHANGED <<kind, owner, payments, link, rules>>

(***************************************************************************)
(* Razorpay's hosted page.  The newest payment is listed first; an order   *)
(* takes one capture; a payment may stay open while the buyer tries again. *)
(***************************************************************************)
BuyerStarts(o) ==
  /\ link[o] /\ ~Paid(o) /\ Len(payments[o]) < MaxPayments
  /\ payments' = [payments EXCEPT ![o] = <<"created">> \o @]
  /\ UNCHANGED <<kind, owner, link, call, rules>>

PaymentEnds(o, i, s) ==
  /\ link[o] /\ payments[o][i] = "created"
  /\ s = "captured" => ~Paid(o)
  /\ payments' = [payments EXCEPT ![o][i] = s]
  /\ UNCHANGED <<kind, owner, link, call, rules>>

FakeNext ==
  \/ \E r \in [kind : RuleKinds, reference : Mandates \cup {None},
               methods : {None} \cup {{x} : x \in Methods}, remaining : {None, 1}] : Program(r)
  \/ ResetRules
  \/ \E o \in Orders, method \in Methods, failingVpa \in BOOLEAN : FakePays(o, method, failingVpa)

RazorpayNext ==
  \E o \in Orders :
    \/ NotYetPaid(o) \/ FetchAmount(o) \/ MakeLink(o)
    \/ Poll(o) \/ DeadlinePasses(o) \/ RequestFails(o)
    \/ BuyerStarts(o)
    \/ \E i \in DOMAIN payments[o], s \in {"failed", "captured"} : PaymentEnds(o, i, s)

Next ==
  \/ \E o \in Orders : \/ \E m \in Mandates : CreateOrder(o, m)
                       \/ Ask(o) \/ CallerDies(o) \/ AlreadyPaid(o)
  \/ FakeNext
  \/ RazorpayNext

Spec == Init /\ [][Next]_vars

(***************************************************************************)
(* Properties.                                                             *)
(***************************************************************************)
\* However often a caller asks, whatever the script says and however many
\* payments the buyer has open, an order's money moves once.
OneCapturePerOrder ==
  \A o \in Orders : \A i, j \in DOMAIN payments[o] :
    payments[o][i] = "captured" /\ payments[o][j] = "captured" => i = j

\* Both rails keep the contract: the simulator the strict one, where a refusal
\* means the money did not move, Razorpay the one where it may move later.
Contract == INSTANCE RailContract WITH
              paid <- [o \in Orders |-> Paid(o)],
              answer <- [o \in Orders |-> IF call[o] \in UnderWay THEN "asked" ELSE call[o]],
              paidLate <- (kind = "razorpay")
KeepsContract == Contract!Spec

\* "RailDeclined: the rail answered, and the answer was no.  Deterministic":
\* a call that polls never says declined of an order it sees captured.
DeclineIsDefinite ==
  [][\A o \in Orders : call[o] = "poll" /\ call'[o] = "declined" => ~Paid(o)]_vars
=============================================================================
