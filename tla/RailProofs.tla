----------------------------- MODULE RailProofs -----------------------------
(***************************************************************************)
(* Theorems about the payment rails, for every number of orders, payments  *)
(* and scripted rules.                                                     *)
(***************************************************************************)
EXTENDS RailCalls, Sums

PaymentState == {"created", "failed", "captured"}

\* Only the real rail has steps inside a call after the first look.
StepsAreReal ==
  \A o \in Orders : call[o] \in {"amount", "link", "poll"} => kind = "razorpay"

\* TypeOK without its bound on the length.
Shape ==
  /\ kind \in {"fake", "razorpay"}
  /\ owner \in [Orders -> Mandates \cup {None}]
  /\ payments \in [Orders -> Seq(PaymentState)]
  /\ link \in [Orders -> BOOLEAN]
  /\ call \in [Orders -> UnderWay \cup Answers \cup {None}]
  /\ \A o \in Orders : /\ link[o] => owner[o] # None /\ kind = "razorpay"
                       /\ call[o] # None => owner[o] # None

RailInv == Shape /\ StepsAreReal /\ OneCapturePerOrder

LEMMA RailInit == Init => RailInv
<1> SUFFICES ASSUME Init PROVE RailInv
  OBVIOUS
<1>1. kind \in {"fake", "razorpay"}
  BY DEF Init, RailKind
<1>2. Shape
  BY <1>1 DEF Init, Shape, PaymentState
<1>3. StepsAreReal
  BY RailAssumption DEF Init, StepsAreReal
<1>4. OneCapturePerOrder
  BY DEF Init, OneCapturePerOrder
<1>5. QED BY <1>2, <1>3, <1>4 DEF RailInv

\* One payment is captured at most; a payment appended, put in front or ended
\* unpaid changes none of that, and neither does the first capture.
Single(p) == \A i, j \in DOMAIN p : p[i] = "captured" /\ p[j] = "captured" => i = j
Has(p) == \E i \in DOMAIN p : p[i] = "captured"

LEMMA SingleAppend ==
  ASSUME NEW p \in Seq(PaymentState), NEW s \in PaymentState, Single(p),
         s = "captured" => ~Has(p)
  PROVE  /\ Append(p, s) \in Seq(PaymentState)
         /\ Single(Append(p, s))
         /\ Has(Append(p, s)) <=> Has(p) \/ s = "captured"
<1> DEFINE q == Append(p, s)
<1>1. /\ q \in Seq(PaymentState) /\ DOMAIN q = 1 .. Len(p) + 1
      /\ DOMAIN p = 1 .. Len(p) /\ Len(p) \in Nat
      /\ \A i \in 1 .. Len(p) : q[i] = p[i]
      /\ q[Len(p) + 1] = s
  OBVIOUS
<1> HIDE DEF q
<1>2. Has(q) <=> Has(p) \/ s = "captured"
  BY <1>1 DEF Has
<1>3. Single(q)
  BY <1>1 DEF Single, Has
<1>4. QED BY <1>1, <1>2, <1>3 DEF q

LEMMA SingleFront ==
  ASSUME NEW p \in Seq(PaymentState), Single(p)
  PROVE  /\ <<"created">> \o p \in Seq(PaymentState)
         /\ Single(<<"created">> \o p)
         /\ Has(<<"created">> \o p) <=> Has(p)
<1> DEFINE q == <<"created">> \o p
<1>1. /\ q \in Seq(PaymentState) /\ DOMAIN q = 1 .. Len(p) + 1
      /\ DOMAIN p = 1 .. Len(p) /\ Len(p) \in Nat
      /\ \A i \in 2 .. Len(p) + 1 : q[i] = p[i - 1]
      /\ q[1] = "created"
  BY DEF PaymentState
<1> HIDE DEF q
<1>2. \A i \in DOMAIN q : q[i] = "captured" => i - 1 \in DOMAIN p /\ p[i - 1] = "captured"
  BY <1>1
<1>3. \A i \in DOMAIN p : i + 1 \in DOMAIN q /\ q[i + 1] = p[i]
  BY <1>1
<1>4. Has(q) <=> Has(p)
  BY <1>2, <1>3 DEF Has
<1>5. Single(q)
  BY <1>1, <1>2 DEF Single
<1>6. QED BY <1>1, <1>4, <1>5 DEF q

LEMMA SingleEnds ==
  ASSUME NEW p \in Seq(PaymentState), NEW i \in DOMAIN p, p[i] = "created",
         NEW s \in {"failed", "captured"}, Single(p), s = "captured" => ~Has(p)
  PROVE  /\ [p EXCEPT ![i] = s] \in Seq(PaymentState)
         /\ Single([p EXCEPT ![i] = s])
         /\ Has([p EXCEPT ![i] = s]) <=> Has(p) \/ s = "captured"
<1> DEFINE q == [p EXCEPT ![i] = s]
<1>1. q \in Seq(PaymentState)
  BY DEF PaymentState
<1>2. DOMAIN q = DOMAIN p /\ q[i] = s /\ \A j \in DOMAIN p \ {i} : q[j] = p[j]
  OBVIOUS
<1> HIDE DEF q
<1>3. Has(q) <=> Has(p) \/ s = "captured"
  BY <1>2 DEF Has
<1>4. Single(q)
  BY <1>2 DEF Single, Has
<1>5. QED BY <1>1, <1>3, <1>4 DEF q

(***************************************************************************)
(* The invariant.                                                          *)
(***************************************************************************)
LEMMA PaidIsHas == \A o \in Orders : Paid(o) <=> Has(payments[o])
BY DEF Paid, Listed, Has

LEMMA OneCaptureIsSingle == OneCapturePerOrder <=> \A o \in Orders : Single(payments[o])
BY DEF OneCapturePerOrder, Single

\* What a step does to the payments of one order: the simulator appends, a
\* buyer starts or ends a payment, everything else leaves them alone.
FakeRecords(o, s) ==
  /\ s \in {"failed", "captured"} /\ ~Paid(o)
  /\ payments' = [payments EXCEPT ![o] = Append(@, s)]

LEMMA RecordsSingle ==
  ASSUME Shape, OneCapturePerOrder, NEW o \in Orders, NEW s, FakeRecords(o, s)
  PROVE  /\ payments' \in [Orders -> Seq(PaymentState)]
         /\ OneCapturePerOrder'
         /\ Paid(o)' <=> s = "captured"
         /\ \A b \in Orders \ {o} : payments'[b] = payments[b]
<1>1. payments[o] \in Seq(PaymentState) /\ Single(payments[o]) /\ ~Has(payments[o])
      /\ s \in PaymentState
  BY OneCaptureIsSingle, PaidIsHas DEF Shape, FakeRecords, PaymentState
<1>2. /\ Append(payments[o], s) \in Seq(PaymentState)
      /\ Single(Append(payments[o], s))
      /\ Has(Append(payments[o], s)) <=> s = "captured"
  BY <1>1, SingleAppend
<1>3. /\ payments'[o] = Append(payments[o], s)
      /\ \A b \in Orders \ {o} : payments'[b] = payments[b]
      /\ payments' \in [Orders -> Seq(PaymentState)]
  BY <1>2 DEF FakeRecords, Shape
<1>4. \A b \in Orders : Single(payments'[b])
  BY <1>2, <1>3, OneCaptureIsSingle
<1>5. Has(payments'[o]) <=> s = "captured"
  BY <1>2, <1>3
<1>6. OneCapturePerOrder'
  BY <1>4 DEF OneCapturePerOrder, Single
<1>7. Paid(o)' <=> s = "captured"
  BY <1>5 DEF Paid, Listed, Has
<1>8. QED BY <1>3, <1>6, <1>7

LEMMA StartsSingle ==
  ASSUME Shape, OneCapturePerOrder, NEW o \in Orders, BuyerStarts(o)
  PROVE  /\ payments' \in [Orders -> Seq(PaymentState)]
         /\ OneCapturePerOrder'
         /\ \A b \in Orders : Paid(b)' <=> Paid(b)
<1>1. payments[o] \in Seq(PaymentState) /\ Single(payments[o])
  BY OneCaptureIsSingle DEF Shape
<1>2. /\ <<"created">> \o payments[o] \in Seq(PaymentState)
      /\ Single(<<"created">> \o payments[o])
      /\ Has(<<"created">> \o payments[o]) <=> Has(payments[o])
  BY <1>1, SingleFront
<1>3. /\ payments'[o] = <<"created">> \o payments[o]
      /\ \A b \in Orders \ {o} : payments'[b] = payments[b]
      /\ payments' \in [Orders -> Seq(PaymentState)]
  BY <1>2 DEF BuyerStarts, Shape
<1>4. \A b \in Orders : Single(payments'[b]) /\ (Has(payments'[b]) <=> Has(payments[b]))
  BY <1>2, <1>3, OneCaptureIsSingle
<1>5. OneCapturePerOrder'
  BY <1>4 DEF OneCapturePerOrder, Single
<1>6. \A b \in Orders : Paid(b)' <=> Paid(b)
  BY <1>4 DEF Paid, Listed, Has
<1>7. QED BY <1>3, <1>5, <1>6

LEMMA EndsSingle ==
  ASSUME Shape, OneCapturePerOrder, NEW o \in Orders, NEW i \in DOMAIN payments[o],
         NEW s \in {"failed", "captured"}, PaymentEnds(o, i, s)
  PROVE  /\ payments' \in [Orders -> Seq(PaymentState)]
         /\ OneCapturePerOrder'
         /\ Paid(o)' <=> Paid(o) \/ s = "captured"
         /\ \A b \in Orders \ {o} : payments'[b] = payments[b]
<1> DEFINE q == [payments[o] EXCEPT ![i] = s]
<1>1. payments[o] \in Seq(PaymentState) /\ Single(payments[o]) /\ payments[o][i] = "created"
      /\ (s = "captured" => ~Has(payments[o]))
  BY OneCaptureIsSingle, PaidIsHas DEF Shape, PaymentEnds
<1>2. /\ q \in Seq(PaymentState) /\ Single(q)
      /\ Has(q) <=> Has(payments[o]) \/ s = "captured"
  BY <1>1, SingleEnds
<1>3. /\ payments'[o] = q
      /\ \A b \in Orders \ {o} : payments'[b] = payments[b]
      /\ payments' \in [Orders -> Seq(PaymentState)]
  BY <1>2 DEF PaymentEnds, Shape
<1> HIDE DEF q
<1>4. \A b \in Orders : Single(payments'[b])
  BY <1>2, <1>3, OneCaptureIsSingle
<1>5. Has(payments'[o]) <=> Has(payments[o]) \/ s = "captured"
  BY <1>2, <1>3
<1>6. OneCapturePerOrder'
  BY <1>4 DEF OneCapturePerOrder, Single
<1>7. Paid(o)' <=> Paid(o) \/ s = "captured"
  BY <1>5 DEF Paid, Listed, Has
<1>8. QED BY <1>3, <1>6, <1>7

\* A call to the simulator records nothing or a payment that has ended, and its
\* answer goes with it.
LEMMA FakeCall ==
  ASSUME Shape, NEW o \in Orders, NEW method \in Methods, NEW failingVpa \in BOOLEAN,
         FakePays(o, method, failingVpa)
  PROVE  \E answer \in Answers :
           /\ Ends(o, answer)
           /\ \/ UNCHANGED payments /\ answer \in {"timeout", "unavailable"}
              \/ FakeRecords(o, "failed") /\ answer \in {"declined", "terminal"}
              \/ FakeRecords(o, "captured") /\ answer \in {"captured", "timeout"}
<1> DEFINE i == FirstMatch(owner[o], method)
           ruleKind == IF i = 0 THEN None ELSE rules[i].kind
           outcome == FakeOutcome(ruleKind, failingVpa /\ method = "upi")
<1>1. /\ ~Paid(o)
      /\ IF outcome.payment = None THEN UNCHANGED payments ELSE AddPayment(o, outcome.payment)
      /\ Ends(o, outcome.answer)
  BY DEF FakePays, FoundCapture
<1>2. outcome \in {[payment |-> "captured", answer |-> "timeout"],
                   [payment |-> None, answer |-> "timeout"],
                   [payment |-> None, answer |-> "unavailable"],
                   [payment |-> "failed", answer |-> "terminal"],
                   [payment |-> "failed", answer |-> "declined"],
                   [payment |-> "captured", answer |-> "captured"]}
  BY DEF FakeOutcome
<1> HIDE DEF outcome
<1>3. QED
  BY <1>1, <1>2, RailAssumption DEF AddPayment, FakeRecords, Answers

LEMMA RailStep ==
  ASSUME RailInv, [Next]_vars
  PROVE  RailInv'
<1> SUFFICES Shape' /\ StepsAreReal' /\ OneCapturePerOrder'
  BY DEF RailInv
<1>0. Shape /\ StepsAreReal /\ OneCapturePerOrder
  BY DEF RailInv
<1> USE <1>0, RailAssumption
<1> USE DEF UnderWay, Answers, Ends
<1>1. ASSUME NEW o \in Orders, NEW m \in Mandates, CreateOrder(o, m)
      PROVE  Shape' /\ StepsAreReal' /\ OneCapturePerOrder'
  BY <1>1, NoneAssumption DEF CreateOrder, Shape, StepsAreReal, OneCapturePerOrder
<1>2. ASSUME NEW o \in Orders, Ask(o) \/ CallerDies(o) \/ AlreadyPaid(o)
      PROVE  Shape' /\ StepsAreReal' /\ OneCapturePerOrder'
  BY <1>2 DEF Ask, CallerDies, AlreadyPaid, Shape, StepsAreReal, OneCapturePerOrder
<1>3. ASSUME ResetRules \/ (\E r \in Rule : Program(r))
      PROVE  Shape' /\ StepsAreReal' /\ OneCapturePerOrder'
  BY <1>3 DEF ResetRules, Program, Shape, StepsAreReal, OneCapturePerOrder
<1>4. ASSUME NEW o \in Orders, NEW method \in Methods, NEW failingVpa \in BOOLEAN,
             FakePays(o, method, failingVpa)
      PROVE  Shape' /\ StepsAreReal' /\ OneCapturePerOrder'
  <2>1. PICK answer \in Answers :
           /\ Ends(o, answer)
           /\ UNCHANGED payments \/ FakeRecords(o, "failed") \/ FakeRecords(o, "captured")
    BY <1>4, FakeCall
  <2>2. payments' \in [Orders -> Seq(PaymentState)] /\ OneCapturePerOrder'
    <3>1. CASE UNCHANGED payments
      BY <3>1 DEF Shape, OneCapturePerOrder
    <3>2. CASE FakeRecords(o, "failed") \/ FakeRecords(o, "captured")
      BY <3>2, RecordsSingle
    <3>3. QED BY <2>1, <3>1, <3>2
  <2>3. UNCHANGED <<kind, owner, link>>
    BY <1>4 DEF FakePays
  <2>4. call[o] = "asked"
    BY <1>4 DEF FakePays
  <2>5. call' \in [Orders -> UnderWay \cup Answers \cup {None}]
        /\ \A b \in Orders : call'[b] # None => owner[b] # None
    BY <2>1, <2>4 DEF Shape
  <2>6. StepsAreReal'
    BY <2>1, <2>3 DEF Shape, StepsAreReal
  <2>7. QED BY <2>2, <2>3, <2>5, <2>6 DEF Shape
<1>5. ASSUME NEW o \in Orders,
             NotYetPaid(o) \/ FetchAmount(o) \/ Poll(o) \/ DeadlinePasses(o) \/ RequestFails(o)
      PROVE  Shape' /\ StepsAreReal' /\ OneCapturePerOrder'
  BY <1>5 DEF NotYetPaid, FetchAmount, Poll, DeadlinePasses, RequestFails, ApiErrors,
              Shape, StepsAreReal, OneCapturePerOrder
<1>6. ASSUME NEW o \in Orders, MakeLink(o)
      PROVE  Shape' /\ StepsAreReal' /\ OneCapturePerOrder'
  BY <1>6 DEF MakeLink, Shape, StepsAreReal, OneCapturePerOrder
<1>7. ASSUME NEW o \in Orders, BuyerStarts(o)
      PROVE  Shape' /\ StepsAreReal' /\ OneCapturePerOrder'
  <2>1. payments' \in [Orders -> Seq(PaymentState)] /\ OneCapturePerOrder'
    BY <1>7, StartsSingle
  <2>2. QED BY <1>7, <2>1 DEF BuyerStarts, Shape, StepsAreReal
<1>8. ASSUME NEW o \in Orders, NEW i \in DOMAIN payments[o], NEW s \in {"failed", "captured"},
             PaymentEnds(o, i, s)
      PROVE  Shape' /\ StepsAreReal' /\ OneCapturePerOrder'
  <2>1. payments' \in [Orders -> Seq(PaymentState)] /\ OneCapturePerOrder'
    BY <1>8, EndsSingle
  <2>2. QED BY <1>8, <2>1 DEF PaymentEnds, Shape, StepsAreReal
<1>9. ASSUME UNCHANGED vars
      PROVE  Shape' /\ StepsAreReal' /\ OneCapturePerOrder'
  BY <1>9 DEF vars, Shape, StepsAreReal, OneCapturePerOrder
<1>10. QED
  BY <1>1, <1>2, <1>3, <1>4, <1>5, <1>6, <1>7, <1>8, <1>9 DEF Next, FakeNext, RazorpayNext, Rule

LEMMA RailInvariant == Spec => []RailInv
BY RailInit, RailStep, PTL DEF Spec

\* However often a caller asks an order to be paid, whatever the simulator was
\* scripted to do and however many payments a buyer has open on Razorpay's page,
\* an order's money moves once (complete_test_payment of both rails).
THEOREM OrderPaidOnce == Spec => []OneCapturePerOrder
<1>1. RailInv => OneCapturePerOrder
  BY DEF RailInv
<1>2. QED BY <1>1, RailInvariant, PTL

(***************************************************************************)
(* The bounds.                                                             *)
(***************************************************************************)
\* What TypeOK says beyond Shape: a rule is never used more often than it was
\* programmed for, and no order has more payments than a buyer makes.
Bounded == rules \in Seq(Rule) /\ \A o \in Orders : Len(payments[o]) <= MaxPayments

\* The rule a call uses is one that may still be used.
LEMMA MatchIsARule ==
  ASSUME rules \in Seq(Rule), NEW reference, NEW method, FirstMatch(reference, method) # 0
  PROVE  /\ FirstMatch(reference, method) \in DOMAIN rules
         /\ rules[FirstMatch(reference, method)].remaining # 0
<1> DEFINE matching == {i \in DOMAIN rules : Matches(rules[i], reference, method)}
<1>1. matching # {} /\ FirstMatch(reference, method) = CHOOSE i \in matching : \A j \in matching : i <= j
  BY DEF FirstMatch
<1>2. matching \in SUBSET Nat
  OBVIOUS
<1>3. \A i \in matching : i \in DOMAIN rules /\ rules[i].remaining # 0
  BY DEF Matches
<1> HIDE DEF matching
<1>4. \E i \in matching : \A j \in matching : i <= j
  BY <1>1, <1>2, LeastNatural
<1>5. FirstMatch(reference, method) \in matching
  BY <1>1, <1>4
<1>6. QED BY <1>3, <1>5

LEMMA ConsumedRules ==
  ASSUME rules \in Seq(Rule), NEW reference, NEW method, ConsumeRule(FirstMatch(reference, method))
  PROVE  rules' \in Seq(Rule)
<1> DEFINE i == FirstMatch(reference, method)
<1>1. CASE i = 0 \/ rules[i].remaining = None
  BY <1>1 DEF ConsumeRule
<1>2. CASE i # 0 /\ rules[i].remaining # None
  <2>1. i \in DOMAIN rules /\ rules[i].remaining # 0
    BY <1>2, MatchIsARule
  <2> HIDE DEF i
  <2>2. rules[i] \in Rule
    BY <2>1
  <2> DEFINE r == [rules[i] EXCEPT !.remaining = @ - 1]
  <2>3. r \in Rule
    <3>1. rules[i].remaining = 1
      BY <1>2, <2>1, <2>2 DEF Rule
    <3>2. QED BY <2>2, <3>1 DEF Rule
  <2>4. rules' = [rules EXCEPT ![i] = r]
    BY <1>2 DEF ConsumeRule, i
  <2> HIDE DEF r
  <2>5. QED BY <2>1, <2>3, <2>4
<1>3. QED BY <1>1, <1>2

\* A payment is added only where there is room for it.
LEMMA RoomForOne ==
  ASSUME Shape, Bounded, NEW o \in Orders, Len(payments[o]) < MaxPayments, NEW p,
         p \in Seq(PaymentState), Len(p) <= Len(payments[o]) + 1,
         payments' = [payments EXCEPT ![o] = p]
  PROVE  \A b \in Orders : Len(payments'[b]) <= MaxPayments
<1>1. payments'[o] = p /\ \A b \in Orders \ {o} : payments'[b] = payments[b]
  BY DEF Shape
<1>2. Len(p) \in Nat /\ Len(payments[o]) \in Nat
  BY DEF Shape
<1>3. Len(p) <= MaxPayments
  BY <1>2, RailAssumption
<1>4. QED BY <1>1, <1>3 DEF Bounded

LEMMA BoundedStep ==
  ASSUME RailInv, Bounded, [Next]_vars
  PROVE  Bounded'
<1>0. Shape
  BY DEF RailInv
<1>1. ASSUME NEW r \in Rule, Program(r)
      PROVE  Bounded'
  BY <1>1 DEF Program, Bounded
<1>2. CASE ResetRules
  BY <1>2 DEF ResetRules, Bounded
<1>3. ASSUME NEW o \in Orders, NEW method \in Methods, NEW failingVpa \in BOOLEAN,
             FakePays(o, method, failingVpa)
      PROVE  Bounded'
  <2>1. rules' \in Seq(Rule)
    BY <1>3, ConsumedRules DEF FakePays, Bounded
  <2>2. \/ UNCHANGED payments
        \/ \E s \in PaymentState : payments' = [payments EXCEPT ![o] = Append(@, s)]
    BY <1>0, <1>3, FakeCall DEF FakeRecords, PaymentState
  <2>3. CASE UNCHANGED payments
    BY <2>1, <2>3 DEF Bounded
  <2>4. ASSUME NEW s \in PaymentState, payments' = [payments EXCEPT ![o] = Append(@, s)]
        PROVE  Bounded'
    <3> DEFINE p == Append(payments[o], s)
    <3>1. p \in Seq(PaymentState) /\ Len(p) <= Len(payments[o]) + 1
      BY <1>0 DEF Shape
    <3>2. payments' = [payments EXCEPT ![o] = p]
      BY <2>4
    <3>3. Len(payments[o]) < MaxPayments
      BY <1>3 DEF FakePays
    <3> HIDE DEF p
    <3>4. QED BY <1>0, <2>1, <3>1, <3>2, <3>3, RoomForOne DEF Bounded
  <2>5. QED BY <2>2, <2>3, <2>4
<1>4. ASSUME NEW o \in Orders, BuyerStarts(o)
      PROVE  Bounded'
  <2> DEFINE p == <<"created">> \o payments[o]
  <2>1. p \in Seq(PaymentState) /\ Len(p) <= Len(payments[o]) + 1
    BY <1>0 DEF Shape, PaymentState
  <2>2. payments' = [payments EXCEPT ![o] = p] /\ Len(payments[o]) < MaxPayments /\ rules' = rules
    BY <1>4 DEF BuyerStarts
  <2> HIDE DEF p
  <2>3. QED BY <1>0, <2>1, <2>2, RoomForOne DEF Bounded
<1>5. ASSUME NEW o \in Orders, NEW i \in DOMAIN payments[o], NEW s \in {"failed", "captured"},
             PaymentEnds(o, i, s)
      PROVE  Bounded'
  <2>1. payments' = [payments EXCEPT ![o][i] = s] /\ rules' = rules
    BY <1>5 DEF PaymentEnds
  <2>2. \A b \in Orders : Len(payments'[b]) = Len(payments[b])
    BY <1>0, <2>1 DEF Shape, PaymentState
  <2>3. QED BY <2>1, <2>2 DEF Bounded
<1>6. ASSUME UNCHANGED <<payments, rules>>
      PROVE  Bounded'
  BY <1>6 DEF Bounded
<1>7. QED
  BY <1>1, <1>2, <1>3, <1>4, <1>5, <1>6
     DEF Next, FakeNext, RazorpayNext, CreateOrder, Ask, CallerDies, AlreadyPaid, NotYetPaid,
         FetchAmount, MakeLink, Poll, DeadlinePasses, RequestFails, Rule, vars

\* The state of both rails stays in its types: a payment link only for an order
\* of the real rail that was made, a scripted rule spent at most as often as it
\* was programmed for, no order with more payments than a buyer may start
\* (FakeRail._consume_rule, complete_test_payment of both rails).
THEOREM RailTyped == Spec => []TypeOK
<1>1. Init => Bounded
  BY RailAssumption DEF Init, Bounded
<1>2. RailInv /\ Bounded => TypeOK
  BY DEF RailInv, Shape, Bounded, TypeOK, PaymentState
<1>3. RailInv /\ Bounded /\ [Next]_vars => Bounded'
  BY BoundedStep
<1>4. QED BY <1>1, <1>2, <1>3, RailInvariant, PTL DEF Spec

(***************************************************************************)
(* The contract.                                                           *)
(***************************************************************************)
LEMMA ContractInit == Init => Contract!Init
<1> SUFFICES ASSUME Init PROVE Contract!Init
  OBVIOUS
<1>1. \A o \in Orders : ~Paid(o)
  BY DEF Init, Paid, Listed
<1>2. [o \in Orders |-> Paid(o)] = [o \in Orders |-> FALSE]
  <2>1. \A o \in Orders : Paid(o) = FALSE
    BY <1>1 DEF Paid
  <2>2. QED BY <2>1
<1>3. [o \in Orders |-> IF call[o] \in UnderWay THEN "asked" ELSE call[o]]
        = [o \in Orders |-> None]
  BY RailAssumption DEF Init, UnderWay
<1>4. QED BY <1>2, <1>3 DEF Init, Contract!Init

\* The order's mapped state, as the contract sees it.
Moved == [o \in Orders |-> Paid(o)]
Said == [o \in Orders |-> IF call[o] \in UnderWay THEN "asked" ELSE call[o]]

LEMMA PaidIsBoolean ==
  ASSUME NEW o \in Orders
  PROVE  Paid(o) \in BOOLEAN /\ Paid(o)' \in BOOLEAN
BY DEF Paid, Listed

LEMMA MovedSame ==
  ASSUME \A b \in Orders : Paid(b)' <=> Paid(b)
  PROVE  Moved' = Moved
<1>1. \A b \in Orders : Paid(b)' = Paid(b)
  BY PaidIsBoolean
<1>2. QED BY <1>1, Zenon DEF Moved

LEMMA MovedOne ==
  ASSUME NEW o \in Orders, Paid(o)', \A b \in Orders \ {o} : Paid(b)' <=> Paid(b)
  PROVE  Moved' = [Moved EXCEPT ![o] = TRUE]
<1>1. \A b \in Orders \ {o} : Paid(b)' = Paid(b)
  BY PaidIsBoolean
<1>2. Paid(o)' = TRUE
  BY PaidIsBoolean
<1>3. QED BY <1>1, <1>2, Zenon DEF Moved

LEMMA SaidOne ==
  ASSUME Shape, NEW o \in Orders, NEW a, Ends(o, a)
  PROVE  Said' = [Said EXCEPT ![o] = IF a \in UnderWay THEN "asked" ELSE a]
BY DEF Shape, Ends, Said

\* A call ends: what it may say of the order, by whether the money has moved.
LEMMA AnswerStep ==
  ASSUME Shape, NEW o \in Orders, call[o] \in UnderWay, NEW a \in Answers, Ends(o, a),
         UNCHANGED <<kind, owner>>,
         \A b \in Orders \ {o} : Paid(b)' <=> Paid(b), Paid(o) => Paid(o)',
         a = "captured" => Paid(o)',
         a \in {"declined", "terminal", "unavailable"} /\ kind = "fake" => ~Paid(o)'
  PROVE  Contract!Answer(o, a)
<1>1. Said[o] = "asked" /\ Said' = [Said EXCEPT ![o] = a]
  <2>1. a \notin UnderWay
    BY DEF UnderWay, Answers
  <2>2. QED BY <2>1, SaidOne DEF Said
<1>2. Moved' = Moved \/ Moved' = [Moved EXCEPT ![o] = TRUE]
  BY MovedSame, MovedOne
<1>3. Moved'[o] <=> Paid(o)'
  BY DEF Moved
<1>4. kind # "razorpay" => kind = "fake"
  BY DEF Shape
<1>5. (kind = "razorpay")' = (kind = "razorpay")
  OBVIOUS
<1>6. QED BY <1>1, <1>2, <1>3, <1>4, <1>5 DEF Moved, Said, Contract!Answer, Contract!Refusals

LEMMA ContractStep ==
  ASSUME RailInv, [Next]_vars
  PROVE  [Contract!Next]_(Contract!vars)
<1>0. Shape /\ StepsAreReal /\ OneCapturePerOrder
  BY DEF RailInv
<1> USE <1>0, RailAssumption
<1> DEFINE Stutters == UNCHANGED <<Moved, owner, Said, (kind = "razorpay")>>
<1>1. ASSUME Stutters
      PROVE  UNCHANGED Contract!vars
  BY <1>1 DEF Moved, Said, Contract!vars
<1>2. ASSUME NEW o \in Orders, NEW m \in Mandates, CreateOrder(o, m)
      PROVE  Contract!Create(o, m)
  <2>1. Moved' = Moved /\ Said' = Said
    BY <1>2 DEF CreateOrder, Moved, Said, Paid, Listed
  <2>2. QED BY <1>2, <2>1 DEF CreateOrder, Contract!Create, Moved, Said
<1>3. ASSUME NEW o \in Orders, Ask(o)
      PROVE  Contract!Ask(o)
  <2>1. Moved' = Moved
    BY <1>3 DEF Ask, Moved, Paid, Listed
  <2>2. Said' = [Said EXCEPT ![o] = "asked"]
    BY <1>3, SaidOne DEF Ask, UnderWay
  <2>3. QED BY <1>3, <2>1, <2>2 DEF Ask, Contract!Ask, Moved, Said
<1>4. ASSUME NEW o \in Orders, CallerDies(o)
      PROVE  Contract!Forget(o)
  <2>1. Moved' = Moved
    BY <1>4 DEF CallerDies, Moved, Paid, Listed
  <2>2. Said' = [Said EXCEPT ![o] = None]
    BY <1>4, SaidOne DEF CallerDies, UnderWay
  <2>3. QED BY <1>4, <2>1, <2>2 DEF CallerDies, Contract!Forget, Moved, Said
<1>5. ASSUME NEW o \in Orders, AlreadyPaid(o)
      PROVE  Contract!Answer(o, "captured")
  <2>1. \A b \in Orders : Paid(b)' <=> Paid(b)
    BY <1>5 DEF AlreadyPaid, Paid, Listed
  <2>2. QED BY <1>5, <2>1, AnswerStep DEF AlreadyPaid, FoundCapture, UnderWay, Answers
<1>6. ASSUME ResetRules \/ (\E r \in Rule : Program(r))
      PROVE  Stutters
  BY <1>6 DEF ResetRules, Program, Moved, Said, Paid, Listed
<1>7. ASSUME NEW o \in Orders, NEW method \in Methods, NEW failingVpa \in BOOLEAN,
             FakePays(o, method, failingVpa)
      PROVE  \E a \in Answers : Contract!Answer(o, a)
  <2>1. PICK a \in Answers :
           /\ Ends(o, a)
           /\ \/ UNCHANGED payments /\ a \in {"timeout", "unavailable"}
              \/ FakeRecords(o, "failed") /\ a \in {"declined", "terminal"}
              \/ FakeRecords(o, "captured") /\ a \in {"captured", "timeout"}
    BY <1>7, FakeCall
  <2>2. call[o] = "asked" /\ ~Paid(o) /\ UNCHANGED <<kind, owner>>
    BY <1>7 DEF FakePays, FoundCapture
  <2>3. CASE UNCHANGED payments /\ a \in {"timeout", "unavailable"}
    <3>1. \A b \in Orders : Paid(b)' <=> Paid(b)
      BY <2>3 DEF Paid, Listed
    <3>2. QED BY <2>1, <2>2, <2>3, <3>1, AnswerStep DEF UnderWay
  <2>4. CASE FakeRecords(o, "failed") /\ a \in {"declined", "terminal"}
    <3>1. ~Paid(o)' /\ \A b \in Orders \ {o} : payments'[b] = payments[b]
      BY <2>4, RecordsSingle
    <3>2. \A b \in Orders \ {o} : Paid(b)' <=> Paid(b)
      BY <3>1 DEF Paid, Listed
    <3>3. QED BY <2>1, <2>2, <2>4, <3>1, <3>2, AnswerStep DEF UnderWay
  <2>5. CASE FakeRecords(o, "captured") /\ a \in {"captured", "timeout"}
    <3>1. Paid(o)' /\ \A b \in Orders \ {o} : payments'[b] = payments[b]
      BY <2>5, RecordsSingle
    <3>2. \A b \in Orders \ {o} : Paid(b)' <=> Paid(b)
      BY <3>1 DEF Paid, Listed
    <3>3. QED BY <2>1, <2>2, <2>5, <3>1, <3>2, AnswerStep DEF UnderWay
  <2>6. QED BY <2>1, <2>3, <2>4, <2>5
<1>8. ASSUME NEW o \in Orders, NotYetPaid(o) \/ FetchAmount(o)
      PROVE  Stutters
  <2>1. PICK s \in {"amount", "link"} : call[o] \in UnderWay /\ Ends(o, s)
    BY <1>8 DEF NotYetPaid, FetchAmount, UnderWay
  <2>2. Said' = [Said EXCEPT ![o] = "asked"] /\ Said[o] = "asked"
    BY <2>1, SaidOne DEF UnderWay, Said
  <2>3. Said' = Said
    BY <2>2 DEF Said
  <2>4. QED BY <1>8, <2>3 DEF NotYetPaid, FetchAmount, Moved, Paid, Listed
<1>9. ASSUME NEW o \in Orders, MakeLink(o)
      PROVE  Stutters \/ \E a \in Answers : Contract!Answer(o, a)
  <2>1. UNCHANGED <<kind, owner, payments>> /\ call[o] = "link" /\ kind = "razorpay"
    BY <1>9 DEF MakeLink, StepsAreReal
  <2>2. \A b \in Orders : Paid(b)' <=> Paid(b)
    BY <2>1 DEF Paid, Listed
  <2>3. CASE Ends(o, "poll")
    <3>1. Said' = [Said EXCEPT ![o] = "asked"] /\ Said[o] = "asked"
      BY <2>1, <2>3, SaidOne DEF UnderWay, Said
    <3>2. Said' = Said
      BY <3>1 DEF Said
    <3>3. QED BY <2>1, <2>2, <3>2, MovedSame
  <2>4. ASSUME NEW a \in {"timeout", "unavailable"}, Ends(o, a)
        PROVE  \E b \in Answers : Contract!Answer(o, b)
    BY <2>1, <2>2, <2>4, AnswerStep DEF UnderWay, Answers
  <2>5. QED BY <1>9, <2>3, <2>4 DEF MakeLink
<1>10. ASSUME NEW o \in Orders, Poll(o) \/ DeadlinePasses(o) \/ RequestFails(o)
       PROVE  \E a \in Answers : Contract!Answer(o, a)
  <2>1. UNCHANGED <<kind, owner, payments>> /\ call[o] \in UnderWay /\ kind = "razorpay"
    BY <1>10 DEF Poll, DeadlinePasses, RequestFails, StepsAreReal, UnderWay
  <2>2. \A b \in Orders : Paid(b)' <=> Paid(b)
    BY <2>1 DEF Paid, Listed
  <2>3. PICK a \in Answers : Ends(o, a) /\ (a = "captured" => Paid(o))
    BY <1>10 DEF Poll, Decisive, DeadlinePasses, RequestFails, ApiErrors, Answers, Paid, Listed
  <2>4. QED BY <2>1, <2>2, <2>3, AnswerStep
<1>11. ASSUME NEW o \in Orders, BuyerStarts(o)
       PROVE  Stutters
  <2>1. \A b \in Orders : Paid(b)' <=> Paid(b)
    BY <1>11, StartsSingle
  <2>2. QED BY <1>11, <2>1, MovedSame DEF BuyerStarts, Said
<1>12. ASSUME NEW o \in Orders, NEW i \in DOMAIN payments[o], NEW s \in {"failed", "captured"},
              PaymentEnds(o, i, s)
       PROVE  Stutters \/ Contract!Pay(o)
  <2>1. (Paid(o)' <=> Paid(o) \/ s = "captured")
        /\ \A b \in Orders \ {o} : payments'[b] = payments[b]
    BY <1>12, EndsSingle
  <2>2. \A b \in Orders \ {o} : Paid(b)' <=> Paid(b)
    BY <2>1 DEF Paid, Listed
  <2>3. kind = "razorpay" /\ owner[o] # None /\ UNCHANGED <<kind, owner, call>>
    BY <1>12 DEF PaymentEnds, Shape
  <2>4. Said' = Said
    BY <2>3 DEF Said
  <2>5. CASE s = "failed"
    BY <2>1, <2>2, <2>3, <2>4, <2>5, MovedSame
  <2>6. CASE s = "captured"
    <3>1. Moved' = [Moved EXCEPT ![o] = TRUE]
      BY <2>1, <2>2, <2>6, MovedOne
    <3>2. QED BY <2>3, <2>4, <3>1 DEF Contract!Pay, Moved, Said
  <2>7. QED BY <2>5, <2>6
<1>13. ASSUME UNCHANGED vars
       PROVE  Stutters
  BY <1>13 DEF vars, Moved, Said, Paid, Listed
<1> HIDE DEF Stutters
<1>14. Contract!Next \/ UNCHANGED Contract!vars
  BY <1>1, <1>2, <1>3, <1>4, <1>5, <1>6, <1>7, <1>8, <1>9, <1>10, <1>11, <1>12, <1>13
     DEF Next, FakeNext, RazorpayNext, Rule, Contract!Next, Contract!Answers, Contract!Refusals,
         Answers
<1>15. QED BY <1>14

\* Both rails keep the protocol the money path relies on: only a paid order is
\* reported captured, a refusal of the simulator is final, and money moves only
\* on an order that was made and asked for (PaymentRail).
THEOREM RailsKeepContract == Spec => KeepsContract
<1> QED BY ContractInit, ContractStep, RailInvariant, PTL DEF Spec, KeepsContract, Contract!Spec
=============================================================================
