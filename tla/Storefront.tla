----------------------------- MODULE Storefront -----------------------------
(***************************************************************************)
(* The merchant's service (merchant/service.py) over its checkouts and     *)
(* shelf (merchant/checkout.py), the approval page and the verifier.  The  *)
(* money path is taken at its word: charge, booked and outcome move only   *)
(* as MoneyPath says, in the order run takes its steps, whatever the rail  *)
(* does and however many calls pay for one mandate at once.                *)
(*                                                                         *)
(* A caller is one tool call at a time.  Checkouts, holds and the shelf    *)
(* are in memory and are lost with the process; charges, spends and        *)
(* receipts are not.  Every cart is one unit of the same product, whose    *)
(* price never changes while the process runs.                             *)
(***************************************************************************)
EXTENDS Identifiers, Verifier, TrustedSurface, FiniteSets, FiniteSetsExt

CONSTANTS Checkouts,
          Callers,
          Standing,          \* the buyer's standing authorisation
          Price,             \* signed total of each checkout
          Outside,           \* checkouts at merchants the buyer did not list
          StandingMax,       \* its limit per purchase
          StandingBudget,    \* its budget
          MaxStock,
          MaxRestarts        \* bound on the restarts explored

ASSUME StorefrontAssumption ==
  /\ None \notin Checkouts /\ IsFiniteSet(Checkouts)
  /\ Standing \notin Mandates
  /\ Price \in [Checkouts -> Nat \ {0}] /\ Outside \subseteq Checkouts
  /\ StandingMax \in Nat /\ StandingBudget \in Nat
  /\ MaxStock \in Nat /\ MaxRestarts \in Nat

ASSUME CallersAssumption == IsFiniteSet(Callers) /\ Callers # {}

VARIABLES cstatus,     \* CheckoutRecord.status; "none" before, "lost" after a restart
          settledBy,   \* settled_payment_mandate_id; None while not stock_committed
          seed, stock, \* units in the seed file, and on the shelf
          oversold,    \* checkouts whose commit found too few units
          paper,       \* the payment mandates signed so far
          burned,      \* nonce_registry: owner of each nonce
          charge, booked, outcome,   \* the money path, see MoneyPath
          step, checkout, mandate,   \* of each caller
          restarts

shopVars == <<cstatus, settledBy, seed, stock, oversold>>
mandateVars == <<paper, burned>>
moneyVars == <<charge, booked, outcome>>
callVars == <<step, checkout, mandate>>
vars == <<shopVars, mandateVars, moneyVars, callVars, surfaceVars, restarts>>

Money == INSTANCE MoneyPath

Running == {"pay", "attempt", "booked", "close", "commit", "fail_write"}
Replies == {"paid", "failed", "deferred", "refused", "elsewhere"}
CallSteps == {"idle", "lookup", "guard", "recheck", "verify"} \cup Running \cup Replies

\* A nonce is named after a mandate that carries it.
Papers == [checkout : Checkouts, under : {Standing} \cup Mandates, nonce : Mandates]

ASSUME PaperAssumption == None \notin Papers

TypeOK ==
  /\ cstatus \in [Checkouts -> {"none", "open", "confirmed", "paid", "lost"}]
  /\ settledBy \in [Checkouts -> Mandates \cup {None}]
  /\ seed \in 1 .. MaxStock /\ stock \in 0 .. MaxStock
  /\ oversold \in SUBSET Checkouts
  /\ paper \in [Mandates -> Papers \cup {None}]
  /\ burned \in [Mandates -> Mandates \cup {None}]
  /\ charge \in [Mandates -> SUBSET Orders]
  /\ booked \in SUBSET Mandates
  /\ outcome \in [Mandates -> {"open", "captured", "failed"}]
  /\ step \in [Callers -> CallSteps]
  /\ checkout \in [Callers -> Checkouts \cup {None}]
  /\ mandate \in [Callers -> Mandates \cup {None}]
  /\ restarts \in 0 .. MaxRestarts
  /\ SurfaceTypeOK(Checkouts \cup {None}, Mandates \cup {None})
  /\ \A k \in Callers : step[k] # "idle" => paper[mandate[k]] # None

Init ==
  /\ cstatus = [c \in Checkouts |-> "none"]
  /\ settledBy = [c \in Checkouts |-> None]
  /\ seed \in 1 .. MaxStock
  /\ stock = seed
  /\ oversold = {}
  /\ paper = [m \in Mandates |-> None]
  /\ burned = [n \in Mandates |-> None]
  /\ Money!Init
  /\ step = [k \in Callers |-> "idle"]
  /\ checkout = [k \in Callers |-> None]
  /\ mandate = [k \in Callers |-> None]
  /\ restarts = 0
  /\ SurfaceInit(None)

-----------------------------------------------------------------------------
(* What the verifier is shown.  Whether a mandate is late is for the clock *)
(* to say: it may be at any presentation.                                  *)

Closed(m, late) ==
  [id |-> m, signer |-> IF paper[m].under = Standing THEN "agent" ELSE "user",
   amount |-> Price[paper[m].checkout], payee |-> paper[m].checkout,
   checkout |-> paper[m].checkout, nonce |-> paper[m].nonce, lapsed |-> late]

\* The standing authorisation, or the one-time mandate an approval signs for
\* exactly one amount, merchant and checkout.
Open(m, late) ==
  LET c == paper[m].checkout IN
  IF paper[m].under = Standing
    THEN [holder |-> "agent", payees |-> Checkouts \ Outside, min |-> 0, max |-> StandingMax,
          budget |-> StandingBudget, pinned |-> {}, lapsed |-> late]
    ELSE [holder |-> "user", payees |-> {c}, min |-> Price[c], max |-> Price[c],
          budget |-> Price[c], pinned |-> {c}, lapsed |-> late]

\* spent_under
Spent(under) ==
  SumFunction([m \in {n \in booked : paper[n].under = under} |-> Price[paper[m].checkout]])

\* nonce_owner
Owners(m) == {burned[paper[m].nonce]} \ {None}

\* recheck
InStock == stock > 0

\* Mutant: what is left may be less than nothing.
LeftUnclamped == stock - 1

\* take
Left == IF stock > 0 THEN stock - 1 ELSE 0

-----------------------------------------------------------------------------
(* The tools before the payment, each one call.                            *)

CreateCheckout(k, c) ==
  /\ step[k] = "idle"
  /\ cstatus[c] = "none"
  /\ InStock
  /\ cstatus' = [cstatus EXCEPT ![c] = "open"]
  /\ UNCHANGED <<settledBy, seed, stock, oversold, mandateVars, moneyVars, callVars,
                 surfaceVars, restarts>>

\* _checkout_gap, with the standing Checkout Mandate or with the one the buyer
\* signed for this cart when approving.
InScope(c) == c \notin Outside /\ Price[c] <= StandingMax

NoGap(c) ==
  InScope(c) \/ \E h \in Holds : hstatus[h] = "approved" /\ hcheckout[h] = c

CompleteCheckout(k, c) ==
  /\ step[k] = "idle"
  /\ cstatus[c] \in {"open", "confirmed", "paid"}
  /\ NoGap(c)
  /\ InStock
  /\ cstatus' = [cstatus EXCEPT ![c] = "confirmed"]
  /\ UNCHANGED <<settledBy, seed, stock, oversold, mandateVars, moneyVars, callVars,
                 surfaceVars, restarts>>

\* complete_checkout outside the standing limits asks the buyer ...
CheckoutUnresolved(k, c) ==
  /\ step[k] = "idle"
  /\ cstatus[c] \in {"open", "confirmed", "paid"}
  /\ ~InScope(c)
  /\ \E h \in Holds : Hold(h, c)
  /\ UNCHANGED <<shopVars, mandateVars, moneyVars, callVars, restarts>>

\* ... and so does initiate_payment when shown only the standing mandate.
PaymentUnresolved(k, c) ==
  /\ step[k] = "idle"
  /\ cstatus[c] \in {"confirmed", "paid"}
  /\ settledBy[c] = None
  /\ InStock
  /\ \E h \in Holds : Hold(h, c)
  /\ UNCHANGED <<shopVars, mandateVars, moneyVars, callVars, restarts>>

-----------------------------------------------------------------------------
(* initiate_payment, up to the call of run.                                *)

Goto(k, s) == step' = [step EXCEPT ![k] = s]

InitiatePayment(k, c, m) ==
  /\ step[k] = "idle"
  /\ cstatus[c] \in {"confirmed", "paid"}
  /\ paper[m] # None
  /\ Goto(k, "lookup")
  /\ checkout' = [checkout EXCEPT ![k] = c]
  /\ mandate' = [mandate EXCEPT ![k] = m]
  /\ UNCHANGED <<shopVars, mandateVars, moneyVars, surfaceVars, restarts>>

ReplyOf(m) == IF outcome[m] = "captured" THEN "paid" ELSE "failed"

\* Mutant: the stored receipt is returned whatever checkout it settled.
LookupAnyCheckout(k) ==
  /\ step[k] = "lookup"
  /\ Goto(k, IF outcome[mandate[k]] = "open" THEN "guard" ELSE ReplyOf(mandate[k]))
  /\ UNCHANGED <<shopVars, mandateVars, moneyVars, surfaceVars, checkout, mandate, restarts>>

\* existing_outcome, and whether its receipt is about this checkout.
Lookup(k) ==
  LET m == mandate[k] IN
  /\ step[k] = "lookup"
  /\ Goto(k, IF outcome[m] = "open" THEN "guard"
             ELSE IF paper[m].checkout = checkout[k] THEN ReplyOf(m) ELSE "elsewhere")
  /\ UNCHANGED <<shopVars, mandateVars, moneyVars, surfaceVars, checkout, mandate, restarts>>

\* Mutant: a checkout that is paid can be paid again.
GuardDropped(k) ==
  /\ step[k] = "guard"
  /\ Goto(k, "recheck")
  /\ UNCHANGED <<shopVars, mandateVars, moneyVars, surfaceVars, checkout, mandate, restarts>>

\* stock_committed: checkout.already_settled
Guard(k) ==
  /\ step[k] = "guard"
  /\ Goto(k, IF settledBy[checkout[k]] = None THEN "recheck" ELSE "refused")
  /\ UNCHANGED <<shopVars, mandateVars, moneyVars, surfaceVars, checkout, mandate, restarts>>

Recheck(k) ==
  /\ step[k] = "recheck"
  /\ Goto(k, IF InStock THEN "verify" ELSE "refused")
  /\ UNCHANGED <<shopVars, mandateVars, moneyVars, surfaceVars, checkout, mandate, restarts>>

Verify(k) ==
  LET m == mandate[k] IN
  /\ step[k] = "verify"
  /\ \E late, openLate \in BOOLEAN :
       Goto(k, IF Allows(Closed(m, late), Open(m, openLate), checkout[k],
                         Spent(paper[m].under), Owners(m))
                 THEN "pay" ELSE "refused")
  /\ UNCHANGED <<shopVars, mandateVars, moneyVars, surfaceVars, checkout, mandate, restarts>>

-----------------------------------------------------------------------------
(* run, as MoneyPath lets it move the money.  "pay" is the top of the      *)
(* ladder, without a lease; "attempt" to "close" are under the lease, for  *)
(* as long as that lasts.                                                  *)

Attempting(k, m) == step[k] \in {"attempt", "booked", "close"} /\ mandate[k] = m

\* A rung: the shelf still has it, the lease is free or has lapsed under whoever
\* took it, and the nonce is burned.
Attempt(k) ==
  /\ step[k] = "pay"
  /\ InStock
  /\ outcome[mandate[k]] = "open"
  /\ burned' = [burned EXCEPT ![paper[mandate[k]].nonce] = IF @ = None THEN mandate[k] ELSE @]
  /\ Goto(k, "attempt")
  /\ UNCHANGED <<shopVars, paper, moneyVars, surfaceVars, checkout, mandate, restarts>>

\* The rail captures; whether the answer arrives is seen in what comes next.
Capture(k) ==
  /\ step[k] = "attempt"
  /\ Money!Charge(mandate[k])
  /\ UNCHANGED <<shopVars, mandateVars, callVars, surfaceVars, restarts>>

\* Declined, or no answer: the lease is released and the ladder goes on.
AttemptFails(k) ==
  /\ step[k] = "attempt"
  /\ Goto(k, "pay")
  /\ UNCHANGED <<shopVars, mandateVars, moneyVars, surfaceVars, checkout, mandate, restarts>>

\* Captured, by this attempt or by one the probe found.
Book(k) ==
  /\ step[k] = "attempt"
  /\ Money!Book(mandate[k])
  /\ Goto(k, "booked")
  /\ UNCHANGED <<shopVars, mandateVars, surfaceVars, checkout, mandate, restarts>>

\* finalise looks whether the record is open, ...
SettleCheck(k) ==
  /\ step[k] = "booked"
  /\ outcome[mandate[k]] = "open"
  /\ Goto(k, "close")
  /\ UNCHANGED <<shopVars, mandateVars, moneyVars, surfaceVars, checkout, mandate, restarts>>

\* ... and writes the captured receipt over whatever is there by then.
Confirm(k) ==
  /\ step[k] = "close"
  /\ Money!ConfirmReceipt(mandate[k])
  /\ Goto(k, "commit")
  /\ UNCHANGED <<shopVars, mandateVars, surfaceVars, checkout, mandate, restarts>>

\* finalise_failure, which holds no lease, for the stock is gone, the ladder is
\* exhausted or the request was rejected: the record is open, ...
FailCheck(k) ==
  /\ step[k] = "pay"
  /\ outcome[mandate[k]] = "open"
  /\ Goto(k, "fail_write")
  /\ UNCHANGED <<shopVars, mandateVars, moneyVars, surfaceVars, checkout, mandate, restarts>>

\* ... and the failed receipt replaces whatever is there by then.
Refuse(k) ==
  /\ step[k] = "fail_write"
  /\ Money!RefuseReceipt(mandate[k])
  /\ Goto(k, "failed")
  /\ UNCHANGED <<shopVars, mandateVars, surfaceVars, checkout, mandate, restarts>>

Defer(k) ==
  /\ step[k] = "pay"
  /\ Goto(k, "deferred")
  /\ UNCHANGED <<shopVars, mandateVars, moneyVars, surfaceVars, checkout, mandate, restarts>>

\* Another call finished this mandate.
Replay(k) ==
  /\ step[k] = "pay"
  /\ outcome[mandate[k]] # "open"
  /\ Goto(k, IF outcome[mandate[k]] = "captured" THEN "commit" ELSE "failed")
  /\ UNCHANGED <<shopVars, mandateVars, moneyVars, surfaceVars, checkout, mandate, restarts>>

Hangup(k) ==
  /\ Goto(k, "idle")
  /\ checkout' = [checkout EXCEPT ![k] = None]
  /\ mandate' = [mandate EXCEPT ![k] = None]

\* ConcurrentAttemptError: the lease is held, by another call or by one that
\* died.  DoubleFinalisationError: another call wrote the receipt before finalise
\* looked.
Raise(k) ==
  /\ \/ /\ step[k] = "pay"
        /\ \/ \E j \in Callers : Attempting(j, mandate[k])
           \/ restarts > 0
     \/ step[k] \in {"pay", "booked"} /\ outcome[mandate[k]] # "open"
  /\ Hangup(k)
  /\ UNCHANGED <<shopVars, mandateVars, moneyVars, surfaceVars, restarts>>

-----------------------------------------------------------------------------
(* After the capture, and the answers.                                     *)

\* Mutant: a receipt presented twice takes its unit off the shelf twice.
CommitStockAgain(k) ==
  LET c == checkout[k] IN
  /\ step[k] = "commit"
  /\ stock' = Left
  /\ settledBy' = [settledBy EXCEPT ![c] = mandate[k]]
  /\ cstatus' = [cstatus EXCEPT ![c] = "paid"]
  /\ oversold' = IF stock > 0 THEN oversold ELSE oversold \cup {c}
  /\ Goto(k, "paid")
  /\ UNCHANGED <<seed, mandateVars, moneyVars, surfaceVars, checkout, mandate, restarts>>

\* Mutant: whether there was a unit is asked after it was taken.
CommitStockAsksLate(k) ==
  LET c == checkout[k] IN
  /\ step[k] = "commit"
  /\ IF settledBy[c] # None
       THEN UNCHANGED shopVars
       ELSE /\ stock' = Left
            /\ settledBy' = [settledBy EXCEPT ![c] = mandate[k]]
            /\ cstatus' = [cstatus EXCEPT ![c] = "paid"]
            /\ oversold' = IF Left > 0 THEN oversold ELSE oversold \cup {c}
            /\ UNCHANGED seed
  /\ Goto(k, "paid")
  /\ UNCHANGED <<mandateVars, moneyVars, surfaceVars, checkout, mandate, restarts>>

\* Mutant: the captured receipt goes out with the unit still on the shelf.
CommitStockForgotten(k) ==
  /\ step[k] = "commit"
  /\ Goto(k, "paid")
  /\ UNCHANGED <<shopVars, mandateVars, moneyVars, surfaceVars, checkout, mandate, restarts>>

\* commit_stock, idempotent and never refusing, and take.
CommitStock(k) ==
  LET c == checkout[k] IN
  /\ step[k] = "commit"
  /\ IF settledBy[c] # None
       THEN UNCHANGED shopVars
       ELSE /\ stock' = Left
            /\ settledBy' = [settledBy EXCEPT ![c] = mandate[k]]
            /\ cstatus' = [cstatus EXCEPT ![c] = "paid"]
            /\ oversold' = IF stock > 0 THEN oversold ELSE oversold \cup {c}
            /\ UNCHANGED seed
  /\ Goto(k, "paid")
  /\ UNCHANGED <<mandateVars, moneyVars, surfaceVars, checkout, mandate, restarts>>

\* The answer has been read.
Answered(k) ==
  /\ step[k] \in Replies
  /\ Hangup(k)
  /\ UNCHANGED <<shopVars, mandateVars, moneyVars, surfaceVars, restarts>>

-----------------------------------------------------------------------------
(* The agent, the buyer and the world.                                     *)

\* The agent signs a payment mandate for a checkout under its standing
\* authorisation; the nonce may be one it used before.
SignMandate(m, c) ==
  /\ paper[m] = None
  /\ cstatus[c] # "none"
  /\ \E n \in {m} \cup {o \in Mandates : paper[o] # None} :
       paper' = [paper EXCEPT ![m] = [checkout |-> c, under |-> Standing, nonce |-> n]]
  /\ UNCHANGED <<shopVars, burned, moneyVars, callVars, surfaceVars, restarts>>

\* The buyer's approval signs a mandate of its own.
ApprovalGiven(t, h, m) ==
  /\ paper[m] = None
  /\ Approve(t, h, m)
  /\ paper' = [paper EXCEPT ![m] = [checkout |-> hcheckout[h], under |-> m, nonce |-> m]]
  /\ UNCHANGED <<shopVars, burned, moneyVars, callVars, restarts>>

Buyer ==
  /\ \E h \in Holds :
       \/ Look(h)
       \/ \E t \in Clicks, approve \in BOOLEAN : BeginDecision(t, h, approve)
       \/ \E t \in Clicks : Deny(t, h)
  /\ UNCHANGED <<shopVars, mandateVars, moneyVars, callVars, restarts>>

\* The process dies and starts again from the seed file.
Restart ==
  /\ restarts < MaxRestarts
  /\ restarts' = restarts + 1
  /\ cstatus' = [c \in Checkouts |-> IF cstatus[c] = "none" THEN "none" ELSE "lost"]
  /\ settledBy' = [c \in Checkouts |-> None]
  /\ stock' = seed
  /\ oversold' = {}
  /\ step' = [k \in Callers |-> "idle"]
  /\ checkout' = [k \in Callers |-> None]
  /\ mandate' = [k \in Callers |-> None]
  /\ ForgetHolds
  /\ UNCHANGED <<seed, mandateVars, moneyVars>>

-----------------------------------------------------------------------------
Call(k) ==
  \/ \E c \in Checkouts :
       \/ CreateCheckout(k, c) \/ CompleteCheckout(k, c)
       \/ CheckoutUnresolved(k, c) \/ PaymentUnresolved(k, c)
       \/ \E m \in Mandates : InitiatePayment(k, c, m)
  \/ Lookup(k) \/ Guard(k) \/ Recheck(k) \/ Verify(k)
  \/ Attempt(k) \/ Capture(k) \/ AttemptFails(k) \/ Book(k)
  \/ SettleCheck(k) \/ Confirm(k) \/ FailCheck(k) \/ Refuse(k)
  \/ Defer(k) \/ Replay(k) \/ Raise(k)
  \/ CommitStock(k) \/ Answered(k)

Next ==
  \/ \E k \in Callers : Call(k)
  \/ \E m \in Mandates, c \in Checkouts : SignMandate(m, c)
  \/ \E t \in Clicks, h \in Holds, m \in Mandates : ApprovalGiven(t, h, m)
  \/ Buyer
  \/ Restart

Spec == Init /\ [][Next]_vars

-----------------------------------------------------------------------------
(* What the storefront promises.                                           *)

Receipts(c) == {m \in Mandates :
  outcome[m] = "captured" /\ paper[m].checkout = c}

\* "A checkout is a single purchase. It is paid once." (initiate_payment): at
\* most one captured receipt is issued for a checkout.
OneReceiptPerCheckout ==
  \A c \in Checkouts : Cardinality(Receipts(c)) <= 1

\* The same promise in money: no second charge for a checkout, not even one
\* whose receipt never came.
OneChargePerCheckout ==
  \A c \in Checkouts :
    Cardinality({m \in Mandates : charge[m] # {} /\ paper[m].checkout = c}) <= 1

\* What is booked after a capture is not in the sum check_budget saw: calls that
\* were verified at once may each have fitted the budget.  All but one of them
\* may go over it, by a purchase each, and never more, across checkouts,
\* approvals, deferrals and restarts.
OverspendBounded ==
  Spent(Standing) <= StandingBudget + (Cardinality(Callers) - 1) * StandingMax

\* With one call at a time: captured spends never add up to more than the
\* authorisation they draw on.
BudgetKept ==
  /\ Spent(Standing) <= StandingBudget
  /\ \A m \in booked : paper[m].under = m => Spent(m) <= Price[paper[m].checkout]

\* One use per nonce: two mandates that carry the same nonce are never both
\* charged.
NonceChargedOnce ==
  \A m, n \in Mandates :
    charge[m] # {} /\ charge[n] # {} /\ paper[m].nonce = paper[n].nonce => m = n

\* An answer is about the checkout that was asked about: behind "captured" money
\* moved for it and is counted, and behind "failed" there is a receipt.  It need
\* not be the receipt that stands: a failed one may replace a captured one.
AnswersThisCheckout ==
  \A k \in Callers : step[k] \in {"paid", "failed"} =>
    /\ paper[mandate[k]].checkout = checkout[k]
    /\ IF step[k] = "paid"
         THEN charge[mandate[k]] # {} /\ mandate[k] \in booked
         ELSE outcome[mandate[k]] # "open"

\* A checkout is settled by a mandate that was signed for it, charged and counted,
\* whatever became of its receipt.
SettledByItsCharge ==
  \A c \in Checkouts : LET m == settledBy[c] IN
    m # None => paper[m].checkout = c /\ charge[m] # {} /\ m \in booked

\* A caller told that it paid finds the checkout settled and the unit taken.
PaidMeansCommitted ==
  \A k \in Callers : step[k] = "paid" => settledBy[checkout[k]] # None

\* The shelf balances: what is gone are the units of the settled checkouts, each
\* counted once, except those that found none.
ShelfBalances ==
  LET settled == {c \in Checkouts : settledBy[c] # None}
  IN stock + Cardinality(settled \ oversold) = seed

\* "Concurrent checkouts each passed the pre-payment re-check while stock was
\* still positive, then all captured" (initiate_payment): all but one of the
\* calls at once may find their unit gone, and never more in the process's life.
OversellBounded == Cardinality(oversold) <= Cardinality(Callers) - 1

\* With one call at a time: no unit is sold that is not there.
NeverOversold == oversold = {}

\* "A double-clicked Approve must not mint a second mandate, and a Deny after an
\* Approve must not un-authorise" it (decide): a hold is decided, and signed for,
\* by the clicks that were under way at once when the first was done, and never
\* again; where clicks come one at a time that is once.
DecisionsBounded == \A h \in Holds : decided[h] <= Cardinality(Clicks)

\* What the quoted sentence says: what the buyer decided stays decided.
DecisionIsFinal ==
  [][\A h \in Holds : hstatus[h] \in {"approved", "denied"} /\ hstatus'[h] # "lost" =>
       hstatus'[h] = hstatus[h] /\ hmandate'[h] = hmandate[h]]_vars
=============================================================================
