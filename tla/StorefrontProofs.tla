-------------------------- MODULE StorefrontProofs --------------------------
(***************************************************************************)
(* Theorems about the storefront, for every number of checkouts, mandates, *)
(* orders, holds and restarts: with any number of calls and clicks at      *)
(* once, with one call at a time, and what n calls or n clicks at once can *)
(* come to.                                                                *)
(***************************************************************************)
EXTENDS Storefront, Sums

ShopTyped ==
  /\ cstatus \in [Checkouts -> {"none", "open", "confirmed", "paid", "lost"}]
  /\ settledBy \in [Checkouts -> Mandates \cup {None}]
  /\ seed \in 1 .. MaxStock /\ stock \in 0 .. MaxStock
  /\ oversold \in SUBSET Checkouts

PaperTyped ==
  /\ paper \in [Mandates -> Papers \cup {None}]
  /\ burned \in [Mandates -> Mandates \cup {None}]

MoneyTyped ==
  /\ charge \in [Mandates -> SUBSET Orders]
  /\ booked \in SUBSET Mandates
  /\ outcome \in [Mandates -> {"open", "captured", "failed"}]

\* A caller that is under way has a checkout and a mandate that was signed.
CallTyped ==
  /\ step \in [Callers -> CallSteps]
  /\ checkout \in [Callers -> Checkouts \cup {None}]
  /\ mandate \in [Callers -> Mandates \cup {None}]
  /\ \A k \in Callers : step[k] # "idle" =>
       checkout[k] \in Checkouts /\ mandate[k] \in Mandates /\ paper[mandate[k]] \in Papers

\* A hold is about a checkout, and only holds are clicked on.
SurfaceTyped ==
  /\ SurfaceTypeOK(Checkouts \cup {None}, Mandates \cup {None})
  /\ \A h \in Holds : hstatus[h] # "unused" => hcheckout[h] \in Checkouts
  /\ \A t \in Clicks, h \in Holds, approve \in BOOLEAN :
       click[t] = <<h, approve>> => hstatus[h] # "unused"

Typed == ShopTyped /\ PaperTyped /\ MoneyTyped /\ CallTyped /\ SurfaceTyped
         /\ restarts \in 0 .. MaxRestarts

LEMMA StockLeft == stock \in 0 .. MaxStock => Left \in 0 .. MaxStock
BY StorefrontAssumption DEF Left

LEMMA InitTyped == Init => Typed
BY StorefrontAssumption, NoneAssumption
   DEF Init, Money!Init, SurfaceInit, Typed, ShopTyped, PaperTyped, MoneyTyped, CallTyped,
       SurfaceTyped, SurfaceTypeOK, CallSteps, Running, Replies

\* The end of a decision.
LEMMA DecidingTyped ==
  ASSUME SurfaceTyped, NEW h \in Holds, NEW t \in Clicks, NEW s \in {"approved", "denied"},
         hstatus[h] # "unused", hstatus' = [hstatus EXCEPT ![h] = s],
         click' = [click EXCEPT ![t] = <<>>], UNCHANGED hcheckout,
         decided' \in [Holds -> Nat], hmandate' \in [Holds -> Mandates \cup {None}]
  PROVE  SurfaceTyped'
<1> USE DEF SurfaceTyped, SurfaceTypeOK
<1>1. SurfaceTypeOK(Checkouts \cup {None}, Mandates \cup {None})'
  OBVIOUS
<1>2. \A g \in Holds : hstatus'[g] # "unused" => hcheckout'[g] \in Checkouts
  OBVIOUS
<1>3. ASSUME NEW u \in Clicks, NEW g \in Holds, NEW approve \in BOOLEAN, click'[u] = <<g, approve>>
      PROVE  hstatus'[g] # "unused"
  <2>1. u # t /\ click'[u] = click[u]
    BY <1>3
  <2>2. hstatus[g] # "unused"
    BY <1>3, <2>1
  <2>3. QED BY <2>2
<1>4. QED BY <1>1, <1>2, <1>3

LEMMA SurfaceStep ==
  ASSUME SurfaceTyped, NEW h \in Holds
  PROVE  /\ \A c \in Checkouts : Hold(h, c) => SurfaceTyped'
         /\ Look(h) => SurfaceTyped'
         /\ \A t \in Clicks :
              /\ \A approve \in BOOLEAN : BeginDecision(t, h, approve) => SurfaceTyped'
              /\ Deny(t, h) => SurfaceTyped'
              /\ \A m \in Mandates : Approve(t, h, m) => SurfaceTyped'
<1> USE DEF SurfaceTyped, SurfaceTypeOK
<1>1. ASSUME NEW c \in Checkouts, Hold(h, c) PROVE SurfaceTyped'
  BY <1>1 DEF Hold
<1>2. ASSUME Look(h) PROVE SurfaceTyped'
  BY <1>2 DEF Look
<1>3. ASSUME NEW t \in Clicks, NEW approve \in BOOLEAN, BeginDecision(t, h, approve) PROVE SurfaceTyped'
  BY <1>3 DEF BeginDecision
<1>4. ASSUME NEW t \in Clicks, Deny(t, h) PROVE SurfaceTyped'
  <2>1. decided' \in [Holds -> Nat]
    BY <1>4 DEF Deny
  <2>2. UNCHANGED <<hcheckout, hmandate>> /\ hstatus' = [hstatus EXCEPT ![h] = "denied"]
        /\ click' = [click EXCEPT ![t] = <<>>] /\ hstatus[h] # "unused"
    BY <1>4 DEF Deny
  <2>3. QED BY <2>1, <2>2, DecidingTyped
<1>5. ASSUME NEW t \in Clicks, NEW m \in Mandates, Approve(t, h, m) PROVE SurfaceTyped'
  <2>1. decided' \in [Holds -> Nat]
    BY <1>5 DEF Approve
  <2>2. UNCHANGED hcheckout /\ hmandate' = [hmandate EXCEPT ![h] = m]
        /\ hstatus' = [hstatus EXCEPT ![h] = "approved"] /\ click' = [click EXCEPT ![t] = <<>>]
        /\ hstatus[h] # "unused"
    BY <1>5 DEF Approve
  <2>3. hmandate' \in [Holds -> Mandates \cup {None}]
    BY <2>2
  <2>4. QED BY <2>1, <2>2, <2>3, DecidingTyped
<1>6. QED BY <1>1, <1>2, <1>3, <1>4, <1>5

LEMMA MoneyStep ==
  ASSUME MoneyTyped, NEW m \in Mandates,
         Money!Charge(m) \/ Money!Book(m) \/ Money!ConfirmReceipt(m) \/ Money!RefuseReceipt(m)
  PROVE  MoneyTyped'
BY DEF MoneyTyped, Money!Charge, Money!Book, Money!ConfirmReceipt, Money!RefuseReceipt

\* What a call does to its caller: it goes on, or it ends.
LEMMA GotoTyped ==
  ASSUME CallTyped, NEW k \in Callers, step[k] # "idle", NEW s \in CallSteps, Goto(k, s),
         UNCHANGED <<checkout, mandate, paper>>
  PROVE  CallTyped'
BY DEF CallTyped, Goto

LEMMA HangupTyped ==
  ASSUME CallTyped, NEW k \in Callers, Hangup(k), UNCHANGED paper
  PROVE  CallTyped'
BY DEF CallTyped, Hangup, Goto, CallSteps

LEMMA Unmoved ==
  ASSUME Typed
  PROVE  /\ UNCHANGED shopVars => ShopTyped'
         /\ UNCHANGED mandateVars => PaperTyped'
         /\ UNCHANGED moneyVars => MoneyTyped'
         /\ UNCHANGED <<callVars, paper>> => CallTyped'
         /\ UNCHANGED surfaceVars => SurfaceTyped'
         /\ UNCHANGED restarts => (restarts \in 0 .. MaxRestarts)'
<1> USE DEF Typed
<1>1. ASSUME UNCHANGED shopVars PROVE ShopTyped'
  BY <1>1 DEF shopVars, ShopTyped
<1>2. ASSUME UNCHANGED mandateVars PROVE PaperTyped'
  BY <1>2 DEF mandateVars, PaperTyped
<1>3. ASSUME UNCHANGED moneyVars PROVE MoneyTyped'
  BY <1>3 DEF moneyVars, MoneyTyped
<1>4. ASSUME UNCHANGED <<callVars, paper>> PROVE CallTyped'
  BY <1>4 DEF callVars, CallTyped
<1>5. ASSUME UNCHANGED surfaceVars PROVE SurfaceTyped'
  BY <1>5 DEF surfaceVars, SurfaceTyped, SurfaceTypeOK
<1>6. QED BY <1>1, <1>2, <1>3, <1>4, <1>5

\* The steps of a caller that only move it on.
LEMMA TurnTyped ==
  ASSUME Typed, NEW k \in Callers,
         Lookup(k) \/ Guard(k) \/ Recheck(k) \/ Verify(k) \/ AttemptFails(k) \/ Defer(k) \/ Replay(k)
           \/ SettleCheck(k) \/ FailCheck(k)
  PROVE  Typed'
<1>1. step[k] # "idle"
      /\ UNCHANGED <<shopVars, mandateVars, moneyVars, surfaceVars, checkout, mandate, restarts>>
  BY DEF Lookup, Guard, Recheck, Verify, AttemptFails, Defer, Replay, SettleCheck, FailCheck
<1>2. \E s \in CallSteps : Goto(k, s)
  BY DEF Lookup, Guard, Recheck, Verify, AttemptFails, Defer, Replay, SettleCheck, FailCheck, ReplyOf,
         CallSteps, Running, Replies
<1>3. CallTyped'
  BY <1>1, <1>2, GotoTyped DEF Typed, mandateVars
<1>4. QED BY <1>1, <1>3, Unmoved DEF Typed

LEMMA MoneyTurnTyped ==
  ASSUME Typed, NEW k \in Callers,
         Capture(k) \/ Book(k) \/ Confirm(k) \/ Refuse(k)
  PROVE  Typed'
<1>1. mandate[k] \in Mandates /\ step[k] # "idle"
  BY DEF Capture, Book, Confirm, Refuse, Typed, CallTyped
<1>2. MoneyTyped'
  BY <1>1, MoneyStep DEF Typed, Capture, Book, Confirm, Refuse
<1>3. UNCHANGED <<shopVars, mandateVars, surfaceVars, checkout, mandate, restarts>>
  BY DEF Capture, Book, Confirm, Refuse, callVars
<1>4. UNCHANGED step \/ \E s \in CallSteps : Goto(k, s)
  BY DEF Capture, Book, Confirm, Refuse, callVars, CallSteps, Running, Replies
<1>5. CallTyped'
  <2>1. CASE UNCHANGED step
    BY <1>3, <2>1, Unmoved DEF callVars, mandateVars
  <2>2. CASE \E s \in CallSteps : Goto(k, s)
    BY <1>1, <1>3, <2>2, GotoTyped DEF Typed, mandateVars
  <2>3. QED BY <1>4, <2>1, <2>2
<1>6. QED BY <1>2, <1>3, <1>5, Unmoved DEF Typed

LEMMA AttemptTyped ==
  ASSUME Typed, NEW k \in Callers, Attempt(k)
  PROVE  Typed'
<1>1. mandate[k] \in Mandates /\ paper[mandate[k]] \in Papers /\ step[k] # "idle"
  BY DEF Attempt, Typed, CallTyped
<1>2. PaperTyped'
  BY <1>1 DEF Attempt, Typed, PaperTyped, Papers
<1>3. CallTyped'
  BY <1>1, GotoTyped DEF Attempt, Typed, CallSteps, Running
<1>4. QED BY <1>2, <1>3, Unmoved DEF Attempt, Typed

LEMMA CommitTyped ==
  ASSUME Typed, NEW k \in Callers, CommitStock(k)
  PROVE  Typed'
<1>1. mandate[k] \in Mandates /\ checkout[k] \in Checkouts /\ step[k] # "idle"
  BY DEF CommitStock, Typed, CallTyped
<1>2. Left \in 0 .. MaxStock
  BY StockLeft DEF Typed, ShopTyped
<1>3. ShopTyped'
  BY <1>1, <1>2 DEF CommitStock, Typed, ShopTyped, shopVars
<1>4. CallTyped'
  BY <1>1, GotoTyped DEF CommitStock, Typed, CallSteps, Replies, mandateVars
<1>5. QED BY <1>3, <1>4, Unmoved DEF CommitStock, Typed

LEMMA CallStepTyped ==
  ASSUME Typed, NEW k \in Callers, Call(k)
  PROVE  Typed'
<1>1. ASSUME NEW c \in Checkouts, CreateCheckout(k, c) \/ CompleteCheckout(k, c)
      PROVE  Typed'
  <2>1. ShopTyped'
    BY <1>1 DEF CreateCheckout, CompleteCheckout, Typed, ShopTyped
  <2>2. UNCHANGED <<mandateVars, moneyVars, callVars, surfaceVars, restarts>>
    BY <1>1 DEF CreateCheckout, CompleteCheckout
  <2>3. QED BY <2>1, <2>2, Unmoved DEF Typed, mandateVars
<1>2. ASSUME NEW c \in Checkouts, CheckoutUnresolved(k, c) \/ PaymentUnresolved(k, c)
      PROVE  Typed'
  <2>1. SurfaceTyped'
    <3>1. PICK h \in Holds : Hold(h, c)
      BY <1>2 DEF CheckoutUnresolved, PaymentUnresolved
    <3>2. QED BY <3>1, SurfaceStep DEF Typed
  <2>2. UNCHANGED <<shopVars, mandateVars, moneyVars, callVars, restarts>>
    BY <1>2 DEF CheckoutUnresolved, PaymentUnresolved
  <2>3. QED BY <2>1, <2>2, Unmoved DEF Typed, mandateVars
<1>3. ASSUME NEW c \in Checkouts, NEW m \in Mandates, InitiatePayment(k, c, m)
      PROVE  Typed'
  <2>1. CallTyped'
    BY <1>3 DEF InitiatePayment, Goto, Typed, CallTyped, PaperTyped, CallSteps, mandateVars
  <2>2. QED BY <1>3, <2>1, Unmoved DEF InitiatePayment, Typed
<1>4. CASE Raise(k) \/ Answered(k)
  <2>1. Hangup(k) /\ UNCHANGED <<shopVars, mandateVars, moneyVars, surfaceVars, restarts>>
    BY <1>4 DEF Raise, Answered
  <2>2. CallTyped'
    BY <2>1, HangupTyped DEF Typed, mandateVars
  <2>3. QED BY <2>1, <2>2, Unmoved DEF Typed
<1>5. QED
  BY <1>1, <1>2, <1>3, <1>4, TurnTyped, MoneyTurnTyped, AttemptTyped, CommitTyped DEF Call

LEMMA TypedStep ==
  ASSUME Typed, [Next]_vars
  PROVE  Typed'
<1>1. ASSUME NEW m \in Mandates, NEW c \in Checkouts, SignMandate(m, c)
      PROVE  Typed'
  <2>1. PaperTyped' /\ CallTyped'
    BY <1>1 DEF SignMandate, Typed, PaperTyped, CallTyped, Papers, callVars
  <2>2. QED BY <1>1, <2>1, Unmoved DEF SignMandate, Typed
<1>2. ASSUME NEW t \in Clicks, NEW h \in Holds, NEW m \in Mandates, ApprovalGiven(t, h, m)
      PROVE  Typed'
  <2>1. SurfaceTyped'
    BY <1>2, SurfaceStep DEF ApprovalGiven, Typed
  <2>2. hcheckout[h] \in Checkouts
    BY <1>2 DEF ApprovalGiven, Approve, Typed, SurfaceTyped
  <2>3. PaperTyped' /\ CallTyped'
    BY <1>2, <2>2 DEF ApprovalGiven, Typed, PaperTyped, CallTyped, Papers, callVars
  <2>4. QED BY <1>2, <2>1, <2>3, Unmoved DEF ApprovalGiven, Typed
<1>3. CASE Buyer
  <2>1. SurfaceTyped'
    <3>1. PICK h \in Holds :
             \/ Look(h)
             \/ \E t \in Clicks, approve \in BOOLEAN : BeginDecision(t, h, approve)
             \/ \E t \in Clicks : Deny(t, h)
      BY <1>3 DEF Buyer
    <3>2. SurfaceTyped
      BY DEF Typed
    <3>3. CASE Look(h)
      BY <3>2, <3>3, SurfaceStep
    <3>4. ASSUME NEW t \in Clicks, NEW approve \in BOOLEAN, BeginDecision(t, h, approve)
          PROVE  SurfaceTyped'
      BY <3>2, <3>4, SurfaceStep
    <3>5. ASSUME NEW t \in Clicks, Deny(t, h)
          PROVE  SurfaceTyped'
      BY <3>2, <3>5, SurfaceStep
    <3>6. QED BY <3>1, <3>3, <3>4, <3>5
  <2>2. QED BY <1>3, <2>1, Unmoved DEF Buyer, Typed, mandateVars
<1>4. CASE Restart
  BY <1>4, StorefrontAssumption
     DEF Restart, ForgetHolds, Typed, ShopTyped, CallTyped, SurfaceTyped, SurfaceTypeOK,
         PaperTyped, MoneyTyped, mandateVars, moneyVars, CallSteps
<1>5. CASE UNCHANGED vars
  BY <1>5, Unmoved DEF vars, Typed, mandateVars
<1>6. QED BY <1>1, <1>2, <1>3, <1>4, <1>5, CallStepTyped DEF Next

\* Every variable keeps its type, and no call runs on a checkout or a mandate
\* that is not there, whatever number of callers, restarts and approvals there
\* is (initiate_payment and the approval page).
THEOREM ShopTypes == Spec => []TypeOK
<1>1. Typed => TypeOK
  BY PaperAssumption
     DEF Typed, TypeOK, ShopTyped, PaperTyped, MoneyTyped, CallTyped, SurfaceTyped
<1>2. QED BY <1>1, InitTyped, TypedStep, PTL DEF Spec

(***************************************************************************)
(* What stays.                                                             *)
(***************************************************************************)
\* How the money moves.
LEMMA MoneyMoves ==
  ASSUME [Next]_vars
  PROVE  \/ UNCHANGED moneyVars
         \/ \E k \in Callers :
              \/ Capture(k) \/ Book(k) \/ Confirm(k) \/ Refuse(k)
<1>1. \A k \in Callers : Call(k) =>
         UNCHANGED moneyVars \/ Capture(k) \/ Book(k) \/ Confirm(k) \/ Refuse(k)
  BY DEF Call, CreateCheckout, CompleteCheckout, CheckoutUnresolved, PaymentUnresolved,
         InitiatePayment, Lookup, Guard, Recheck, Verify, Attempt, AttemptFails,
         SettleCheck, FailCheck, Defer, Replay, Raise, CommitStock, Answered
<1>2. QED BY <1>1 DEF Next, SignMandate, ApprovalGiven, Buyer, Restart, vars, moneyVars

\* A charge stays, what is counted stays counted, a record that is closed is not
\* opened again, and a paper that is signed stays as it is.
LEMMA MoneyStays ==
  ASSUME Typed, [Next]_vars, NEW m \in Mandates
  PROVE  /\ charge[m] # {} => charge'[m] # {}
         /\ m \in booked => m \in booked'
         /\ outcome[m] # "open" => outcome'[m] # "open"
<1>1. CASE UNCHANGED moneyVars
  BY <1>1 DEF moneyVars
<1>2. ASSUME NEW k \in Callers, Capture(k) \/ Book(k) \/ Confirm(k) \/ Refuse(k)
      PROVE  /\ charge[m] # {} => charge'[m] # {}
             /\ m \in booked => m \in booked'
             /\ outcome[m] # "open" => outcome'[m] # "open"
  BY <1>2 DEF Capture, Book, Confirm, Refuse, Money!Charge, Money!Book, Money!ConfirmReceipt,
              Money!RefuseReceipt, Typed, MoneyTyped
<1>3. QED BY <1>1, <1>2, MoneyMoves

LEMMA PapersStay ==
  ASSUME Typed, [Next]_vars, NEW m \in Mandates, paper[m] # None
  PROVE  paper'[m] = paper[m]
<1>1. \A k \in Callers : Call(k) => UNCHANGED paper
  BY DEF Call, CreateCheckout, CompleteCheckout, CheckoutUnresolved, PaymentUnresolved,
         InitiatePayment, Lookup, Guard, Recheck, Verify, Attempt, Capture, AttemptFails, Book,
         SettleCheck, Confirm, FailCheck, Refuse, Defer, Replay, Raise, CommitStock, Answered, mandateVars
<1>2. \/ UNCHANGED paper
      \/ \E n \in Mandates, c \in Checkouts : SignMandate(n, c)
      \/ \E t \in Clicks, h \in Holds, n \in Mandates : ApprovalGiven(t, h, n)
  BY <1>1 DEF Next, Buyer, Restart, mandateVars, vars
<1>3. QED BY <1>2 DEF SignMandate, ApprovalGiven, Typed, PaperTyped

\* Only its own steps and a restart move a caller.
LEMMA CallersStay ==
  ASSUME Typed, NEW k \in Callers, Call(k), NEW j \in Callers \ {k}
  PROVE  step'[j] = step[j] /\ checkout'[j] = checkout[j] /\ mandate'[j] = mandate[j]
BY DEF Call, CreateCheckout, CompleteCheckout, CheckoutUnresolved, PaymentUnresolved,
       InitiatePayment, Lookup, Guard, Recheck, Verify, Attempt, Capture, AttemptFails, Book,
       SettleCheck, Confirm, FailCheck, Refuse, Defer, Replay, Raise, CommitStock, Answered, Goto, Hangup, callVars,
       Typed, CallTyped

(***************************************************************************)
(* Answers.                                                                *)
(***************************************************************************)
\* What a caller at each step knows about the mandate it presented.
Honest(k) ==
  /\ step[k] \in Running \cup {"paid", "failed"} => paper[mandate[k]].checkout = checkout[k]
  /\ step[k] \in {"booked", "close", "commit", "paid"} => mandate[k] \in booked
  /\ step[k] = "failed" => outcome[mandate[k]] # "open"

\* What is counted was charged, and only what is counted is confirmed.
BooksKept ==
  \A m \in Mandates : (m \in booked => charge[m] # {}) /\ (outcome[m] = "captured" => m \in booked)

LEMMA BooksKeptStep ==
  ASSUME Typed, BooksKept, [Next]_vars
  PROVE  BooksKept'
<1>1. CASE UNCHANGED moneyVars
  BY <1>1 DEF BooksKept, moneyVars
<1>2. ASSUME NEW k \in Callers, Capture(k) \/ Book(k) \/ Confirm(k) \/ Refuse(k)
      PROVE  BooksKept'
  <2>1. mandate[k] \in Mandates
    BY <1>2 DEF Capture, Book, Confirm, Refuse, Typed, CallTyped
  <2>2. QED
    BY <1>2, <2>1 DEF BooksKept, Capture, Book, Confirm, Refuse, Money!Charge, Money!Book,
                Money!ConfirmReceipt, Money!RefuseReceipt, Typed, MoneyTyped
<1>3. QED BY <1>1, <1>2, MoneyMoves

LEMMA HonestStays ==
  ASSUME Typed, [Next]_vars, NEW k \in Callers, Honest(k),
         step'[k] = step[k], checkout'[k] = checkout[k], mandate'[k] = mandate[k]
  PROVE  Honest(k)'
<1>1. step[k] = "idle" \/ (mandate[k] \in Mandates /\ paper[mandate[k]] # None)
  BY PaperAssumption DEF Typed, CallTyped
<1>2. CASE step[k] = "idle"
  BY <1>2 DEF Honest, Running
<1>3. CASE mandate[k] \in Mandates /\ paper[mandate[k]] # None
  BY <1>3, MoneyStays, PapersStay DEF Honest
<1>4. QED BY <1>1, <1>2, <1>3

LEMMA HonestTurn ==
  ASSUME Typed, BooksKept, NEW k \in Callers, Honest(k), Call(k)
  PROVE  Honest(k)'
<1> USE DEF Honest, Goto, Running, Typed, CallTyped
<1>0. [Next]_vars
  BY DEF Next
<1>1. CASE step'[k] = step[k] /\ checkout'[k] = checkout[k] /\ mandate'[k] = mandate[k]
  BY <1>0, <1>1, HonestStays
<1>2. CASE Lookup(k)
  BY <1>2 DEF Lookup, ReplyOf, BooksKept, mandateVars, moneyVars, MoneyTyped
<1>3. CASE Guard(k) \/ Recheck(k) \/ Defer(k) \/ AttemptFails(k)
  BY <1>3 DEF Guard, Recheck, Defer, AttemptFails, mandateVars, moneyVars
<1>4. CASE Verify(k)
  BY <1>4 DEF Verify, Allows, BoundTo, Closed, mandateVars, moneyVars
<1>5. CASE Attempt(k)
  BY <1>5 DEF Attempt, moneyVars
<1>6. CASE Book(k)
  BY <1>6 DEF Book, Money!Book, mandateVars
<1>7. CASE SettleCheck(k) \/ Confirm(k)
  BY <1>7 DEF SettleCheck, Confirm, mandateVars, moneyVars, MoneyTyped, Money!ConfirmReceipt
<1>8. CASE FailCheck(k) \/ Refuse(k)
  BY <1>8 DEF FailCheck, Refuse, mandateVars, moneyVars, MoneyTyped, Money!RefuseReceipt
<1>9. CASE Replay(k)
  BY <1>9 DEF Replay, BooksKept, mandateVars, moneyVars, MoneyTyped
<1>10. CASE CommitStock(k)
  BY <1>10 DEF CommitStock, mandateVars, moneyVars
<1>11. CASE Raise(k) \/ Answered(k)
  BY <1>11 DEF Raise, Answered, Hangup
<1>12. CASE \E c \in Checkouts, m \in Mandates : InitiatePayment(k, c, m)
  BY <1>12 DEF InitiatePayment
<1>13. QED
  BY <1>1, <1>2, <1>3, <1>4, <1>5, <1>6, <1>7, <1>8, <1>9, <1>10, <1>11, <1>12
     DEF Call, CreateCheckout, CompleteCheckout, CheckoutUnresolved, PaymentUnresolved,
         Capture, callVars

LEMMA HonestStep ==
  ASSUME Typed, BooksKept, \A k \in Callers : Honest(k), [Next]_vars
  PROVE  (\A k \in Callers : Honest(k))'
<1> SUFFICES ASSUME NEW k \in Callers PROVE Honest(k)'
  OBVIOUS
<1>1. CASE Call(k)
  BY <1>1, HonestTurn
<1>2. ASSUME NEW j \in Callers \ {k}, Call(j)
      PROVE  Honest(k)'
  BY <1>2, CallersStay, HonestStays
<1>3. CASE Restart
  BY <1>3 DEF Restart, Honest, Running
<1>4. CASE UNCHANGED callVars
  BY <1>4, HonestStays DEF callVars
<1>5. QED
  BY <1>1, <1>2, <1>3, <1>4 DEF Next, SignMandate, ApprovalGiven, Buyer, vars

(***************************************************************************)
(* The shelf.                                                              *)
(***************************************************************************)
Settled == {c \in Checkouts : settledBy[c] # None}

LEMMA ShelfMoves ==
  ASSUME [Next]_vars
  PROVE  \/ UNCHANGED <<settledBy, seed, stock, oversold>>
         \/ \E k \in Callers : CommitStock(k) /\ settledBy[checkout[k]] = None
         \/ Restart
<1>1. \A k \in Callers : Call(k) =>
         \/ UNCHANGED <<settledBy, seed, stock, oversold>>
         \/ CommitStock(k) /\ settledBy[checkout[k]] = None
  BY DEF Call, CreateCheckout, CompleteCheckout, CheckoutUnresolved, PaymentUnresolved,
         InitiatePayment, Lookup, Guard, Recheck, Verify, Attempt, Capture, AttemptFails, Book,
         SettleCheck, Confirm, FailCheck, Refuse, Defer, Replay, Raise, CommitStock, Answered, shopVars
<1>2. QED BY <1>1 DEF Next, SignMandate, ApprovalGiven, Buyer, vars, shopVars

\* The first commit of a checkout.
LEMMA Commits ==
  ASSUME Typed, NEW k \in Callers, Honest(k), CommitStock(k), settledBy[checkout[k]] = None
  PROVE  /\ checkout[k] \in Checkouts /\ mandate[k] \in booked
         /\ paper[mandate[k]].checkout = checkout[k] /\ UNCHANGED <<paper, charge, booked>>
         /\ settledBy' = [settledBy EXCEPT ![checkout[k]] = mandate[k]]
         /\ Settled' = Settled \cup {checkout[k]} /\ checkout[k] \notin Settled
         /\ seed' = seed /\ stock' = Left
         /\ oversold' = IF stock > 0 THEN oversold ELSE oversold \cup {checkout[k]}
<1>1. checkout[k] \in Checkouts /\ mandate[k] \in Mandates
  BY DEF CommitStock, Typed, CallTyped
<1>2. /\ mandate[k] \in booked /\ paper[mandate[k]].checkout = checkout[k]
      /\ UNCHANGED <<paper, charge, booked>>
  BY <1>1 DEF CommitStock, Honest, Running, mandateVars, moneyVars
<1>3. /\ settledBy' = [settledBy EXCEPT ![checkout[k]] = mandate[k]]
      /\ seed' = seed /\ stock' = Left
      /\ oversold' = IF stock > 0 THEN oversold ELSE oversold \cup {checkout[k]}
  BY DEF CommitStock
<1>4. Settled' = Settled \cup {checkout[k]} /\ checkout[k] \notin Settled
  BY <1>1, <1>3, NoneAssumption DEF Settled, Typed, ShopTyped
<1>5. QED BY <1>1, <1>2, <1>3, <1>4

\* Nothing moves under a mandate before it is signed.
SignedFirst ==
  \A m \in Mandates : outcome[m] # "open" \/ charge[m] # {} => paper[m] # None

LEMMA SignedFirstStep ==
  ASSUME Typed, SignedFirst, [Next]_vars
  PROVE  SignedFirst'
<1>1. ASSUME NEW m \in Mandates, paper[m] # None
      PROVE  paper'[m] # None
  BY <1>1, PapersStay
<1>2. CASE UNCHANGED moneyVars
  BY <1>1, <1>2 DEF SignedFirst, moneyVars
<1>3. ASSUME NEW k \in Callers, Capture(k) \/ Book(k) \/ Confirm(k) \/ Refuse(k)
      PROVE  SignedFirst'
  <2>1. mandate[k] \in Mandates /\ paper[mandate[k]] # None
    BY <1>3, PaperAssumption DEF Capture, Book, Confirm, Refuse, Typed, CallTyped
  <2>2. \A m \in Mandates \ {mandate[k]} : outcome'[m] = outcome[m] /\ charge'[m] = charge[m]
    BY <1>3, <2>1 DEF Capture, Book, Confirm, Refuse, Money!Charge, Money!Book,
                      Money!ConfirmReceipt, Money!RefuseReceipt, Typed, MoneyTyped
  <2>3. QED BY <1>1, <2>1, <2>2 DEF SignedFirst
<1>4. QED BY <1>2, <1>3, MoneyMoves

LEMMA SettledStep ==
  ASSUME Typed, SignedFirst, BooksKept, \A k \in Callers : Honest(k), SettledByItsCharge, [Next]_vars
  PROVE  SettledByItsCharge'
<1> SUFFICES ASSUME NEW c \in Checkouts, NEW m \in Mandates, settledBy'[c] = m
             PROVE  paper'[m].checkout = c /\ charge'[m] # {} /\ m \in booked'
  <2>1. Typed'
    BY TypedStep
  <2>2. QED BY <2>1 DEF SettledByItsCharge, Typed, ShopTyped
<1>0. m # None
  BY NoneAssumption
<1>1. CASE settledBy[c] = m
  <2>1. paper[m].checkout = c /\ charge[m] # {} /\ m \in booked
    BY <1>0, <1>1 DEF SettledByItsCharge
  <2>2. paper'[m] = paper[m]
    BY <2>1, PapersStay DEF SignedFirst
  <2>3. QED BY <2>1, <2>2, MoneyStays
<1>2. ASSUME NEW k \in Callers, CommitStock(k), settledBy[checkout[k]] = None, settledBy[c] # m
      PROVE  paper'[m].checkout = c /\ charge'[m] # {} /\ m \in booked'
  <2>1. c = checkout[k] /\ m = mandate[k]
    BY <1>2, Commits DEF Typed, ShopTyped
  <2>2. QED BY <1>2, <2>1, Commits DEF BooksKept
<1>3. CASE Restart
  BY <1>0, <1>3 DEF Restart
<1>4. QED BY <1>1, <1>2, <1>3, ShelfMoves

\* A checkout that found no unit is settled too.
Shelved == oversold \subseteq Settled /\ ShelfBalances

LEMMA ShelvedStep ==
  ASSUME Typed, \A k \in Callers : Honest(k), Shelved, [Next]_vars
  PROVE  Shelved'
<1> DEFINE Sold == Settled \ oversold
<1>0. stock \in Nat /\ seed \in Nat /\ stock + Cardinality(Sold) = seed /\ oversold \subseteq Settled
  BY StorefrontAssumption DEF Shelved, ShelfBalances, Settled, Typed, ShopTyped
<1>1. IsFiniteSet(Sold) /\ Cardinality(Sold) \in Nat
  <2>1. Sold \in SUBSET Checkouts
    BY DEF Settled
  <2>2. QED BY <2>1, StorefrontAssumption, FS_Subset, FS_CardinalityType
<1> SUFFICES (oversold \subseteq Settled)' /\ (stock + Cardinality(Sold) = seed)'
  BY DEF Shelved, ShelfBalances, Settled
<1>2. CASE UNCHANGED <<settledBy, seed, stock, oversold>>
  BY <1>0, <1>2 DEF Settled
<1>3. ASSUME NEW k \in Callers, CommitStock(k), settledBy[checkout[k]] = None
      PROVE  (oversold \subseteq Settled)' /\ (stock + Cardinality(Sold) = seed)'
  <2>1. /\ Settled' = Settled \cup {checkout[k]} /\ checkout[k] \notin Settled
        /\ seed' = seed /\ stock' = Left
        /\ oversold' = IF stock > 0 THEN oversold ELSE oversold \cup {checkout[k]}
    BY <1>3, Commits
  <2>2. CASE stock > 0
    <3>1. Sold' = Sold \cup {checkout[k]} /\ checkout[k] \notin Sold
      BY <1>0, <2>1, <2>2
    <3>2. Cardinality(Sold') = Cardinality(Sold) + 1
      BY <1>1, <3>1, FS_AddElement
    <3>3. stock' = stock - 1
      BY <2>1, <2>2 DEF Left
    <3>4. (oversold \subseteq Settled)'
      BY <1>0, <2>1, <2>2
    <3> HIDE DEF Sold
    <3>5. QED BY <1>0, <1>1, <2>1, <3>2, <3>3, <3>4
  <2>3. CASE ~(stock > 0)
    <3>1. Sold' = Sold /\ (oversold \subseteq Settled)'
      BY <1>0, <2>1, <2>3
    <3>2. stock = 0 /\ stock' = 0
      BY <1>0, <2>1, <2>3 DEF Left
    <3> HIDE DEF Sold
    <3>3. QED BY <1>0, <2>1, <3>1, <3>2
  <2>4. QED BY <2>2, <2>3
<1>4. CASE Restart
  <2>1. Settled' = {} /\ oversold' = {} /\ stock' = seed /\ seed' = seed
    BY <1>4 DEF Restart, Settled
  <2>2. Sold' = {}
    BY <2>1
  <2>3. Cardinality(Sold') = 0
    BY <2>2, FS_EmptySet
  <2> HIDE DEF Sold
  <2>4. QED BY <1>0, <2>1, <2>3
<1>5. QED BY <1>2, <1>3, <1>4, ShelfMoves

(***************************************************************************)
(* The theorems that hold for any number of callers at once.               *)
(***************************************************************************)
ShopInv ==
  /\ Typed /\ SignedFirst /\ BooksKept
  /\ \A k \in Callers : Honest(k)
  /\ SettledByItsCharge /\ Shelved

LEMMA ShopInit == Init => ShopInv
<1> SUFFICES ASSUME Init PROVE ShopInv
  OBVIOUS
<1>1. SignedFirst /\ BooksKept /\ \A k \in Callers : Honest(k)
  BY DEF Init, Money!Init, SignedFirst, BooksKept, Honest, Running
<1>2. Settled = {} /\ SettledByItsCharge
  BY DEF Init, Settled, SettledByItsCharge
<1>3. oversold = {} /\ stock = seed /\ seed \in Nat
  BY StorefrontAssumption DEF Init
<1>4. Cardinality(Settled \ oversold) = 0
  BY <1>2, FS_EmptySet
<1>5. Shelved
  BY <1>2, <1>3, <1>4 DEF Shelved, ShelfBalances, Settled
<1>6. QED BY <1>1, <1>2, <1>5, InitTyped DEF ShopInv

LEMMA ShopInvariant == Spec => []ShopInv
<1>1. ShopInv /\ [Next]_vars => ShopInv'
  BY TypedStep, SignedFirstStep, BooksKeptStep, HonestStep, SettledStep, ShelvedStep DEF ShopInv
<1>2. QED BY <1>1, ShopInit, PTL DEF Spec

\* Whoever is answered "captured" or "failed" is answered about the checkout asked
\* about: behind "captured" money moved and is counted, behind "failed" there is a
\* receipt, however many calls run at once, even for one mandate, and whatever
\* was replayed or written over (initiate_payment, finalise).
THEOREM AnswersMatch == Spec => []AnswersThisCheckout
<1>1. ShopInv => AnswersThisCheckout
  <2> SUFFICES ASSUME ShopInv, NEW k \in Callers, step[k] \in {"paid", "failed"}
               PROVE  /\ paper[mandate[k]].checkout = checkout[k]
                      /\ IF step[k] = "paid"
                           THEN charge[mandate[k]] # {} /\ mandate[k] \in booked
                           ELSE outcome[mandate[k]] # "open"
    BY DEF AnswersThisCheckout
  <2>1. Honest(k) /\ mandate[k] \in Mandates
    BY DEF ShopInv, Typed, CallTyped
  <2>2. QED BY <2>1 DEF ShopInv, Honest, BooksKept
<1>2. QED BY <1>1, ShopInvariant, PTL

\* A checkout is settled only by a mandate that was signed for it, charged and
\* counted, however many calls present it and whichever receipt it ends with
\* (commit_stock, finalise).
THEOREM SettledByCharge == Spec => []SettledByItsCharge
<1>1. ShopInv => SettledByItsCharge
  BY DEF ShopInv
<1>2. QED BY <1>1, ShopInvariant, PTL

\* The shelf balances: each settled checkout took its unit once, or is on record
\* as having found none (take and commit_stock).
THEOREM ShelfAddsUp == Spec => []ShelfBalances
<1>1. ShopInv => ShelfBalances
  BY DEF ShopInv, Shelved
<1>2. QED BY <1>1, ShopInvariant, PTL

(***************************************************************************)
(* One call at a time.                                                     *)
(***************************************************************************)
OneCaller == \A j, k \in Callers : j = k

\* What the only caller knows of the shop at each step.
Alone(k) ==
  /\ step[k] \in {"guard", "recheck", "verify", "pay", "attempt", "booked", "close", "fail_write"} =>
       outcome[mandate[k]] = "open"
  /\ step[k] # "idle" => cstatus[checkout[k]] \in {"open", "confirmed", "paid"}
  /\ step[k] \in {"recheck", "verify", "pay", "attempt", "booked", "close", "commit", "fail_write"} =>
       settledBy[checkout[k]] = None
  /\ step[k] \in {"attempt", "booked", "close", "commit"} => stock > 0
  /\ step[k] = "pay" => burned[paper[mandate[k]].nonce] \in {None, mandate[k]}
  /\ step[k] \in {"attempt", "booked"} => burned[paper[mandate[k]].nonce] = mandate[k]
  /\ step[k] = "paid" => settledBy[checkout[k]] # None

\* Who is charged holds the nonce.
Burnt == \A m \in Mandates : charge[m] # {} => burned[paper[m].nonce] = m

\* A captured receipt has settled its checkout, is about to, or the checkout is
\* forgotten.
Delivered ==
  \A m \in Mandates : outcome[m] = "captured" =>
    /\ cstatus[paper[m].checkout] # "none"
    /\ \/ cstatus[paper[m].checkout] = "lost"
       \/ settledBy[paper[m].checkout] = m
       \/ \E k \in Callers : step[k] = "commit" /\ mandate[k] = m

Unique ==
  \A m, n \in Mandates :
    outcome[m] = "captured" /\ outcome[n] = "captured"
      /\ paper[m].checkout = paper[n].checkout => m = n

AloneInv ==
  /\ ShopInv /\ (\A k \in Callers : Alone(k))
  /\ Burnt /\ Delivered /\ Unique /\ NeverOversold

\* Steps of the others: the shop, the money and the caller stay as they are.
Elsewhere == UNCHANGED <<shopVars, burned, moneyVars, callVars>>

LEMMA ElsewhereKeeps ==
  ASSUME AloneInv, [Next]_vars, Elsewhere
  PROVE  /\ (\A k \in Callers : Alone(k))'
         /\ Burnt' /\ Delivered' /\ Unique' /\ NeverOversold'
<1> USE DEF Elsewhere, shopVars, moneyVars, callVars
<1>1. ASSUME NEW m \in Mandates, paper[m] # None
      PROVE  paper'[m] = paper[m]
  BY <1>1, PapersStay DEF AloneInv, ShopInv
<1>2. ASSUME NEW k \in Callers
      PROVE  Alone(k)'
  <2>1. step[k] # "idle" => mandate[k] \in Mandates /\ paper[mandate[k]] # None
    BY PaperAssumption DEF AloneInv, ShopInv, Typed, CallTyped
  <2>2. CASE step[k] = "idle"
    BY <2>2 DEF Alone
  <2>3. CASE step[k] # "idle"
    BY <1>1, <2>1, <2>3 DEF AloneInv, Alone
  <2>4. QED BY <2>2, <2>3
<1>3. \A m \in Mandates : outcome[m] = "captured" \/ charge[m] # {} => paper[m] # None
  BY DEF AloneInv, ShopInv, SignedFirst
<1>4. Burnt'
  BY <1>1, <1>3 DEF AloneInv, Burnt
<1>5. Delivered'
  BY <1>1, <1>3 DEF AloneInv, Delivered
<1>6. Unique'
  BY <1>1, <1>3 DEF AloneInv, Unique
<1>7. NeverOversold'
  BY DEF AloneInv, NeverOversold
<1>8. QED BY <1>2, <1>4, <1>5, <1>6, <1>7

\* The only caller's own steps.
LEMMA AloneTurn ==
  ASSUME OneCaller, AloneInv, NEW k \in Callers, Call(k)
  PROVE  Alone(k)'
<1>0. /\ Typed /\ Alone(k) /\ Delivered /\ Honest(k)
      /\ step[k] # "idle" =>
           checkout[k] \in Checkouts /\ mandate[k] \in Mandates /\ paper[mandate[k]] \in Papers
  BY DEF AloneInv, ShopInv, Typed, CallTyped
<1>1. step \in [Callers -> CallSteps] /\ checkout \in [Callers -> Checkouts \cup {None}]
      /\ mandate \in [Callers -> Mandates \cup {None}]
  BY <1>0 DEF Typed, CallTyped
<1> USE <1>0, <1>1 DEF Goto, Alone
<1>2. ASSUME NEW c \in Checkouts, CreateCheckout(k, c) \/ CompleteCheckout(k, c)
      PROVE  Alone(k)'
  BY <1>2 DEF CreateCheckout, CompleteCheckout, callVars
<1>3. ASSUME NEW c \in Checkouts, CheckoutUnresolved(k, c) \/ PaymentUnresolved(k, c)
      PROVE  Alone(k)'
  BY <1>3 DEF CheckoutUnresolved, PaymentUnresolved, callVars
<1>4. ASSUME NEW c \in Checkouts, NEW m \in Mandates, InitiatePayment(k, c, m)
      PROVE  Alone(k)'
  BY <1>4 DEF InitiatePayment, shopVars
<1>5. CASE Lookup(k)
  <2>1. outcome[mandate[k]] = "captured" /\ paper[mandate[k]].checkout = checkout[k]
          => settledBy[checkout[k]] # None
    BY <1>5, NoneAssumption DEF Lookup, Delivered, OneCaller
  <2>2. step'[k] = "paid" =>
          outcome[mandate[k]] = "captured" /\ paper[mandate[k]].checkout = checkout[k]
    BY <1>5 DEF Lookup, ReplyOf, Typed, MoneyTyped
  <2>3. QED BY <1>5, <2>1, <2>2 DEF Lookup, ReplyOf, shopVars, moneyVars
<1>6. CASE Guard(k) \/ Recheck(k)
  BY <1>6 DEF Guard, Recheck, shopVars, moneyVars
<1>7. CASE Verify(k)
  <2>1. step'[k] = "pay" => burned[paper[mandate[k]].nonce] \in {None, mandate[k]}
    BY <1>7 DEF Verify, Allows, NonceUnused, Owners, Closed
  <2>2. QED BY <1>7, <2>1 DEF Verify, shopVars, mandateVars, moneyVars
<1>8. CASE Attempt(k)
  <2>1. paper[mandate[k]].nonce \in Mandates
    BY <1>8 DEF Attempt, Papers
  <2>2. burned'[paper[mandate[k]].nonce] = mandate[k]
    BY <1>8, <2>1 DEF Attempt, Typed, PaperTyped
  <2>3. QED BY <1>8, <2>2 DEF Attempt, InStock, shopVars, moneyVars
<1>9. CASE Capture(k)
  BY <1>9 DEF Capture, Money!Charge, shopVars, mandateVars, callVars
<1>10. CASE AttemptFails(k) \/ Defer(k)
  BY <1>10 DEF AttemptFails, Defer, shopVars, mandateVars, moneyVars
<1>11. CASE Book(k)
  BY <1>11 DEF Book, Money!Book, shopVars, mandateVars
<1>12. CASE SettleCheck(k) \/ Confirm(k)
  BY <1>12 DEF SettleCheck, Confirm, shopVars, mandateVars, moneyVars
<1>13. CASE FailCheck(k) \/ Refuse(k)
  BY <1>13 DEF FailCheck, Refuse, shopVars, moneyVars
<1>14. CASE Replay(k)
  BY <1>14 DEF Replay
<1>15. CASE CommitStock(k)
  BY <1>15, NoneAssumption DEF CommitStock, Typed, ShopTyped
<1>16. CASE Raise(k) \/ Answered(k)
  BY <1>16 DEF Raise, Answered, Hangup
<1>17. QED
  BY <1>2, <1>3, <1>4, <1>5, <1>6, <1>7, <1>8, <1>9, <1>10, <1>11, <1>12, <1>13, <1>14, <1>15,
     <1>16 DEF Call

LEMMA BurntTurn ==
  ASSUME AloneInv, NEW k \in Callers, Call(k)
  PROVE  Burnt'
<1>0. Typed /\ Alone(k) /\ Burnt /\ SignedFirst
      /\ (step[k] # "idle" => mandate[k] \in Mandates /\ paper[mandate[k]] \in Papers)
  BY DEF AloneInv, ShopInv, Typed, CallTyped
<1> USE <1>0
<1>1. UNCHANGED paper
  BY DEF Call, CreateCheckout, CompleteCheckout, CheckoutUnresolved, PaymentUnresolved,
         InitiatePayment, Lookup, Guard, Recheck, Verify, Attempt, Capture, AttemptFails, Book,
         SettleCheck, Confirm, FailCheck, Refuse, Defer, Replay, Raise, CommitStock, Answered, mandateVars
<1>2. CASE UNCHANGED <<burned, charge>>
  BY <1>1, <1>2 DEF Burnt
<1>3. CASE Attempt(k)
  <2>1. /\ UNCHANGED charge
        /\ burned' = [burned EXCEPT ![paper[mandate[k]].nonce] = IF @ = None THEN mandate[k] ELSE @]
    BY <1>3 DEF Attempt, moneyVars
  <2>2. ASSUME NEW m \in Mandates, charge[m] # {}
        PROVE  burned'[paper[m].nonce] = m
    <3>1. burned[paper[m].nonce] = m /\ m # None
      BY <2>2, NoneAssumption DEF Burnt
    <3>2. paper[m].nonce \in Mandates
      BY <2>2 DEF SignedFirst, Typed, PaperTyped, Papers
    <3>3. QED BY <2>1, <3>1, <3>2 DEF Typed, PaperTyped
  <2>3. QED BY <1>1, <2>1, <2>2 DEF Burnt
<1>4. CASE Capture(k)
  BY <1>1, <1>4 DEF Capture, Money!Charge, Burnt, Alone, mandateVars, Typed, MoneyTyped
<1>5. QED
  BY <1>2, <1>3, <1>4
     DEF Call, CreateCheckout, CompleteCheckout, CheckoutUnresolved, PaymentUnresolved,
         InitiatePayment, Lookup, Guard, Recheck, Verify, AttemptFails, Book,
         SettleCheck, Confirm, FailCheck, Refuse, Defer, Replay, Raise, CommitStock, Answered, mandateVars, moneyVars,
         Money!Book, Money!ConfirmReceipt, Money!RefuseReceipt

\* A receipt is issued for the checkout in hand, which nothing has settled.
LEMMA DeliveredTurn ==
  ASSUME OneCaller, AloneInv, NEW k \in Callers, Call(k)
  PROVE  Delivered' /\ Unique'
<1>0. Typed /\ Alone(k) /\ Honest(k) /\ Delivered /\ Unique /\ SignedFirst
      /\ (step[k] # "idle" => /\ checkout[k] \in Checkouts /\ mandate[k] \in Mandates
                              /\ paper[mandate[k]] \in Papers)
  BY DEF AloneInv, ShopInv, Typed, CallTyped
<1>1. UNCHANGED paper
  BY DEF Call, CreateCheckout, CompleteCheckout, CheckoutUnresolved, PaymentUnresolved,
         InitiatePayment, Lookup, Guard, Recheck, Verify, Attempt, Capture, AttemptFails, Book,
         SettleCheck, Confirm, FailCheck, Refuse, Defer, Replay, Raise, CommitStock, Answered, mandateVars
<1>2. \A m \in Mandates : outcome[m] = "captured" => paper[m].checkout \in Checkouts
  BY <1>0 DEF SignedFirst, Typed, PaperTyped, Papers
<1>3. ASSUME step[k] # "commit", UNCHANGED <<settledBy, outcome>>,
             \A c \in Checkouts :
               cstatus[c] # "none" => cstatus'[c] # "none" /\ (cstatus[c] = "lost" => cstatus'[c] = "lost")
      PROVE  Delivered' /\ Unique'
  <2>1. Unique'
    BY <1>0, <1>1, <1>3 DEF Unique
  <2>2. \A m \in Mandates : outcome[m] = "captured" =>
          \/ cstatus[paper[m].checkout] = "lost"
          \/ settledBy[paper[m].checkout] = m
    BY <1>0, <1>3 DEF Delivered, OneCaller
  <2>3. Delivered'
    BY <1>0, <1>1, <1>2, <1>3, <2>2 DEF Delivered
  <2>4. QED BY <2>1, <2>3
<1>4. CASE \E c \in Checkouts : CreateCheckout(k, c) \/ CompleteCheckout(k, c)
  BY <1>0, <1>3, <1>4 DEF CreateCheckout, CompleteCheckout, Typed, ShopTyped, moneyVars
<1>5. CASE \/ \E c \in Checkouts : \/ CheckoutUnresolved(k, c) \/ PaymentUnresolved(k, c)
                                   \/ \E m \in Mandates : InitiatePayment(k, c, m)
           \/ Lookup(k) \/ Guard(k) \/ Recheck(k) \/ Verify(k)
           \/ Attempt(k) \/ Capture(k) \/ AttemptFails(k) \/ Book(k)
           \/ SettleCheck(k) \/ FailCheck(k) \/ Defer(k) \/ Replay(k) \/ Raise(k) \/ Answered(k)
  BY <1>3, <1>5
     DEF CheckoutUnresolved, PaymentUnresolved, InitiatePayment, Lookup, Guard, Recheck, Verify,
         Attempt, Capture, AttemptFails, Book, SettleCheck, FailCheck, Defer, Replay, Raise, Answered, Replies,
         shopVars, moneyVars, Money!Charge, Money!Book
<1>6. CASE Confirm(k) \/ Refuse(k)
  <2>1. /\ UNCHANGED <<cstatus, settledBy, checkout, mandate>>
        /\ outcome[mandate[k]] = "open" /\ step[k] \in {"close", "fail_write"}
        /\ \/ step'[k] = "commit" /\ outcome' = [outcome EXCEPT ![mandate[k]] = "captured"]
           \/ outcome' = [outcome EXCEPT ![mandate[k]] = "failed"]
    BY <1>0, <1>6 DEF Confirm, Refuse, Goto, shopVars, Money!ConfirmReceipt, Money!RefuseReceipt,
                      Alone, Typed, CallTyped
  <2>2. /\ paper[mandate[k]].checkout = checkout[k] /\ settledBy[checkout[k]] = None
        /\ cstatus[checkout[k]] \in {"open", "confirmed", "paid"} /\ mandate[k] \in Mandates
    BY <1>0, <2>1 DEF Alone, Honest, Running
  <2>3. \A m \in Mandates : outcome[m] = "captured" =>
          \/ cstatus[paper[m].checkout] = "lost"
          \/ settledBy[paper[m].checkout] = m
    BY <1>0, <2>1 DEF Delivered, OneCaller
  <2>4. \A m \in Mandates \ {mandate[k]} : outcome'[m] = outcome[m]
    BY <1>0, <2>1 DEF Typed, MoneyTyped
  <2>5. \A m \in Mandates : outcome[m] = "captured" => paper[m].checkout # checkout[k]
    BY <2>2, <2>3, NoneAssumption
  <2>6. Unique'
    BY <1>0, <1>1, <2>2, <2>4, <2>5 DEF Unique
  <2>7. outcome'[mandate[k]] = "captured" => step'[k] = "commit"
    BY <1>0, <2>1, <2>2 DEF Typed, MoneyTyped
  <2>8. Delivered'
    BY <1>0, <1>1, <2>1, <2>2, <2>3, <2>4, <2>7 DEF Delivered
  <2>9. QED BY <2>6, <2>8
<1>7. CASE CommitStock(k)
  <2>1. /\ UNCHANGED outcome /\ step[k] = "commit" /\ settledBy[checkout[k]] = None
        /\ paper[mandate[k]].checkout = checkout[k]
        /\ checkout[k] \in Checkouts /\ mandate[k] \in Mandates
        /\ settledBy' = [settledBy EXCEPT ![checkout[k]] = mandate[k]]
        /\ cstatus' = [cstatus EXCEPT ![checkout[k]] = "paid"]
        /\ cstatus[checkout[k]] \in {"open", "confirmed", "paid"}
    BY <1>0, <1>7 DEF CommitStock, moneyVars, Alone, Honest, Running
  <2>2. Unique'
    BY <1>0, <1>1, <2>1 DEF Unique
  <2>3. \A m \in Mandates : outcome[m] = "captured" =>
          \/ cstatus[paper[m].checkout] = "lost"
          \/ settledBy[paper[m].checkout] = m
          \/ m = mandate[k]
    BY <1>0 DEF Delivered, OneCaller
  <2>4. ASSUME NEW m \in Mandates, outcome[m] = "captured"
        PROVE  /\ cstatus'[paper[m].checkout] # "none"
               /\ \/ cstatus'[paper[m].checkout] = "lost"
                  \/ settledBy'[paper[m].checkout] = m
    BY <1>0, <1>2, <2>1, <2>3, <2>4, NoneAssumption DEF Delivered, Typed, ShopTyped
  <2>5. Delivered'
    BY <1>1, <2>1, <2>4 DEF Delivered
  <2>6. QED BY <2>2, <2>5
<1>8. QED BY <1>4, <1>5, <1>6, <1>7 DEF Call

LEMMA RestartAlone ==
  ASSUME AloneInv, Restart
  PROVE  /\ (\A k \in Callers : Alone(k))'
         /\ Burnt' /\ Delivered' /\ Unique' /\ NeverOversold'
<1>0. Typed /\ SignedFirst /\ Burnt /\ Delivered /\ Unique
  BY DEF AloneInv, ShopInv
<1>1. UNCHANGED <<paper, burned, charge, outcome>>
  BY DEF Restart, mandateVars, moneyVars
<1>2. (\A k \in Callers : Alone(k))' /\ NeverOversold'
  BY DEF Restart, Alone, NeverOversold
<1>3. Burnt' /\ Unique'
  BY <1>0, <1>1 DEF Burnt, Unique
<1>4. \A m \in Mandates : outcome[m] = "captured" => paper[m].checkout \in Checkouts
  BY <1>0 DEF SignedFirst, Typed, PaperTyped, Papers
<1>5. Delivered'
  BY <1>0, <1>1, <1>4 DEF Delivered, Restart, Typed, ShopTyped
<1>6. QED BY <1>2, <1>3, <1>5

LEMMA AloneStep ==
  ASSUME OneCaller, AloneInv, [Next]_vars
  PROVE  AloneInv'
<1>1. ShopInv'
  BY TypedStep, SignedFirstStep, BooksKeptStep, HonestStep, SettledStep, ShelvedStep DEF AloneInv, ShopInv
<1>2. ASSUME NEW k \in Callers, Call(k)
      PROVE  /\ (\A j \in Callers : Alone(j))'
             /\ Burnt' /\ Delivered' /\ Unique' /\ NeverOversold'
  <2>1. Alone(k)' /\ Burnt' /\ Delivered' /\ Unique'
    BY <1>2, AloneTurn, BurntTurn, DeliveredTurn
  <2>2. NeverOversold'
    <3>1. CASE UNCHANGED oversold
      BY <3>1 DEF AloneInv, NeverOversold
    <3>2. CASE CommitStock(k)
      BY <3>2 DEF CommitStock, AloneInv, NeverOversold, Alone, shopVars
    <3>3. QED
      BY <1>2, <3>1, <3>2
         DEF Call, CreateCheckout, CompleteCheckout, CheckoutUnresolved, PaymentUnresolved,
             InitiatePayment, Lookup, Guard, Recheck, Verify, Attempt, Capture, AttemptFails, Book,
             SettleCheck, Confirm, FailCheck, Refuse, Defer, Replay, Raise, Answered, shopVars
  <2>3. \A j \in Callers : j = k
    BY DEF OneCaller
  <2>4. QED BY <2>1, <2>2, <2>3
<1>3. CASE Elsewhere
  BY <1>1, <1>3, ElsewhereKeeps DEF AloneInv
<1>4. CASE Restart
  BY <1>1, <1>4, RestartAlone DEF AloneInv
<1>5. (\E k \in Callers : Call(k)) \/ Elsewhere \/ Restart
  BY DEF Next, SignMandate, ApprovalGiven, Buyer, Elsewhere, vars, mandateVars
<1>6. QED BY <1>1, <1>2, <1>3, <1>4, <1>5 DEF AloneInv

LEMMA AloneInit == Init => AloneInv
<1> SUFFICES ASSUME Init PROVE AloneInv
  OBVIOUS
<1>1. (\A k \in Callers : Alone(k)) /\ Burnt /\ Delivered /\ Unique /\ NeverOversold
  BY DEF Init, Money!Init, Alone, Burnt, Delivered, Unique, NeverOversold
<1>2. QED BY <1>1, ShopInit DEF AloneInv

LEMMA AloneInvariant ==
  ASSUME OneCaller
  PROVE  Spec => []AloneInv
<1>1. AloneInv /\ [Next]_vars => AloneInv'
  BY AloneStep
<1>2. QED BY <1>1, AloneInit, PTL DEF Spec

\* A checkout is paid once: with one call at a time no second captured receipt
\* is ever issued for it, whatever the agent presents again, the rail answers
\* or a restart forgets (initiate_payment and commit_stock).
THEOREM PaidOnce ==
  ASSUME OneCaller
  PROVE  Spec => []OneReceiptPerCheckout
<1>1. AloneInv => OneReceiptPerCheckout
  <2> SUFFICES ASSUME AloneInv, NEW c \in Checkouts
               PROVE  Cardinality(Receipts(c)) <= 1
    BY DEF OneReceiptPerCheckout
  <2>1. CASE Receipts(c) = {}
    BY <2>1, FS_EmptySet
  <2>2. CASE \E m : Receipts(c) = {m}
    BY <2>2, FS_Singleton
  <2>3. QED BY <2>1, <2>2 DEF AloneInv, Unique, Receipts
<1>2. QED BY <1>1, AloneInvariant, PTL

\* A nonce pays once: with one call at a time the check of the nonce and its
\* burning cannot be split by another mandate (verify_payment_mandate and
\* burn_nonce).
THEOREM NoncePaysOnce ==
  ASSUME OneCaller
  PROVE  Spec => []NonceChargedOnce
<1>1. AloneInv => NonceChargedOnce
  BY DEF AloneInv, Burnt, NonceChargedOnce
<1>2. QED BY <1>1, AloneInvariant, PTL

\* "Paid" is only answered over a settled checkout (initiate_payment).
THEOREM PaidIsCommitted ==
  ASSUME OneCaller
  PROVE  Spec => []PaidMeansCommitted
<1>1. AloneInv => PaidMeansCommitted
  BY DEF AloneInv, Alone, PaidMeansCommitted
<1>2. QED BY <1>1, AloneInvariant, PTL

\* With one call at a time the unit looked at is still there when it is taken
\* (recheck and commit_stock).
THEOREM NothingOversold ==
  ASSUME OneCaller
  PROVE  Spec => []NeverOversold
<1>1. AloneInv => NeverOversold
  BY DEF AloneInv
<1>2. QED BY <1>1, AloneInvariant, PTL

(***************************************************************************)
(* The budget.                                                             *)
(***************************************************************************)
\* What the spend ledger counts was signed, under an authorisation that was
\* given, and is finite.
Drawn(under) == {m \in booked : paper[m].under = under}
Prices(under) == [m \in Drawn(under) |-> Price[paper[m].checkout]]

SpendsAreSigned ==
  /\ IsFiniteSet(booked)
  /\ \A m \in booked : paper[m] # None
  /\ \A m \in Mandates : paper[m] # None => paper[m].under \in {Standing, m}

\* Spent, as long as nothing is booked.
LEMMA SpentStays ==
  ASSUME Typed, SpendsAreSigned, [Next]_vars, UNCHANGED booked
  PROVE  SpendsAreSigned' /\ Spent(Standing)' = Spent(Standing)
<1>1. \A m \in Mandates : paper[m] # None => paper'[m] = paper[m]
  BY PapersStay
<1>2. \A m \in booked : m \in Mandates /\ paper'[m] = paper[m]
  BY <1>1 DEF SpendsAreSigned, Typed, MoneyTyped
<1>3. \A m \in Mandates : paper'[m] # None => paper'[m].under \in {Standing, m}
  <2>1. \/ UNCHANGED paper
        \/ \E m \in Mandates, c \in Checkouts : SignMandate(m, c)
        \/ \E t \in Clicks, h \in Holds, m \in Mandates : ApprovalGiven(t, h, m)
    BY DEF Next, Buyer, Restart, mandateVars, vars, Call, CreateCheckout, CompleteCheckout,
           CheckoutUnresolved, PaymentUnresolved,
           InitiatePayment, Lookup, Guard, Recheck, Verify, Attempt, Capture, AttemptFails, Book,
           SettleCheck, Confirm, FailCheck, Refuse, Defer, Replay, Raise, CommitStock, Answered
  <2>2. QED
    BY <1>1, <2>1 DEF SpendsAreSigned, SignMandate, ApprovalGiven, Typed, PaperTyped
<1>4. Prices(Standing)' = Prices(Standing)
  <2>1. Drawn(Standing)' = Drawn(Standing)
    BY <1>2 DEF Drawn
  <2>2. \A m \in Drawn(Standing) : paper'[m] = paper[m]
    BY <1>2 DEF Drawn
  <2>3. QED
    BY <2>1, <2>2 DEF Prices
<1>5. Spent(Standing)' = Spent(Standing)
  BY <1>4 DEF Spent, Prices, Drawn
<1>6. SpendsAreSigned'
  BY <1>1, <1>2, <1>3 DEF SpendsAreSigned
<1>7. QED BY <1>5, <1>6

\* A spend booked for the first time adds its price.
LEMMA SpentGrows ==
  ASSUME Typed, SpendsAreSigned, NEW k \in Callers, Book(k), mandate[k] \notin booked,
         NEW under, under = paper[mandate[k]].under
  PROVE  /\ Spent(under) \in Nat
         /\ Spent(under)' = Spent(under) + Price[paper[mandate[k]].checkout]
<1> DEFINE m == mandate[k]
<1>1. m \in Mandates /\ paper[m] \in Papers /\ booked' = booked \cup {m} /\ UNCHANGED paper
  BY DEF Book, Money!Book, mandateVars, Typed, CallTyped
<1>2. \A n \in booked \cup {m} : Price[paper[n].checkout] \in Nat
  BY <1>1, StorefrontAssumption DEF SpendsAreSigned, Typed, PaperTyped, MoneyTyped, Papers
<1>3. Drawn(under)' = Drawn(under) \cup {m} /\ m \notin Drawn(under)
  BY <1>1 DEF Drawn
<1>4. IsFiniteSet(Drawn(under))
  BY FS_Subset DEF SpendsAreSigned, Drawn
<1> DEFINE f == Prices(under)
           g == [n \in Drawn(under) \cup {m} |-> Price[paper[n].checkout]]
<1>5. g = Prices(under)'
  BY <1>1, <1>3 DEF Prices
<1>6. /\ DOMAIN f = Drawn(under) /\ DOMAIN g = DOMAIN f \cup {m}
      /\ \A n \in DOMAIN f : f[n] \in Nat /\ g[n] = f[n]
      /\ g[m] = Price[paper[m].checkout] /\ g[m] \in Nat
  BY <1>2 DEF Prices, Drawn
<1>7. SumFunction(f) \in Nat /\ SumFunction(g) = SumFunction(f) + g[m]
  <2> HIDE DEF f, g
  <2>1. QED BY <1>3, <1>4, <1>6, SumGrows
<1>8. SumFunction(f) = Spent(under) /\ SumFunction(g) = Spent(under)'
  BY <1>5 DEF Prices, Drawn, Spent
<1>9. QED BY <1>6, <1>7, <1>8

LEMMA SpentNothing ==
  ASSUME NEW under, Drawn(under) = {}
  PROVE  Spent(under) = 0
  BY SumStarts DEF Spent, Drawn

\* One-time authorisations: at most the one mandate signed under each.
LEMMA OneTimeSpent ==
  ASSUME Typed, SpendsAreSigned, NEW m \in booked, paper[m].under = m
  PROVE  Spent(m) <= Price[paper[m].checkout]
<1>1. m \in Mandates /\ paper[m] \in Papers /\ Price[paper[m].checkout] \in Nat
  BY StorefrontAssumption DEF SpendsAreSigned, Typed, PaperTyped, MoneyTyped, Papers
<1>2. Drawn(m) = {m}
  BY <1>1, StorefrontAssumption DEF Drawn, SpendsAreSigned, Typed, MoneyTyped
<1> DEFINE f == [n \in {} |-> 0]
           g == [n \in {m} |-> Price[paper[n].checkout]]
<1>3. SumFunction(f) = 0
  BY SumStarts
<1>4. SumFunction(g) = SumFunction(f) + g[m]
  <2>1. DOMAIN f = {} /\ DOMAIN g = {m} /\ g[m] \in Nat
    BY <1>1
  <2> HIDE DEF f, g
  <2>2. QED BY <2>1, SumGrows, FS_EmptySet
<1>5. SumFunction(g) = Spent(m)
  BY <1>2 DEF Spent, Drawn
<1>6. QED BY <1>1, <1>3, <1>4, <1>5

(***************************************************************************)
(* The budget with calls at once.                                          *)
(***************************************************************************)
Allowance == StandingBudget + Times(Cardinality(Callers) - 1, StandingMax)

\* Calls that were verified and have not booked, and what they will book.
Cost(k) == Price[paper[mandate[k]].checkout]
InFlight == {k \in Callers :
  step[k] \in {"pay", "attempt"} /\ paper[mandate[k]].under = Standing /\ mandate[k] \notin booked}

LEMMA AllowanceTyped ==
  /\ Cardinality(Callers) \in Nat \ {0}
  /\ Allowance \in Nat /\ StandingBudget <= Allowance
<1>1. Cardinality(Callers) \in Nat /\ Cardinality(Callers) # 0
  BY CallersAssumption, FS_CardinalityType, FS_EmptySet
<1>2. Cardinality(Callers) - 1 \in Nat
  BY <1>1
<1>3. Times(Cardinality(Callers) - 1, StandingMax) \in Nat
  <2> DEFINE n == Cardinality(Callers) - 1
  <2>1. n \in Nat /\ StandingMax \in Nat
    BY <1>2, StorefrontAssumption
  <2> HIDE DEF n
  <2>2. Times(n, StandingMax) \in Nat
    BY <2>1, TimesMore
  <2>3. QED BY <2>2 DEF n
<1>4. QED BY <1>1, <1>3, StorefrontAssumption DEF Allowance

\* What each call would book.
Dues == [k \in Callers |-> Cost(k)]

Budgeted ==
  /\ SpendsAreSigned
  /\ Spent(Standing) \in Nat
  /\ Costs(InFlight, Dues, StandingMax)
  /\ Suffices(InFlight, Dues, Spent(Standing), StandingMax, Allowance)

\* Calls may end, and nothing is booked.
LEMMA BudgetStays ==
  ASSUME Typed, Budgeted, [Next]_vars, UNCHANGED booked,
         \A j \in InFlight' : j \in InFlight /\ Cost(j)' = Cost(j)
  PROVE  Budgeted'
<1>1. SpendsAreSigned' /\ Spent(Standing)' = Spent(Standing)
  BY SpentStays DEF Budgeted
<1>2. \A j \in InFlight' : Dues'[j] = Dues[j] /\ j \in Callers
  BY DEF Dues, InFlight
<1>3. InFlight' \in SUBSET InFlight
  OBVIOUS
<1>5. Suffices(InFlight', Dues', Spent(Standing), StandingMax, Allowance) /\ Costs(InFlight', Dues', StandingMax)
  <2>1. /\ Costs(InFlight, Dues, StandingMax) /\ Spent(Standing) \in Nat
        /\ Suffices(InFlight, Dues, Spent(Standing), StandingMax, Allowance)
        /\ StandingMax \in Nat /\ Allowance \in Nat
    BY AllowanceTyped, StorefrontAssumption DEF Budgeted
  <2> DEFINE F == InFlight  G == InFlight'  c == Dues  d == Dues'  s == Spent(Standing)
  <2>2. \A k \in G : d[k] = c[k]
    BY <1>2
  <2>3. G \in SUBSET F /\ Costs(F, c, StandingMax) /\ s \in Nat /\ Suffices(F, c, s, StandingMax, Allowance)
    BY <1>3, <2>1
  <2> HIDE DEF F, G, c, d, s
  <2>4. Suffices(G, d, s, StandingMax, Allowance) /\ Costs(G, d, StandingMax)
    BY ONLY <2>1, <2>2, <2>3, SufficesFewer
  <2>5. QED BY <2>4 DEF G, d, s
<1>6. Suffices(InFlight', Dues', Spent(Standing)', StandingMax, Allowance)
  BY <1>1, <1>5
<1>7. QED
  BY <1>1, <1>5, <1>6 DEF Budgeted, Suffices, Costs, Allowance, Times

\* A call books what it was verified for, and so leaves; others on its mandate
\* leave with it.
LEMMA BudgetBooks ==
  ASSUME Typed, Budgeted, [Next]_vars, NEW k \in Callers, Book(k), mandate[k] \notin booked
  PROVE  Budgeted'
<1>0. SpendsAreSigned /\ Spent(Standing) \in Nat
  BY DEF Budgeted
<1>1. /\ step[k] = "attempt" /\ mandate[k] \in Mandates /\ paper[mandate[k]] \in Papers
      /\ booked' = booked \cup {mandate[k]} /\ UNCHANGED <<mandate, paper>>
      /\ step' = [step EXCEPT ![k] = "booked"]
  BY DEF Book, Goto, Money!Book, Typed, CallTyped, mandateVars
<1>2. SpendsAreSigned'
  BY <1>0, <1>1, PaperAssumption, FS_AddElement DEF SpendsAreSigned
<1>3. /\ InFlight' \in SUBSET (InFlight \ {k})
      /\ \A j \in InFlight' : Dues'[j] = Dues[j]
  BY <1>1 DEF InFlight, Dues, Cost, Typed, CallTyped
<1>5. /\ Spent(Standing)' \in Nat /\ Costs(InFlight', Dues', StandingMax)
      /\ Suffices(InFlight', Dues', Spent(Standing)', StandingMax, Allowance)
  <2> DEFINE F == InFlight  G == InFlight'  c == Dues  d == Dues'
             s == Spent(Standing)  t == Spent(Standing)'
  <2>1. /\ G \in SUBSET (F \ {k}) /\ (\A j \in G : d[j] = c[j])
        /\ Costs(F, c, StandingMax) /\ Suffices(F, c, s, StandingMax, Allowance) /\ s \in Nat
        /\ StandingMax \in Nat /\ Allowance \in Nat
    BY <1>3, AllowanceTyped, StorefrontAssumption DEF Budgeted
  <2>2. CASE paper[mandate[k]].under = Standing
    <3>1. k \in F /\ c[k] = Price[paper[mandate[k]].checkout] /\ c[k] \in Nat
      BY <1>1, <2>2, StorefrontAssumption DEF InFlight, Dues, Cost, Papers
    <3>2. t = s + c[k]
      BY <1>0, <2>2, <3>1, SpentGrows
    <3> HIDE DEF F, G, c, d, s, t
    <3>3. t \in Nat /\ t <= s + c[k]
      BY <2>1, <3>1, <3>2
    <3>4. Suffices(F \ {k}, c, t, StandingMax, Allowance)
      BY ONLY <2>1, <3>1, <3>3, SufficesWithout
    <3>5. Costs(F \ {k}, c, StandingMax)
      BY <2>1, FS_RemoveElement DEF Costs
    <3>6. Suffices(G, d, t, StandingMax, Allowance) /\ Costs(G, d, StandingMax)
      BY ONLY <2>1, <3>3, <3>4, <3>5, SufficesFewer
    <3>7. QED BY <3>3, <3>6 DEF G, d, t
  <2>3. CASE paper[mandate[k]].under # Standing
    <3>1. t = s
      <4>1. Drawn(Standing)' = Drawn(Standing)
        BY <1>1, <2>3 DEF Drawn
      <4>2. QED BY <1>1, <4>1 DEF Spent, Drawn
    <3> HIDE DEF F, G, c, d, s, t
    <3>2. G \in SUBSET F
      BY <2>1
    <3>3. Suffices(G, d, s, StandingMax, Allowance) /\ Costs(G, d, StandingMax)
      BY ONLY <2>1, <3>2, SufficesFewer
    <3>4. QED BY <2>1, <3>1, <3>3 DEF G, d, t
  <2>4. QED BY <2>2, <2>3
<1>6. QED
  BY <1>2, <1>5 DEF Budgeted, Suffices, Costs, Allowance, Times

\* A call that passes the verifier fits the budget on its own.
LEMMA BudgetVerifies ==
  ASSUME Typed, Budgeted, [Next]_vars, NEW k \in Callers, Verify(k)
  PROVE  Budgeted'
<1>0. UNCHANGED <<booked, mandate, paper>>
  BY DEF Verify, moneyVars, mandateVars
<1>1. \A j \in InFlight' : (j # k => j \in InFlight) /\ Cost(j)' = Cost(j)
  BY <1>0 DEF Verify, Goto, Typed, CallTyped, InFlight, Cost
<1>2. CASE k \notin InFlight'
  BY <1>0, <1>1, <1>2, BudgetStays
<1>3. CASE k \in InFlight'
  <2>1. /\ step[k] = "verify" /\ step'[k] = "pay" /\ mandate[k] \in Mandates
        /\ paper[mandate[k]] \in Papers /\ paper[mandate[k]].under = Standing
    BY <1>0, <1>3 DEF Verify, Goto, Typed, CallTyped, InFlight
  <2>2. Spent(Standing) + Cost(k) <= StandingBudget /\ Cost(k) \in 0 .. StandingMax
    BY <2>1 DEF Verify, Goto, Allows, WithinBudget, AmountInRange, Closed, Open, Typed, CallTyped, Cost
  <2>3. SpendsAreSigned' /\ Spent(Standing)' = Spent(Standing)
    BY <1>0, SpentStays DEF Budgeted
  <2>4. \A j \in InFlight' : j \in Callers /\ Dues'[j] = Cost(j)' /\ Dues'[j] = Cost(j)
    BY <1>1 DEF Dues, InFlight
  <2>5. \A j \in InFlight : j \in Callers /\ Cost(j) \in 0 .. StandingMax
    <3>1. \A j \in InFlight : Dues[j] \in 0 .. StandingMax
      BY DEF Budgeted, Costs
    <3>2. \A j \in InFlight : j \in Callers /\ Dues[j] = Cost(j)
      BY DEF InFlight, Dues
    <3>3. QED BY <3>1, <3>2
  <2>6. Costs(InFlight', Dues', StandingMax) /\ Cardinality(InFlight') <= Cardinality(Callers)
    <3>1. InFlight' \in SUBSET Callers
      BY DEF InFlight
    <3>2. IsFiniteSet(InFlight') /\ Cardinality(InFlight') <= Cardinality(Callers)
      BY <3>1, CallersAssumption, FS_Subset
    <3>3. \A j \in InFlight' : Dues'[j] \in 0 .. StandingMax
      <4>1. SUFFICES ASSUME NEW j \in InFlight' PROVE Cost(j)' \in 0 .. StandingMax
        BY <2>4
      <4>2. Cost(j)' = Cost(j) /\ (j = k \/ j \in InFlight)
        BY <1>1
      <4>3. QED BY <2>2, <2>5, <4>2
    <3>4. QED BY <3>2, <3>3 DEF Costs
  <2>7. Suffices(InFlight', Dues', Spent(Standing), StandingMax, Allowance)
    <3> DEFINE G == InFlight'  d == Dues'  s == Spent(Standing)
    <3>1. /\ k \in G /\ Costs(G, d, StandingMax) /\ s \in Nat /\ s + d[k] <= StandingBudget
          /\ Cardinality(G) <= Cardinality(Callers) /\ Cardinality(Callers) \in Nat
          /\ StandingMax \in Nat /\ StandingBudget \in Nat
      BY <1>3, <2>2, <2>4, <2>6, AllowanceTyped, StorefrontAssumption DEF Budgeted
    <3> HIDE DEF G, d, s
    <3>2. Suffices(G, d, s, StandingMax, StandingBudget + Times(Cardinality(Callers) - 1, StandingMax))
      BY ONLY <3>1, SufficesVerified
    <3>3. QED BY <3>2 DEF G, d, s, Allowance
  <2>8. Spent(Standing) \in Nat /\ Suffices(InFlight', Dues', Spent(Standing)', StandingMax, Allowance)
    BY <2>3, <2>7 DEF Budgeted
  <2>9. QED
    BY <2>3, <2>6, <2>8 DEF Budgeted, Suffices, Costs, Allowance, Times
<1>4. QED BY <1>2, <1>3

LEMMA BudgetStep ==
  ASSUME Typed, Budgeted, [Next]_vars
  PROVE  Budgeted'
<1>1. ASSUME NEW k \in Callers, Call(k)
      PROVE  Budgeted'
  <2>0. UNCHANGED paper
    BY <1>1 DEF Call, CreateCheckout, CompleteCheckout, CheckoutUnresolved, PaymentUnresolved,
         InitiatePayment, Lookup, Guard, Recheck, Verify, Attempt, Capture, AttemptFails, Book,
         SettleCheck, Confirm, FailCheck, Refuse, Defer, Replay, Raise, CommitStock, Answered, mandateVars
  <2>1. CASE Book(k) /\ mandate[k] \notin booked
    BY <2>1, BudgetBooks
  <2>2. CASE Verify(k)
    BY <2>2, BudgetVerifies
  <2>3. UNCHANGED booked \/ (Book(k) /\ mandate[k] \notin booked)
    BY <1>1 DEF Call, CreateCheckout, CompleteCheckout, CheckoutUnresolved, PaymentUnresolved,
           InitiatePayment, Lookup, Guard, Recheck, Verify, Attempt, Capture, AttemptFails, Book,
           SettleCheck, Confirm, FailCheck, Refuse, Defer, Replay, Raise, CommitStock, Answered, moneyVars,
           Money!Charge, Money!Book, Money!ConfirmReceipt, Money!RefuseReceipt
  <2>4. CASE UNCHANGED booked /\ ~Verify(k)
    <3>1. \/ UNCHANGED callVars
          \/ /\ \A j \in Callers \ {k} : step'[j] = step[j] /\ mandate'[j] = mandate[j]
             /\ \/ step'[k] \notin {"pay", "attempt"}
                \/ step[k] \in {"pay", "attempt"} /\ mandate'[k] = mandate[k]
      <4>1. CASE \/ \E c \in Checkouts, m \in Mandates : InitiatePayment(k, c, m)
                 \/ Lookup(k) \/ Guard(k) \/ Recheck(k)
                 \/ Book(k) \/ SettleCheck(k) \/ Confirm(k) \/ FailCheck(k) \/ Refuse(k) \/ Defer(k)
                 \/ Replay(k) \/ Raise(k) \/ CommitStock(k) \/ Answered(k)
                 \/ Attempt(k) \/ AttemptFails(k)
        BY <4>1
           DEF InitiatePayment, Lookup, ReplyOf, Guard, Recheck, Book, SettleCheck, Confirm, FailCheck, Refuse, Defer, Replay,
               Raise, CommitStock, Answered, Attempt, AttemptFails, Goto, Hangup, Typed, CallTyped
      <4>2. QED
        BY <1>1, <2>4, <4>1
           DEF Call, CreateCheckout, CompleteCheckout, CheckoutUnresolved, PaymentUnresolved, Capture
    <3>2. \A j \in InFlight' : j \in InFlight /\ Cost(j)' = Cost(j)
      BY <2>0, <2>4, <3>1 DEF InFlight, Cost, callVars
    <3>3. QED BY <2>4, <3>2, BudgetStays
  <2>5. QED BY <2>1, <2>2, <2>3, <2>4
<1>2. CASE Elsewhere
  <2>1. ASSUME NEW j \in InFlight' PROVE j \in InFlight /\ Cost(j)' = Cost(j)
    <3>1. j \in Callers /\ step[j] \in {"pay", "attempt"} /\ mandate'[j] = mandate[j] /\ booked' = booked
      BY <1>2 DEF Elsewhere, callVars, moneyVars, InFlight
    <3>2. mandate[j] \in Mandates /\ paper[mandate[j]] # None
      BY <3>1, PaperAssumption DEF Typed, CallTyped
    <3>3. paper'[mandate[j]] = paper[mandate[j]]
      BY <3>2, PapersStay
    <3>4. QED BY <3>1, <3>3 DEF InFlight, Cost
  <2>2. QED BY <1>2, <2>1, BudgetStays DEF Elsewhere, moneyVars
<1>3. CASE Restart
  <2>1. InFlight' = {} /\ UNCHANGED booked
    BY <1>3 DEF Restart, InFlight, moneyVars
  <2>2. QED BY <2>1, BudgetStays
<1>4. QED
  BY <1>1, <1>2, <1>3 DEF Next, SignMandate, ApprovalGiven, Buyer, Elsewhere, vars, mandateVars, moneyVars

LEMMA BudgetInit == Init => Budgeted
<1> SUFFICES ASSUME Init PROVE Budgeted
  OBVIOUS
<1>1. SpendsAreSigned
  BY FS_EmptySet DEF Init, Money!Init, SpendsAreSigned
<1>2. Spent(Standing) = 0
  BY SpentNothing DEF Init, Money!Init, Drawn
<1>3. InFlight = {}
  BY DEF Init, InFlight
<1>4. QED
  BY <1>1, <1>2, <1>3, AllowanceTyped, FS_EmptySet DEF Budgeted, Costs, Suffices

LEMMA BudgetInvariant == Spec => [](Typed /\ Budgeted)
<1>1. ShopInv => Typed
  BY DEF ShopInv
<1>2. Typed /\ Budgeted /\ [Next]_vars => Budgeted'
  BY BudgetStep
<1>3. QED BY <1>1, <1>2, BudgetInit, ShopInvariant, PTL DEF Spec

\* The budget check holds up to what is not booked yet: with n calls at once what
\* is booked under the standing authorisation exceeds its budget by at most n - 1
\* purchases within its limit, however the calls interleave and whatever is
\* replayed, deferred or forgotten (check_budget and record_spend).
THEOREM OverspendIsBounded == Spec => []OverspendBounded
<1>1. Budgeted => OverspendBounded
  BY SufficesNow, AllowanceTyped, StorefrontAssumption DEF Budgeted, OverspendBounded, Allowance, Times
<1>2. QED BY <1>1, BudgetInvariant, PTL

\* With one call at a time it never exceeds the budget at all, and an approval is
\* spent once.
THEOREM BudgetIsKept ==
  ASSUME OneCaller
  PROVE  Spec => []BudgetKept
<1>1. PICK k \in Callers : Callers = {k}
  BY CallersAssumption DEF OneCaller
<1>2. Cardinality(Callers) = 1
  BY <1>1, FS_Singleton
<1>3. Times(Cardinality(Callers) - 1, StandingMax) = 0
  BY <1>2, StorefrontAssumption DEF Times
<1>4. Typed /\ Budgeted => BudgetKept
  <2> SUFFICES ASSUME Typed, Budgeted PROVE BudgetKept
    OBVIOUS
  <2>1. Spent(Standing) <= StandingBudget
    BY <1>3, SufficesNow, AllowanceTyped, StorefrontAssumption DEF Budgeted, Allowance
  <2>2. \A m \in booked : paper[m].under = m => Spent(m) <= Price[paper[m].checkout]
    BY OneTimeSpent DEF Budgeted
  <2>3. QED BY <2>1, <2>2 DEF BudgetKept
<1>5. QED BY <1>4, BudgetInvariant, PTL

(***************************************************************************)
(* The shelf with calls at once.                                           *)
(***************************************************************************)
\* A call is about a checkout of this life of the process.
Live(k) == step[k] # "idle" => cstatus[checkout[k]] \in {"open", "confirmed", "paid"}

\* A captured receipt is of a checkout that is settled, about to be, or forgotten.
Delivering ==
  \A m \in Mandates : outcome[m] = "captured" =>
    /\ cstatus[paper[m].checkout] # "none"
    /\ \/ cstatus[paper[m].checkout] = "lost"
       \/ settledBy[paper[m].checkout] # None
       \/ \E k \in Callers : step[k] = "commit" /\ mandate[k] = m

\* Calls that saw the unit and may still take it, and what they may take it for.
Taking == {k \in Callers : step[k] \in {"attempt", "booked", "close", "commit"}}
Short == oversold \cup ({checkout[k] : k \in Taking} \ Settled)

ShelfInv ==
  /\ \A k \in Callers : Live(k)
  /\ Delivering
  /\ stock > 0 => oversold = {}
  /\ stock = 0 => Cardinality(Short) <= Cardinality(Callers) - 1

LEMMA LiveStep ==
  ASSUME Typed, \A k \in Callers : Live(k), [Next]_vars
  PROVE  (\A k \in Callers : Live(k))'
<1>1. CASE Restart
  BY <1>1 DEF Restart, Live
<1>2. ASSUME NEW j \in Callers, Call(j)
      PROVE  (\A k \in Callers : Live(k))'
  <2>1. \/ UNCHANGED callVars
        \/ /\ \A k \in Callers \ {j} : step'[k] = step[k] /\ checkout'[k] = checkout[k]
           /\ \/ step'[j] = "idle"
              \/ step[j] # "idle" /\ checkout'[j] = checkout[j]
              \/ cstatus[checkout'[j]] \in {"open", "confirmed", "paid"}
    BY <1>2 DEF Call, CreateCheckout, CompleteCheckout, CheckoutUnresolved, PaymentUnresolved,
         InitiatePayment, Lookup, Guard, Recheck, Verify, Attempt, Capture, AttemptFails, Book,
         SettleCheck, Confirm, FailCheck, Refuse, Defer, Replay, Raise, CommitStock, Answered, Goto, Hangup, Typed, CallTyped,
         callVars
  <2>2. \A c \in Checkouts : cstatus[c] \in {"open", "confirmed", "paid"} =>
          cstatus'[c] \in {"open", "confirmed", "paid"}
    BY <1>2 DEF Call, CreateCheckout, CompleteCheckout, CheckoutUnresolved, PaymentUnresolved,
         InitiatePayment, Lookup, Guard, Recheck, Verify, Attempt, Capture, AttemptFails, Book,
         SettleCheck, Confirm, FailCheck, Refuse, Defer, Replay, Raise, CommitStock, Answered, Typed, ShopTyped, shopVars
  <2>3. \A k \in Callers : step'[k] # "idle" => checkout'[k] \in Checkouts
    <3>1. Typed'
      BY TypedStep
    <3>2. QED BY <3>1 DEF Typed, CallTyped
  <2>4. QED BY <2>1, <2>2, <2>3 DEF Live, callVars
<1>3. CASE UNCHANGED <<cstatus, callVars>>
  BY <1>3 DEF Live, callVars
<1>4. QED BY <1>1, <1>2, <1>3 DEF Next, SignMandate, ApprovalGiven, Buyer, vars, shopVars

LEMMA StatusMoves ==
  ASSUME Typed, [Next]_vars, NEW c \in Checkouts, cstatus[c] # "none"
  PROVE  /\ cstatus'[c] # "none"
         /\ cstatus[c] = "lost" => cstatus'[c] = "lost" \/ settledBy'[c] # None
         /\ settledBy[c] # None => settledBy'[c] # None \/ cstatus'[c] = "lost"
<1>1. CASE Restart
  BY <1>1 DEF Restart
<1>2. ASSUME NEW j \in Callers, Call(j)
      PROVE  /\ cstatus'[c] # "none"
             /\ cstatus[c] = "lost" => cstatus'[c] = "lost" \/ settledBy'[c] # None
             /\ settledBy[c] # None => settledBy'[c] # None
  <2>1. CASE CommitStock(j)
    BY <2>1, NoneAssumption DEF CommitStock, Typed, ShopTyped, CallTyped, shopVars
  <2>2. CASE \E d \in Checkouts : CreateCheckout(j, d) \/ CompleteCheckout(j, d)
    BY <2>2 DEF CreateCheckout, CompleteCheckout, Typed, ShopTyped
  <2>3. CASE UNCHANGED shopVars
    BY <2>3 DEF shopVars
  <2>4. QED
    BY <1>2, <2>1, <2>2, <2>3
    DEF Call, CheckoutUnresolved, PaymentUnresolved,
         InitiatePayment, Lookup, Guard, Recheck, Verify, Attempt, Capture, AttemptFails, Book,
         SettleCheck, Confirm, FailCheck, Refuse, Defer, Replay, Raise, Answered
<1>3. CASE UNCHANGED shopVars
  BY <1>3 DEF shopVars
<1>4. QED BY <1>1, <1>2, <1>3 DEF Next, SignMandate, ApprovalGiven, Buyer, vars

LEMMA DeliveringStep ==
  ASSUME ShopInv, Delivering, \A k \in Callers : Live(k), [Next]_vars
  PROVE  Delivering'
<1>0. Typed /\ SignedFirst /\ \A k \in Callers : Honest(k)
  BY DEF ShopInv
<1> SUFFICES ASSUME NEW m \in Mandates, outcome'[m] = "captured"
             PROVE  /\ cstatus'[paper'[m].checkout] # "none"
                    /\ \/ cstatus'[paper'[m].checkout] = "lost"
                       \/ settledBy'[paper'[m].checkout] # None
                       \/ \E k \in Callers : step'[k] = "commit" /\ mandate'[k] = m
  BY DEF Delivering
<1>1. CASE outcome[m] = "captured"
  <2> DEFINE c == paper[m].checkout
  <2>1. paper[m] \in Papers /\ paper'[m] = paper[m] /\ c \in Checkouts
    BY <1>0, <1>1, PapersStay DEF SignedFirst, Typed, PaperTyped, Papers
  <2>2. cstatus[c] # "none"
    BY <1>1 DEF Delivering
  <2>3. /\ cstatus'[c] # "none"
        /\ cstatus[c] = "lost" => cstatus'[c] = "lost" \/ settledBy'[c] # None
        /\ settledBy[c] # None => settledBy'[c] # None \/ cstatus'[c] = "lost"
    BY <1>0, <2>1, <2>2, StatusMoves
  <2>4. CASE cstatus[c] = "lost" \/ settledBy[c] # None
    BY <2>1, <2>3, <2>4
  <2>5. ASSUME NEW k \in Callers, step[k] = "commit", mandate[k] = m
        PROVE  cstatus'[c] = "lost" \/ settledBy'[c] # None \/ (step'[k] = "commit" /\ mandate'[k] = m)
    <3>1. checkout[k] = c
      BY <1>0, <2>5 DEF Honest, Running
    <3>2. CASE Restart
      BY <2>1, <2>2, <3>2 DEF Restart
    <3>3. CASE Call(k)
      <4>1. CommitStock(k) \/ UNCHANGED <<step, mandate>>
        BY <2>5, <3>3
        DEF Call, CreateCheckout, CompleteCheckout, CheckoutUnresolved, PaymentUnresolved,
            InitiatePayment, Lookup, Guard, Recheck, Verify, Attempt, Capture, AttemptFails, Book,
            SettleCheck, Confirm, FailCheck, Refuse, Defer, Replay, Raise, Answered, callVars, Replies
      <4>2. CASE CommitStock(k)
        BY <1>0, <2>1, <2>5, <3>1, <4>2, NoneAssumption DEF CommitStock, shopVars, Typed, ShopTyped
      <4>3. QED BY <2>5, <4>1, <4>2
    <3>4. CASE \E j \in Callers \ {k} : Call(j)
      BY <1>0, <2>5, <3>4, CallersStay
    <3>5. CASE UNCHANGED callVars
      BY <2>5, <3>5 DEF callVars
    <3>6. QED BY <3>2, <3>3, <3>4, <3>5 DEF Next, SignMandate, ApprovalGiven, Buyer, vars
  <2>6. QED BY <1>1, <2>1, <2>3, <2>4, <2>5 DEF Delivering
<1>2. CASE outcome[m] # "captured"
  <2>1. PICK k \in Callers : Confirm(k) /\ mandate[k] = m
    BY <1>0, <1>2, MoneyMoves
       DEF moneyVars, Capture, Book, Confirm, Refuse, Money!Charge, Money!Book, Money!ConfirmReceipt,
           Money!RefuseReceipt, Typed, MoneyTyped
  <2>2. checkout[k] = paper[m].checkout /\ cstatus[checkout[k]] \in {"open", "confirmed", "paid"}
    BY <1>0, <2>1 DEF Confirm, Honest, Running, Live
  <2>3. step'[k] = "commit" /\ mandate'[k] = m /\ UNCHANGED <<cstatus, paper>>
    BY <1>0, <2>1 DEF Confirm, Goto, shopVars, mandateVars, Typed, CallTyped
  <2>4. QED BY <2>2, <2>3
<1>3. QED BY <1>1, <1>2

\* While the shelf is empty nobody joins those who may still find their unit gone.
LEMMA NobodyJoins ==
  ASSUME ShopInv, ShelfInv, stock = 0, NEW k \in Callers, Call(k)
  PROVE  Short' \subseteq Short
<1>0. /\ Typed /\ \A j \in Callers : Honest(j) /\ Live(j)
      /\ Delivering
  BY DEF ShopInv, ShelfInv
<1>1. \A j \in Callers \ {k} : step'[j] = step[j] /\ checkout'[j] = checkout[j]
  BY <1>0, CallersStay
<1>2. CASE CommitStock(k)
  <2>1. checkout[k] \in {checkout[j] : j \in Taking} /\ checkout[k] \in Checkouts
    BY <1>0, <1>2 DEF CommitStock, Taking, Typed, CallTyped
  <2>2. Settled \subseteq Settled' /\ oversold' \subseteq oversold \cup ({checkout[k]} \ Settled)
    BY <1>0, <1>2, <2>1, NoneAssumption DEF CommitStock, shopVars, Settled, Typed, ShopTyped
  <2>3. Taking' \subseteq Taking /\ UNCHANGED checkout
    BY <1>0, <1>1, <1>2 DEF CommitStock, Goto, Taking, Typed, CallTyped
  <2>4. QED BY <2>1, <2>2, <2>3 DEF Short
<1>3. ASSUME Replay(k), step'[k] = "commit"
      PROVE  Short' \subseteq Short
  <2>1. /\ mandate[k] \in Mandates /\ outcome[mandate[k]] = "captured" /\ checkout[k] \in Checkouts
        /\ paper[mandate[k]].checkout = checkout[k] /\ cstatus[checkout[k]] # "lost"
    BY <1>0, <1>3 DEF Replay, Goto, Typed, CallTyped, Honest, Running, Live
  <2>2. CASE checkout[k] \in Settled
    BY <1>1, <1>3, <2>2 DEF Replay, shopVars, Settled, Short, Taking
  <2>3. CASE checkout[k] \notin Settled
    <3>1. PICK j \in Callers : step[j] = "commit" /\ mandate[j] = mandate[k]
      BY <2>1, <2>3 DEF Delivering, Settled, ShelfInv
    <3>2. checkout[j] = checkout[k] /\ j \in Taking
      BY <1>0, <2>1, <3>1 DEF Honest, Running, Taking
    <3>3. QED BY <1>1, <1>3, <3>2 DEF Replay, shopVars, Settled, Short, Taking
  <2>4. QED BY <2>2, <2>3
<1>4. CASE /\ UNCHANGED <<oversold, settledBy>>
           /\ step'[k] \in {"attempt", "booked", "close", "commit"} =>
                step[k] \in {"attempt", "booked", "close", "commit"} /\ checkout'[k] = checkout[k]
  BY <1>1, <1>4 DEF Short, Settled, Taking
<1>5. QED
  <2>1. CASE UNCHANGED <<oversold, settledBy, callVars>>
    BY <1>4, <2>1 DEF callVars
  <2>2. CASE \/ \E c \in Checkouts, m \in Mandates : InitiatePayment(k, c, m)
             \/ Lookup(k) \/ Guard(k) \/ Recheck(k) \/ Verify(k) \/ AttemptFails(k)
             \/ FailCheck(k) \/ Refuse(k) \/ Defer(k) \/ Raise(k) \/ Answered(k) \/ Book(k)
             \/ SettleCheck(k) \/ Confirm(k)
             \/ (Replay(k) /\ step'[k] # "commit")
    <3>1. CASE \E c \in Checkouts, m \in Mandates : InitiatePayment(k, c, m)
      BY <1>0, <1>4, <3>1 DEF InitiatePayment, Goto, shopVars, Typed, CallTyped
    <3>2. CASE Lookup(k) \/ Guard(k) \/ Recheck(k) \/ Verify(k) \/ AttemptFails(k)
               \/ FailCheck(k) \/ Refuse(k) \/ Defer(k)
      BY <1>0, <1>4, <3>2
         DEF Lookup, ReplyOf, Guard, Recheck, Verify, AttemptFails, FailCheck, Refuse, Defer, Goto, shopVars,
             Typed, CallTyped
    <3>3. CASE Raise(k) \/ Answered(k) \/ Book(k) \/ SettleCheck(k) \/ Confirm(k) \/ (Replay(k) /\ step'[k] # "commit")
      BY <1>0, <1>4, <3>3
         DEF Raise, Answered, Book, SettleCheck, Confirm, Replay, Hangup, Goto, shopVars, Typed, CallTyped
    <3>4. QED BY <2>2, <3>1, <3>2, <3>3
  <2>3. ~Attempt(k)
    BY DEF Attempt, InStock
  <2>4. QED
    BY <1>2, <1>3, <2>1, <2>2, <2>3
    DEF Call, CreateCheckout, CompleteCheckout, CheckoutUnresolved, PaymentUnresolved, Capture,
        shopVars

\* Whoever takes the last unit leaves the other calls short at most.
LEMMA LastUnit ==
  ASSUME ShopInv, ShelfInv, NEW k \in Callers, CommitStock(k), stock > 0, stock' = 0
  PROVE  Cardinality(Short') <= Cardinality(Callers) - 1
<1> DEFINE Rest == Callers \ {k}
           f == [j \in Rest |-> checkout[j]]
           All == {f[j] : j \in Rest}
<1>0. Typed
  BY DEF ShopInv
<1>1. oversold' = {} /\ Taking' \subseteq Rest /\ UNCHANGED checkout
  BY <1>0 DEF CommitStock, shopVars, ShelfInv, Goto, Taking, Typed, CallTyped
<1>2. Short' \subseteq All
  BY <1>1 DEF Short
<1>3. IsFiniteSet(Rest) /\ Cardinality(Rest) = Cardinality(Callers) - 1
  BY CallersAssumption, FS_RemoveElement
<1>4. IsFiniteSet(All) /\ Cardinality(All) <= Cardinality(Rest)
  <2>1. f \in Surjection(Rest, All)
    BY DEF Surjection
  <2> HIDE DEF f, All, Rest
  <2>2. QED BY <1>3, <2>1, FS_Surjection
<1>5. Cardinality(Short') <= Cardinality(All) /\ Cardinality(Short') \in Nat /\ Cardinality(All) \in Nat
      /\ Cardinality(Rest) \in Nat
  <2> HIDE DEF f, All, Rest
  <2>1. Short' \in SUBSET All
    BY <1>2
  <2>2. QED BY <1>3, <1>4, <2>1, FS_Subset, FS_CardinalityType
<1> HIDE DEF f, All, Rest
<1>6. QED BY <1>3, <1>4, <1>5, AllowanceTyped

LEMMA ShortCounts ==
  ASSUME Typed
  PROVE  IsFiniteSet(Short) /\ Cardinality(Short) \in Nat
<1>1. Short \in SUBSET Checkouts
  BY DEF Short, Taking, Typed, CallTyped, ShopTyped
<1>2. QED BY <1>1, StorefrontAssumption, FS_Subset, FS_CardinalityType

LEMMA ShelfInvStep ==
  ASSUME ShopInv, ShelfInv, [Next]_vars
  PROVE  ShelfInv'
<1>0. /\ Typed /\ (\A k \in Callers : Honest(k)) /\ (\A k \in Callers : Live(k)) /\ Delivering
      /\ stock \in Nat /\ (stock > 0 => oversold = {})
      /\ (stock = 0 => Cardinality(Short) <= Cardinality(Callers) - 1)
  BY StorefrontAssumption DEF ShopInv, ShelfInv, Typed, ShopTyped
<1>1. (\A k \in Callers : Live(k))' /\ Delivering'
  BY <1>0, LiveStep, DeliveringStep
<1>2. ASSUME Short' \subseteq Short, stock = 0
      PROVE  Cardinality(Short') <= Cardinality(Callers) - 1
  <2>1. IsFiniteSet(Short) /\ Cardinality(Short) \in Nat
    BY <1>0, ShortCounts
  <2> DEFINE x == Short'  y == Short
  <2>2. x \in SUBSET y /\ IsFiniteSet(y)
    BY <1>2, <2>1
  <2>3. Cardinality(y) <= Cardinality(Callers) - 1 /\ Cardinality(y) \in Nat
    BY <1>0, <1>2, <2>1
  <2> HIDE DEF x, y
  <2>4. Cardinality(x) <= Cardinality(y) /\ Cardinality(x) \in Nat
    BY <2>2, FS_Subset, FS_CardinalityType
  <2>5. Cardinality(x) <= Cardinality(Callers) - 1
    BY <2>3, <2>4, AllowanceTyped
  <2>6. QED BY <2>5 DEF x
<1>3. CASE Restart
  <2>1. stock' > 0 /\ oversold' = {}
    BY <1>0, <1>3 DEF Restart, Typed, ShopTyped
  <2>2. QED BY <1>1, <2>1 DEF ShelfInv
<1>4. ASSUME NEW k \in Callers, Call(k)
      PROVE  ShelfInv'
  <2>1. CASE CommitStock(k) /\ settledBy[checkout[k]] = None
    <3>1. stock' = Left /\ oversold' = IF stock > 0 THEN oversold ELSE oversold \cup {checkout[k]}
      BY <2>1 DEF CommitStock
    <3>2. CASE stock > 0
      <4>1. oversold' = {} /\ stock' = stock - 1
        BY <1>0, <3>1, <3>2 DEF Left
      <4>2. stock' = 0 => Cardinality(Short') <= Cardinality(Callers) - 1
        BY <2>1, <3>2, LastUnit
      <4>3. QED BY <1>1, <4>1, <4>2 DEF ShelfInv
    <3>3. CASE stock = 0
      <4>1. Short' \subseteq Short
        BY <1>4, <3>3, NobodyJoins
      <4>2. stock' = 0
        BY <3>1, <3>3 DEF Left
      <4>3. QED BY <1>1, <1>2, <3>3, <4>1, <4>2 DEF ShelfInv
    <3>4. QED BY <1>0, <3>2, <3>3
  <2>2. CASE UNCHANGED <<settledBy, seed, stock, oversold>>
    <3>1. stock = 0 => Short' \subseteq Short
      BY <1>4, NobodyJoins
    <3>2. QED BY <1>0, <1>1, <1>2, <2>2, <3>1 DEF ShelfInv
  <2>3. QED
    <3>1. UNCHANGED <<settledBy, seed, stock, oversold>> \/ (CommitStock(k) /\ settledBy[checkout[k]] = None)
      BY <1>4 DEF Call, CreateCheckout, CompleteCheckout, CheckoutUnresolved, PaymentUnresolved,
         InitiatePayment, Lookup, Guard, Recheck, Verify, Attempt, Capture, AttemptFails, Book,
         SettleCheck, Confirm, FailCheck, Refuse, Defer, Replay, Raise, CommitStock, Answered, shopVars
    <3>2. QED BY <2>1, <2>2, <3>1
<1>5. CASE UNCHANGED <<shopVars, callVars>>
  <2>1. stock' = stock /\ oversold' = oversold /\ Short' = Short
    BY <1>5 DEF shopVars, callVars, Short, Taking, Settled
  <2>2. QED BY <1>0, <1>1, <2>1 DEF ShelfInv
<1>6. QED BY <1>3, <1>4, <1>5 DEF Next, SignMandate, ApprovalGiven, Buyer, vars

LEMMA ShelfInvariant == Spec => [](ShopInv /\ ShelfInv)
<1>1. Init => ShelfInv
  <2> SUFFICES ASSUME Init PROVE ShelfInv
    OBVIOUS
  <2>1. (\A k \in Callers : Live(k)) /\ Delivering
    BY DEF Init, Money!Init, Live, Delivering
  <2>2. oversold = {} /\ stock # 0
    BY StorefrontAssumption DEF Init
  <2>3. QED BY <2>1, <2>2 DEF ShelfInv
<1>2. ShopInv /\ ShelfInv /\ [Next]_vars => ShelfInv'
  BY ShelfInvStep
<1>3. QED BY <1>1, <1>2, ShopInvariant, PTL DEF Spec

\* Once the last unit is taken, the calls that had seen one are all that can
\* still be paid for: in the life of a process fewer checkouts than there are
\* calls at once find their unit gone (recheck, commit_stock and take).
THEOREM OversellIsBounded == Spec => []OversellBounded
<1>1. ShopInv /\ ShelfInv => OversellBounded
  <2> SUFFICES ASSUME ShopInv, ShelfInv PROVE OversellBounded
    OBVIOUS
  <2>1. stock \in Nat
    BY StorefrontAssumption DEF ShopInv, Typed, ShopTyped
  <2>2. CASE stock > 0
    BY <2>2, FS_EmptySet, AllowanceTyped DEF ShelfInv, OversellBounded
  <2>3. CASE stock = 0
    <3>1. IsFiniteSet(Short) /\ Cardinality(Short) \in Nat
      BY ShortCounts DEF ShopInv
    <3>2. oversold \in SUBSET Short
      BY DEF Short
    <3>3. Cardinality(oversold) <= Cardinality(Short) /\ Cardinality(oversold) \in Nat
      BY <3>1, <3>2, FS_Subset, FS_CardinalityType
    <3>4. QED BY <2>3, <3>1, <3>3, AllowanceTyped DEF ShelfInv, OversellBounded
  <2>4. QED BY <2>1, <2>2, <2>3
<1>2. QED BY <1>1, ShelfInvariant, PTL

\* No more callers than there are.
LEMMA CallersCount ==
  ASSUME NEW f, NEW T, \A x \in T : \E k \in Callers : f[k] = x
  PROVE  IsFiniteSet(T) /\ Cardinality(T) \in Nat /\ Cardinality(T) <= Cardinality(Callers)
<1>1. T \in SUBSET {f[k] : k \in Callers}
  OBVIOUS
<1>2. QED BY <1>1, NamesCount, CallersAssumption

\* What only shrinks stays within the bound.
LEMMA StaysCounted ==
  ASSUME NEW S, NEW T \in SUBSET S, IsFiniteSet(S), Cardinality(S) <= Cardinality(Callers)
  PROVE  IsFiniteSet(T) /\ Cardinality(T) <= Cardinality(Callers)
<1>1. IsFiniteSet(T) /\ Cardinality(T) <= Cardinality(S)
  BY FS_Subset
<1>2. Cardinality(S) \in Nat /\ Cardinality(T) \in Nat /\ Cardinality(Callers) \in Nat
  BY <1>1, FS_CardinalityType, AllowanceTyped
<1>3. QED BY <1>1, <1>2

(***************************************************************************)
(* Receipts with calls at once.                                            *)
(***************************************************************************)
PastGuard == {"recheck", "verify", "pay", "attempt", "booked", "close", "commit", "fail_write"}

\* The captured receipts of a checkout, and the calls that may still add one.
Claims(c) ==
  {m \in Mandates : \/ m \in Receipts(c)
                    \/ \E k \in Callers : step[k] \in PastGuard /\ checkout[k] = c /\ mandate[k] = m}

ClaimInv ==
  \A c \in Checkouts : settledBy[c] # None \/ cstatus[c] = "lost" =>
    IsFiniteSet(Claims(c)) /\ Cardinality(Claims(c)) <= Cardinality(Callers)

\* Before a checkout is settled each receipt is in the hands of its call.
LEMMA UnsettledClaims ==
  ASSUME Delivering, NEW c \in Checkouts, settledBy[c] = None, cstatus[c] # "lost"
  PROVE  IsFiniteSet(Claims(c)) /\ Cardinality(Claims(c)) <= Cardinality(Callers)
<1>1. \A m \in Claims(c) : \E k \in Callers : mandate[k] = m
  BY DEF Claims, Receipts, Delivering
<1>2. QED BY <1>1, CallersCount

\* Nobody passes the guard of a checkout that is settled or forgotten.
LEMMA ClaimsShrink ==
  ASSUME ShopInv, \A k \in Callers : Live(k), [Next]_vars, NEW c \in Checkouts,
         \/ settledBy[c] # None \/ cstatus[c] = "lost"
         \/ Restart \/ \E k \in Callers : CommitStock(k)
  PROVE  Claims(c)' \subseteq Claims(c)
<1>0. Typed /\ SignedFirst /\ \A k \in Callers : Honest(k)
  BY DEF ShopInv
<1> SUFFICES ASSUME NEW m \in Mandates,
                    \/ outcome'[m] = "captured" /\ paper'[m].checkout = c
                    \/ \E k \in Callers : step'[k] \in PastGuard /\ checkout'[k] = c /\ mandate'[k] = m
             PROVE  m \in Claims(c)
  BY DEF Claims, Receipts
<1>1. CASE outcome'[m] = "captured" /\ paper'[m].checkout = c /\ outcome[m] = "captured"
  <2>1. paper'[m] = paper[m]
    BY <1>0, <1>1, PapersStay DEF SignedFirst
  <2>2. QED BY <1>1, <2>1 DEF Claims, Receipts
<1>2. CASE outcome'[m] = "captured" /\ paper'[m].checkout = c /\ outcome[m] # "captured"
  <2>1. PICK k \in Callers : Confirm(k) /\ mandate[k] = m
    BY <1>0, <1>2, MoneyMoves
       DEF moneyVars, Capture, Book, Confirm, Refuse, Money!Charge, Money!Book, Money!ConfirmReceipt,
           Money!RefuseReceipt, Typed, MoneyTyped
  <2>2. step[k] = "close" /\ checkout[k] = paper[m].checkout /\ paper' = paper
    BY <1>0, <2>1 DEF Confirm, Honest, Running, mandateVars
  <2>3. QED BY <1>2, <2>1, <2>2 DEF Claims, PastGuard
<1>3. ASSUME NEW k \in Callers, step'[k] \in PastGuard, checkout'[k] = c, mandate'[k] = m
      PROVE  m \in Claims(c)
  <2>1. CASE step[k] \in PastGuard /\ checkout[k] = c /\ mandate[k] = m
    BY <2>1 DEF Claims
  <2>2. CASE UNCHANGED callVars \/ \E j \in Callers \ {k} : Call(j)
    BY <1>0, <1>3, <2>1, <2>2, CallersStay DEF callVars
  <2>3. CASE Restart
    BY <1>3, <2>3 DEF Restart, PastGuard
  <2>4. CASE Call(k)
    <3>1. CASE Guard(k)
      <4>1. settledBy[checkout[k]] = None /\ checkout[k] = c /\ step[k] = "guard"
        BY <1>0, <1>3, <3>1 DEF Guard, Goto, PastGuard, Typed, CallTyped
      <4>2. cstatus[c] # "lost"
        BY <4>1 DEF Live
      <4>3. ~Restart
        BY <1>3 DEF Restart, PastGuard
      <4>4. ~ \E j \in Callers : CommitStock(j)
        <5>1. ASSUME NEW j \in Callers, CommitStock(j) PROVE FALSE
          <6>1. CASE j = k
            BY <4>1, <5>1, <6>1 DEF CommitStock
          <6>2. CASE j # k
            BY <1>0, <3>1, <4>1, <5>1, <6>2 DEF CommitStock, Guard, Goto, Typed, CallTyped
          <6>3. QED BY <6>1, <6>2
        <5>2. QED BY <5>1
      <4>5. QED BY <4>1, <4>2, <4>3, <4>4
    <3>2. CASE \/ \E d \in Checkouts, n \in Mandates : InitiatePayment(k, d, n)
               \/ Lookup(k) \/ Refuse(k) \/ Defer(k) \/ Raise(k) \/ Answered(k) \/ CommitStock(k)
      BY <1>0, <1>3, <3>2
         DEF InitiatePayment, Lookup, ReplyOf, Refuse, Defer, Raise, Answered, CommitStock, Hangup,
             Goto, PastGuard, Typed, CallTyped
    <3>3. CASE \/ Recheck(k) \/ Verify(k) \/ Attempt(k) \/ AttemptFails(k) \/ Book(k)
               \/ SettleCheck(k) \/ Confirm(k) \/ FailCheck(k) \/ Replay(k)
      BY <1>3, <2>1, <3>3 DEF Recheck, Verify, Attempt, AttemptFails, Book, SettleCheck, Confirm,
                              FailCheck, Replay, PastGuard
    <3>4. QED
      BY <2>2, <2>4, <3>1, <3>2, <3>3
      DEF Call, CreateCheckout, CompleteCheckout, CheckoutUnresolved, PaymentUnresolved, Capture
  <2>5. QED BY <2>2, <2>3, <2>4 DEF Next, SignMandate, ApprovalGiven, Buyer, vars
<1>4. QED BY <1>1, <1>2, <1>3

LEMMA ClaimStep ==
  ASSUME ShopInv, ShelfInv, ClaimInv, [Next]_vars
  PROVE  ClaimInv'
<1> SUFFICES ASSUME NEW c \in Checkouts, settledBy'[c] # None \/ cstatus'[c] = "lost"
             PROVE  IsFiniteSet(Claims(c)') /\ Cardinality(Claims(c)') <= Cardinality(Callers)
  BY DEF ClaimInv
<1>0. Typed /\ (\A k \in Callers : Live(k)) /\ Delivering
  BY DEF ShopInv, ShelfInv
<1>1. IsFiniteSet(Claims(c)) /\ Cardinality(Claims(c)) <= Cardinality(Callers)
  BY <1>0, UnsettledClaims DEF ClaimInv
<1>2. \/ settledBy[c] # None \/ cstatus[c] = "lost"
      \/ Restart \/ \E k \in Callers : CommitStock(k)
  <2> SUFFICES ASSUME settledBy[c] = None, cstatus[c] # "lost", ~Restart,
                      \A k \in Callers : ~CommitStock(k)
               PROVE  settledBy'[c] = None /\ cstatus'[c] # "lost"
    OBVIOUS
  <2>1. UNCHANGED <<settledBy, seed, stock, oversold>>
    BY ShelfMoves
  <2>2. \/ UNCHANGED cstatus
        \/ \E k \in Callers, d \in Checkouts : CreateCheckout(k, d) \/ CompleteCheckout(k, d)
    BY DEF Next, SignMandate, ApprovalGiven, Buyer, vars,
           Call, CheckoutUnresolved, PaymentUnresolved,
           InitiatePayment, Lookup, Guard, Recheck, Verify, Attempt, Capture, AttemptFails, Book,
           SettleCheck, Confirm, FailCheck, Refuse, Defer, Replay, Raise, Answered, shopVars
  <2>3. cstatus'[c] # "lost"
    BY <1>0, <2>2 DEF CreateCheckout, CompleteCheckout, Typed, ShopTyped
  <2>4. QED BY <2>1, <2>3
<1>3. Claims(c)' \in SUBSET Claims(c)
  BY <1>0, <1>2, ClaimsShrink
<1>4. QED BY <1>1, <1>3, StaysCounted

\* A checkout never has more captured receipts than there are calls at once.
ReceiptsPerCheckout == \A c \in Checkouts : Cardinality(Receipts(c)) <= Cardinality(Callers)

\* With n calls at once a checkout gets n captured receipts at most: the calls
\* past the guard when it is settled are all that can still pay for it, and a
\* restart forgets them with the checkout (initiate_payment's guard).
THEOREM ReceiptsBounded == Spec => []ReceiptsPerCheckout
<1>1. Init => ClaimInv
  BY NoneAssumption DEF Init, ClaimInv
<1>2. ShopInv /\ ShelfInv /\ ClaimInv /\ [Next]_vars => ClaimInv'
  BY ClaimStep
<1>3. ShopInv /\ ShelfInv /\ ClaimInv => ReceiptsPerCheckout
  <2> SUFFICES ASSUME ShelfInv, ClaimInv, NEW c \in Checkouts
               PROVE  Cardinality(Receipts(c)) <= Cardinality(Callers)
    BY DEF ReceiptsPerCheckout
  <2>1. IsFiniteSet(Claims(c)) /\ Cardinality(Claims(c)) <= Cardinality(Callers)
    BY UnsettledClaims DEF ClaimInv, ShelfInv
  <2>2. Receipts(c) \in SUBSET Claims(c)
    BY DEF Claims, Receipts
  <2>3. QED BY <2>1, <2>2, StaysCounted
<1>4. QED BY <1>1, <1>2, <1>3, ShelfInvariant, PTL DEF Spec

(***************************************************************************)
(* Nonces with calls at once.                                              *)
(***************************************************************************)
ChargedWith(n) == {m \in Mandates : charge[m] # {} /\ paper[m].nonce = n}

\* Verified calls that present the nonce.
Presenting(n) == {k \in Callers : step[k] \in {"pay", "attempt"} /\ paper[mandate[k]].nonce = n}

\* Who burned the nonce, who was charged with it, and who still may be.
Users(n) ==
  {m \in Mandates : \/ burned[n] = m \/ m \in ChargedWith(n)
                    \/ \E k \in Presenting(n) : mandate[k] = m}

NonceInv ==
  /\ \A m \in Mandates : charge[m] # {} => burned[paper[m].nonce] # None
  /\ \A k \in Callers : step[k] = "attempt" => burned[paper[mandate[k]].nonce] # None
  /\ \A n \in Mandates : burned[n] # None =>
       IsFiniteSet(Users(n)) /\ Cardinality(Users(n)) <= Cardinality(Callers)

\* Before a nonce is burned, all who use it are under way.
LEMMA UnburnedUsers ==
  ASSUME NonceInv, NEW n \in Mandates, burned[n] = None
  PROVE  IsFiniteSet(Users(n)) /\ Cardinality(Users(n)) <= Cardinality(Callers)
<1>1. \A m \in Users(n) : \E k \in Callers : mandate[k] = m
  BY NoneAssumption DEF Users, ChargedWith, Presenting, NonceInv
<1>2. QED BY <1>1, CallersCount

LEMMA NonceMoves ==
  ASSUME Typed, [Next]_vars
  PROVE  \/ UNCHANGED burned
         \/ \E k \in Callers : /\ Attempt(k) /\ burned[paper[mandate[k]].nonce] = None
                               /\ burned' = [burned EXCEPT ![paper[mandate[k]].nonce] = mandate[k]]
<1>1. \A k \in Callers : Call(k) => UNCHANGED burned \/ Attempt(k)
  BY DEF Call, CreateCheckout, CompleteCheckout, CheckoutUnresolved, PaymentUnresolved,
         InitiatePayment, Lookup, Guard, Recheck, Verify, Capture, AttemptFails, Book,
         SettleCheck, Confirm, FailCheck, Refuse, Defer, Replay, Raise, CommitStock, Answered, mandateVars
<1>2. ASSUME NEW k \in Callers, Attempt(k)
      PROVE  \/ UNCHANGED burned
             \/ /\ burned[paper[mandate[k]].nonce] = None
                /\ burned' = [burned EXCEPT ![paper[mandate[k]].nonce] = mandate[k]]
  <2>1. paper[mandate[k]].nonce \in Mandates
    BY <1>2 DEF Attempt, Typed, CallTyped, Papers
  <2>2. QED BY <1>2, <2>1 DEF Attempt, Typed, PaperTyped
<1>3. QED
  BY <1>1, <1>2 DEF Next, SignMandate, ApprovalGiven, Buyer, Restart, vars, mandateVars

\* Once a nonce is burned, only its owner passes the verifier with it.
LEMMA UsersShrink ==
  ASSUME ShopInv, NonceInv, [Next]_vars, NEW n \in Mandates,
         burned[n] # None \/ burned'[n] # None
  PROVE  Users(n)' \subseteq Users(n)
<1>0. Typed /\ SignedFirst
  BY DEF ShopInv
<1> SUFFICES ASSUME NEW m \in Mandates,
                    \/ burned'[n] = m
                    \/ charge'[m] # {} /\ paper'[m].nonce = n
                    \/ \E k \in Callers : /\ step'[k] \in {"pay", "attempt"}
                                          /\ paper'[mandate'[k]].nonce = n /\ mandate'[k] = m
             PROVE  m \in Users(n)
  BY DEF Users, ChargedWith, Presenting
<1>1. CASE burned'[n] = m
  <2>1. ASSUME NEW k \in Callers, Attempt(k),
               burned' = [burned EXCEPT ![paper[mandate[k]].nonce] = mandate[k]]
        PROVE  m \in Users(n)
    BY <1>0, <1>1, <2>1 DEF Attempt, Users, Presenting, Typed, PaperTyped
  <2>2. QED BY <1>0, <1>1, <2>1, NonceMoves DEF Users
<1>2. CASE charge'[m] # {} /\ paper'[m].nonce = n
  <2>1. CASE charge[m] # {}
    <3>1. paper'[m] = paper[m]
      BY <1>0, <2>1, PapersStay DEF SignedFirst
    <3>2. QED BY <1>2, <2>1, <3>1 DEF Users, ChargedWith
  <2>2. CASE charge[m] = {}
    <3>1. PICK k \in Callers : Capture(k) /\ mandate[k] = m
      BY <1>0, <1>2, <2>2, MoneyMoves
         DEF moneyVars, Capture, Book, Confirm, Refuse, Money!Charge, Money!Book,
             Money!ConfirmReceipt, Money!RefuseReceipt, Typed, MoneyTyped
    <3>2. step[k] = "attempt" /\ paper' = paper
      BY <3>1 DEF Capture, mandateVars
    <3>3. QED BY <1>2, <3>1, <3>2 DEF Users, Presenting
  <2>3. QED BY <2>1, <2>2
<1>3. ASSUME NEW k \in Callers, step'[k] \in {"pay", "attempt"}, paper'[mandate'[k]].nonce = n,
             mandate'[k] = m
      PROVE  m \in Users(n)
  <2>1. CASE step[k] \in {"pay", "attempt"} /\ mandate[k] = m
    <3>1. paper'[m] = paper[m]
      BY <1>0, <2>1, PaperAssumption, PapersStay DEF Typed, CallTyped
    <3>2. QED BY <1>3, <2>1, <3>1 DEF Users, Presenting
  <2>2. CASE UNCHANGED callVars \/ \E j \in Callers \ {k} : Call(j)
    BY <1>0, <1>3, <2>1, <2>2, CallersStay DEF callVars
  <2>3. CASE Restart
    BY <1>3, <2>3 DEF Restart
  <2>4. CASE Call(k)
    <3>1. CASE Verify(k)
      <4>1. UNCHANGED <<burned, paper, mandate>>
        BY <3>1 DEF Verify, mandateVars
      <4>2. Owners(m) \subseteq {m} /\ paper[m].nonce = n
        BY <1>0, <1>3, <3>1, <4>1
           DEF Verify, Goto, Allows, NonceUnused, Closed, Typed, CallTyped
      <4>3. burned[n] # None
        BY <4>1
      <4>4. burned[n] = m
        BY <4>2, <4>3 DEF Owners
      <4>5. QED BY <4>4 DEF Users
    <3>2. CASE \/ \E d \in Checkouts, u \in Mandates : InitiatePayment(k, d, u)
               \/ Lookup(k) \/ Guard(k) \/ Recheck(k) \/ Book(k) \/ SettleCheck(k) \/ Confirm(k) \/ Replay(k)
               \/ FailCheck(k)
               \/ Refuse(k) \/ Defer(k) \/ Raise(k) \/ Answered(k) \/ CommitStock(k)
      BY <1>0, <1>3, <3>2
         DEF InitiatePayment, Lookup, ReplyOf, Guard, Recheck, Book, SettleCheck, Confirm, Replay, FailCheck, Refuse, Defer,
             Raise, Answered, CommitStock, Hangup, Goto, Typed, CallTyped
    <3>3. CASE Attempt(k) \/ AttemptFails(k)
      BY <1>3, <2>1, <3>3 DEF Attempt, AttemptFails
    <3>4. QED
      BY <2>2, <2>4, <3>1, <3>2, <3>3
      DEF Call, CreateCheckout, CompleteCheckout, CheckoutUnresolved, PaymentUnresolved, Capture
  <2>5. QED BY <2>2, <2>3, <2>4 DEF Next, SignMandate, ApprovalGiven, Buyer, vars
<1>4. QED BY <1>1, <1>2, <1>3

LEMMA NonceStep ==
  ASSUME ShopInv, NonceInv, [Next]_vars
  PROVE  NonceInv'
<1>0. Typed /\ SignedFirst
  BY DEF ShopInv
<1>1. ASSUME NEW n \in Mandates, burned[n] # None
      PROVE  burned'[n] # None
  BY <1>0, <1>1, NoneAssumption, NonceMoves DEF Typed, PaperTyped, CallTyped, Attempt
<1>2. ASSUME NEW m \in Mandates, charge'[m] # {}
      PROVE  burned'[paper'[m].nonce] # None
  <2>1. CASE charge[m] # {}
    <3>1. paper'[m] = paper[m] /\ paper[m].nonce \in Mandates
      BY <1>0, <2>1, PapersStay DEF SignedFirst, Typed, PaperTyped, Papers
    <3>2. QED BY <1>1, <2>1, <3>1 DEF NonceInv
  <2>2. CASE charge[m] = {}
    <3>1. PICK k \in Callers : Capture(k) /\ mandate[k] = m
      BY <1>0, <1>2, <2>2, MoneyMoves
         DEF moneyVars, Capture, Book, Confirm, Refuse, Money!Charge, Money!Book,
             Money!ConfirmReceipt, Money!RefuseReceipt, Typed, MoneyTyped
    <3>2. step[k] = "attempt" /\ UNCHANGED <<paper, burned>>
      BY <3>1 DEF Capture, mandateVars
    <3>3. QED BY <3>1, <3>2 DEF NonceInv
  <2>3. QED BY <2>1, <2>2
<1>3. ASSUME NEW k \in Callers, step'[k] = "attempt"
      PROVE  burned'[paper'[mandate'[k]].nonce] # None
  <2>1. CASE step[k] = "attempt" /\ mandate'[k] = mandate[k]
    <3>1. /\ mandate[k] \in Mandates /\ paper[mandate[k]] \in Papers
          /\ paper'[mandate[k]] = paper[mandate[k]] /\ paper[mandate[k]].nonce \in Mandates
      BY <1>0, <2>1, PaperAssumption, PapersStay DEF Typed, CallTyped, Papers
    <3>2. QED BY <1>1, <2>1, <3>1 DEF NonceInv
  <2>2. CASE Attempt(k)
    <3>1. /\ UNCHANGED <<paper, mandate>> /\ mandate[k] \in Mandates
          /\ paper[mandate[k]].nonce \in Mandates
      BY <1>0, <2>2 DEF Attempt, Typed, CallTyped, Papers
    <3>2. burned' = [burned EXCEPT ![paper[mandate[k]].nonce] = IF @ = None THEN mandate[k] ELSE @]
      BY <2>2 DEF Attempt
    <3>3. QED BY <1>0, <3>1, <3>2, NoneAssumption DEF Typed, PaperTyped
  <2>3. (step[k] = "attempt" /\ mandate'[k] = mandate[k]) \/ Attempt(k)
    <3>1. CASE UNCHANGED callVars \/ \E j \in Callers \ {k} : Call(j)
      BY <1>0, <1>3, <3>1, CallersStay DEF callVars
    <3>2. CASE Restart
      BY <1>3, <3>2 DEF Restart
    <3>3. CASE \/ \E d \in Checkouts, u \in Mandates : InitiatePayment(k, d, u)
               \/ Lookup(k) \/ Guard(k) \/ Recheck(k) \/ Verify(k) \/ AttemptFails(k)
               \/ Book(k) \/ SettleCheck(k) \/ Confirm(k) \/ FailCheck(k) \/ Replay(k)
               \/ Refuse(k) \/ Defer(k) \/ Raise(k) \/ Answered(k) \/ CommitStock(k)
      BY <1>0, <1>3, <3>3
         DEF InitiatePayment, Lookup, ReplyOf, Guard, Recheck, Verify, AttemptFails, Book, SettleCheck, Confirm,
             FailCheck, Replay, Refuse, Defer, Raise, Answered, CommitStock, Hangup, Goto, Typed, CallTyped
    <3>4. QED
      BY <3>1, <3>2, <3>3
      DEF Next, SignMandate, ApprovalGiven, Buyer, vars,
          Call, CreateCheckout, CompleteCheckout, CheckoutUnresolved, PaymentUnresolved, Capture
  <2>4. QED BY <2>1, <2>2, <2>3
<1>4. ASSUME NEW n \in Mandates, burned'[n] # None
      PROVE  IsFiniteSet(Users(n)') /\ Cardinality(Users(n)') <= Cardinality(Callers)
  <2>1. IsFiniteSet(Users(n)) /\ Cardinality(Users(n)) <= Cardinality(Callers)
    BY UnburnedUsers DEF NonceInv
  <2>2. Users(n)' \in SUBSET Users(n)
    BY <1>4, UsersShrink
  <2>3. QED BY <2>1, <2>2, StaysCounted
<1>5. QED BY <1>2, <1>3, <1>4 DEF NonceInv

\* A nonce never pays for more mandates than there are calls at once.
ChargesPerNonce == \A n \in Mandates : Cardinality(ChargedWith(n)) <= Cardinality(Callers)

\* With n calls at once a nonce pays for n mandates at most: those that were
\* verified before it was burned (check_nonce and the attempt's burn_nonce,
\* whose answer is not looked at).
THEOREM NonceUseBounded == Spec => []ChargesPerNonce
<1>1. Init => NonceInv
  BY DEF Init, Money!Init, NonceInv
<1>2. ShopInv /\ NonceInv /\ [Next]_vars => NonceInv'
  BY NonceStep
<1>3. NonceInv => ChargesPerNonce
  <2> SUFFICES ASSUME NonceInv, NEW n \in Mandates
               PROVE  Cardinality(ChargedWith(n)) <= Cardinality(Callers)
    BY DEF ChargesPerNonce
  <2>1. IsFiniteSet(Users(n)) /\ Cardinality(Users(n)) <= Cardinality(Callers)
    BY UnburnedUsers DEF NonceInv
  <2>2. ChargedWith(n) \in SUBSET Users(n)
    BY DEF ChargedWith, Users
  <2>3. QED BY <2>1, <2>2, StaysCounted
<1>4. QED BY <1>1, <1>2, <1>3, ShopInvariant, PTL DEF Spec

(***************************************************************************)
(* Clicks at once.                                                         *)
(***************************************************************************)
\* The clicks that have looked at hold h and not answered yet.
On(h) == {t \in Clicks : \E approve \in BOOLEAN : click[t] = <<h, approve>>}

Undecided(h) == hstatus[h] \in {"unused", "pending"}

\* A click that answers is no longer under way, and none starts once the hold is
\* decided.
ClicksInv ==
  \A h \in Holds :
    IF Undecided(h)
      THEN decided[h] = 0
      ELSE decided[h] + Cardinality(On(h)) <= Cardinality(Clicks)

LEMMA OnCounts ==
  \A h \in Holds : /\ IsFiniteSet(On(h)) /\ Cardinality(On(h)) \in Nat
                   /\ Cardinality(On(h)) <= Cardinality(Clicks)
                   /\ Cardinality(Clicks) \in Nat
<1> SUFFICES ASSUME NEW h \in Holds
             PROVE  /\ IsFiniteSet(On(h)) /\ Cardinality(On(h)) \in Nat
                    /\ Cardinality(On(h)) <= Cardinality(Clicks) /\ Cardinality(Clicks) \in Nat
  OBVIOUS
<1>1. On(h) \in SUBSET Clicks
  BY DEF On
<1>2. QED BY <1>1, ClicksAssumption, FS_Subset, FS_CardinalityType

\* The answer of click t, about hold h.
LEMMA Answers ==
  ASSUME Typed, ClicksInv, NEW t \in Clicks, NEW h \in Holds, NEW approve \in BOOLEAN,
         NEW s \in {"approved", "denied"},
         click[t] = <<h, approve>>, click' = [click EXCEPT ![t] = <<>>],
         hstatus' = [hstatus EXCEPT ![h] = s], decided' = [decided EXCEPT ![h] = @ + 1]
  PROVE  ClicksInv'
<1>0. /\ click \in [Clicks -> {<<>>} \cup (Holds \X BOOLEAN)] /\ decided \in [Holds -> Nat]
      /\ hstatus \in [Holds -> {"unused", "pending", "approved", "denied", "expired", "lost"}]
  BY DEF Typed, SurfaceTyped, SurfaceTypeOK
<1>1. t \in On(h) /\ On(h)' = On(h) \ {t}
  <2>1. \A a \in BOOLEAN : <<>> # <<h, a>>
    OBVIOUS
  <2>2. QED BY <1>0, <2>1 DEF On
<1>2. /\ IsFiniteSet(On(h)) /\ Cardinality(On(h)) \in Nat /\ Cardinality(Clicks) \in Nat
      /\ Cardinality(On(h)) <= Cardinality(Clicks)
  BY OnCounts
<1>3. Cardinality(On(h)') = Cardinality(On(h)) - 1
  BY <1>1, <1>2, FS_RemoveElement
<1>4. decided[h] + Cardinality(On(h)) <= Cardinality(Clicks)
  BY <1>0, <1>2 DEF ClicksInv, Undecided
<1>5. ~Undecided(h)' /\ decided'[h] + Cardinality(On(h)') <= Cardinality(Clicks)
  BY <1>0, <1>2, <1>3, <1>4 DEF Undecided
<1>6. ASSUME NEW g \in Holds, g # h
      PROVE  Undecided(g)' = Undecided(g) /\ decided'[g] = decided[g] /\ On(g)' = On(g)
  <2>1. click'[t] = <<>> /\ \A u \in Clicks \ {t} : click'[u] = click[u]
    BY <1>0
  <2>2. \A a \in BOOLEAN : click[t] # <<g, a>> /\ <<>> # <<g, a>>
    BY <1>6
  <2>3. On(g)' = On(g)
    BY <2>1, <2>2 DEF On
  <2>4. QED BY <1>0, <1>6, <2>3 DEF Undecided
<1>7. QED BY <1>5, <1>6 DEF ClicksInv

LEMMA ClicksStep ==
  ASSUME Typed, ClicksInv, [Next]_vars
  PROVE  ClicksInv'
<1>0. /\ click \in [Clicks -> {<<>>} \cup (Holds \X BOOLEAN)] /\ decided \in [Holds -> Nat]
      /\ hstatus \in [Holds -> {"unused", "pending", "approved", "denied", "expired", "lost"}]
  BY DEF Typed, SurfaceTyped, SurfaceTypeOK
<1>1. ASSUME NEW h \in Holds, NEW c \in Checkouts, Hold(h, c)
      PROVE  ClicksInv'
  <2>1. \A g \in Holds : On(g)' = On(g) /\ decided'[g] = decided[g] /\ Undecided(g)' = Undecided(g)
    BY <1>0, <1>1 DEF Hold, On, Undecided
  <2>2. QED BY <2>1 DEF ClicksInv
<1>2. ASSUME NEW h \in Holds, Look(h)
      PROVE  ClicksInv'
  <2>1. \A g \in Holds : On(g)' = On(g) /\ decided'[g] = decided[g]
    BY <1>2 DEF Look, On
  <2>2. Undecided(h) /\ \A g \in Holds \ {h} : Undecided(g)' = Undecided(g)
    BY <1>0, <1>2 DEF Look, Undecided
  <2>3. QED BY <1>0, <2>1, <2>2, OnCounts DEF ClicksInv
<1>3. ASSUME NEW t \in Clicks, NEW h \in Holds, NEW approve \in BOOLEAN, BeginDecision(t, h, approve)
      PROVE  ClicksInv'
  <2>1. Undecided(h) /\ \A g \in Holds : Undecided(g)' = Undecided(g) /\ decided'[g] = decided[g]
    BY <1>3 DEF BeginDecision, Undecided
  <2>2. ASSUME NEW g \in Holds, g # h
        PROVE  On(g)' = On(g)
    <3>1. click[t] = <<>> /\ click'[t] = <<h, approve>> /\ \A u \in Clicks \ {t} : click'[u] = click[u]
      BY <1>0, <1>3 DEF BeginDecision
    <3>2. \A a \in BOOLEAN : <<h, approve>> # <<g, a>> /\ <<>> # <<g, a>>
      BY <2>2
    <3>3. QED BY <3>1, <3>2 DEF On
  <2>3. QED BY <2>1, <2>2 DEF ClicksInv
<1>4. ASSUME NEW t \in Clicks, NEW h \in Holds, Deny(t, h)
      PROVE  ClicksInv'
  BY <1>4, Answers DEF Deny
<1>5. ASSUME NEW t \in Clicks, NEW h \in Holds, NEW m \in Mandates, Approve(t, h, m)
      PROVE  ClicksInv'
  BY <1>5, Answers DEF Approve
<1>6. ASSUME Restart
      PROVE  ClicksInv'
  <2>1. decided' = decided /\ \A t \in Clicks : click'[t] = <<>>
    BY <1>6 DEF Restart, ForgetHolds
  <2>2. \A h \in Holds : Undecided(h)' => Undecided(h)
    BY <1>0, <1>6 DEF Restart, ForgetHolds, Undecided
  <2>3. ASSUME NEW h \in Holds PROVE Cardinality(On(h)') = 0
    <3>1. \A a \in BOOLEAN : <<>> # <<h, a>>
      OBVIOUS
    <3>2. On(h)' = {}
      BY <2>1, <3>1 DEF On
    <3>3. QED BY <3>2, FS_EmptySet
  <2>4. ASSUME NEW h \in Holds, ~Undecided(h)'
        PROVE  decided'[h] + Cardinality(On(h)') <= Cardinality(Clicks)
    <3>1. decided[h] <= Cardinality(Clicks)
      BY <1>0, OnCounts DEF ClicksInv
    <3>2. QED BY <1>0, <2>1, <2>3, <3>1
  <2>5. QED BY <2>1, <2>2, <2>4 DEF ClicksInv
<1>7. ASSUME UNCHANGED surfaceVars
      PROVE  ClicksInv'
  <2>1. \A h \in Holds : On(h)' = On(h) /\ Undecided(h)' = Undecided(h) /\ decided' = decided
    BY <1>7 DEF surfaceVars, On, Undecided
  <2>2. QED BY <2>1 DEF ClicksInv
<1>8. \/ UNCHANGED surfaceVars \/ Restart
      \/ \E h \in Holds, c \in Checkouts : Hold(h, c)
      \/ \E h \in Holds : Look(h)
      \/ \E t \in Clicks, h \in Holds, approve \in BOOLEAN : BeginDecision(t, h, approve)
      \/ \E t \in Clicks, h \in Holds : Deny(t, h)
      \/ \E t \in Clicks, h \in Holds, m \in Mandates : Approve(t, h, m)
  BY DEF Next, Call, CreateCheckout, CompleteCheckout, CheckoutUnresolved, PaymentUnresolved,
         InitiatePayment, Lookup, Guard, Recheck, Verify, Attempt, Capture, AttemptFails, Book,
         SettleCheck, Confirm, FailCheck, Refuse, Defer, Replay, Raise, CommitStock, Answered,
         SignMandate, ApprovalGiven, Buyer, vars
<1>9. QED BY <1>1, <1>2, <1>3, <1>4, <1>5, <1>6, <1>7, <1>8

\* A hold is decided by the clicks that were under way together and by no later
\* one: n threads that serve clicks decide, and sign, n times at most, once where
\* clicks come one at a time (decide in gateway/trusted_surface.py).
THEOREM DecidedOnce == Spec => []DecisionsBounded
<1>1. Init => ClicksInv
  BY DEF Init, SurfaceInit, ClicksInv, Undecided
<1>2. Typed /\ ClicksInv /\ [Next]_vars => ClicksInv'
  BY ClicksStep
<1>3. Typed /\ ClicksInv => DecisionsBounded
  <2> SUFFICES ASSUME Typed, ClicksInv, NEW h \in Holds
               PROVE  decided[h] <= Cardinality(Clicks)
    BY DEF DecisionsBounded
  <2>1. decided[h] \in Nat
    BY DEF Typed, SurfaceTyped, SurfaceTypeOK
  <2>2. QED BY <2>1, OnCounts DEF ClicksInv
<1>4. QED BY <1>1, <1>2, <1>3, InitTyped, TypedStep, PTL DEF Spec
=============================================================================
