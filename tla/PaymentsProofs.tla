--------------------------- MODULE PaymentsProofs ---------------------------
(***************************************************************************)
(* Theorems about the money path, for every number of workers, processes,  *)
(* mandates and orders.                                                    *)
(***************************************************************************)
EXTENDS Overruns, TLAPS

-----------------------------------------------------------------------------
(* Type correctness, one lemma per group of variables.                     *)

LEMMA LedgerTypes ==
  ASSUME LedgerTypeOK, NEW m \in Mandates,
         \/ UNCHANGED ledgerVars
         \/ Claim(m) \/ AcquireLease(m) \/ ReleaseLease(m) \/ LeaseLapses(m)
         \/ BurnNonce(m)
         \/ \E ids \in SUBSET Orders : WriteOrders(m, ids)
         \/ \E o \in Orders : RecordSpend(m, o)
         \/ \E o \in Orders \cup {None} : WriteReceipt(m, "captured", o)
         \/ \E o \in Orders \cup {None} : WriteReceipt(m, "failed", o)
  PROVE  LedgerTypeOK'
BY DEF LedgerTypeOK, ledgerVars, Statuses, Claim, AcquireLease, ReleaseLease, LeaseLapses,
       BurnNonce, WriteOrders, RecordSpend, WriteReceipt

LEMMA RailTypes ==
  ASSUME RailTypeOK, NEW o \in Orders,
         \/ UNCHANGED railVars
         \/ \E m \in Mandates : CreateOrder(o, m)
         \/ CaptureOrder(o) \/ LeaveOrder(o) \/ BuyerPaysLate(o)
  PROVE  RailTypeOK'
BY DEF RailTypeOK, railVars, CreateOrder, CaptureOrder, LeaveOrder, BuyerPaysLate

LEMMA BreakerTypes ==
  ASSUME BreakerTypeOK, NEW p \in Processes,
         \/ UNCHANGED breakerVars
         \/ RecordTransportFailure(p) \/ RecordDecline(p) \/ RecordSuccess(p)
         \/ ResetElapses(p)
  PROVE  BreakerTypeOK'
BY ThresholdAssumption
   DEF BreakerTypeOK, breakerVars, FailureCap, Trips, RecordTransportFailure, RecordDecline,
       RecordSuccess, ResetElapses

\* Where a worker may stand, and what it may hold, after a move of its locals.
LEMMA EnterTypes ==
  ASSUME LocalTypeOK, NEW w \in Workers, NEW step \in Steps, Enter(w, step)
  PROVE  /\ pc' = [pc EXCEPT ![w] = step]
         /\ pc' \in [Workers -> Steps]
         /\ seen' \in [Workers -> SUBSET Orders]
         /\ order' \in [Workers -> Orders \cup {None}]
         /\ \A u \in Workers : u # w =>
              pc'[u] = pc[u] /\ order'[u] = order[u] /\ seen'[u] = seen[u]
         /\ pc'[w] = step
         /\ answer' \in [Workers -> Answers]
BY DEF LocalTypeOK, Enter, Goto, Answers

LEMMA ReturnTypes ==
  ASSUME LocalTypeOK, NEW w \in Workers, Return(w)
  PROVE  /\ LocalTypeOK'
         /\ pc'[w] = "idle"
         /\ \A u \in Workers : u # w =>
              pc'[u] = pc[u] /\ order'[u] = order[u] /\ task'[u] = task[u] /\ seen'[u] = seen[u]
<1>1. "idle" \in Steps
  BY DEF Steps
<1>2. Enter(w, "idle")
  BY DEF Return
<1> QED
  BY <1>1, <1>2, EnterTypes, PaymentsAssumption DEF Return, LocalTypeOK

LEMMA NextRungTypes ==
  ASSUME LocalTypeOK, NEW w \in Workers, NextRung(w)
  PROVE  /\ LocalTypeOK'
         /\ pc'[w] \in {"claim", "fail"}
         /\ task' = task
         /\ \A u \in Workers : u # w =>
              pc'[u] = pc[u] /\ order'[u] = order[u] /\ seen'[u] = seen[u]
<1>1. {"claim", "fail"} \subseteq Steps
  BY DEF Steps, FailureSteps
<1>2. PICK step \in {"claim", "fail"} : Enter(w, step)
  BY DEF NextRung, StartRung
<1>3. rung' \in [Workers -> 0 .. MaxAttempts]
  BY PaymentsAssumption DEF NextRung, StartRung, LocalTypeOK
<1> QED
  BY <1>1, <1>2, <1>3, EnterTypes DEF NextRung, LocalTypeOK

LEMMA InitTypes == Init => TypeOK
BY PaymentsAssumption, ThresholdAssumption
   DEF Init, TypeOK, LedgerInit, LedgerTypeOK, Statuses, RailInit, RailTypeOK, BreakerInit,
       BreakerTypeOK, FailureCap, LocalTypeOK, Steps, Answers, StandingOK

LEMMA StepTypes ==
  ASSUME TypeOK, NEW w \in Workers, Step(w)
  PROVE  TypeOK'
<1>0. ProcessOf[w] \in Processes
  BY PaymentsAssumption
<1> USE DEF TypeOK, LedgerTypeOK, RailTypeOK, BreakerTypeOK, LocalTypeOK, StandingOK,
            Goto, Hold, Answer, Steps, AttemptSteps, FailureSteps, Answers,
            ledgerVars, railVars, breakerVars
<1>1. CASE ClaimKey(w)
  BY <1>1, LedgerTypes DEF ClaimKey
<1>2. CASE Replay(w)
  BY <1>2, <1>0, BreakerTypes, ReturnTypes DEF Replay
<1>3. CASE TakeLease(w)
  BY <1>3, LedgerTypes DEF TakeLease
<1>4. CASE WaitForLease(w)
  BY <1>4 DEF WaitForLease
<1>5. CASE GiveUpWaiting(w)
  BY <1>5, ReturnTypes DEF GiveUpWaiting
<1>6. CASE Probe(w)
  BY <1>6, LedgerTypes DEF Probe, Unanswered, FoundCaptured
<1>7. CASE OpenOrder(w)
  BY <1>7, RailTypes DEF OpenOrder
<1>8. CASE OpenOrderFails(w)
  BY <1>8 DEF OpenOrderFails
<1>9. CASE ReadOrders(w)
  BY <1>9 DEF ReadOrders
<1>10. CASE NoteOrder(w)
  BY <1>10, LedgerTypes DEF NoteOrder
<1>11. CASE PayCaptures(w)
  BY <1>11, RailTypes DEF PayCaptures
<1>12. CASE PayFails(w)
  BY <1>12, RailTypes DEF PayFails
<1>13. CASE CountSpend(w)
  BY <1>13, LedgerTypes DEF CountSpend
<1>14. CASE SettleCheck(w)
  BY <1>14 DEF SettleCheck
<1>15. CASE SettleWrite(w)
  BY <1>15, LedgerTypes DEF SettleWrite
<1>16. CASE FailLookup(w)
  BY <1>16, LedgerTypes, ReturnTypes DEF FailLookup
<1>17. CASE FailCheck(w)
  BY <1>17, ReturnTypes DEF FailCheck
<1>18. CASE FailWrite(w)
  BY <1>18, LedgerTypes, ReturnTypes DEF FailWrite
<1>19. CASE Release(w)
  <2>1. task[w] \in Mandates /\ LedgerTypeOK' /\ RailTypeOK'
    BY <1>19, LedgerTypes DEF Release
  <2>2. BreakerTypeOK'
    BY <1>19, <1>0, BreakerTypes
    DEF Release, ReleaseReturned, ReleaseRaised, ReleaseDeclined, ReleaseRejected, ReleaseLost
  <2>3. CASE Return(w)
    BY <1>19, <2>1, <2>2, <2>3, ReturnTypes DEF Release
  <2>4. CASE NextRung(w)
    BY <1>19, <2>1, <2>2, <2>4, NextRungTypes DEF Release
  <2>5. CASE Enter(w, "fail") /\ UNCHANGED <<task, rung>>
    BY <1>19, <2>1, <2>2, <2>5, EnterTypes DEF Release
  <2> QED
    BY <1>19, <2>3, <2>4, <2>5
    DEF Release, ReleaseReturned, ReleaseRaised, ReleaseDeclined, ReleaseRejected, ReleaseLost
<1> QED
  BY <1>1, <1>2, <1>3, <1>4, <1>5, <1>6, <1>7, <1>8, <1>9, <1>10, <1>11, <1>12, <1>13,
     <1>14, <1>15, <1>16, <1>17, <1>18, <1>19
  DEF Step

LEMMA NextTypes == TypeOK /\ [Next]_vars => TypeOK'
<1> SUFFICES ASSUME TypeOK, [Next]_vars PROVE TypeOK'
  OBVIOUS
<1> USE DEF TypeOK, LedgerTypeOK, RailTypeOK, BreakerTypeOK, LocalTypeOK, StandingOK
<1>1. ASSUME NEW w \in Workers, NEW m \in Mandates, Present(w, m) PROVE TypeOK'
  <2>1. PICK step \in {"claim", "fail"} : Enter(w, step)
    BY <1>1 DEF Present, StartRung
  <2>2. step \in Steps
    BY DEF Steps, FailureSteps
  <2>3. rung' \in [Workers -> 0 .. MaxAttempts] /\ task' \in [Workers -> Mandates \cup {None}]
    BY <1>1, PaymentsAssumption DEF Present, StartRung
  <2> QED
    BY <1>1, <2>1, <2>2, <2>3, EnterTypes DEF Present, ledgerVars, railVars, breakerVars
<1>2. ASSUME NEW w \in Workers, Step(w) PROVE TypeOK'
  BY <1>2, StepTypes
<1>3. ASSUME NEW p \in Processes, Crash(p) PROVE TypeOK'
  BY <1>3, BreakerTypes, PaymentsAssumption
  DEF Crash, ledgerVars, railVars, Steps, Answers
<1>4. ASSUME NEW p \in Processes, BreakerResets(p) PROVE TypeOK'
  BY <1>4, BreakerTypes DEF BreakerResets, ledgerVars, railVars, locals
<1>5. ASSUME NEW m \in Mandates, LeaseExpires(m) PROVE TypeOK'
  BY <1>5, LedgerTypes DEF LeaseExpires, railVars, breakerVars, locals
<1>6. ASSUME NEW o \in Orders, LatePayment(o) PROVE TypeOK'
  BY <1>6, RailTypes DEF LatePayment, ledgerVars, breakerVars, locals
<1>7. CASE UNCHANGED vars
  BY <1>7 DEF vars, ledgerVars, railVars, breakerVars, locals
<1> QED
  BY <1>1, <1>2, <1>3, <1>4, <1>5, <1>6, <1>7 DEF Next

\* Every variable keeps its type, and a worker under way always has a mandate and,
\* from the order's creation on, an order: no line of the money path runs on None.
THEOREM TypeCorrect == Spec => []TypeOK
<1> QED
  BY InitTypes, NextTypes, PTL DEF Spec

-----------------------------------------------------------------------------
(* Accounting: on any rail, with any leases and any number of workers.     *)

LEMMA AccountingInit == Init => Accounting
BY InitTypes, NoneAssumption
   DEF Init, LedgerInit, RailInit, Accounting, OrdersBelong, SettlesCaptured, At, Paying,
       SpendBackedByCapture, CapturedReceiptBacked, OrdersOf

\* A worker that drops its attempt disturbs nobody else's.
LEMMA LeavingKeepsOrders ==
  ASSUME Accounting, NEW w \in Workers,
         UNCHANGED noted, UNCHANGED spent, UNCHANGED rail, UNCHANGED owner,
         pc'[w] \in {"idle", "claim", "fail"},
         \A u \in Workers : u # w =>
           pc'[u] = pc[u] /\ order'[u] = order[u] /\ task'[u] = task[u] /\ seen'[u] = seen[u]
  PROVE  OrdersBelong' /\ SettlesCaptured'
<1>1. OrdersBelong'
  BY DEF Accounting, OrdersBelong, At, Paying, OrdersOf
<1>2. SettlesCaptured'
  BY DEF Accounting, SettlesCaptured, At, Captured, OrdersOf
<1> QED
  BY <1>1, <1>2

LEMMA AccountingStep ==
  ASSUME Accounting, NEW w \in Workers, Step(w)
  PROVE  Accounting'
<1>0. TypeOK /\ TypeOK'
  BY StepTypes DEF Accounting
<1> USE <1>0, NoneAssumption DEF Accounting, TypeOK, LedgerTypeOK, RailTypeOK, LocalTypeOK, StandingOK,
   OrdersBelong, SettlesCaptured, SpendBackedByCapture, CapturedReceiptBacked, At, Paying, OrdersOf, Captured,
   Goto, Hold, Answer, ledgerVars, railVars
<1>1. CASE ClaimKey(w)
  BY <1>1 DEF ClaimKey, Claim
<1>2. CASE Replay(w)
  BY <1>2, ReturnTypes DEF Replay
<1>3. CASE TakeLease(w)
  BY <1>3 DEF TakeLease, AcquireLease
<1>4. CASE WaitForLease(w)
  BY <1>4 DEF WaitForLease
<1>5. CASE GiveUpWaiting(w)
  BY <1>5, ReturnTypes DEF GiveUpWaiting
<1>6. CASE Probe(w)
  BY <1>6 DEF Probe, BurnNonce, Unanswered, FoundCaptured
<1>7. CASE OpenOrder(w)
  BY <1>7 DEF OpenOrder, CreateOrder
<1>8. CASE OpenOrderFails(w)
  BY <1>8 DEF OpenOrderFails
<1>9. CASE ReadOrders(w)
  BY <1>9 DEF ReadOrders
<1>10. CASE NoteOrder(w)
  BY <1>10 DEF NoteOrder, WriteOrders
<1>11. CASE PayCaptures(w)
  BY <1>11 DEF PayCaptures, CaptureOrder
<1>12. CASE PayFails(w)
  BY <1>12 DEF PayFails, LeaveOrder
<1>13. CASE CountSpend(w)
  BY <1>13 DEF CountSpend, RecordSpend
<1>14. CASE SettleCheck(w)
  BY <1>14 DEF SettleCheck
<1>15. CASE SettleWrite(w)
  BY <1>15 DEF SettleWrite, WriteReceipt
<1>16. CASE FailLookup(w)
  BY <1>16, ReturnTypes DEF FailLookup, Claim
<1>17. CASE FailCheck(w)
  BY <1>17, ReturnTypes DEF FailCheck
<1>18. CASE FailWrite(w)
  <2>0. /\ UNCHANGED <<noted, spent, rail, owner>>
        /\ pc'[w] = "idle"
        /\ \A u \in Workers : u # w =>
             pc'[u] = pc[u] /\ order'[u] = order[u] /\ task'[u] = task[u] /\ seen'[u] = seen[u]
    BY <1>18, ReturnTypes DEF FailWrite, WriteReceipt
  <2>1. OrdersBelong' /\ SettlesCaptured'
    BY ONLY <2>0, LeavingKeepsOrders, Accounting, w \in Workers
  <2>2. SpendBackedByCapture' /\ CapturedReceiptBacked'
    BY <1>18 DEF FailWrite, WriteReceipt
  <2> QED
    BY <2>1, <2>2
<1>19. CASE Release(w)
  <2>1. UNCHANGED <<status, receipt, noted, spent, burned, rail, owner>>
    BY <1>19 DEF Release, ReleaseLease
  <2>2. SpendBackedByCapture' /\ CapturedReceiptBacked'
    BY <2>1
  <2>3. CASE Return(w)
    BY <2>1, <2>2, <2>3, ReturnTypes, LeavingKeepsOrders
  <2>4. CASE NextRung(w)
    BY <2>1, <2>2, <2>4, NextRungTypes, LeavingKeepsOrders
  <2>5. CASE Enter(w, "fail") /\ UNCHANGED <<task, rung>>
    BY <2>1, <2>2, <2>5 DEF Enter
  <2> QED
    BY <1>19, <2>3, <2>4, <2>5
    DEF Release, ReleaseReturned, ReleaseRaised, ReleaseDeclined, ReleaseRejected, ReleaseLost
<1> QED
  BY <1>1, <1>2, <1>3, <1>4, <1>5, <1>6, <1>7, <1>8, <1>9, <1>10, <1>11, <1>12, <1>13,
     <1>14, <1>15, <1>16, <1>17, <1>18, <1>19
  DEF Step

LEMMA AccountingNext == Accounting /\ [Next]_vars => Accounting'
<1> SUFFICES ASSUME Accounting, [Next]_vars PROVE Accounting'
  OBVIOUS
<1>0. TypeOK /\ TypeOK'
  BY NextTypes DEF Accounting
<1> USE <1>0 DEF Accounting, TypeOK, LedgerTypeOK, RailTypeOK, LocalTypeOK, StandingOK,
   OrdersBelong, SettlesCaptured, SpendBackedByCapture, CapturedReceiptBacked, At, Paying, OrdersOf, Captured,
   ledgerVars, railVars
<1>1. ASSUME NEW w \in Workers, NEW m \in Mandates, Present(w, m) PROVE Accounting'
  BY <1>1 DEF Present, StartRung, Enter, Goto
<1>2. ASSUME NEW w \in Workers, Step(w) PROVE Accounting'
  BY <1>2, AccountingStep
<1>3. ASSUME NEW p \in Processes, Crash(p) PROVE Accounting'
  BY <1>3 DEF Crash
<1>4. ASSUME NEW p \in Processes, BreakerResets(p) PROVE Accounting'
  BY <1>4 DEF BreakerResets, locals
<1>5. ASSUME NEW m \in Mandates, LeaseExpires(m) PROVE Accounting'
  BY <1>5 DEF LeaseExpires, LeaseLapses, locals
<1>6. ASSUME NEW o \in Orders, LatePayment(o) PROVE Accounting'
  BY <1>6 DEF LatePayment, BuyerPaysLate, locals
<1>7. CASE UNCHANGED vars
  BY <1>7 DEF vars, locals
<1> QED
  BY <1>1, <1>2, <1>3, <1>4, <1>5, <1>6, <1>7 DEF Next

LEMMA AccountingInvariant == Spec => []Accounting
<1> QED
  BY AccountingInit, AccountingNext, PTL DEF Spec

\* Budget is only ever consumed by money that moved, on any rail and under any
\* interleaving of workers, crashes, lost answers and late payments.
THEOREM SpendIsBacked == Spec => []SpendBackedByCapture
<1>1. Accounting => SpendBackedByCapture
  BY DEF Accounting
<1> QED
  BY <1>1, AccountingInvariant, PTL

\* A captured receipt always stands for an order captured for its own mandate, and
\* for a spend already booked.
THEOREM ReceiptIsBacked == Spec => []CapturedReceiptBacked
<1>1. Accounting => CapturedReceiptBacked
  BY DEF Accounting
<1> QED
  BY <1>1, AccountingInvariant, PTL

-----------------------------------------------------------------------------
(* What an outsider sees of the money path: a MoneyPath.                   *)

LEMMA AccountsInit == Init => Accounts!Init
BY DEF Init, LedgerInit, RailInit, Accounts!Init, OutcomeOf, Terminal, Captured, OrdersOf

\* A step that changes neither a receipt, the spend ledger nor a capture is not seen.
LEMMA NotOnTheBooks ==
  ASSUME UNCHANGED spent,
         \A m \in Mandates : Captured(m)' = Captured(m) /\ OutcomeOf(m)' = OutcomeOf(m)
  PROVE  UNCHANGED Accounts!vars
BY DEF Accounts!vars

\* The money of one order moves.
LEMMA ChargeOnTheBooks ==
  ASSUME RailTypeOK, NEW m \in Mandates, NEW o \in Orders,
         owner[o] = m, rail[o] # "captured",
         rail' = [rail EXCEPT ![o] = "captured"], UNCHANGED <<owner, status, spent>>
  PROVE  Accounts!Charge(m)
<1>1. /\ \A n \in Mandates : o \notin Captured(n)
      /\ Captured(m)' = Captured(m) \cup {o}
      /\ \A n \in Mandates \ {m} : Captured(n)' = Captured(n)
  BY DEF Captured, OrdersOf, RailTypeOK
<1> QED
  BY <1>1 DEF Accounts!Charge, OutcomeOf, Terminal

LEMMA StepOnTheBooks ==
  ASSUME Accounting, NEW w \in Workers, Step(w)
  PROVE  [Accounts!Next]_(Accounts!vars)
<1>0. TypeOK /\ (pc[w] \in AttemptSteps \cup {"fail_write"} => task[w] \in Mandates)
  BY DEF Accounting, TypeOK, StandingOK, AttemptSteps
<1>1. CASE PayCaptures(w)
  <2>1. /\ owner[order[w]] = task[w] /\ order[w] \in Orders /\ task[w] \in Mandates
        /\ rail[order[w]] = "created"
    BY <1>0, <1>1 DEF PayCaptures, Accounting, OrdersBelong, At, Paying, TypeOK, StandingOK, AttemptSteps
  <2>2. Accounts!Charge(task[w])
    BY <1>0, <1>1, <2>1, ChargeOnTheBooks DEF PayCaptures, CaptureOrder, ledgerVars, TypeOK
  <2> QED
    BY <2>1, <2>2 DEF Accounts!Next
<1>2. CASE CountSpend(w)
  <2>0. PICK m \in Mandates : m = task[w]
    BY <1>0, <1>2 DEF CountSpend, AttemptSteps
  <2>1. UNCHANGED <<status, rail, owner>> /\ order[w] \in Captured(task[w]) /\ order[w] # None
    BY <1>2, NoneAssumption
    DEF CountSpend, RecordSpend, railVars, Accounting, SettlesCaptured, At, Captured, OrdersOf
  <2>2. {n \in Mandates : spent[n] # None}' = {n \in Mandates : spent[n] # None} \cup {m}
    BY <1>0, <1>2, <2>0, <2>1 DEF CountSpend, RecordSpend, TypeOK, LedgerTypeOK
  <2>3. Accounts!Book(m)
    BY <2>0, <2>1, <2>2 DEF Accounts!Book, OutcomeOf, Terminal, Captured, OrdersOf
  <2> QED
    BY <2>3 DEF Accounts!Next
<1>3. CASE SettleWrite(w)
  <2>1. UNCHANGED <<spent, rail, owner>> /\ spent[task[w]] # None
    BY <1>3 DEF SettleWrite, WriteReceipt, railVars, Accounting, SettlesCaptured, At
  <2>2. Accounts!ConfirmReceipt(task[w])
    BY <1>0, <1>3, <2>1 DEF Accounts!ConfirmReceipt, OutcomeOf, Terminal, SettleWrite, WriteReceipt,
      AttemptSteps, TypeOK, LedgerTypeOK, Captured, OrdersOf
  <2> QED
    BY <1>0, <1>3, <2>2 DEF Accounts!Next, SettleWrite, AttemptSteps
<1>4. CASE FailWrite(w)
  <2>1. Accounts!RefuseReceipt(task[w])
    BY <1>0, <1>4 DEF Accounts!RefuseReceipt, OutcomeOf, Terminal, FailWrite, WriteReceipt, railVars,
      TypeOK, LedgerTypeOK, Captured, OrdersOf
  <2> QED
    BY <1>0, <1>4, <2>1 DEF Accounts!Next, FailWrite
<1>5. CASE ClaimKey(w) \/ FailLookup(w)
  <2>1. /\ task[w] \in Mandates
        /\ Claim(task[w]) \/ UNCHANGED ledgerVars
        /\ UNCHANGED <<rail, owner>>
    BY <1>0, <1>5 DEF ClaimKey, FailLookup, TypeOK, StandingOK, railVars
  <2>2. UNCHANGED spent /\ \A m \in Mandates : OutcomeOf(m)' = OutcomeOf(m)
    BY <1>0, <2>1 DEF Claim, OutcomeOf, Terminal, TypeOK, LedgerTypeOK, ledgerVars
  <2> QED
    BY <2>1, <2>2, NotOnTheBooks DEF Captured, OrdersOf
<1>6. CASE OpenOrder(w)
  <2>1. \A m \in Mandates : Captured(m)' = Captured(m)
    BY <1>0, <1>6, NoneAssumption
    DEF OpenOrder, CreateOrder, Captured, OrdersOf, TypeOK, RailTypeOK, Accounting, OrdersBelong
  <2> QED
    BY <1>6, <2>1, NotOnTheBooks DEF OpenOrder, OutcomeOf, Terminal, ledgerVars
<1>7. CASE PayFails(w)
  <2>1. \A m \in Mandates : Captured(m)' = Captured(m)
    BY <1>0, <1>7 DEF PayFails, LeaveOrder, Captured, OrdersOf, TypeOK, RailTypeOK,
      Accounting, OrdersBelong, At, Paying, StandingOK
  <2> QED
    BY <1>7, <2>1, NotOnTheBooks DEF PayFails, OutcomeOf, Terminal, ledgerVars
<1>8. CASE \/ Replay(w) \/ WaitForLease(w) \/ GiveUpWaiting(w) \/ OpenOrderFails(w)
           \/ ReadOrders(w) \/ SettleCheck(w) \/ FailCheck(w)
  BY <1>8, NotOnTheBooks
  DEF Replay, WaitForLease, GiveUpWaiting, OpenOrderFails, ReadOrders, SettleCheck, FailCheck,
      OutcomeOf, Terminal, Captured, OrdersOf, ledgerVars, railVars
<1>9. CASE TakeLease(w) \/ Probe(w) \/ NoteOrder(w) \/ Release(w)
  BY <1>9, NotOnTheBooks
  DEF TakeLease, AcquireLease, Probe, BurnNonce, NoteOrder, WriteOrders, Release, ReleaseLease,
      OutcomeOf, Terminal, Captured, OrdersOf, ledgerVars, railVars
<1> QED
  BY <1>1, <1>2, <1>3, <1>4, <1>5, <1>6, <1>7, <1>8, <1>9 DEF Step

LEMMA AccountsNext == Accounting /\ [Next]_vars => [Accounts!Next]_(Accounts!vars)
<1> SUFFICES ASSUME Accounting, [Next]_vars PROVE [Accounts!Next]_(Accounts!vars)
  OBVIOUS
<1>1. ASSUME NEW w \in Workers, NEW m \in Mandates, Present(w, m) PROVE UNCHANGED Accounts!vars
  BY <1>1, NotOnTheBooks DEF Present, ledgerVars, railVars, OutcomeOf, Terminal, Captured, OrdersOf
<1>2. ASSUME NEW w \in Workers, Step(w) PROVE [Accounts!Next]_(Accounts!vars)
  BY <1>2, StepOnTheBooks
<1>3. ASSUME NEW p \in Processes, Crash(p) \/ BreakerResets(p) PROVE UNCHANGED Accounts!vars
  BY <1>3, NotOnTheBooks DEF Crash, BreakerResets, ledgerVars, railVars, OutcomeOf, Terminal, Captured, OrdersOf
<1>4. ASSUME NEW m \in Mandates, LeaseExpires(m) PROVE UNCHANGED Accounts!vars
  BY <1>4, NotOnTheBooks DEF LeaseExpires, LeaseLapses, railVars, OutcomeOf, Terminal, Captured, OrdersOf
<1>5. ASSUME NEW o \in Orders, LatePayment(o) PROVE [Accounts!Next]_(Accounts!vars)
  <2>1. rail[o] = "payable" /\ rail' = [rail EXCEPT ![o] = "captured"] /\ UNCHANGED <<owner, status, spent>>
    BY <1>5 DEF LatePayment, BuyerPaysLate, ledgerVars
  <2>2. CASE owner[o] \in Mandates
    <3>1. Accounts!Charge(owner[o])
      BY <2>1, <2>2, ChargeOnTheBooks DEF Accounting, TypeOK
    <3> QED
      BY <2>2, <3>1 DEF Accounts!Next
  <2>3. CASE owner[o] \notin Mandates
    BY <2>1, <2>3, NotOnTheBooks DEF OutcomeOf, Terminal, Captured, OrdersOf
  <2> QED
    BY <2>2, <2>3
<1>6. CASE UNCHANGED vars
  BY <1>6, NotOnTheBooks DEF vars, ledgerVars, railVars, OutcomeOf, Terminal, Captured, OrdersOf
<1> QED
  BY <1>1, <1>2, <1>3, <1>4, <1>5, <1>6 DEF Next

\* The money path keeps its books on any rail, with any number of calls for one
\* mandate at once and of crashes, and whether or not a lease is outlasted: what is
\* booked was charged, and what is confirmed was booked.
THEOREM KeepsMoneyPath == Spec => ImplementsMoneyPath
<1> QED
  BY AccountsInit, AccountsNext, AccountingInvariant, PTL
  DEF Spec, ImplementsMoneyPath, Accounts!Spec

-----------------------------------------------------------------------------
(* Exclusion, where no attempt outlasted its lease.                        *)

\* A step that leaves its worker outside an attempt disturbs no other attempt.
LEMMA OutsideKeepsExclusion ==
  ASSUME TypeOK, NEW m \in Mandates, Leased(m), NEW w \in Workers,
         UNCHANGED <<noted, rail, owner>>,
         pc'[w] \in Steps \ AttemptSteps,
         \A u \in Workers : u # w =>
           pc'[u] = pc[u] /\ order'[u] = order[u] /\ task'[u] = task[u] /\ seen'[u] = seen[u],
         leased'[m] # leased[m] => InAttempt(w, m)
  PROVE  Leased(m)' /\ (Noted(m) => Noted(m)')
<1>1. Leased(m)'
  BY DEF TypeOK, LedgerTypeOK, Leased, InAttempt, AttemptSteps
<1>2. Noted(m) => Noted(m)'
  BY DEF Noted, At, AttemptSteps, OrdersOf
<1> QED
  BY <1>1, <1>2

\* A step within an attempt leaves the lease, and who is in an attempt, alone.
LEMMA InsideKeepsLease ==
  ASSUME NEW m \in Mandates, Leased(m), NEW w \in Workers,
         UNCHANGED <<leased, task>>, pc[w] \in AttemptSteps,
         \A u \in Workers : u # w => pc'[u] = pc[u]
  PROVE  Leased(m)'
BY DEF Leased, InAttempt

LEMMA ExclusionStep ==
  ASSUME Accounting, NEW m \in Mandates, Leased(m), NEW w \in Workers, Step(w)
  PROVE  Leased(m)' /\ (Noted(m) => Noted(m)')
<1>0. TypeOK /\ LocalTypeOK /\ LedgerTypeOK /\ RailTypeOK
  BY DEF Accounting, TypeOK
<1> USE <1>0
<1>1. CASE ClaimKey(w)
  BY <1>1, ReturnTypes, OutsideKeepsExclusion
  DEF ClaimKey, Claim, Goto, LocalTypeOK, Steps, FailureSteps, AttemptSteps, ledgerVars, railVars
<1>2. CASE Replay(w)
  BY <1>2, ReturnTypes, OutsideKeepsExclusion
  DEF Replay, Goto, LocalTypeOK, Steps, FailureSteps, AttemptSteps, ledgerVars, railVars
<1>3. CASE TakeLease(w)
  BY <1>3 DEF TakeLease, AcquireLease, LedgerTypeOK, LocalTypeOK, At, OrdersOf, Leased, Noted,
     InAttempt, AttemptSteps, LeaseFree, Goto, railVars
<1>4. CASE WaitForLease(w)
  BY <1>4, ReturnTypes, OutsideKeepsExclusion
  DEF WaitForLease, Goto, LocalTypeOK, Steps, FailureSteps, AttemptSteps, ledgerVars, railVars
<1>5. CASE GiveUpWaiting(w)
  BY <1>5, ReturnTypes, OutsideKeepsExclusion
  DEF GiveUpWaiting, Goto, LocalTypeOK, Steps, FailureSteps, AttemptSteps, ledgerVars, railVars
<1>6. CASE Probe(w)
  <2>1. /\ UNCHANGED <<noted, leased, rail, owner, task, seen>>
        /\ pc[w] = "probe"
        /\ pc'[w] \in {"create", "spend"}
        /\ \A u \in Workers : u # w => pc'[u] = pc[u] /\ order'[u] = order[u]
    BY <1>6 DEF Probe, BurnNonce, Goto, Hold, LocalTypeOK, ledgerVars, railVars
  <2>2. Leased(m)'
    BY <2>1, InsideKeepsLease DEF AttemptSteps
  <2>3. Noted(m) => Noted(m)'
    BY <2>1 DEF Noted, At, OrdersOf
  <2> QED
    BY <2>2, <2>3
<1>7. CASE OpenOrder(w)
  <2>1. Leased(m)'
    BY <1>7, InsideKeepsLease DEF OpenOrder, CreateOrder, Goto, LocalTypeOK, AttemptSteps, ledgerVars
  <2>2. Noted(m) => Noted(m)'
    BY <1>7 DEF OpenOrder, CreateOrder, Hold, Goto, LocalTypeOK, RailTypeOK, Noted, At, OrdersOf, ledgerVars
  <2> QED BY <2>1, <2>2
<1>8. CASE OpenOrderFails(w)
  <2>1. Leased(m)'
    BY <1>8, InsideKeepsLease DEF OpenOrderFails, Goto, LocalTypeOK, AttemptSteps, ledgerVars
  <2>2. Noted(m) => Noted(m)'
    BY <1>8 DEF OpenOrderFails, Goto, LocalTypeOK, Noted, At, OrdersOf, ledgerVars, railVars
  <2> QED BY <2>1, <2>2
<1>9. CASE ReadOrders(w)
  <2>1. Leased(m)'
    BY <1>9, InsideKeepsLease DEF ReadOrders, Goto, LocalTypeOK, AttemptSteps, ledgerVars
  <2>2. Noted(m) => Noted(m)'
    BY <1>9 DEF ReadOrders, Goto, LocalTypeOK, Noted, At, OrdersOf, ledgerVars, railVars
  <2> QED BY <2>1, <2>2
<1>10. CASE NoteOrder(w)
  <2>1. Leased(m)'
    BY <1>10, InsideKeepsLease DEF NoteOrder, WriteOrders, Goto, LocalTypeOK, AttemptSteps
  <2>2. Noted(m) => Noted(m)'
    BY <1>10 DEF NoteOrder, WriteOrders, Goto, LocalTypeOK, LedgerTypeOK, Leased, Noted, InAttempt,
       AttemptSteps, At, OrdersOf, railVars
  <2> QED BY <2>1, <2>2
<1>11. CASE PayCaptures(w)
  <2>1. /\ owner[order[w]] = task[w]
        /\ UNCHANGED <<noted, leased, owner, task, seen, order>>
        /\ rail' = [rail EXCEPT ![order[w]] = "captured"]
        /\ pc[w] = "pay"
        /\ pc'[w] \in {"spend", "release"}
        /\ \A u \in Workers : u # w => pc'[u] = pc[u]
    BY <1>11 DEF PayCaptures, CaptureOrder, Accounting, OrdersBelong, At, Paying,
                 LocalTypeOK, Goto, ledgerVars
  <2>2. Leased(m)'
    BY <2>1, InsideKeepsLease DEF AttemptSteps
  <2>3. Noted(m) => Noted(m)'
    BY <2>1 DEF Noted, At, OrdersOf, RailTypeOK
  <2> QED
    BY <2>2, <2>3
<1>12. CASE PayFails(w)
  <2>1. Leased(m)'
    BY <1>12, InsideKeepsLease DEF PayFails, Goto, LocalTypeOK, AttemptSteps, ledgerVars
  <2>2. Noted(m) => Noted(m)'
    BY <1>12 DEF PayFails, LeaveOrder, Goto, Accounting, OrdersBelong, Paying, LocalTypeOK,
       RailTypeOK, Noted, At, OrdersOf, ledgerVars
  <2> QED BY <2>1, <2>2
<1>13. CASE CountSpend(w)
  <2>1. Leased(m)'
    BY <1>13, InsideKeepsLease DEF CountSpend, RecordSpend, Goto, LocalTypeOK, AttemptSteps
  <2>2. Noted(m) => Noted(m)'
    BY <1>13 DEF CountSpend, RecordSpend, Goto, LocalTypeOK, Noted, At, OrdersOf, railVars
  <2> QED BY <2>1, <2>2
<1>14. CASE SettleCheck(w)
  <2>1. Leased(m)'
    BY <1>14, InsideKeepsLease DEF SettleCheck, Goto, LocalTypeOK, AttemptSteps, ledgerVars
  <2>2. Noted(m) => Noted(m)'
    BY <1>14 DEF SettleCheck, Goto, LocalTypeOK, Noted, At, OrdersOf, ledgerVars, railVars
  <2> QED BY <2>1, <2>2
<1>15. CASE SettleWrite(w)
  <2>1. Leased(m)'
    BY <1>15, InsideKeepsLease DEF SettleWrite, WriteReceipt, Goto, LocalTypeOK, AttemptSteps
  <2>2. Noted(m) => Noted(m)'
    BY <1>15 DEF SettleWrite, WriteReceipt, Goto, LocalTypeOK, Noted, At, OrdersOf, railVars
  <2> QED BY <2>1, <2>2
<1>16. CASE FailLookup(w)
  BY <1>16, ReturnTypes, OutsideKeepsExclusion
  DEF FailLookup, Claim, Goto, LocalTypeOK, Steps, FailureSteps, AttemptSteps, ledgerVars, railVars
<1>17. CASE FailCheck(w)
  BY <1>17, ReturnTypes, OutsideKeepsExclusion
  DEF FailCheck, Goto, LocalTypeOK, Steps, FailureSteps, AttemptSteps, ledgerVars, railVars
<1>18. CASE FailWrite(w)
  BY <1>18, ReturnTypes, OutsideKeepsExclusion
  DEF FailWrite, WriteReceipt, Goto, LocalTypeOK, Steps, FailureSteps, AttemptSteps, ledgerVars, railVars
<1>19. CASE Release(w)
  <2>1. /\ UNCHANGED <<noted, rail, owner>>
        /\ leased'[m] # leased[m] => InAttempt(w, m)
    BY <1>19 DEF Release, ReleaseLease, LedgerTypeOK, InAttempt, AttemptSteps, railVars
  <2>2. CASE Return(w)
    BY <2>1, <2>2, ReturnTypes, OutsideKeepsExclusion DEF Steps, AttemptSteps
  <2>3. CASE NextRung(w)
    BY <2>1, <2>3, NextRungTypes, OutsideKeepsExclusion DEF Steps, FailureSteps, AttemptSteps
  <2>4. CASE Enter(w, "fail") /\ UNCHANGED <<task, rung>>
    BY <2>1, <2>4, EnterTypes, OutsideKeepsExclusion DEF Steps, FailureSteps, AttemptSteps
  <2> QED
    BY <1>19, <2>2, <2>3, <2>4
    DEF Release, ReleaseReturned, ReleaseRaised, ReleaseDeclined, ReleaseRejected, ReleaseLost
<1> QED
  BY <1>1, <1>2, <1>3, <1>4, <1>5, <1>6, <1>7, <1>8, <1>9, <1>10, <1>11, <1>12, <1>13,
     <1>14, <1>15, <1>16, <1>17, <1>18, <1>19
  DEF Step

\* Every step that is not the lapse of a lease under an attempt.
LEMMA ExclusionKept ==
  ASSUME Accounting, NEW m \in Mandates, Leased(m), [Next]_vars,
         ~(LeaseExpires(m) /\ Attempted(m))
  PROVE  Leased(m)' /\ (Noted(m) => Noted(m)')
<1>0. TypeOK /\ LocalTypeOK /\ LedgerTypeOK /\ RailTypeOK
  BY DEF Accounting, TypeOK
<1> USE <1>0 DEF LocalTypeOK, At, OrdersOf, Leased, Noted, InAttempt, AttemptSteps, ledgerVars, railVars
<1>1. ASSUME NEW w \in Workers, NEW n \in Mandates, Present(w, n) PROVE Leased(m)' /\ (Noted(m) => Noted(m)')
  BY <1>1 DEF Present, StartRung, Enter, Goto
<1>2. ASSUME NEW w \in Workers, Step(w) PROVE Leased(m)' /\ (Noted(m) => Noted(m)')
  BY ONLY <1>2, ExclusionStep, Accounting, Leased(m), m \in Mandates, w \in Workers
<1>3. ASSUME NEW p \in Processes, Crash(p) PROVE Leased(m)' /\ (Noted(m) => Noted(m)')
  BY <1>3 DEF Crash
<1>4. ASSUME NEW p \in Processes, BreakerResets(p) PROVE Leased(m)' /\ (Noted(m) => Noted(m)')
  BY <1>4 DEF BreakerResets, locals
<1>5. ASSUME NEW n \in Mandates, LeaseExpires(n) PROVE Leased(m)' /\ (Noted(m) => Noted(m)')
  BY <1>5 DEF LeaseExpires, LeaseLapses, locals, Attempted, LedgerTypeOK
<1>6. ASSUME NEW o \in Orders, LatePayment(o) PROVE Leased(m)' /\ (Noted(m) => Noted(m)')
  BY <1>6 DEF LatePayment, BuyerPaysLate, locals, RailTypeOK
<1>7. CASE UNCHANGED vars
  BY <1>7 DEF vars, locals
<1> QED
  BY <1>1, <1>2, <1>3, <1>4, <1>5, <1>6, <1>7 DEF Next

LEMMA ExclusionInit == HistoryInit => Exclusion
<1> SUFFICES ASSUME HistoryInit PROVE Exclusion
  OBVIOUS
<1>1. Accounting /\ overrun = [m \in Mandates |-> "never"]
  BY AccountingInit DEF HistoryInit
<1>2. \A m \in Mandates : Leased(m) /\ Noted(m)
  BY DEF HistoryInit, Init, LedgerInit, RailInit, Leased, Noted, At, InAttempt, AttemptSteps, OrdersOf
<1> QED
  BY <1>1, <1>2 DEF Exclusion

LEMMA ExclusionNext == Exclusion /\ [HistoryNext]_historyVars => Exclusion'
<1> SUFFICES ASSUME Exclusion, [HistoryNext]_historyVars PROVE Exclusion'
  OBVIOUS
<1>1. Accounting' /\ Accounting /\ [Next]_vars
  BY AccountingNext DEF Exclusion, HistoryNext, historyVars
<1>2. CASE UNCHANGED historyVars
  <2>1. \A m \in Mandates : (Leased(m) => Leased(m)') /\ (Noted(m) => Noted(m)')
    BY <1>2 DEF historyVars, vars, ledgerVars, railVars, locals, Leased, Noted, InAttempt, At, OrdersOf
  <2> QED
    BY <1>1, <1>2, <2>1 DEF Exclusion, historyVars
<1>3. CASE overrun' = [m \in Mandates |-> Overrun(m)]
  <2>1. overrun' \in [Mandates -> {"never", "now", "past"}]
    BY <1>3 DEF Overrun, Exclusion
  <2>2. ASSUME NEW m \in Mandates, overrun'[m] # "now" PROVE Leased(m)'
    <3>1. CASE ~Attempted(m)'
      BY <3>1 DEF Attempted, Leased
    <3>2. CASE Attempted(m)'
      <4>1. overrun[m] # "now" /\ ~(LeaseExpires(m) /\ Attempted(m))
        BY <1>3, <2>2, <3>2 DEF Overrun
      <4> QED
        BY <1>1, <4>1, ExclusionKept DEF Exclusion
    <3> QED
      BY <3>1, <3>2
  <2>3. ASSUME NEW m \in Mandates, overrun'[m] = "never" PROVE Noted(m)'
    <3>1. overrun[m] = "never" /\ ~(LeaseExpires(m) /\ Attempted(m))
      BY <1>3, <2>3 DEF Overrun
    <3>2. Leased(m) /\ Noted(m)
      BY <3>1 DEF Exclusion
    <3> QED
      BY <1>1, <3>1, <3>2, ExclusionKept
  <2> QED
    BY <1>1, <2>1, <2>2, <2>3 DEF Exclusion
<1> QED
  BY <1>2, <1>3 DEF HistoryNext

LEMMA ExclusionInvariant == HistorySpec => []Exclusion
BY ExclusionInit, ExclusionNext, PTL DEF HistorySpec

\* The conditional UPDATE and the finally keep two attempts on one mandate apart,
\* across threads, processes and crashes, except while an attempt goes on that
\* outlasted ATTEMPT_LEASE_SECONDS or began beside such a one.
THEOREM LeaseExcludes == HistorySpec => []OneAttemptUnlessOverrun
<1>1. Exclusion => OneAttemptUnlessOverrun
  BY DEF Exclusion, Leased, OneAttemptUnlessOverrun
<1> QED
  BY <1>1, ExclusionInvariant, PTL

\* Unless an attempt on its mandate outlasted its lease, note_order loses no order
\* although it reads and writes in two statements: every order money can move on
\* is there for the next probe.
THEOREM NoOrderForgotten == HistorySpec => []NotedUnlessOverrun
<1>1. Exclusion => NotedUnlessOverrun
  BY DEF Exclusion, Noted, NotedUnlessOverrun
<1> QED
  BY <1>1, ExclusionInvariant, PTL
=============================================================================
