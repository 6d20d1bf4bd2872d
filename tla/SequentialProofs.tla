-------------------------- MODULE SequentialProofs --------------------------
(***************************************************************************)
(* Theorems about the money path where no mandate is in two calls at once  *)
(* and the rail answers its probes and takes no late payment: any number   *)
(* of processes and threads may pay different mandates side by side, and a *)
(* mandate may be presented again, by anyone, once its call has ended or   *)
(* died; for every number of mandates, orders, attempts and crashes.       *)
(***************************************************************************)
EXTENDS PaymentsProofs

LEMMA SequentialInit == Init => Sequential
BY AccountingInit
   DEF Init, LedgerInit, RailInit, Sequential, NotesKept, PayableOrdersNoted, ProbeIsCurrent,
       OpenWhileAttempted, NothingPayable, AtMostOneCapture, At, AttemptSteps, OrdersOf, Captured

LEMMA SequentialStep ==
  ASSUME ReliableRail, OneCallPerMandate, Sequential, NEW w \in Workers, Step(w)
  PROVE  Sequential'
<1>0. Accounting /\ Accounting' /\ TypeOK
  BY AccountingStep DEF Sequential, Accounting
<1>a. /\ \A u \in Workers : pc[u] # "idle" => task[u] \in Mandates
      /\ pc[w] # "idle" => \A u \in Workers \ {w} : pc[u] # "idle" => task[u] # task[w]
      /\ OpenWhileAttempted
  BY <1>0 DEF TypeOK, StandingOK, OneCallPerMandate, At, Sequential
<1> USE <1>0 DEF Sequential, ReliableRail, OneCallPerMandate, TypeOK, LedgerTypeOK, RailTypeOK, LocalTypeOK, StandingOK,
   At, OrdersOf, Captured, NotesKept, PayableOrdersNoted, ProbeIsCurrent, OpenWhileAttempted, NothingPayable,
   AtMostOneCapture, AttemptSteps, Terminal, Goto, Hold, Answer, ledgerVars, railVars
<1>1. CASE ClaimKey(w)
  <2>1. \A u \in Workers \ {w} : pc'[u] = pc[u] /\ task'[u] = task[u] /\ seen'[u] = seen[u] /\ order'[u] = order[u]
    BY <1>1 DEF ClaimKey
  <2>2. /\ pc'[w] = "lease" /\ task'[w] = task[w] /\ seen'[w] = noted[task[w]] /\ ~Terminal(task[w])
        /\ UNCHANGED <<noted, rail, owner>>
    BY <1>1 DEF ClaimKey, Claim
  <2>3. \A m \in Mandates : Terminal(m)' <=> Terminal(m)
    BY <1>1 DEF ClaimKey, Claim
  <2>4. OpenWhileAttempted'
    BY ONLY <1>a, <1>1, <2>1, <2>2, <2>3 DEF OpenWhileAttempted, At, AttemptSteps, ClaimKey
  <2>5. NotesKept' /\ PayableOrdersNoted' /\ ProbeIsCurrent' /\ NothingPayable' /\ AtMostOneCapture'
    BY <2>1, <2>2
  <2> QED BY <2>4, <2>5
<1>2. CASE Replay(w)
  <2>1. /\ pc'[w] = "idle"
        /\ \A u \in Workers \ {w} : pc'[u] = pc[u] /\ task'[u] = task[u] /\ seen'[u] = seen[u] /\ order'[u] = order[u]
        /\ UNCHANGED <<status, noted, rail, owner>>
    BY <1>2, ReturnTypes DEF Replay
  <2> QED BY <2>1
<1>3. CASE TakeLease(w)
  <2>1. /\ \A u \in Workers \ {w} : pc'[u] = pc[u]
        /\ pc[w] = "lease" /\ pc'[w] = "probe"
        /\ UNCHANGED <<task, seen, order, status, noted, rail, owner>>
    BY <1>3 DEF TakeLease, AcquireLease, LeaseFree
  <2> QED BY <2>1
<1>4. CASE WaitForLease(w)
  BY <1>4 DEF WaitForLease
<1>5. CASE GiveUpWaiting(w)
  <2>1. /\ pc'[w] = "idle"
        /\ \A u \in Workers \ {w} : pc'[u] = pc[u] /\ task'[u] = task[u] /\ seen'[u] = seen[u] /\ order'[u] = order[u]
        /\ UNCHANGED <<status, noted, rail, owner>>
    BY <1>5, ReturnTypes DEF GiveUpWaiting
  <2> QED BY <2>1
<1>6. CASE Probe(w)
  BY <1>6 DEF Probe, BurnNonce, Unanswered, FoundCaptured
<1>7. CASE OpenOrder(w)
  BY <1>7 DEF OpenOrder, CreateOrder, Accounting, OrdersBelong, Paying
<1>8. CASE OpenOrderFails(w)
  BY <1>8 DEF OpenOrderFails
<1>9. CASE ReadOrders(w)
  BY <1>9 DEF ReadOrders
<1>10. CASE NoteOrder(w)
  BY <1>10 DEF NoteOrder, WriteOrders, Accounting, OrdersBelong, Paying
<1>11. CASE PayCaptures(w)
  <2>1. \A u \in Workers \ {w} : pc'[u] = pc[u] /\ task'[u] = task[u] /\ seen'[u] = seen[u] /\ order'[u] = order[u]
    BY <1>11 DEF PayCaptures
  <2>2. /\ pc'[w] \in {"spend", "release"} /\ task'[w] = task[w]
        /\ UNCHANGED <<status, noted, owner>>
        /\ owner[order[w]] = task[w] /\ order[w] \in noted[task[w]] /\ Captured(task[w]) = {}
        /\ rail'[order[w]] = "captured" /\ \A o \in Orders \ {order[w]} : rail'[o] = rail[o]
    BY <1>11 DEF PayCaptures, CaptureOrder, Accounting, OrdersBelong, Paying
  <2>3. \A u \in Workers \ {w} : pc[u] # "idle" => task[u] # task[w]
    BY <1>11 DEF PayCaptures
  <2>4. /\ Captured(task[w])' = {order[w]}
        /\ \A m \in Mandates \ {task[w]} : Captured(m)' = Captured(m)
    BY <1>11, <2>2 DEF PayCaptures
  <2>5. ProbeIsCurrent'
    BY <2>1, <2>2, <2>3, <2>4
  <2>6. AtMostOneCapture'
    <3>1. AtMostOneCapture /\ task[w] \in Mandates
      BY <1>a, <1>11 DEF PayCaptures
    <3> QED BY ONLY <2>2, <2>4, <3>1 DEF AtMostOneCapture
  <2>7. NotesKept' /\ PayableOrdersNoted' /\ NothingPayable'
    BY <2>1, <2>2
  <2>8. OpenWhileAttempted'
    BY <2>1, <2>2, <1>11 DEF PayCaptures
  <2> QED BY <2>5, <2>6, <2>7, <2>8
<1>12. CASE PayFails(w)
  BY <1>12 DEF PayFails, LeaveOrder, Accounting, OrdersBelong, Paying
<1>13. CASE CountSpend(w)
  BY <1>13 DEF CountSpend, RecordSpend
<1>14. CASE SettleCheck(w)
  BY <1>14 DEF SettleCheck
<1>15. CASE SettleWrite(w)
  BY <1>15 DEF SettleWrite, WriteReceipt
<1>16. CASE FailLookup(w)
  BY <1>16, ReturnTypes DEF FailLookup, Claim
<1>17. CASE FailCheck(w)
  <2>1. \A u \in Workers \ {w} : pc'[u] = pc[u] /\ task'[u] = task[u] /\ seen'[u] = seen[u] /\ order'[u] = order[u]
    BY <1>17 DEF FailCheck, Return, Enter
  <2>2. /\ pc'[w] = "idle" \/ (pc'[w] = "fail_write" /\ task'[w] = task[w] /\ ~Terminal(task[w]))
        /\ UNCHANGED <<status, noted, rail, owner>>
    BY <1>17 DEF FailCheck, Return, Enter
  <2> QED BY <2>1, <2>2
<1>18. CASE FailWrite(w)
  <2>1. \A u \in Workers \ {w} : pc'[u] = pc[u] /\ task'[u] = task[u] /\ seen'[u] = seen[u] /\ order'[u] = order[u]
    BY <1>18 DEF FailWrite, Return, Enter
  <2>2. /\ pc'[w] = "idle" /\ UNCHANGED <<noted, rail, owner>>
        /\ \A m \in Mandates \ {task[w]} : status'[m] = status[m]
    BY <1>18 DEF FailWrite, WriteReceipt, Return, Enter
  <2>3. \A u \in Workers \ {w} : pc[u] # "idle" => task[u] # task[w]
    BY <1>18 DEF FailWrite
  <2>4. OpenWhileAttempted'
    BY <2>1, <2>2, <2>3
  <2> QED BY <2>1, <2>2, <2>4
<1>19. CASE Release(w)
  <2>1. UNCHANGED <<status, receipt, noted, spent, burned, rail, owner>>
    BY <1>19 DEF Release, ReleaseLease
  <2>2. CASE Return(w)
    BY <2>1, <2>2, ReturnTypes
  <2>3. CASE NextRung(w)
    BY <2>1, <2>3, NextRungTypes
  <2>4. CASE Enter(w, "fail") /\ UNCHANGED <<task, rung>>
    BY <2>1, <2>4 DEF Enter
  <2> QED
    BY <1>19, <2>2, <2>3, <2>4
    DEF Release, ReleaseReturned, ReleaseRaised, ReleaseDeclined, ReleaseRejected, ReleaseLost
<1> QED
  BY <1>1, <1>2, <1>3, <1>4, <1>5, <1>6, <1>7, <1>8, <1>9, <1>10, <1>11, <1>12, <1>13,
     <1>14, <1>15, <1>16, <1>17, <1>18, <1>19
  DEF Step

LEMMA SequentialNext ==
  ASSUME ReliableRail
  PROVE  OneCallPerMandate /\ Sequential /\ [Next]_vars => Sequential'
<1> SUFFICES ASSUME OneCallPerMandate, Sequential, [Next]_vars PROVE Sequential'
  OBVIOUS
<1>0. Accounting /\ Accounting' /\ TypeOK
  BY AccountingNext DEF Sequential, Accounting
<1> USE <1>0 DEF Sequential, ReliableRail, OneCallPerMandate, TypeOK, LedgerTypeOK, RailTypeOK, LocalTypeOK, StandingOK,
   At, OrdersOf, Captured, NotesKept, PayableOrdersNoted, ProbeIsCurrent, OpenWhileAttempted, NothingPayable,
   AtMostOneCapture, AttemptSteps, Terminal, ledgerVars, railVars
<1>1. ASSUME NEW w \in Workers, NEW m \in Mandates, Present(w, m) PROVE Sequential'
  BY <1>1 DEF Present, StartRung, Enter, Goto
<1>2. ASSUME NEW w \in Workers, Step(w) PROVE Sequential'
  BY <1>2, SequentialStep
<1>3. ASSUME NEW p \in Processes, Crash(p) PROVE Sequential'
  BY <1>3 DEF Crash
<1>4. ASSUME NEW p \in Processes, BreakerResets(p) PROVE Sequential'
  BY <1>4 DEF BreakerResets, locals
<1>5. ASSUME NEW m \in Mandates, LeaseExpires(m) PROVE Sequential'
  BY <1>5 DEF LeaseExpires, LeaseLapses, locals
<1>6. ASSUME NEW o \in Orders, LatePayment(o) PROVE Sequential'
  BY <1>6 DEF LatePayment, BuyerPaysLate, locals
<1>7. CASE UNCHANGED vars
  BY <1>7 DEF vars, locals
<1> QED
  BY <1>1, <1>2, <1>3, <1>4, <1>5, <1>6, <1>7 DEF Next

LEMMA SequentialInvariant ==
  ASSUME ReliableRail
  PROVE  Spec /\ []OneCallPerMandate => []Sequential
<1> QED
  BY SequentialInit, SequentialNext, PTL DEF Spec

\* "One Payment Mandate can charge at most once, ever" (payments.py): true over a rail
\* that answers its probes when a mandate is not in two calls at once, whoever else
\* pays at the time, through any number of timeouts after a capture, declines,
\* deferrals, crashes and presentations.
THEOREM ChargesAtMostOnce ==
  ASSUME ReliableRail
  PROVE  Spec /\ []OneCallPerMandate => []AtMostOneCapture
<1>1. Sequential => AtMostOneCapture
  BY DEF Sequential
<1> QED
  BY <1>1, SequentialInvariant, PTL

-----------------------------------------------------------------------------
(* What a step may never do.                                               *)

LEMMA ReceiptKept ==
  ASSUME ReliableRail
  PROVE  Sequential /\ [Next]_vars =>
           \A m \in Mandates : Terminal(m) => status'[m] = status[m] /\ receipt'[m] = receipt[m]
<1> SUFFICES ASSUME Sequential, [Next]_vars, NEW m \in Mandates, Terminal(m)
             PROVE  status'[m] = status[m] /\ receipt'[m] = receipt[m]
  OBVIOUS
<1>0. /\ DOMAIN status = Mandates /\ DOMAIN receipt = Mandates
      /\ \A w \in Workers : pc[w] \in {"close", "fail_write"} => ~Terminal(task[w])
  BY DEF Sequential, Accounting, TypeOK, LedgerTypeOK, OpenWhileAttempted, At, AttemptSteps
<1>1. ASSUME NEW w \in Workers, Step(w)
      PROVE  status'[m] = status[m] /\ receipt'[m] = receipt[m]
  <2>1. CASE ClaimKey(w) \/ FailLookup(w)
    BY <1>0, <2>1 DEF ClaimKey, FailLookup, Claim, Terminal, ledgerVars
  <2>2. CASE SettleWrite(w) \/ FailWrite(w)
    BY <1>0, <2>2 DEF SettleWrite, FailWrite, WriteReceipt
  <2>3. CASE UNCHANGED <<status, receipt>>
    BY <2>3
  <2>4. QED
    BY <1>1, <2>1, <2>2, <2>3
    DEF Step, Replay, TakeLease, AcquireLease, WaitForLease, GiveUpWaiting, Probe, BurnNonce, OpenOrder,
        OpenOrderFails, ReadOrders, NoteOrder, WriteOrders, PayCaptures, PayFails, CountSpend, RecordSpend,
        SettleCheck, Release, ReleaseLease, FailCheck, ledgerVars
<1>2. CASE UNCHANGED <<status, receipt>>
  BY <1>2
<1>3. QED
  BY <1>1, <1>2 DEF Next, Present, Crash, BreakerResets, LeaseExpires, LeaseLapses, LatePayment,
                    ledgerVars, vars

\* With one call per mandate a receipt, once issued, is the answer for good: whoever
\* writes one found none after the lookup, and nobody else wrote in between (finalise).
THEOREM ReceiptsAreFinal ==
  ASSUME ReliableRail
  PROVE  Spec /\ []OneCallPerMandate => ReceiptIsFinal
<1> QED
  BY ReceiptKept, SequentialInvariant, PTL DEF Spec, ReceiptIsFinal

LEMMA OrdersKept ==
  ASSUME ReliableRail
  PROVE  Sequential /\ [Next]_vars =>
           \A m \in Mandates : Captured(m) # {} => OrdersOf(m)' = OrdersOf(m)
<1> SUFFICES ASSUME Sequential, [Next]_vars, NEW m \in Mandates, Captured(m) # {}
             PROVE  OrdersOf(m)' = OrdersOf(m)
  OBVIOUS
<1>0. TypeOK
  BY DEF Sequential, Accounting
<1>1. ASSUME NEW w \in Workers, OpenOrder(w)
      PROVE  OrdersOf(m)' = OrdersOf(m)
  <2>1. PICK o \in Orders : CreateOrder(o, task[w])
    BY <1>1 DEF OpenOrder
  <2>2. task[w] # m
    BY <1>1 DEF OpenOrder, Sequential, ProbeIsCurrent, At
  <2>3. owner[o] = None
    BY <2>1 DEF CreateOrder, Sequential, Accounting, OrdersBelong
  <2>4. QED
    BY <1>0, <2>1, <2>2, <2>3, NoneAssumption DEF CreateOrder, OrdersOf, TypeOK, RailTypeOK
<1>2. CASE UNCHANGED owner
  BY <1>2 DEF OrdersOf
<1>3. ASSUME NEW w \in Workers, Step(w), ~OpenOrder(w)
      PROVE  UNCHANGED owner
  BY <1>3
  DEF Step, ClaimKey, Replay, TakeLease, WaitForLease, GiveUpWaiting, Probe, OpenOrderFails, ReadOrders,
      NoteOrder, PayCaptures, CaptureOrder, PayFails, LeaveOrder, CountSpend, SettleCheck, SettleWrite,
      Release, FailLookup, FailCheck, FailWrite, railVars
<1>4. QED
  BY <1>1, <1>2, <1>3 DEF Next, Present, Crash, BreakerResets, LeaseExpires, LatePayment, BuyerPaysLate,
                          railVars, vars

\* With one call per mandate and a rail that answers its probes, no order is created
\* for a mandate whose money moved (_find_prior_capture before create_order).
THEOREM NoFurtherOrder ==
  ASSUME ReliableRail
  PROVE  Spec /\ []OneCallPerMandate => NoOrderAfterCapture
<1> QED
  BY OrdersKept, SequentialInvariant, PTL DEF Spec, NoOrderAfterCapture

-----------------------------------------------------------------------------
(* The refinement: every step of the money path is a step of OneCharge, or *)
(* one it does not see.                                                    *)

LEMMA PromiseInit == Init => Promise!Init
BY NoneAssumption
   DEF Init, LedgerInit, RailInit, Promise!Init, OutcomeOf, Terminal, Captured, OrdersOf

\* A step that changes neither a receipt, the spend ledger nor a capture is not seen.
LEMMA Unseen ==
  ASSUME UNCHANGED spent,
         \A m \in Mandates : Captured(m)' = Captured(m) /\ OutcomeOf(m)' = OutcomeOf(m)
  PROVE  UNCHANGED Promise!vars
BY DEF Promise!vars

LEMMA PromiseStep ==
  ASSUME ReliableRail, Sequential, NEW w \in Workers, Step(w)
  PROVE  [Promise!Next]_(Promise!vars)
<1>0. /\ TypeOK
      /\ pc[w] \in AttemptSteps \cup {"fail_write"} => task[w] \in Mandates
      /\ pc[w] \in {"spend", "close", "fail_write", "pay"} => ~Terminal(task[w])
  BY DEF Sequential, Accounting, TypeOK, StandingOK, AttemptSteps, OpenWhileAttempted, At
<1>1. CASE PayCaptures(w)
  <2>1. Captured(task[w]) = {} /\ owner[order[w]] = task[w] /\ order[w] \in Orders
    BY <1>1, <1>0 DEF PayCaptures, Sequential, ProbeIsCurrent, Accounting, OrdersBelong, At, Paying, TypeOK, StandingOK
  <2>2. rail[order[w]] = "created"
    BY <1>1 DEF PayCaptures, Sequential, Accounting, OrdersBelong, At, Paying
  <2>3. /\ \A m \in Mandates : order[w] \notin Captured(m)
        /\ Captured(task[w])' = {order[w]}
        /\ \A m \in Mandates \ {task[w]} : Captured(m)' = Captured(m)
    BY <1>0, <1>1, <2>1, <2>2 DEF PayCaptures, CaptureOrder, Captured, OrdersOf, TypeOK, RailTypeOK
  <2>4. UNCHANGED <<status, spent>>
    BY <1>1 DEF PayCaptures, ledgerVars
  <2>5. Promise!Charge(task[w])
    BY <1>0, <1>1, <2>1, <2>3, <2>4 DEF Promise!Charge, OutcomeOf, Terminal, PayCaptures, AttemptSteps
  <2> QED
    BY <1>0, <1>1, <2>5 DEF Promise!Next, PayCaptures, AttemptSteps
<1>2. CASE CountSpend(w)
  <2>0. PICK m \in Mandates : m = task[w]
    BY <1>0, <1>2 DEF CountSpend, AttemptSteps
  <2>1. UNCHANGED <<status, rail, owner>> /\ order[w] \in Captured(task[w]) /\ order[w] # None
    BY <1>2, NoneAssumption
    DEF CountSpend, RecordSpend, railVars, Sequential, Accounting, SettlesCaptured, At, Captured, OrdersOf
  <2>2. {n \in Mandates : spent[n] # None}' = {n \in Mandates : spent[n] # None} \cup {m}
    BY <1>0, <1>2, <2>0, <2>1 DEF CountSpend, RecordSpend, TypeOK, LedgerTypeOK, AttemptSteps
  <2>3. Promise!Book(m)
    BY <1>0, <1>2, <2>0, <2>1, <2>2
    DEF Promise!Book, OutcomeOf, Terminal, CountSpend, AttemptSteps, Captured, OrdersOf
  <2> QED
    BY <2>3 DEF Promise!Next
<1>3. CASE SettleWrite(w)
  <2>1. UNCHANGED <<spent, rail, owner>> /\ spent[task[w]] # None
    BY <1>3 DEF SettleWrite, WriteReceipt, railVars, Sequential, Accounting, SettlesCaptured, At
  <2>2. Promise!ConfirmReceipt(task[w])
    BY <1>0, <1>3, <2>1 DEF Promise!ConfirmReceipt, OutcomeOf, Terminal, SettleWrite, WriteReceipt,
      AttemptSteps, TypeOK, LedgerTypeOK, Captured, OrdersOf
  <2> QED
    BY <1>0, <1>3, <2>2 DEF Promise!Next, SettleWrite, AttemptSteps
<1>4. CASE FailWrite(w)
  <2>1. Promise!RefuseReceipt(task[w])
    BY <1>0, <1>4 DEF Promise!RefuseReceipt, OutcomeOf, Terminal, FailWrite, WriteReceipt, railVars,
      TypeOK, LedgerTypeOK, Captured, OrdersOf
  <2> QED
    BY <1>0, <1>4, <2>1 DEF Promise!Next, FailWrite
<1>5. CASE ClaimKey(w) \/ FailLookup(w)
  <2>1. /\ task[w] \in Mandates
        /\ Claim(task[w]) \/ UNCHANGED ledgerVars
        /\ UNCHANGED <<rail, owner>>
    BY <1>0, <1>5 DEF ClaimKey, FailLookup, TypeOK, StandingOK, railVars
  <2>2. UNCHANGED spent /\ \A m \in Mandates : OutcomeOf(m)' = OutcomeOf(m)
    BY <1>0, <2>1 DEF Claim, OutcomeOf, Terminal, TypeOK, LedgerTypeOK, ledgerVars
  <2> QED
    BY <2>1, <2>2, Unseen DEF Captured, OrdersOf
<1>6. CASE OpenOrder(w)
  <2>1. \A m \in Mandates : Captured(m)' = Captured(m)
    BY <1>0, <1>6, NoneAssumption
    DEF OpenOrder, CreateOrder, Captured, OrdersOf, TypeOK, RailTypeOK, Sequential, Accounting, OrdersBelong
  <2> QED
    BY <1>6, <2>1, Unseen DEF OpenOrder, OutcomeOf, Terminal, ledgerVars
<1>7. CASE PayFails(w)
  <2>1. \A m \in Mandates : Captured(m)' = Captured(m)
    BY <1>0, <1>7 DEF PayFails, LeaveOrder, ReliableRail, Captured, OrdersOf, TypeOK, RailTypeOK
  <2> QED
    BY <1>7, <2>1, Unseen DEF PayFails, OutcomeOf, Terminal, ledgerVars
<1>8. CASE \/ Replay(w) \/ WaitForLease(w) \/ GiveUpWaiting(w) \/ OpenOrderFails(w)
           \/ ReadOrders(w) \/ SettleCheck(w) \/ FailCheck(w)
  BY <1>8, Unseen
  DEF Replay, WaitForLease, GiveUpWaiting, OpenOrderFails, ReadOrders, SettleCheck, FailCheck,
      OutcomeOf, Terminal, Captured, OrdersOf, ledgerVars, railVars
<1>9. CASE TakeLease(w) \/ Probe(w) \/ NoteOrder(w) \/ Release(w)
  BY <1>9, Unseen
  DEF TakeLease, AcquireLease, Probe, BurnNonce, NoteOrder, WriteOrders, Release, ReleaseLease,
      OutcomeOf, Terminal, Captured, OrdersOf, ledgerVars, railVars
<1> QED
  BY <1>1, <1>2, <1>3, <1>4, <1>5, <1>6, <1>7, <1>8, <1>9 DEF Step

LEMMA PromiseNext ==
  ASSUME ReliableRail
  PROVE  Sequential /\ [Next]_vars => [Promise!Next]_(Promise!vars)
<1> SUFFICES ASSUME Sequential, [Next]_vars PROVE [Promise!Next]_(Promise!vars)
  OBVIOUS
<1>1. ASSUME NEW w \in Workers, NEW m \in Mandates, Present(w, m) PROVE UNCHANGED Promise!vars
  BY <1>1, Unseen DEF Present, ledgerVars, railVars, OutcomeOf, Terminal, Captured, OrdersOf
<1>2. ASSUME NEW w \in Workers, Step(w) PROVE [Promise!Next]_(Promise!vars)
  BY <1>2, PromiseStep
<1>3. ASSUME NEW p \in Processes, Crash(p) \/ BreakerResets(p) PROVE UNCHANGED Promise!vars
  BY <1>3, Unseen DEF Crash, BreakerResets, ledgerVars, railVars, OutcomeOf, Terminal, Captured, OrdersOf
<1>4. ASSUME NEW m \in Mandates, LeaseExpires(m) PROVE UNCHANGED Promise!vars
  BY <1>4, Unseen DEF LeaseExpires, LeaseLapses, railVars, OutcomeOf, Terminal, Captured, OrdersOf
<1>5. ASSUME NEW o \in Orders PROVE ~LatePayment(o)
  BY DEF LatePayment, BuyerPaysLate, Sequential, NothingPayable
<1>6. CASE UNCHANGED vars
  BY <1>6, Unseen DEF vars, ledgerVars, railVars, OutcomeOf, Terminal, Captured, OrdersOf
<1> QED
  BY <1>1, <1>2, <1>3, <1>4, <1>5, <1>6 DEF Next

\* The money path keeps the whole promise of OneCharge under the same conditions: one
\* charge, booked before the receipt, one receipt, and nothing moves after it.
THEOREM KeepsPromise ==
  ASSUME ReliableRail
  PROVE  Spec /\ []OneCallPerMandate => ImplementsOneCharge
<1> QED
  BY PromiseInit, PromiseNext, SequentialInvariant, PTL DEF Spec, ImplementsOneCharge, Promise!Spec
=============================================================================
