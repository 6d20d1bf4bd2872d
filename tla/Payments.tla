------------------------------ MODULE Payments ------------------------------
(***************************************************************************)
(* The money path: RecoveryPlaybook.run (gateway/recovery.py) driving      *)
(* PaymentProcessor.execute_payment and finalise_failure                   *)
(* (gateway/payments.py) over the durable ledger and the rail.             *)
(*                                                                         *)
(* A worker is one call of run at a time: a thread, or the single thread   *)
(* of a gateway process.  Workers of one process share its circuit breaker *)
(* and die with it; the ledger and the rail survive.  A worker stops       *)
(* between any two statements on the ledger and around every call to the   *)
(* rail, and any other worker may run there.                               *)
(*                                                                         *)
(* A rung of the ladder: claim the key, take the lease, burn the nonce,    *)
(* probe, create an order, note it, ask the rail to pay, settle, release.  *)
(* Then the next rung, or a final failure, or return.                      *)
(***************************************************************************)
EXTENDS Ledger, Rail, CircuitBreaker, FiniteSets

CONSTANTS Workers,
          ProcessOf,         \* the process a worker runs in
          MaxAttempts,       \* RecoveryPolicy.max_attempts
          AttemptMayOverrun, \* an attempt can outlast ATTEMPT_LEASE_SECONDS: by
                             \* default the Razorpay rail's poll does, the
                             \* simulator answers at once
          MaxCrashes         \* bound on the crashes explored

ASSUME PaymentsAssumption ==
  /\ ProcessOf \in [Workers -> Processes]
  /\ MaxAttempts \in Nat \ {0}
  /\ AttemptMayOverrun \in BOOLEAN
  /\ MaxCrashes \in Nat
  /\ None \notin Workers

VARIABLES pc,       \* where each worker stands
          task,     \* the mandate it is paying
          rung,     \* index + 1 in run's loop over the methods
          seen,     \* the order ids of the record it last read
          order,    \* the order it is working on
          answer,   \* how execute_payment is about to end
          crashes

locals == <<pc, task, rung, seen, order, answer>>
vars == <<ledgerVars, railVars, breakerVars, locals, crashes>>

\* Between acquire_attempt_lease and the finally that releases it.
AttemptSteps == {"probe", "create", "note", "write", "pay", "spend", "settle",
                 "close", "release"}
FailureSteps == {"fail", "fail_check", "fail_write"}
Steps == {"idle", "claim", "lease"} \cup AttemptSteps \cup FailureSteps
Answers == {"none", "captured", "declined", "rejected", "lost", "error"}

LocalTypeOK ==
  /\ pc \in [Workers -> Steps]
  /\ task \in [Workers -> Mandates \cup {None}]
  /\ rung \in [Workers -> 0 .. MaxAttempts]
  /\ seen \in [Workers -> SUBSET Orders]
  /\ order \in [Workers -> Orders \cup {None}]
  /\ answer \in [Workers -> Answers]

\* A worker under way has a mandate, and an order once it made or found one.
StandingOK == \A w \in Workers :
  /\ pc[w] # "idle" => task[w] \in Mandates
  /\ pc[w] \in {"note", "write", "pay", "spend", "settle", "close"} => order[w] \in Orders

TypeOK ==
  /\ LedgerTypeOK
  /\ RailTypeOK
  /\ BreakerTypeOK
  /\ LocalTypeOK
  /\ crashes \in 0 .. MaxCrashes
  /\ StandingOK

Init ==
  /\ LedgerInit
  /\ RailInit
  /\ BreakerInit
  /\ pc = [w \in Workers |-> "idle"]
  /\ task = [w \in Workers |-> None]
  /\ rung = [w \in Workers |-> 0]
  /\ seen = [w \in Workers |-> {}]
  /\ order = [w \in Workers |-> None]
  /\ answer = [w \in Workers |-> "none"]
  /\ crashes = 0

-----------------------------------------------------------------------------
(* Moves of a worker's locals.                                             *)

InAttempt(w, m) == pc[w] \in AttemptSteps /\ task[w] = m

Goto(w, step) == pc' = [pc EXCEPT ![w] = step]

\* Enter a step at which nothing of the last attempt is remembered.
Enter(w, step) ==
  /\ Goto(w, step)
  /\ seen' = [seen EXCEPT ![w] = {}]
  /\ order' = [order EXCEPT ![w] = None]
  /\ answer' = [answer EXCEPT ![w] = "none"]

\* run returns or raises.
Return(w) ==
  /\ Enter(w, "idle")
  /\ task' = [task EXCEPT ![w] = None]
  /\ rung' = [rung EXCEPT ![w] = 0]

\* The top of the loop: the stock check decides between an attempt and
\* finalise_failure.  The stock is another component's: either answer.
StartRung(w, n) ==
  /\ rung' = [rung EXCEPT ![w] = n]
  /\ \E step \in {"claim", "fail"} : Enter(w, step)

\* Mutant: one rung more than the ladder has.
NextRungOffByOne(w) ==
  /\ UNCHANGED task
  /\ IF rung[w] <= MaxAttempts
       THEN StartRung(w, rung[w] + 1)
       ELSE Enter(w, "fail") /\ UNCHANGED rung

\* continue, or fall out of the loop when the ladder is exhausted.
NextRung(w) ==
  /\ UNCHANGED task
  /\ IF rung[w] < MaxAttempts
       THEN StartRung(w, rung[w] + 1)
       ELSE Enter(w, "fail") /\ UNCHANGED rung

Answer(w, a) == answer' = [answer EXCEPT ![w] = a]
Hold(w, o) == order' = [order EXCEPT ![w] = o]

-----------------------------------------------------------------------------
(* RecoveryPlaybook.run, first lines.  The caller looked for an existing   *)
(* outcome; an open breaker defers without touching anything.              *)
Present(w, m) ==
  /\ pc[w] = "idle"
  /\ ~Terminal(m)
  /\ circuit[ProcessOf[w]] # "open"
  /\ task' = [task EXCEPT ![w] = m]
  /\ StartRung(w, 1)
  /\ UNCHANGED <<ledgerVars, railVars, breakerVars, crashes>>

(* _claim_exclusively.  The record is read with the claim, before the      *)
(* lease is taken.                                                         *)
ClaimKey(w) ==
  /\ pc[w] = "claim"
  /\ ~Terminal(task[w])
  /\ Claim(task[w])
  /\ seen' = [seen EXCEPT ![w] = noted[task[w]]]
  /\ Goto(w, "lease")
  /\ UNCHANGED <<railVars, breakerVars, task, rung, order, answer, crashes>>

\* Someone else finished: execute_payment returns their receipt, and run
\* counts that as the rail having answered.
Replay(w) ==
  /\ pc[w] = "claim"
  /\ Terminal(task[w])
  /\ RecordSuccess(ProcessOf[w])
  /\ Return(w)
  /\ UNCHANGED <<ledgerVars, railVars, crashes>>

TakeLease(w) ==
  /\ pc[w] = "lease"
  /\ AcquireLease(task[w])
  /\ Goto(w, "probe")
  /\ UNCHANGED <<railVars, breakerVars, task, rung, seen, order, answer, crashes>>

\* The lease is held elsewhere: sleep, and claim again.
WaitForLease(w) ==
  /\ pc[w] = "lease"
  /\ ~LeaseFree(task[w])
  /\ Goto(w, "claim")
  /\ UNCHANGED <<ledgerVars, railVars, breakerVars, task, rung, seen, order,
                 answer, crashes>>

\* ConcurrentAttemptError, which run does not catch.
GiveUpWaiting(w) ==
  /\ pc[w] = "lease"
  /\ ~LeaseFree(task[w])
  /\ Return(w)
  /\ UNCHANGED <<ledgerVars, railVars, breakerVars, crashes>>

-----------------------------------------------------------------------------
(* _attempt.                                                               *)

\* The nonce is burned on the first attempt, and the capture probe asks the
\* rail about every order of the record that was read.
Probe(w) ==
  /\ pc[w] = "probe"
  /\ IF seen[w] = {} THEN BurnNonce(task[w]) ELSE UNCHANGED ledgerVars
  /\ \E lost \in Unanswered(seen[w]) :
       LET found == FoundCaptured(seen[w], lost) IN
         \/ found = {} /\ Goto(w, "create") /\ UNCHANGED order
         \/ \E o \in found : Hold(w, o) /\ Goto(w, "spend")
  /\ UNCHANGED <<railVars, breakerVars, task, rung, seen, answer, crashes>>

OpenOrder(w) ==
  /\ pc[w] = "create"
  /\ \E o \in Orders : CreateOrder(o, task[w]) /\ Hold(w, o)
  /\ Goto(w, "note")
  /\ UNCHANGED <<ledgerVars, breakerVars, task, rung, seen, answer, crashes>>

\* create_order raises.  No payment can be made on an order whose creation
\* was lost on the way back, as no link was ever made for it.
OpenOrderFails(w) ==
  /\ pc[w] = "create"
  /\ CallsMayFail
  /\ \E a \in {"rejected", "lost"} : Answer(w, a)
  /\ Goto(w, "release")
  /\ UNCHANGED <<ledgerVars, railVars, breakerVars, task, rung, seen, order, crashes>>

\* note_order reads the record ...
ReadOrders(w) ==
  /\ pc[w] = "note"
  /\ seen' = [seen EXCEPT ![w] = noted[task[w]]]
  /\ Goto(w, "write")
  /\ UNCHANGED <<ledgerVars, railVars, breakerVars, task, rung, order, answer, crashes>>

\* Mutant: the new order is not on the list that is written back.
NoteOrderForgets(w) ==
  /\ pc[w] = "write"
  /\ WriteOrders(task[w], seen[w])
  /\ Goto(w, "pay")
  /\ UNCHANGED <<railVars, breakerVars, task, rung, seen, order, answer, crashes>>

\* ... and writes the longer list back.
NoteOrder(w) ==
  /\ pc[w] = "write"
  /\ WriteOrders(task[w], seen[w] \cup {order[w]})
  /\ Goto(w, "pay")
  /\ UNCHANGED <<railVars, breakerVars, task, rung, seen, order, answer, crashes>>

\* complete_test_payment captures, and the gateway hears of it or does not.
PayCaptures(w) ==
  /\ pc[w] = "pay"
  /\ CaptureOrder(order[w])
  /\ \/ Goto(w, "spend") /\ UNCHANGED answer
     \/ Goto(w, "release") /\ Answer(w, "lost")
  /\ UNCHANGED <<ledgerVars, breakerVars, task, rung, seen, order, crashes>>

\* Mutant: an attempt without an answer is taken for a payment.
PayFailsUnnoticed(w) ==
  /\ pc[w] = "pay"
  /\ LeaveOrder(order[w])
  /\ Goto(w, "spend")
  /\ UNCHANGED <<ledgerVars, breakerVars, task, rung, seen, order, answer, crashes>>

\* A decline, a rejected request, or no answer; no money moved so far.
PayFails(w) ==
  /\ pc[w] = "pay"
  /\ LeaveOrder(order[w])
  /\ \E a \in {"declined", "rejected", "lost"} : Answer(w, a)
  /\ Goto(w, "release")
  /\ UNCHANGED <<ledgerVars, breakerVars, task, rung, seen, order, crashes>>

\* Mutant: the receipt is issued with no spend recorded.
CountSpendSkipped(w) ==
  /\ pc[w] = "spend"
  /\ Goto(w, "settle")
  /\ UNCHANGED <<ledgerVars, railVars, breakerVars, task, rung, seen, order, answer, crashes>>

\* _settle_captured: the budget is consumed first.
CountSpend(w) ==
  /\ pc[w] = "spend"
  /\ RecordSpend(task[w], order[w])
  /\ Goto(w, "settle")
  /\ UNCHANGED <<railVars, breakerVars, task, rung, seen, order, answer, crashes>>

\* _issue and the check in finalise: DoubleFinalisationError if terminal.
SettleCheck(w) ==
  /\ pc[w] = "settle"
  /\ IF Terminal(task[w])
       THEN Goto(w, "release") /\ Answer(w, "error")
       ELSE Goto(w, "close") /\ UNCHANGED answer
  /\ UNCHANGED <<ledgerVars, railVars, breakerVars, task, rung, seen, order, crashes>>

\* The UPDATE of finalise with the captured receipt.
SettleWrite(w) ==
  /\ pc[w] = "close"
  /\ WriteReceipt(task[w], "captured", order[w])
  /\ Goto(w, "release")
  /\ Answer(w, "captured")
  /\ UNCHANGED <<railVars, breakerVars, task, rung, seen, order, crashes>>

(* The finally of execute_payment, then what run makes of the outcome.     *)

ReleaseReturned(w) ==
  /\ answer[w] = "captured"
  /\ RecordSuccess(ProcessOf[w])
  /\ Return(w)

\* DoubleFinalisationError propagates out of run.
ReleaseRaised(w) ==
  /\ answer[w] = "error"
  /\ Return(w)
  /\ UNCHANGED breakerVars

ReleaseDeclined(w) ==
  /\ answer[w] = "declined"
  /\ RecordDecline(ProcessOf[w])
  /\ NextRung(w)

\* A decline no other instrument can recover from.
ReleaseRejected(w) ==
  /\ answer[w] = "rejected"
  /\ RecordDecline(ProcessOf[w])
  /\ Enter(w, "fail")
  /\ UNCHANGED <<task, rung>>

\* A timeout or an unreachable rail: defer if that trips the breaker.
ReleaseLost(w) ==
  /\ answer[w] = "lost"
  /\ RecordTransportFailure(ProcessOf[w])
  /\ IF Trips(ProcessOf[w]) THEN Return(w) ELSE NextRung(w)

Release(w) ==
  /\ pc[w] = "release"
  /\ ReleaseLease(task[w])
  /\ \/ ReleaseReturned(w)
     \/ ReleaseRaised(w)
     \/ ReleaseDeclined(w)
     \/ ReleaseRejected(w)
     \/ ReleaseLost(w)
  /\ UNCHANGED <<railVars, crashes>>

-----------------------------------------------------------------------------
(* finalise_failure.  It holds no lease and asks the rail nothing.         *)

FailLookup(w) ==
  /\ pc[w] = "fail"
  /\ IF Terminal(task[w])
       THEN Return(w) /\ UNCHANGED ledgerVars
       ELSE /\ Claim(task[w])
            /\ Goto(w, "fail_check")
            /\ UNCHANGED <<task, rung, seen, order, answer>>
  /\ UNCHANGED <<railVars, breakerVars, crashes>>

FailCheck(w) ==
  /\ pc[w] = "fail_check"
  /\ IF Terminal(task[w])
       THEN Return(w)
       ELSE Goto(w, "fail_write") /\ UNCHANGED <<task, rung, seen, order, answer>>
  /\ UNCHANGED <<ledgerVars, railVars, breakerVars, crashes>>

FailWrite(w) ==
  /\ pc[w] = "fail_write"
  /\ WriteReceipt(task[w], "failed", None)
  /\ Return(w)
  /\ UNCHANGED <<railVars, breakerVars, crashes>>

-----------------------------------------------------------------------------
(* The environment.                                                        *)

\* A process dies between two steps.  Its breaker is in memory only.
Crash(p) ==
  /\ crashes < MaxCrashes
  /\ crashes' = crashes + 1
  /\ \E w \in Workers : ProcessOf[w] = p /\ pc[w] # "idle"
  /\ RecordSuccess(p)
  /\ pc' = [w \in Workers |-> IF ProcessOf[w] = p THEN "idle" ELSE pc[w]]
  /\ task' = [w \in Workers |-> IF ProcessOf[w] = p THEN None ELSE task[w]]
  /\ rung' = [w \in Workers |-> IF ProcessOf[w] = p THEN 0 ELSE rung[w]]
  /\ seen' = [w \in Workers |-> IF ProcessOf[w] = p THEN {} ELSE seen[w]]
  /\ order' = [w \in Workers |-> IF ProcessOf[w] = p THEN None ELSE order[w]]
  /\ answer' = [w \in Workers |-> IF ProcessOf[w] = p THEN "none" ELSE answer[w]]
  /\ UNCHANGED <<ledgerVars, railVars>>

\* Mutant: a lease with no expiry, which only its holder can give up.
LeaseHasNoExpiry(m) == LeaseLapses(m) /\ FALSE

\* ATTEMPT_LEASE_SECONDS pass.  If no attempt can last that long, only an
\* attempt that died leaves a lease to lapse.
LeaseExpires(m) ==
  /\ AttemptMayOverrun \/ \A w \in Workers : ~InAttempt(w, m)
  /\ LeaseLapses(m)
  /\ UNCHANGED <<railVars, breakerVars, locals, crashes>>

BreakerResets(p) ==
  /\ ResetElapses(p)
  /\ UNCHANGED <<ledgerVars, railVars, locals, crashes>>

LatePayment(o) ==
  /\ BuyerPaysLate(o)
  /\ UNCHANGED <<ledgerVars, breakerVars, locals, crashes>>

-----------------------------------------------------------------------------
\* One step of a call of run that is under way.
Step(w) ==
  \/ ClaimKey(w) \/ Replay(w) \/ TakeLease(w) \/ WaitForLease(w) \/ GiveUpWaiting(w)
  \/ Probe(w) \/ OpenOrder(w) \/ OpenOrderFails(w) \/ ReadOrders(w) \/ NoteOrder(w)
  \/ PayCaptures(w) \/ PayFails(w)
  \/ CountSpend(w) \/ SettleCheck(w) \/ SettleWrite(w) \/ Release(w)
  \/ FailLookup(w) \/ FailCheck(w) \/ FailWrite(w)

Next ==
  \/ \E w \in Workers, m \in Mandates : Present(w, m)
  \/ \E w \in Workers : Step(w)
  \/ \E p \in Processes : Crash(p) \/ BreakerResets(p)
  \/ \E m \in Mandates : LeaseExpires(m)
  \/ \E o \in Orders : LatePayment(o)

Spec == Init /\ [][Next]_vars

\* Fair scheduling: a call of run that can go on does, and time passes.
\* Nothing makes the rail answer, and nothing makes a process crash.
Fairness ==
  /\ \A w \in Workers : WF_vars(Step(w))
  /\ \A m \in Mandates : WF_vars(LeaseExpires(m))
  /\ \A p \in Processes : WF_vars(BreakerResets(p))

FairSpec == Spec /\ Fairness

-----------------------------------------------------------------------------
(* What the money path promises.                                           *)

\* "One Payment Mandate can charge at most once, ever" (payments.py): the rail
\* never holds two captured orders for one mandate.
AtMostOneCapture ==
  \A m \in Mandates : \A o1, o2 \in Captured(m) : o1 = o2

\* Once money moved for a mandate the capture probe stops every later attempt
\* before create_order: no further order appears for it.
NoOrderAfterCapture ==
  [][\A m \in Mandates : Captured(m) # {} => OrdersOf(m)' = OrdersOf(m)]_vars

\* The budget is charged only for money that moved: a decline, a timeout or a
\* crash never leaves a spend_ledger row without a capture behind it.
SpendBackedByCapture ==
  \A m \in Mandates : spent[m] # None => spent[m] \in Captured(m)

\* A captured receipt names an order captured for that very mandate, and the
\* spend was booked before the receipt could be seen.
CapturedReceiptBacked ==
  \A m \in Mandates :
    status[m] = "captured" => receipt[m] \in Captured(m) /\ spent[m] # None

\* The lease admits one attempt per mandate at a time, whoever else presents it.
\* The code does not do this when an attempt outlasts its lease; Overruns has what
\* it does.
OneAttemptPerMandate ==
  \A m \in Mandates : \A w1, w2 \in Workers :
    InAttempt(w1, m) /\ InAttempt(w2, m) => w1 = w2

\* A receipt, once issued, is the answer for good (finalise refuses to overwrite
\* a terminal record).
ReceiptIsFinal ==
  [][\A m \in Mandates : Terminal(m) =>
       status'[m] = status[m] /\ receipt'[m] = receipt[m]]_vars

\* A failed receipt is "a contract that nothing was charged" (finalise_failure).
FailedMeansNotCharged ==
  \A m \in Mandates : status[m] = "failed" => Captured(m) = {}

\* The caller presents again a mandate it has no receipt for, as the deferred
\* answer asks it to (retry_after_seconds).
KeepsAsking == \A w \in Workers : WF_vars(\E m \in Mandates : Present(w, m))

\* A crash, an orphaned lease, a rail that does not answer or an open breaker
\* never wedges a mandate: if its caller keeps asking, one that was claimed gets
\* a receipt in the end.
NeverWedged ==
  KeepsAsking => \A m \in Mandates : status[m] = "in_flight" ~> Terminal(m)

-----------------------------------------------------------------------------
(* The refinement: what an outside observer of the rail, the spend ledger  *)
(* and the receipts sees of the money path.                                *)
OutcomeOf(m) == IF Terminal(m) THEN status[m] ELSE "open"

Accounts == INSTANCE MoneyPath WITH
  charge <- [m \in Mandates |-> Captured(m)],
  booked <- {m \in Mandates : spent[m] # None},
  outcome <- [m \in Mandates |-> OutcomeOf(m)]

\* However many calls and processes pay for one mandate at once, whatever the rail
\* does and whether or not a lease is outlasted: money is booked only for a
\* mandate that was charged, and confirmed only when it was booked.
ImplementsMoneyPath == Accounts!Spec

Promise == INSTANCE OneCharge WITH
  charge <- [m \in Mandates |-> Captured(m)],
  booked <- {m \in Mandates : spent[m] # None},
  outcome <- [m \in Mandates |-> OutcomeOf(m)]

\* One call per mandate over a rail that answers its probes, whatever times out,
\* is declined or crashes, behaves as OneCharge: one charge, one receipt, and
\* nothing after the receipt.
ImplementsOneCharge == Promise!Spec
=============================================================================
