# A verification of the AP2 / Razorpay gateway

This directory holds TLA+ models of the gateway in `src/`, the TLC
configurations that check them, and theorems about them that TLAPS checks. All
paths below are relative to `src/`.

The gateway lets a shopping agent pay, under authorisations its user signed, for
carts a merchant signed. Its code keeps coming back to one sentence
(`gateway/payments.py:11`): *one Payment Mandate can charge at most once, ever*.
Most of what follows is about that sentence: when it is true, what it rests on,
and where the code stops short of it.

## 1. The system

| Part | State it keeps | Operations | Talks to |
|---|---|---|---|
| Ledger `gateway/ledger.py` | SQLite: `idempotency_keys` (status, attempts, order ids, lease, receipt), `spend_ledger`, `nonce_registry` | claim, acquire and release lease, burn nonce, note order, record spend, finalise; reads | called by the processor (read and write) and the verifier (read only) |
| Payment processor `gateway/payments.py` | none of its own | `execute_payment`, `finalise_failure`, `existing_outcome` | ledger, rail, audit |
| Recovery playbook `gateway/recovery.py` | the circuit breaker of the process | `run`: the ladder of instruments, deferral | processor, a stock check passed in by the service |
| Rail `gateway/razorpay_client.py` | orders, their payments and payment links, outside the gateway or in the simulator; the simulator's scripted rules | create order, complete payment (a lookup, then a scripted outcome, or a link and a poll), fetch order payments | Razorpay and the buyer on its hosted page, or `FakeRail` |
| Verifier `gateway/verify.py` | none: pure | `verify_payment_mandate` | the ledger, read only |
| Mandates, models `gateway/mandates.py`, `ap2_min/` | the keyring: kid to role and public key | sign, register a key, verify and load a token | everybody |
| Keys, start-up `gateway/keystore.py`, `gateway/bootstrap.py` | the keystore file and what is held of it in memory; the standing authorisation | load, draw and persist a key, `build_gateway`, `delegate_to` | the keyring; whoever signs |
| Trusted surface `gateway/trusted_surface.py` | held requests, in memory | hold, get, decide | called by the service and by a person's browser |
| Merchant service `merchant/service.py` | none of its own | create, complete, pay a checkout; search, check a product | all of the above |
| Checkout store, catalog `merchant/checkout.py` | carts, checkouts and stock, in memory | assemble, open, recheck, commit stock, take | the service |
| MCP server `merchant/mcp_server.py` | none | the tools, one call at a time in a process | the service |
| Shopping agent `shopping_agent/` | its goal, the basket it settled on, the searches it has left | choose a product, present, wait for an approval, pay, interpret | the MCP tools; the approval page |
| Webhooks `gateway/webhooks.py` | ids of events seen, in memory | receive an event | the audit log |
| Audit log `gateway/audit.py`, `gateway/db.py` | a hash chain in SQLite | append in a transaction, verify, the report of `GET /audit` | everybody appends |
| Configuration, policy, app | read at start | | |
| `llm/`, `demo/`, `bench/`, `redteam/`, `scenarios/`, `video/`, `slides/` | | wording, and drivers of the system | |

What is hard here, and what the properties are for:

* several threads and several processes on one SQLite file, with most methods of
  the processor being several statements long;
* a rail that can capture a payment and lose the answer, decline, time out, fail
  a probe, or be paid after the gateway stopped waiting;
* a process that dies between any two statements and starts again with its
  memory gone and the ledger intact;
* a lease with an expiry, a breaker with a reset interval, mandates and holds
  that lapse;
* checks (budget, nonce, stock, "already settled") made at one time and relied
  on at another;
* a log that several threads and processes append to, each row chained to the last,
  and a receiver that is delivered the same event again, or a forged one;
* a file of keys rewritten during start-up, on which old receipts depend;
* people clicking twice.

What would make each part correct: an order, and with it a mandate, charges once,
and nothing is booked or confirmed that was not charged; a checkout is settled once
and by its own mandate; a decision taken by a person stays; money moves only under
an authorisation its user signed, for the key it names, within its constraints; the
agent's report agrees with the money; the log is one chain and has what was
acknowledged; receipts stay verifiable.

`PROJECT.json` lists each of these hazards at the line where it bites, with the
properties that would notice.

## 2. The modules

    Identifiers                    names shared by all
      Ledger   Rail                durable state, one operator per statement
      CircuitBreaker               one per process
        Payments                   run + execute_payment + finalise_failure
          MCLiveness               instances for one worker
          PaymentsInvariants       the inductive invariants
            MCPayments             instances for several
            Overruns               a history of the leases that lapsed under an attempt
              MCOverruns           instances for several
              PaymentsProofs       theorems for any rail and any concurrency
                SequentialProofs   theorems for one call per mandate, and OneCharge
      MoneyPath                    what the money path keeps to, whoever calls
      OneCharge                    what it promises to one call at a time
      Verifier   TrustedSurface    the checks; the approval page
        Storefront                 the service over MoneyPath
          MCStorefront             instances for TLC
          StorefrontProofs         theorems
      RailContract                 what a rail promises the money path
      RailCalls                    both rails from the inside
        MCRails  RailProofs        instances; theorems and the refinement
    AuditChain                     the log, its transactions, its report
      Webhooks                     the receiver over the log
        MCTrail  TrailProofs       instances; theorems
    Mandates                       tokens, and the verifier's checks on them
      Signing                      keys, start-ups, grants, and what may be paid
        MCSigning  SigningProofs   instances; theorems
    Agent                          the agent's loop over the merchant's answers
      MCAgent  AgentProofs         instances; theorems
    Sums                           lemmas: sums over finite sets, least elements, counting

**Ledger.** `status`, `noted` (the order ids of the record, a set, since no
decision depends on their order; the record has had an attempt exactly when it is
not empty), `leased`, `receipt`, `spent`, `burned`. Each SQL statement or
transaction that changes state is one operator. Methods that are two statements
(`note_order`: read the record, write the list back; `finalise`: check the
status, update) are two steps of their callers, because another connection can
run in between.

**Rail.** An order is unused, created, payable or captured, and belongs to the
mandate in its notes. Two constants tell rails apart: `CallsMayFail` (an order
creation or a probe raises instead of answering; Razorpay's client does, the
simulator does not) and `PaidLate` (an order stays payable after the gateway gave
up on it, as a Razorpay payment link does). Losing the *answer* to a payment is
possible on every rail: the simulator has that case built in.

`Rail` takes a call to the rail as one step. **RailCalls** opens those steps:
`FakeRail` with its programmed rules (the first that matches is consumed) and
`RazorpayRail` with the lookup, the amount, the payment link and the poll, while the
buyer starts and ends payments on the hosted page and the caller may die anywhere.
**RailContract** is what the callers may rely on: an answer "captured" is true; a
refusal is final on a rail whose orders do not stay payable; nothing is said by a
timeout. `KeepsContract` says that both rails implement it.

**CircuitBreaker.** The code as it is, the half-open state included.

**Payments.** A *worker* is one call of `run` at a time, and stops between any
two ledger statements and around each rail call. `ProcessOf` says which workers
share a process, so a breaker and a death. Whether the shelf still has the goods
at the top of a rung is another component's answer, here a free choice.

| Steps of a worker (`pc`) | Code |
|---|---|
| idle to claim or fail | `run`: breaker, top of the loop, stock check |
| claim, lease | `_claim_exclusively`: claim and read the record, then the lease, or wait, or `ConcurrentAttemptError` |
| probe | `_attempt`: burn the nonce on the first attempt, `_find_prior_capture` over the record read at claim |
| create, note, write | `create_order`, then the two statements of `note_order` |
| pay | `complete_test_payment`: captured and heard of, captured and lost, declined, rejected, lost |
| spend, settle, close | `_settle_captured`: `record_spend`, the check and the update of `finalise` |
| release | the `finally`, and what `run` makes of the result |
| fail, fail_check, fail_write | `finalise_failure`, without a lease |

**Overruns.** `Payments` with one more variable, which for each mandate says whether a
lease ever lapsed under a live attempt, and whether attempts from that time still run.
`ATTEMPT_LEASE_SECONDS` is 120 (`payments.py:65`) and the Razorpay rail polls for 180
by default (`razorpay_client.py:516`), so this does happen. The properties of the lease
are stated over it: they except the overrun, and nothing else.

**MoneyPath, OneCharge.** Two specifications of what callers may rely on. `MoneyPath`
is what holds of any number of calls on one mandate, over any rail and with leases that
overrun: an order belongs to one mandate, only a charged mandate is booked, only a
booked one gets a captured receipt. It lets a receipt be written over another, because
`finalise` checks and updates in two statements (`ledger.py:281-294`) and
`finalise_failure` holds no lease. `OneCharge` adds, for one call at a time per
mandate, that the charge happens once and that nothing happens after the receipt. A
refusal promises nothing about the charge; that stronger claim of `finalise_failure`
is checked on its own (section 4).

**Verifier.** The checks that a well-formed, correctly signed mandate can fail,
as a conjunction over the mandate, the authorisation in it and the ledger's view.

**TrustedSurface.** Held purchases, with `decide` in two steps: the look at the
status, and the write after three signatures. An expired hold becomes so when
somebody looks, as in the code. `Clicks` are the threads of the pool that serve the
route, and `decided` counts a hold's decisions in the audit log.

**Storefront.** `create_checkout`, `complete_checkout` and `initiate_payment` with
the steps of the latter apart (stored receipt, settled checkout, stock, verifier,
payment, commit of the stock), the shelf, the approval page, an agent that may
present any mandate for any checkout at any time and reuse a nonce, and a restart
that forgets everything in memory. The money path appears through `MoneyPath`'s
actions only, in the order `run` takes them: `KeepsMoneyPath` (section 5) shows that of
`Payments` for any number of calls on one mandate. The look at the record and the write
of the receipt are two steps here too (`SettleCheck` and `Confirm`, `FailCheck` and
`Refuse`), so of two calls on one mandate the one that writes last has the receipt:
captured becomes failed after "paid" was answered, and what is claimed of answers and
settled checkouts is about the charge behind them and not about the receipt that
stands. A payment that arrives with no attempt under way (a link paid late) is in
`Payments` and not here.

`Verifier` sees a mandate as a buyer does. **Mandates** has the checks as the code has
them: a token is an envelope (kid, issuer, signing key, lifetime) around a body whose
constraints are a set of records, and `verify_payment_mandate` parses, verifies,
unpacks the authorisation inside and evaluates the checks in their order, each with
the three outcomes ok, fail and *raises*. `StorefrontSeesTheSame` ties the two
together: for whatever a signer of the gateway wrote they allow the same.

**Signing.** Two lives of a gateway. Start-up draws the missing keys one after the
other and rewrites the keystore file for each (truncate, then write: `phase` is
`writing` in between), fills the keyring and signs the standing authorisation;
`delegate_to` registers another agent's key; the page signs one-time authorisations.
Anything those keys can sign may be presented, old and stolen authorisations and
altered mandates included. A call whose mandate the verifier allows (`Verify`) burns
the nonce (`Attempt`), captures (`Capture`) and books the spend (`Book`), each a step
of its own beside the other calls, and may be declined, go unanswered or die before any
of them (`Drop`, `Die`); until it is booked a mandate may be presented again. The
ledger's sum, which the verifier reads, has what was booked and nothing else. A key is a number in
the order of generation, so two keys are never equal by accident, and the key of
another person's agent is its name.

**AuditChain, Webhooks.** A hash is the sequence of everything hashed into it, which
is what collision resistance gives. An append is begun (lock, read the tip) and
committed or rolled back. `report` is what a reader of `GET /audit` was told: verdict
and tip are two statements. `Tamper` edits, forges, deletes or inserts a row behind
the log's back. Over it, a delivery (`job`) is verified, looked up in `seen`,
remembered, recorded, and answered; Razorpay delivers until it hears a 2xx, anybody
may post an unsigned body, and the process may die or fail to write at each point.

**Agent.** `attempt` with each tool call a step, because the shelf moves between any
two of them: the choice of a product with its bounded number of searches, the basket,
the presentation, the wait for a person, the payment, and what each answer is reported
as. Whether a verifier refuses and how a payment ends are free here. Every product
ships to the goal's pincode, and a price that changed under the basket is answered
like a unit that is gone, which is what the code does with both.

## 3. What the passing runs show

| Run | Instance | States | Shows |
|---|---|---|---|
| `MCSequential` | one worker, 2 mandates, 12 orders, 1 crash, ladder of 2, breaker at 2, reliable probes | 419 thousand | at most one capture, no order after a capture, `ImplementsOneCharge` (with it, receipts are final), and a claimed mandate gets its receipt if its caller keeps asking |
| `MCThreads` | two processes, 1 mandate, 2 orders, 1 crash, ladder of 2, calls may fail, late payments, leases that overrun | 1.9 million | spends and captured receipts backed by money; `ImplementsMoneyPath` |
| `MCLeases` | the same, with the history of `Overruns` | 2.3 million | one attempt per mandate under way and every payable order on record, unless a lease lapsed under an attempt |
| `MCStorefront` | one caller, 2 checkouts, 2 mandates, 1 hold, two clicks at once, 1 restart, one checkout above the limit, budget for two purchases | 469 thousand | one receipt per checkout, one charge per nonce, stock committed before "paid" is answered, a hold decided by the clicks that found it pending and by no later one |
| `MCStorefrontThreads` | two callers, 2 checkouts at prices 2 and 1, 2 mandates, limit 2, budget 1, one unit in stock, 1 restart | 3.3 million | answers and settled checkouts rest on money moved for that very checkout, each sale counted once on the shelf, at most one purchase over the budget and one sale over the shelf |
| `MCRails` | both rails, 2 mandates, 1 order, 3 payments on it, 2 rules | 645 thousand | an order takes one capture, and both rails keep `RailContract` |
| `MCTrail` | 2 threads, 1 event, 3 rows, 1 restart, 1 change behind the log's back | 2.1 million | the untampered chain verifies, a published tip pins the history under it, damage is located, an event is recorded once per life and acknowledged only when recorded |
| `MCSigning` | with and without keystore, 2 lives, 1 other agent, 2 calls at once, 2 grants, 2 payments, 2 instants | 262 thousand | receipts stay verifiable, money follows the delegation and stays in the range, payees, window and cart, at most one purchase is booked over a budget, both models of the verifier agree |
| `MCAgent` | 2 agents, 2 products of one unit, one of them in scope, 2 searches | 206 thousand | every attempt ends, its status tells the truth about the money, nothing is forced past a person |

Notes on the instances:

* *Orders* are finite in the model and not in the code; a worker that runs out
  stops at `create`, which is why deadlock is not checked. `MCSequential` has
  twelve, so that it never runs out within its bounds (two mandates, a ladder of 2
  that a breaker trip or a crash can restart), and there orders are numbered and
  minted in sequence in place of symmetry, which would be unsound for liveness.
* Two attempts at once is the interesting case of `MCThreads` and `MCLeases`: two
  processes on one mandate reach every interleaving of the lease, with an expiry under a live
  attempt or without. A third process would queue for the lease, or overrun as the
  second does. Two orders are enough for each process to make one.
* The properties of the lease except a mandate from the moment its lease lapses under
  an attempt: `OneAttemptUnlessOverrun` for as long as the attempts of that time last
  (afterwards the lease excludes again), `NotedUnlessOverrun` for good, because the
  order id that two interleaved `note_order` calls lose stays lost.
* `MaxCrashes`, `MaxRestarts` are bounds on exploration and not of the code.
  Failure counts in the breaker stop at the threshold (`FailureCap`), beyond which
  the code does not tell them apart.
* In `Storefront`, whether a mandate is late is chosen afresh at each
  presentation; every cart is one unit of one product; prices do not change while
  a process runs; the agent signs the cart's total. `Outside` lists checkouts at
  merchants the buyer did not list; it is used in `MCDoubleClick`.
* `PaidMeansCommitted`, `OneReceiptPerCheckout`, `BudgetKept`, `NonceChargedOnce`
  and `NeverOversold` are claimed for one call at a time, which is what the MCP
  server makes of the service (its tools do not run in threads). With two callers
  inside `initiate_payment` they do not hold: each checks before the other has
  booked or committed. The code says so itself for the stock
  (`merchant/checkout.py`, `take`), whose shortfall it reports rather than
  prevents. What n calls at once can cost is bounded: `OverspendBounded` allows n - 1
  purchases over the budget, `OversellBounded` n - 1 checkouts without a unit. In
  `MCStorefrontThreads` both happen: the budget is 1, and two purchases at 1 that were
  verified together are both booked; the last unit is sold twice. Of `BudgetKept`
  and `NeverOversold` no run is left: a run with one caller would check the same
  bounds with n = 1, and both are theorems (section 5).
* `DecisionsBounded` counts decisions against the clicks that can be under way at once:
  `MCStorefront` has two, and a hold is decided twice in it, by two clicks that both
  found it pending. The sentence in the code, that a double click mints no second
  mandate, is false of it (`MCDoubleClick`, section 4).
* `MCRails`: three payments let one be captured, one fail and one stay open, in
  every order of listing, and let the simulator decline, time out and capture; two
  rules are enough for the first match to be spent and the next one used.
* `MCTrail`: three rows are a record, a money row and one more, the least with an
  inner row to tamper with; the second thread is the money path, the first the event
  loop. One event suffices since events do not meet anywhere but in `seen`.
* `MCSigning`: limit 2 and daily budget 1 with prices 1, 2 and 3 reach an amount within
  both, one within the limit and over the budget, and one over both, which is what the
  buyer is asked to approve. An agent's two calls are verified before either has
  booked: 2 is booked under a budget of 1, by payments of 1, where the bound is budget
  plus limit. A lifetime of 0 with skew and drift of 1 reaches both sides of every
  window in two instants (and dates before and after them). Two grants are any two of:
  the standing authorisation of each life, a delegation, an approval. A third life
  repeats the second. `MaxTogether` caps grants, receipts and payments as a sum, at
  one less than their own bounds together.
* `MCAgent`: one unit of each product, two searches and two agents let a unit go
  between any two calls, and the searches run out; the other buyers' actions stand
  for any number of them.
* Deadlock is off in `MCRails`, `MCTrail`, `MCSigning` and `MCAgent` too: payments,
  rows, grants and attempts end, and with them what can happen.
* The runs with a crash stand for a durable rail: the simulator's orders live in
  the gateway's memory and would die with it.

**Fairness.** `FairSpec` assumes that a call that can take a step takes one (a
thread is scheduled), that a lease in the end expires and that a breaker's
interval passes (both are clocks). It does not assume that the rail ever answers,
that an attempt succeeds, or that anybody presents a mandate twice. That last
condition is in the property, not in the specification: `NeverWedged` is about a
caller that keeps asking (`KeepsAsking`), as the deferred answer invites it to
(`retry_after_seconds`, `merchant/service.py`). The agent in `shopping_agent/` does
not: it reports a deferral and stops, and its mandate stays in flight. The
property is for one worker, and presumes that the service still lets the mandate
through: after a restart the checkout is forgotten, and a mandate's execution
date has a tolerance of minutes, so a caller that comes too late is refused by
the verifier, not answered by the money path.

`Agent`'s `FairSpec` assumes that every call `attempt` awaits comes back: its tools
answer, and the wait for a person has a deadline of its own
(`shopping_agent/human.py`). Nobody has to decide, and the shelf owes nobody a unit:
`AttemptEnds` holds although a product may be there at each search and gone at each
confirmation, because a confirmation that fails uses up a search.

## 4. Where the code does not keep its word

Each of these runs checks one sentence of the code and ends in a counterexample. Those
under "findings" in `PROJECT.json` are the first three; the others are kept to be run
by hand, `tlc -config <run>.cfg <module>`.

| Run (module) | Sentence | What happens |
|---|---|---|
| `MCStaleRecord` (`MCPayments`) | one charge per mandate (`payments.py:11`) | two threads: the record is read before the lease is taken, so the probe goes over an old list of orders, finds nothing, and a second order captures |
| `MCFailedReceipt` (`MCPayments`) | a failed receipt is a contract that nothing was charged (`payments.py:391`) | one thread: the last rung captures and its answer is lost; `finalise_failure` does not probe |
| `MCPaidTwice` (`MCStorefront`) | a checkout is paid once (`service.py:547`) | a charge nobody acknowledged leaves the checkout unsettled; the probe does not look past its own mandate, and a second one is charged |
| `MCNeverRaises` (`MCSigning`) | the verifier never raises for a bad mandate (`verify.py:658`) | an execution date without a time zone parses, and cannot be subtracted from an aware `now`: `TypeError` in place of DENY |
| `MCProbeUnanswered` (`MCPayments`) | a rail that is down cannot have charged (`payments.py:515`) | one thread: a capture is lost, the probe of that order fails, the rail is back for the next order |
| `MCLeaseOverrun` (`MCPayments`) | the lease is longer than any rail call (`payments.py:62`) | 120 s of lease against 180 s of polling: two attempts on one mandate |
| `MCReceiptOverwritten` (`MCPayments`) | finalise refuses to overwrite a terminal record (`ledger.py:275`) | the check and the update are two statements and `finalise_failure` has no lease: captured becomes failed |
| `MCDoubleClick` (`MCStorefront`) | a double click must not mint a second mandate (`trusted_surface.py:202`) | `decide` has no lock and its route runs in a pool of threads |
| `MCWebhookForgotten` (`MCTrail`) | not silently swallowed with a 200 (`webhooks.py:104`) | the id is remembered, the append raises and is answered 500; the retry is a duplicate, answered 200, and no row says the event was received |
| `MCDelegation` (`MCSigning`) | an agent gets "not a rupee more" (`bootstrap.py:105`) | each delegation, and each start-up, signs a mandate with a daily budget of its own (a bound on all of them together does hold, `DelegationBounded`) |
| `MCSoldOut` (`MCAgent`) | a basket that sold out is not a refused mandate (`agent.py:559`) | a unit that goes between the confirmation and `assemble_cart` is answered `product.out_of_stock`, which `_abandon` does not know, and the attempt is reported as rejected |

Also seen while modelling, with no run of their own:

* a failure in the half-open state does not re-open the breaker
  (`recovery.py:111`): its interval is counted from the first trip, so the state
  stays half-open until a success;
* `max_attempts` caps the rungs of one call of `run`, not those of a mandate
  (`config/policy.yaml:43`): a deferral starts the ladder over;
* when leases overrun, two interleaved `note_order` calls lose an order id
  (`ledger.py:258`): this is the case `NotedUnlessOverrun` excepts;
* captured money that is not booked (a crash or a lost answer before `record_spend`) is
  in no budget's sum (`payments.py:438`): a mandate presented again books it, one that
  is not never does;
* after a failed receipt written by another thread, an attempt under way still
  creates its order (`ledger.py:71` says the record is terminal);
* refusals of the service say `charged: False` also for a mandate whose charge was
  captured and never acknowledged (`service.py:574`);
* a poll that sees a newer failed payment before an older captured one answers
  "declined" of a paid order (`razorpay_client.py:594`; `DeclineIsDefinite` in
  `RailCalls` states what the code does not keep);
* `verify_chain` raises for a row whose payload is not JSON, where it promises a
  report (`audit.py`); rows cut off at the end of the table are noticed only by
  whoever kept the tip, as `LIMITATIONS.md` says;
* the class comment of the receiver has a webhook resolve a payment, and the code
  only records it (`webhooks.py`);
* `KeyRing.register` refuses another key under a known kid, but takes another role for
  the same key in silence (`mandates.py:302`);
* the checkout receipt's signature lapses with the checkout's own lifetime, after
  which it no longer verifies (`service.py:361`).

## 5. What is proved

The money path, for every number of workers, processes, mandates, orders, crashes and
attempts:

| Theorem | Assumes | Says |
|---|---|---|
| `TypeCorrect` | nothing | `TypeOK` |
| `SpendIsBacked` | nothing | `SpendBackedByCapture` |
| `ReceiptIsBacked` | nothing | `CapturedReceiptBacked` |
| `KeepsMoneyPath` | nothing | `ImplementsMoneyPath` |
| `LeaseExcludes` | nothing | `OneAttemptUnlessOverrun` |
| `NoOrderForgotten` | nothing | `NotedUnlessOverrun` |
| `ChargesAtMostOnce` | no mandate in two calls at once; probes answered; no late payment | `AtMostOneCapture` |
| `ReceiptsAreFinal` | the same | `ReceiptIsFinal` |
| `NoFurtherOrder` | the same | `NoOrderAfterCapture` |
| `KeepsPromise` | the same | `ImplementsOneCharge` |

"Nothing" means any rail, any concurrency and leases that overrun; the named
`ASSUME`s on the constants (`PaymentsAssumption`, `RailAssumption` and so on) are
always there, and TLC evaluates them in each run. "No mandate in two calls at once"
is `[]OneCallPerMandate`: any number of threads and processes, each busy with a mandate
of its own, whatever crashes, timeouts and expiring leases come in between. The lease
is meant to make it unnecessary and does not: `MCStaleRecord` charges twice with two
calls on one mandate and nothing else amiss.

The argument has three layers, in `PaymentsInvariants` and `Overruns`:

1. `Accounting`. The two accounting properties are not inductive alone: that a
   worker at `spend` or later holds a captured order *of its own mandate*
   (`SettlesCaptured`) needs orders to stay with their mandate in every record and
   every local copy, and two workers never to hold the same fresh order
   (`OrdersBelong`).
2. `Exclusion`. It is said of each mandate by the history of its leases. While no
   overrun is under way the lease is up for as long as an attempt lasts (`Leased`),
   hence one attempt at a time: a lease that lapses either lapses under nobody, or
   starts an overrun, which is over when no attempt is left. While there never was one,
   `note_order`'s read and write are not interleaved with another's (`Noted`), hence
   nothing payable is missing from the record.
3. `Sequential`. When no other call is on its mandate, the record read at claim is
   current at the probe (`ProbeIsCurrent`), so a probe that finds nothing means nothing was captured,
   which is what makes the next order safe; no receipt can appear in the middle of
   an attempt (`OpenWhileAttempted`). Calls on other
   mandates may run beside it: they share a process and its breaker, and no order and
   no record. `MCStaleRecord` shows the layer fails with two calls on one mandate,
   `MCProbeUnanswered` that it fails with a probe unanswered.

`KeepsPromise` maps `charge` to the captured orders of a mandate, `booked` to its
spend and `outcome` to its receipt: `PayCaptures` is `Charge`, `CountSpend` is
`Book`, `SettleWrite` is `ConfirmReceipt`, `FailWrite` is `RefuseReceipt` and every
other step is a stutter. `KeepsMoneyPath` has the same mapping and needs only
`Accounting`: a late payment is a `Charge` as well, and a receipt written over another
one is what `MoneyPath` allows.

Everything else, for every value of the constants:

| Module | Theorem | Assumes | Says |
|---|---|---|---|
| `StorefrontProofs` | `ShopTypes` | nothing | `TypeOK` |
| | `AnswersMatch`, `SettledByCharge`, `ShelfAddsUp` | nothing | `AnswersThisCheckout`, `SettledByItsCharge`, `ShelfBalances`; also of calls on one mandate, whose receipts may replace each other |
| | `PaidOnce`, `NoncePaysOnce`, `PaidIsCommitted`, `NothingOversold`, `BudgetIsKept` | one call at a time | `OneReceiptPerCheckout`, `NonceChargedOnce`, `PaidMeansCommitted`, `NeverOversold`, `BudgetKept` |
| | `OverspendIsBounded`, `OversellIsBounded` | nothing | `OverspendBounded`, `OversellBounded`: with n calls at once at most n - 1 purchases over the budget, and n - 1 checkouts without their unit |
| | `ReceiptsBounded`, `NonceUseBounded` | nothing | `ReceiptsPerCheckout`, `ChargesPerNonce`: with n calls at once at most n captured receipts for a checkout, and n mandates charged under a nonce |
| | `DecidedOnce` | nothing | `DecisionsBounded`: with n clicks at once a hold is decided at most n times, so once where clicks come one at a time |
| `RailProofs` | `RailTyped` | nothing | `TypeOK`, the caps on payments and rules included |
| | `OrderPaidOnce`, `RailsKeepContract` | nothing | `OneCapturePerOrder`, `KeepsContract` |
| `TrailProofs` | `TrailTyped` | nothing | `TypeOK` |
| | `ChainStaysWhole`, `ReportIsCovered` | nothing | `UntamperedVerifies`, `TipCoversReport` |
| | `TipIsPinned`, `BreakIsLocated` | nothing | `TipPinsHistory`, `DamageLocated`, whoever rewrites the table behind the log's back |
| | `EventRecordedOnce`, `AcknowledgedIsRecorded`, `ReplayedIsReceived` | nothing | `RecordedOnce`, `AcknowledgedMeansRecorded`, `ReplayedMeansReceived` |
| `SigningProofs` | `SigningTypes`, `ReceiptsVerify`, `MoneyIsDelegated` | nothing | `TypeOK`, `ReceiptsStayVerifiable`, `MoneyFollowsDelegation` |
| | `ConstraintsHold` | nothing | `EveryConstraintHolds`: range, payees, window and cart of everything ever paid; the budget of what is booked, up to n - 1 purchases of n calls at once |
| | `VerifierIsFaithful` | nothing | `StorefrontSeesTheSame` |
| | `DelegationBounded` | nothing | `DelegationIsBounded`: what is booked for all the agents together is, for each authorisation that a start-up or a delegation signed, at most one daily budget and n - 1 purchases of n calls at once |
| `AgentProofs` | `AgentTypes`, `TellsTheTruth`, `NothingForced` | nothing | `TypeOK`, `StatusIsTruthful`, `ForcedNothing` |

The invariants behind them, and why the properties need them:

* *Storefront.* `ShopInv` adds to the three properties that a call past a check holds
  what the check saw of its own checkout and mandate (`Honest`), and that a mandate is
  signed before it is charged (`SignedFirst`). With one call at a time `AloneInv` has:
  what the only caller has checked is still so (`Alone`); a charged mandate has burned
  its nonce (`Burnt`), so a second one
  with that nonce fails the verifier; a captured receipt settles its checkout in the
  same call, or the process dies and the checkout with it (`Delivered`), so two
  receipts cannot meet on one checkout (`Unique`). `ClicksInv`: the decisions of a hold
  and the clicks on it that are under way are together at most the clicks, because
  nobody begins on a hold that is decided.
* *Storefront, n calls at once.* The idea is the same four times: a check bounds what
  is past it, and whoever comes later is stopped by it. `Budgeted`: for some call
  among those that were verified and have not booked (`InFlight`), what is booked, its
  own price and a purchase for each of the others stay within the bound (`Suffices`).
  Whoever was verified last is such a call, and when it has booked or left, any other. `ShelfInv`:
  while units are left nothing is short; once none is, the checkouts found short and
  the ones that calls past the stock check still hold (`Short`) are fewer than the
  calls, for the unit gone last was taken by one of them, and nobody joins.
  `ClaimInv`: the mandates that have a receipt for a settled checkout or are past its
  guard (`Claims`) are at most the calls, and once it is settled none is added.
  `NonceInv` says it of the mandates with a burned nonce that were charged or are past
  the verifier (`Users`). `BudgetIsKept` is the case n = 1 of the first.
* *Rails.* `StepsAreReal`: each kind of call is only ever at the steps of its own
  rail. Paid orders are looked for before each payment of the simulator, and
  Razorpay's page takes no second one, so a capture is added only where there is
  none. The refinement maps every call under way to "asked".
  `Bounded` has what `TypeOK` adds: the rules stay a sequence of rules because the one
  that matched is used up only while it has uses left.
* *Trail.* The write lock makes the tip that was read the tip that is extended
  (`Shape`: one transaction at a time), so the table and the log of appends stay
  equal until a tamper (`Intact`). `Remembered`: what is in `seen` is in the log, or
  about to be, or its first record raised; `Once`: in the first life also the other
  way round. Together they carry the three promises across every death in between.
  `Pinned`: the published tip spells every row under it, because the chain it was read
  from was whole; a table rewritten later can only end in that tip by spelling the same
  rows. `Cut`: after one change there is a place below which the rows are the appended
  ones and two rows beyond which nothing is damaged, which is what an append after the
  change keeps, since it links to the tip it read.
* *Signing.* `RingInv`: the gateway's kids carry its own keys in their own roles, and
  any other kid is an agent's, so only the buyer's signer passes for a user; the key
  binding and `GrantInv` do the rest, for every payment in hand, burned or paid
  (`Follows`), each with a number that names it (`CallInv`). `FileInv`: a file on which a
  receipt rests holds all the keys, so no later start-up has a key to draw, and the
  file is never truncated again. `AuthorityInv`: the gateway's signers write only
  authorisations of known constraints, one of a type, each under a number of its own.
  `PaidInv`: every payment, from its verification on, is within the constraints of its
  authorisation, whenever it is captured later. `BudgetInv` is the argument of
  `Budgeted` over again for each authorisation: for some call that was verified and has
  not booked (`Due`), what is booked, its own amount and a purchase for each of the
  others fit (`Fitting`). It says nothing of a payment that was captured and dropped
  until that is presented again, when the verifier has to allow it once more. The two
  models of the verifier are compared check by check (`EachCheck`, `PlainVerdict`). For
  delegation, what is booked is shared out over the authorisations it was made under
  (`SumOfShares`).
* *Agent.* `Entitled`: who is paying for a basket out of scope has shown what a
  person signed; `UnchargedUntilDone`: no status that denies a charge is given after
  one.

The assumptions on the constants are named where the constants are declared:
`RailAssumption` and `NoneAssumption`, `CallersAssumption`, `PaperAssumption`,
`ContentsAssumption` and their like say that the value for "none" is no mandate, no record and no state's
name, that bounds are numbers, that the sets of checkouts and callers are finite and somebody calls, that the log
takes any row of the receiver's, and that another person's key is none of the
gateway's.

Sums and chains are where induction over data would be the natural argument, and the
provers cannot instantiate the library's theorems for it. `Sums` gets by without: among
the subsets of a finite set, or among numbers, for which a statement fails one is least
(the strict order on finite subsets is well founded), and the statement is refuted
there. That gives what the budgets need: that a sum does not depend on the order in
which the fold visits the set, splits at an element and over a partition, and grows
with a set of payments; and for the chain, that two equal tips have equal rows below.

Only model-checked: `NeverWedged` and `AttemptEnds`, since liveness and what is enabled
are out of the prover's reach, and the sentences of section 4, which are false.

## 6. Not modelled

* Cryptography, hashing and parsing as computations: a signature is the key that made
  it, a hash what it commits to. The checkout mandate's own parsing; `Storefront` has
  its constraints.
* The wording of reasons, the catalog's search filters and the agent's choice among
  the candidates (any of them may be chosen), configuration and policy (constants by
  the time anything runs), the MCP server (it forwards one call at a time).
* The keystore's permission bits, the disk's own buffering (a write that was
  acknowledged is there after a crash), and two processes that share a first start of
  one keystore, which `LIMITATIONS.md` rules out.
* What a webhook's payload says: it changes no payment.
* Prices that change while a process runs, in `Storefront`.
* `Catalog.decrement`, which only a test calls.
* Demos, benchmarks, the red team, scenarios and media, which drive the system.

## 7. Plan

Done: the money path with its proofs, the storefront and its proofs, both rails and
their contract, the audit chain under the webhook receiver, keys, grants and mandates,
the agent's loop. Every safety property a passing run checks is a theorem as well.

What is left would add less:

1. The breaker with a clock, in place of a reset that may happen at any time.
2. `Agent` over `Storefront` as one composition, in place of an agent over free
   answers and a storefront under free presentations.
