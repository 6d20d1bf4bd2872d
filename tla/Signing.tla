------------------------------ MODULE Signing ------------------------------
(***************************************************************************)
(* Who may sign what, across the lives of a gateway: the keystore file of  *)
(* gateway/keystore.py, the start-up of gateway/bootstrap.py that draws    *)
(* the keys, fills the keyring and signs the buyer's standing              *)
(* authorisation, the delegation to agents of other people, the receipts,  *)
(* and the payments that verify_payment_mandate lets through.              *)
(*                                                                         *)
(* A call verifies its mandate, burns the nonce, captures and books the    *)
(* spend, one after the other and beside other calls, and may end in       *)
(* between.  How the rail is kept from capturing twice for one mandate is  *)
(* the subject of Payments; here a mandate captures once.                  *)
(*                                                                         *)
(* Keys are numbers in the order they were generated; the key of another   *)
(* people's agent is its own name.  One process uses the keystore, as      *)
(* LIMITATIONS.md asks, and it may die at any point.                       *)
(***************************************************************************)
EXTENDS Mandates, Functions, Sequences

\* The signers of a gateway, in the order of its start-up.
BootOrder == <<"user", "agent", "merchant", "mpp">>
Kids == {"user", "agent", "merchant", "mpp"}

CONSTANTS Agents,       \* other people's agents
          Callers,      \* calls of initiate_payment at once
          None,         \* no payment
          Shop, Other,  \* a payee on the buyer's list, and one that is not
          Carts,        \* hashes of signed checkouts
          Prices,       \* amounts
          Holds,        \* (cart, amount) the buyer may be asked to approve
          Limit, Daily, \* per-purchase limit and budget of the standing authorisation
          StandingTtl, ClosedTtl,
          MaxLives, MaxNow, MaxGrants, MaxReceipts, MaxPayments,
          MaxTogether   \* grants, receipts and payments

ASSUME SigningAssumption ==
  /\ Prices \subseteq Nat \ {0} /\ Holds \subseteq Carts \X Prices /\ Limit \in Nat /\ Daily \in Nat
  /\ StandingTtl \in Nat /\ ClosedTtl \in Nat
  /\ Agents \cap (Nat \cup Kids) = {}
  /\ IsFiniteSet(Callers) /\ Callers # {}
  /\ {MaxLives, MaxNow, MaxGrants, MaxReceipts, MaxPayments, MaxTogether} \subseteq Nat

VARIABLES persistent, \* GATEWAY_KEYSTORE names a file
          file,       \* the keystore: absent, torn, or its keys
          phase,      \* down, booting, writing (the file), up
          keys,       \* _keys of the keystore, or the keys drawn so far
          ring,       \* the keyring: kid to role and public key
          minted,     \* keys generated so far
          held,       \* every (kid, key) a gateway has signed with
          now,
          granted,    \* every open mandate the buyer's signer has signed
          receipts,   \* (kid, key) of every receipt issued
          stage,      \* how far each call is: idle, verified, attempting, captured
          payment,    \* what it pays
          burned,     \* the payment whose mandate burned each nonce
          paid,       \* every payment whose money moved
          booked,     \* ids of the payment mandates in the spend table
          lives

callVars == <<stage, payment>>
moneyVars == <<burned, paid, booked>>
vars == <<persistent, file, phase, keys, ring, minted, held, now, granted, receipts, callVars,
          moneyVars, lives>>

Absent == [is |-> "absent"]
Torn == [is |-> "torn"]
Holding(ks) == [is |-> "ok", keys |-> ks]
NoKeys == [k \in {} |-> 0]

Init ==
  /\ persistent \in BOOLEAN
  /\ file = Absent /\ phase = "down" /\ keys = NoKeys /\ ring = NoKeys
  /\ minted = 0 /\ held = {} /\ now = 1
  /\ granted = {} /\ receipts = {} /\ lives = 0
  /\ stage = [k \in Callers |-> "idle"] /\ payment = [k \in Callers |-> None]
  /\ burned = {} /\ paid = {} /\ booked = {}

\* Mandates that are being paid for, or were, and the number of the next one.
InHand == {payment[k] : k \in {c \in Callers : stage[c] # "idle"}}
Used == {p.id : p \in InHand \cup burned \cup paid}
NextPayment == Min((1 .. MaxPayments + 1) \ Used)

Room == Cardinality(granted) + Cardinality(receipts) + Cardinality(Used) < MaxTogether

(***************************************************************************)
(* Start-up.                                                               *)
(***************************************************************************)
\* Keystore._load: a file that cannot be read is an error, never a fresh start.
Start ==
  /\ phase = "down" /\ lives < MaxLives
  /\ persistent => file.is # "torn"
  /\ lives' = lives + 1
  /\ phase' = "booting"
  /\ keys' = IF persistent /\ file.is = "ok" THEN file.keys ELSE NoKeys
  /\ UNCHANGED <<persistent, file, ring, minted, held, now, granted, receipts, callVars, moneyVars>>

\* The signers that have no key yet, by their place in the order.
Missing == {i \in DOMAIN BootOrder : BootOrder[i] \notin DOMAIN keys}

\* Mutant: the key is drawn and never written.
KeptInMemory == file

\* os.open with O_TRUNC: whoever dies now leaves a file that is not a keystore.
Truncated == IF persistent THEN Torn ELSE file

\* key_for, up to the write: a key is drawn and the whole file rewritten.
DrawKey ==
  /\ phase = "booting"
  /\ minted' = minted + 1
  /\ \E i \in Missing :
       /\ \A j \in Missing : i <= j
       /\ keys' = [kid \in DOMAIN keys \cup {BootOrder[i]} |->
                     IF kid = BootOrder[i] THEN minted + 1 ELSE keys[kid]]
  /\ file' = Truncated
  /\ phase' = IF file' = Torn THEN "writing" ELSE "booting"
  /\ UNCHANGED <<persistent, ring, held, now, granted, receipts, callVars, moneyVars, lives>>

Persisted ==
  /\ phase = "writing"
  /\ file' = Holding(keys)
  /\ phase' = "booting"
  /\ UNCHANGED <<persistent, keys, ring, minted, held, now, granted, receipts, callVars, moneyVars, lives>>

(***************************************************************************)
(* What the buyer signs.                                                   *)
(***************************************************************************)
NextId == Cardinality(granted) + 1

Standing(userKey, cnf) ==
  sign("user", userKey,
       open_payment_mandate(NextId,
         {AmountRange(1, Limit), Budget(Daily), AllowedPayees({Shop}),
          ExecutionDate(now - 1, now + StandingTtl)}, cnf),
       now, StandingTtl)

\* build_gateway, once it has its keys: the keyring, and the authorisation of
\* the house agent.
Assemble ==
  /\ phase = "booting" /\ Missing = {} /\ NextId <= MaxGrants /\ Room
  /\ ring' = [kid \in Kids |-> [role |-> kid, key |-> keys[kid]]]
  /\ held' = held \cup {<<kid, keys[kid]>> : kid \in Kids}
  /\ granted' = granted \cup {Standing(keys["user"], keys["agent"])}
  /\ phase' = "up"
  /\ UNCHANGED <<persistent, file, keys, minted, now, receipts, callVars, moneyVars, lives>>

\* Mutant: a kid that is known takes any new key.
RotatesSilently(kid, key) == TRUE

\* register: the same key again is fine, another under a known kid is not.
MayRegister(kid, key) == kid \in DOMAIN ring => ring[kid].key = key

delegate_to(a, kid) ==
  /\ phase = "up" /\ NextId <= MaxGrants /\ Room
  /\ MayRegister(kid, a)
  /\ ring' = [k \in DOMAIN ring \cup {kid} |->
                IF k = kid THEN [role |-> "agent", key |-> a] ELSE ring[k]]
  /\ granted' = granted \cup {Standing(keys["user"], a)}
  /\ UNCHANGED <<persistent, file, phase, keys, minted, held, now, receipts, callVars, moneyVars, lives>>

\* The Trusted Surface: for one purchase above the limit, bound to the buyer's
\* own key and pinned to the cart.
Approve(cart, amount) ==
  /\ phase = "up" /\ NextId <= MaxGrants /\ Room
  /\ granted' = granted \cup
       {sign("user", keys["user"],
             open_payment_mandate(NextId,
               {AmountRange(amount, amount), Budget(amount), AllowedPayees({Shop}),
                ExecutionDate(now - 1, now + ClosedTtl), Reference(cart)}, keys["user"]),
             now, ClosedTtl)}
  /\ UNCHANGED <<persistent, file, phase, keys, ring, minted, held, now, receipts, callVars, moneyVars, lives>>

IssueReceipt(kid) ==
  /\ phase = "up" /\ Cardinality(receipts) < MaxReceipts /\ Room
  /\ receipts' = receipts \cup {<<kid, keys[kid]>>}
  /\ UNCHANGED <<persistent, file, phase, keys, ring, minted, held, now, granted, callVars, moneyVars, lives>>

(***************************************************************************)
(* What anybody may present.  An agent of other people signs under any kid *)
(* and makes authorisations of its own; mandates signed by an earlier life *)
(* of the gateway turn up again; and a signer that holds a good            *)
(* authorisation gets one thing wrong.  A mandate that was let through is  *)
(* presented again until it is booked, with its old date or signed anew.   *)
(***************************************************************************)
Signatures == held \cup ((Kids \cup Agents) \X Agents)

SelfIssued ==
  {sign(kid, a, open_payment_mandate(0, {AmountRange(1, Daily)}, a), now, StandingTtl)
     : kid \in {"user"} \cup Agents, a \in Agents}

ACart == CHOOSE c \in Carts : TRUE
Price == Min(Prices)

Presented(signature, open) ==
  sign(signature[1], signature[2],
       closed_payment_mandate(NextPayment, Shop, Price, ACart, open, now), now, ClosedTtl)

Strangers == {Presented(s, o) : s \in Signatures, o \in granted \cup SelfIssued}

Rightful ==
  {Presented(<<kid, ring[kid].key>>, o) : kid \in DOMAIN ring, o \in granted}

\* Signed by the key the authorisation names, unless it was drawn in an earlier
\* life.
Entitled == {t \in Rightful : Of(t.body.open).body.cnf = {t.key}}

With(t, field, value) == [t EXCEPT !.body[field] = value]

Written(t) ==
  {With(With(t, "amount", {offer[1]}), "checkout", {offer[2]}) : offer \in Prices \X Carts}
  \cup {With(t, "payee", {Other}), With(t, "currency", "USD"), With(t, "aware", FALSE),
        With(t, "constraints", {Budget(Daily)}), With(t, "open", {}), With(t, "open", {t}),
        [t EXCEPT !.iss = "merchant"]}
  \cup {With(t, "when", {at}) : at \in 0 .. MaxNow + 1}
  \cup {[With(t, "when", {at}) EXCEPT !.iat = at, !.exp = at + ClosedTtl] : at \in 0 .. MaxNow + 1}
  \cup {With(t, "nonce", other.nonce) : other \in burned}

SignedAgain(p, when) ==
  sign(p.kid, p.key,
       [closed_payment_mandate(p.id, p.payee, p.amount, p.checkout, p.open, when)
          EXCEPT !.nonce = p.nonce], now, ClosedTtl)

Again == {SignedAgain(p, at) : p \in {q \in InHand \cup burned : q.id \notin booked}, at \in 0 .. MaxNow + 1}

Presentable ==
  Strangers \cup granted \cup (UNION {Written(t) : t \in Entitled}) \cup Again

(***************************************************************************)
(* The money.                                                              *)
(***************************************************************************)
Spent(id) == {p \in paid : p.open.body.id = id /\ p.id \in booked}

Ledger ==
  [spent |-> [id \in 0 .. MaxGrants |-> SumFunction([p \in Spent(id) |-> p.amount])],
   owners |-> [nonce \in {<<id>> : id \in 0 .. MaxGrants + MaxPayments} |->
                {p.id : p \in {other \in burned : other.nonce = nonce}}]]

PaymentOf(t, cart) ==
  [id |-> t.body.id, nonce |-> t.body.nonce, kid |-> t.kid, key |-> t.key,
   amount |-> Of(t.body.amount), payee |-> Of(t.body.payee), checkout |-> cart, at |-> now,
   open |-> Of(t.body.open)]

Unpaid == <<persistent, file, phase, keys, ring, minted, held, now, granted, receipts, lives>>

\* initiate_payment, up to the verdict; what follows a denial changes nothing
\* here.  It reads the ledger as it is now.
Verify(t, cart, ledger) ==
  /\ verify_payment_mandate(t, cart, ledger, ring, now) = "ALLOW"
  /\ t.body.id <= MaxPayments /\ (t.body.id \in Used \/ Room)
  /\ \E k \in Callers :
       /\ stage[k] = "idle"
       /\ stage' = [stage EXCEPT ![k] = "verified"]
       /\ payment' = [payment EXCEPT ![k] = PaymentOf(t, cart)]
  /\ UNCHANGED <<Unpaid, moneyVars>>

\* The attempt burns the nonce, INSERT OR IGNORE, and does not look at the answer.
Attempt(k) ==
  /\ stage[k] = "verified"
  /\ burned' = IF \E p \in burned : p.nonce = payment[k].nonce THEN burned
               ELSE burned \cup {payment[k]}
  /\ stage' = [stage EXCEPT ![k] = "attempting"]
  /\ UNCHANGED <<Unpaid, payment, paid, booked>>

\* The money moves, or the probe finds that it has.
Capture(k) ==
  /\ stage[k] = "attempting"
  /\ paid' = IF \E p \in paid : p.id = payment[k].id THEN paid ELSE paid \cup {payment[k]}
  /\ stage' = [stage EXCEPT ![k] = "captured"]
  /\ UNCHANGED <<Unpaid, payment, burned, booked>>

Hangup(k) ==
  /\ stage' = [stage EXCEPT ![k] = "idle"]
  /\ payment' = [payment EXCEPT ![k] = None]

\* record_spend of _settle_captured, once for each payment mandate.
Book(k) ==
  /\ stage[k] = "captured"
  /\ booked' = booked \cup {payment[k].id}
  /\ Hangup(k)
  /\ UNCHANGED <<Unpaid, burned, paid>>

\* A decline, a lost answer or an error: the call ends, whether money moved or
\* not.
Drop(k) ==
  /\ stage[k] # "idle"
  /\ Hangup(k)
  /\ UNCHANGED <<Unpaid, moneyVars>>

(***************************************************************************)
(* The world.                                                              *)
(***************************************************************************)
\* The process dies, while it serves or while it starts.
Die ==
  /\ phase # "down"
  /\ phase' = "down" /\ keys' = NoKeys /\ ring' = NoKeys
  /\ stage' = [k \in Callers |-> "idle"] /\ payment' = [k \in Callers |-> None]
  /\ UNCHANGED <<persistent, file, minted, held, now, granted, receipts, moneyVars, lives>>

\* The operator moves a file aside that the gateway refuses to start from.
MoveAside ==
  /\ phase = "down" /\ file = Torn
  /\ file' = Absent
  /\ UNCHANGED <<persistent, phase, keys, ring, minted, held, now, granted, receipts, callVars, moneyVars, lives>>

\* A start-up takes no time: it reads the clock once, at its end.
Tick ==
  /\ phase = "up" /\ now < MaxNow
  /\ now' = now + 1
  /\ UNCHANGED <<persistent, file, phase, keys, ring, minted, held, granted, receipts, callVars, moneyVars, lives>>

Next ==
  \/ Start \/ DrawKey \/ Persisted \/ Assemble
  \/ \E a \in Agents, kid \in Kids \cup Agents : delegate_to(a, kid)
  \/ \E hold \in Holds : Approve(hold[1], hold[2])
  \/ \E kid \in {"merchant", "mpp"} : IssueReceipt(kid)
  \/ /\ phase = "up" /\ \E k \in Callers : stage[k] = "idle"
     /\ LET ledger == Ledger IN \E t \in Presentable, cart \in Carts : Verify(t, cart, ledger)
  \/ \E k \in Callers : Attempt(k) \/ Capture(k) \/ Book(k) \/ Drop(k)
  \/ Die \/ MoveAside \/ Tick

Spec == Init /\ [][Next]_vars

(***************************************************************************)
(* Properties.                                                             *)
(***************************************************************************)
TypeOK ==
  /\ file.is \in {"absent", "torn", "ok"}
  /\ phase \in {"down", "booting", "writing", "up"}
  /\ DOMAIN keys \subseteq Kids /\ \A kid \in DOMAIN keys : keys[kid] \in 1 .. minted
  /\ DOMAIN ring \subseteq Kids \cup Agents
  /\ phase = "up" <=> DOMAIN ring # {}
  /\ \A kid \in DOMAIN ring \cap Kids : ring[kid] = [role |-> kid, key |-> keys[kid]]
  /\ receipts \subseteq held
  /\ \A o \in granted : Fits(o.body)
  /\ Cardinality(granted) <= MaxGrants
  /\ \A k \in Callers : stage[k] # "idle" => phase = "up" /\ payment[k].id \in 1 .. MaxPayments
  /\ booked \subseteq {p.id : p \in paid} /\ \A p, q \in paid : p.id = q.id => p = q

\* A receipt "becomes evidence months later" (gateway/keystore.py): with a
\* keystore, whatever receipt was ever issued verifies under the keys of every
\* gateway that serves later, wherever in its start-up an earlier one died and
\* although the operator may have moved a torn file aside.
ReceiptsStayVerifiable ==
  (persistent /\ phase = "up") => \A r \in receipts : ring[r[1]].key = r[2]

\* Money moves only under an authorisation that the buyer's own signer wrote,
\* for the key it names, whoever else holds a copy of it.
MoneyFollowsDelegation ==
  \A p \in paid : p.open \in granted /\ p.open.body.cnf = {p.key}

\* AP2's constraints, each evaluated on its own over everything ever paid:
\* nothing was paid outside the range, the payees, the window (when the mandate
\* was verified) or the cart.  A budget is a sum that calls read before they
\* capture and add to afterwards: with n calls at once what is booked under an
\* authorisation exceeds its budget by n - 1 purchases at most, and money whose
\* booking never came is not in the sum.
PaidUnder(o) == {p \in paid : p.open = o}
BookedUnder(o) == {p \in PaidUnder(o) : p.id \in booked}
Allowance(budget, most) == budget + (Cardinality(Callers) - 1) * most

EveryConstraintHolds ==
  \A o \in granted :
    /\ \A c \in o.body.constraints : \A p \in PaidUnder(o) :
         CASE c.type = "payment.amount_range" -> c.min <= p.amount /\ p.amount <= c.max
           [] c.type = "payment.budget" -> TRUE
           [] c.type = "payment.allowed_payees" -> p.payee \in c.allowed
           [] c.type = "payment.execution_date" ->
                c.not_before - Drift <= p.at /\ p.at <= c.not_after + Drift
           [] OTHER -> p.checkout = c.checkout
    /\ \A budget \in Constraints(o.body, "payment.budget"),
          range \in Constraints(o.body, "payment.amount_range") :
         SumFunction([p \in BookedUnder(o) |-> p.amount]) <= Allowance(budget.max, range.max)

\* Storefront takes its verdicts from Verifier, where a signature holds or there
\* is no mandate: for what a signer of this gateway wrote, the checks of the
\* code in their order, on tokens, lifetimes and constraints, say the same.
V == INSTANCE Verifier

ClosedView(t) ==
  [id |-> t.body.id, signer |-> t.key, payee |-> Of(t.body.payee), amount |-> Of(t.body.amount),
   checkout |-> Of(t.body.checkout),
   lapsed |-> \/ t.exp <= now - Skew \/ t.iat > now + Skew
              \/ Of(t.body.when) \notin now - Drift .. now + Drift]

OpenView(o, when) ==
  LET range == Of(Constraints(o.body, "payment.amount_range"))
      window == Of(Constraints(o.body, "payment.execution_date"))
  IN [holder |-> Of(o.body.cnf), min |-> range.min, max |-> range.max,
      budget |-> Of(Constraints(o.body, "payment.budget")).max,
      payees |-> Of(Constraints(o.body, "payment.allowed_payees")).allowed,
      pinned |-> {c.checkout : c \in Constraints(o.body, "payment.reference")},
      lapsed |-> \/ o.exp <= now - Skew \/ o.key # keys["user"]
                 \/ when \notin window.not_before .. window.not_after]

Plain(t) ==
  /\ Fits(t.body) /\ t.body.aware /\ t.body.currency = "INR" /\ t.iss = t.kid
  /\ Of(t.body.open) \in granted /\ ring[t.kid].role \in PRESENTER_ROLES

StorefrontSeesTheSame ==
  phase = "up" =>
    LET ledger == Ledger
    IN \A t \in {w \in Rightful \cup UNION {Written(r) : r \in Entitled} : Plain(w)} :
         LET open == Of(t.body.open)
         IN verify_payment_mandate(t, ACart, ledger, ring, now) = "ALLOW" <=>
              V!Allows(ClosedView(t), OpenView(open, Of(t.body.when)), ACart,
                       ledger.spent[open.body.id], ledger.owners[t.body.nonce])

\* "Never raises for a bad mandate" (gateway/verify.py:658): an answer for
\* everything that can be presented.  The code does not do this: an execution
\* date without a time zone cannot be compared with now.
NeverRaises ==
  phase = "up" =>
    LET ledger == Ledger
    IN \A t \in Presentable, cart \in Carts :
         verify_payment_mandate(t, cart, ledger, ring, now) # "raises"

\* A new agent "gets exactly the authority the old one had and not a rupee more"
\* (gateway/bootstrap.py:105): what the agents spend together stays within the
\* budget of one standing authorisation.  The code does not do this: each
\* authorisation is a mandate of its own, with a budget of its own.
DelegationAddsNothing ==
  LET delegated == {p \in paid : p.id \in booked /\ Constraints(p.open.body, "payment.reference") = {}}
  IN SumFunction([p \in delegated |-> p.amount]) <= Allowance(Daily, Limit)
=============================================================================
