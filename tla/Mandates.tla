------------------------------ MODULE Mandates ------------------------------
(***************************************************************************)
(* What a signed mandate says and what verify_payment_mandate answers to   *)
(* it: the shapes of ap2_min/models.py and ap2_min/builders.py, the        *)
(* envelope of gateway/mandates.py, and the checks of gateway/verify.py in *)
(* their order.                                                            *)
(*                                                                         *)
(* A token is an envelope (kid, key, iss, iat, exp) around a body; "key"   *)
(* is the private key that really signed it, so a token altered on the way *)
(* is a token signed with a key nobody trusts.  Times are whole numbers.   *)
(* The constraints of a mandate are a set; a lookup that finds two of one  *)
(* type raises.                                                            *)
(***************************************************************************)
EXTENDS Integers, FiniteSets, FiniteSetsExt

CONSTANTS Skew,   \* leeway on iat and exp
          Drift   \* how far an execution date may be from now

ASSUME MandatesAssumption == Skew \in Nat /\ Drift \in Nat /\ Skew <= Drift

(***************************************************************************)
(* Shapes.  Closed and open are the two values of vct; a field that the    *)
(* mandate does not carry is the empty set, one that it does a singleton.  *)
(***************************************************************************)
AmountRange(lo, hi) == [type |-> "payment.amount_range", min |-> lo, max |-> hi]
Budget(max) == [type |-> "payment.budget", max |-> max]
AllowedPayees(allowed) == [type |-> "payment.allowed_payees", allowed |-> allowed]
ExecutionDate(from, to) == [type |-> "payment.execution_date", not_before |-> from, not_after |-> to]
Reference(checkout) == [type |-> "payment.reference", checkout |-> checkout]

open_payment_mandate(id, constraints, cnf) ==
  [vct |-> "open", id |-> id, nonce |-> <<id>>, constraints |-> constraints, cnf |-> {cnf},
   currency |-> "INR", amount |-> {}, payee |-> {}, checkout |-> {}, when |-> {}, aware |-> TRUE,
   open |-> {}]

closed_payment_mandate(id, payee, amount, checkout, open, when) ==
  [vct |-> "closed", id |-> id, nonce |-> <<id>>, constraints |-> {}, cnf |-> {},
   currency |-> "INR", amount |-> {amount}, payee |-> {payee}, checkout |-> {checkout},
   when |-> {when}, aware |-> TRUE, open |-> {open}]

\* PaymentMandateContents: what can be parsed at all.
Fits(body) ==
  CASE body.vct = "closed" ->
         /\ {} \notin {body.amount, body.payee, body.checkout, body.when, body.open}
         /\ body.constraints = {}
    [] body.vct = "open" -> body.constraints # {} /\ body.amount = {}
    [] OTHER -> FALSE

\* Value of a field the mandate carries.
Of(field) == CHOOSE value \in field : TRUE

(***************************************************************************)
(* Signatures.                                                             *)
(***************************************************************************)
sign(kid, key, body, iat, ttl) ==
  [kid |-> kid, iss |-> kid, key |-> key, iat |-> iat, exp |-> iat + ttl, body |-> body]

\* Mutant: the role is not asked for.
AnyIssuer(token, ring, roles, now) ==
  /\ token.kid \in DOMAIN ring
  /\ token.key = ring[token.kid].key
  /\ token.exp > now - Skew /\ token.iat <= now + Skew
  /\ token.iss = token.kid

\* A ring gives the role and the public key of each kid.
verify_jws(token, ring, roles, now) ==
  /\ token.kid \in DOMAIN ring
  /\ ring[token.kid].role \in roles
  /\ token.key = ring[token.kid].key
  /\ token.exp > now - Skew /\ token.iat <= now + Skew
  /\ token.iss = token.kid

load_payment_mandate(token, ring, roles, now) ==
  verify_jws(token, ring, roles, now) /\ Fits(token.body)

(***************************************************************************)
(* Checks.  Each answers ok, fail or raises.                               *)
(***************************************************************************)
Verdict(holds) == IF holds THEN "ok" ELSE "fail"

Constraints(open, type) == {c \in open.constraints : c.type = type}

\* A constraint the mandate does not carry does not fail.
Constrained(open, type, Holds(_)) ==
  IF Cardinality(Constraints(open, type)) > 1 THEN "raises"
  ELSE Verdict(\A c \in Constraints(open, type) : Holds(c))

check_not_expired(token, now) ==
  Verdict(token.exp + Skew >= now /\ token.iat - Skew <= now)

\* Mutant: whoever presents an authorisation may use it.
KeyBindingIgnored(open, key) == "ok"

check_key_binding(open, key) == Verdict(open.cnf = {key})

check_currency(closed, open) == Verdict(closed.currency = open.currency)

check_payee_allowed(closed, open) ==
  Constrained(open, "payment.allowed_payees", LAMBDA c : closed.payee \subseteq c.allowed)

\* Mutant: the ceiling itself is out of range.
RangeExclusive(closed, open) ==
  Constrained(open, "payment.amount_range", LAMBDA c :
    closed.currency = "INR" /\ Of(closed.amount) \in c.min .. c.max - 1)

check_amount_in_range(closed, open) ==
  Constrained(open, "payment.amount_range", LAMBDA c :
    closed.currency = "INR" /\ Of(closed.amount) \in c.min .. c.max)

\* Mutant: the amount requested is left out of the projection.
BudgetProjectionOff(closed, open, spent) ==
  Constrained(open, "payment.budget", LAMBDA c : spent <= c.max)

check_budget(closed, open, spent) ==
  Constrained(open, "payment.budget", LAMBDA c : spent + Of(closed.amount) <= c.max)

\* A date without a time zone cannot be subtracted from one that has it.
check_execution_date(closed, open, now) ==
  LET when == Of(closed.when)
  IN IF ~closed.aware THEN "raises"
     ELSE IF when \notin now - Drift .. now + Drift THEN "fail"
     ELSE Constrained(open, "payment.execution_date", LAMBDA c :
            when \in c.not_before .. c.not_after)

check_checkout_reference(closed, open, checkout) ==
  IF closed.checkout # {checkout} THEN "fail"
  ELSE Constrained(open, "payment.reference", LAMBDA c : c.checkout = checkout)

check_nonce_unused(closed, owners) == Verdict(owners \subseteq {closed.id})

(***************************************************************************)
(* verify_payment_mandate.  ledger is the read-only view: what was spent   *)
(* under an authorisation and which mandates burned a nonce.               *)
(***************************************************************************)
PRESENTER_ROLES == {"agent", "user"}
ROLES == PRESENTER_ROLES \cup {"merchant", "mpp"}

\* All the checks are evaluated before the first failure is looked for.
Answer(checks) ==
  CASE \E i \in DOMAIN checks : checks[i] = "raises" -> "raises"
    [] \A i \in DOMAIN checks : checks[i] = "ok" -> "ALLOW"
    [] OTHER -> "DENY"

\* An open mandate presented on its own asks for a human, and names the gap.
_escalate(open) ==
  IF Cardinality(Constraints(open, "payment.amount_range")) > 1
     \/ Cardinality(Constraints(open, "payment.budget")) > 1
  THEN "raises" ELSE "UNRESOLVED_CONSTRAINT"

Remaining(closed, open, presenter, checkout, ledger, now) ==
  <<check_key_binding(open, presenter),
    check_currency(closed, open),
    check_payee_allowed(closed, open),
    check_amount_in_range(closed, open),
    check_budget(closed, open, ledger.spent[open.id]),
    check_execution_date(closed, open, now),
    check_checkout_reference(closed, open, checkout),
    check_nonce_unused(closed, ledger.owners[closed.nonce])>>

verify_payment_mandate(token, checkout, ledger, ring, now) ==
  LET closed == token.body
      open == Of(closed.open)
  IN IF ~load_payment_mandate(token, ring, ROLES, now) THEN "DENY"
     ELSE IF closed.vct = "open" THEN _escalate(closed)
     ELSE IF \/ ring[token.kid].role \notin PRESENTER_ROLES
             \/ check_not_expired(token, now) # "ok"
             \/ ~load_payment_mandate(open, ring, {"user"}, now)
             \/ open.body.vct # "open"
             \/ check_not_expired(open, now) # "ok"
          THEN "DENY"
     ELSE Answer(Remaining(closed, open.body, ring[token.kid].key, checkout, ledger, now))
=============================================================================
