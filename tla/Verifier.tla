------------------------------ MODULE Verifier ------------------------------
(***************************************************************************)
(* verify_payment_mandate (gateway/verify.py): the one decision that lets  *)
(* money move.  Signatures hold or the mandate is no mandate, so what is   *)
(* left is a conjunction of pure checks on                                 *)
(*   closed    the mandate presented: id, signer, payee, amount, checkout, *)
(*             nonce, and whether its time is over;                        *)
(*   open      the authorisation inside it: holder, payees, min, max,      *)
(*             budget, pinned checkout, and whether its time is over;      *)
(* and on what the read-only view of the ledger says.  The order of the    *)
(* checks decides only which failure is reported.                          *)
(***************************************************************************)
EXTENDS Integers

\* check_not_expired on both, and check_execution_date
InTime(closed, open) == ~closed.lapsed /\ ~open.lapsed

KeyBound(closed, open) == closed.signer = open.holder

PayeeAllowed(closed, open) == closed.payee \in open.payees

AmountInRange(closed, open) == closed.amount \in open.min .. open.max

\* Mutant: the amount requested is not added to what was spent before.
BudgetNotYetGone(closed, open, spent) == spent <= open.budget

WithinBudget(closed, open, spent) == spent + closed.amount <= open.budget

\* Mutant: only the pin of the authorisation is compared.
BoundByPin(closed, open, checkout) == open.pinned \subseteq {checkout}

\* check_checkout_reference, with the pinned checkout as a set of at most one
BoundTo(closed, open, checkout) ==
  /\ closed.checkout = checkout
  /\ open.pinned \subseteq {checkout}

\* Mutant: a burned nonce is not refused.
NonceNotChecked(closed, owners) == TRUE

\* A burned nonce is good only for the mandate that burned it; owners holds
\* that mandate, if any.
NonceUnused(closed, owners) == owners \subseteq {closed.id}

Allows(closed, open, checkout, spent, owners) ==
  /\ InTime(closed, open)
  /\ KeyBound(closed, open)
  /\ PayeeAllowed(closed, open)
  /\ AmountInRange(closed, open)
  /\ WithinBudget(closed, open, spent)
  /\ BoundTo(closed, open, checkout)
  /\ NonceUnused(closed, owners)
=============================================================================
