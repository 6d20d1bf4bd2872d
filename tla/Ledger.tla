------------------------------- MODULE Ledger -------------------------------
(***************************************************************************)
(* The durable money ledger of gateway/ledger.py: one idempotency row per  *)
(* Payment Mandate, the spend ledger and the nonce registry, all in SQLite.*)
(* Each action below is one statement, or one BEGIN IMMEDIATE transaction, *)
(* so it is atomic; what a caller does between two of them is not.         *)
(*                                                                         *)
(* The idempotency key is a hash of the mandate id, hence the mandate      *)
(* itself here.  The list of order ids is kept as a set: the code only     *)
(* iterates over it and tests membership.  attempts = 0 holds exactly when *)
(* no order was ever noted, so the counter is not kept apart.  A lease is  *)
(* held or free; its expiry is the action LeaseLapses, whose guard the     *)
(* composing module gives.                                                 *)
(***************************************************************************)
EXTENDS Identifiers

VARIABLES status,      \* idempotency.status, "absent" while there is no row
          receipt,     \* the order named by the stored receipt, None if failed
          noted,       \* idempotency.order_ids
          leased,      \* lease_expires is set and lies in the future
          spent,       \* spend_ledger: the captured order counted per mandate
          burned       \* mandates whose nonce is in nonce_registry

ledgerVars == <<status, receipt, noted, leased, spent, burned>>

Statuses == {"absent", "in_flight", "captured", "failed"}

LedgerTypeOK ==
  /\ status \in [Mandates -> Statuses]
  /\ receipt \in [Mandates -> Orders \cup {None}]
  /\ noted \in [Mandates -> SUBSET Orders]
  /\ leased \in [Mandates -> BOOLEAN]
  /\ spent \in [Mandates -> Orders \cup {None}]
  /\ burned \in SUBSET Mandates

LedgerInit ==
  /\ status = [m \in Mandates |-> "absent"]
  /\ receipt = [m \in Mandates |-> None]
  /\ noted = [m \in Mandates |-> {}]
  /\ leased = [m \in Mandates |-> FALSE]
  /\ spent = [m \in Mandates |-> None]
  /\ burned = {}

\* IdempotencyRecord.is_terminal
Terminal(m) == status[m] \in {"captured", "failed"}

\* claim: insert an in_flight row unless one exists.
Claim(m) ==
  /\ status' = [status EXCEPT ![m] = IF @ = "absent" THEN "in_flight" ELSE @]
  /\ UNCHANGED <<receipt, noted, leased, spent, burned>>

\* Mutant: the UPDATE does not look at lease_expires.
LeaseIgnored(m) == status[m] = "in_flight"

\* The condition of that UPDATE's WHERE clause.
LeaseFree(m) == status[m] = "in_flight" /\ ~leased[m]

\* acquire_attempt_lease: the conditional UPDATE.
AcquireLease(m) ==
  /\ LeaseFree(m)
  /\ leased' = [leased EXCEPT ![m] = TRUE]
  /\ UNCHANGED <<status, receipt, noted, spent, burned>>

\* Mutant: the release also puts the row back in flight.
ReleaseReopens(m) ==
  /\ leased' = [leased EXCEPT ![m] = FALSE]
  /\ status' = [status EXCEPT ![m] = "in_flight"]
  /\ UNCHANGED <<receipt, noted, spent, burned>>

\* release_attempt_lease: clears whatever lease the row has, whoever took it.
ReleaseLease(m) ==
  /\ leased' = [leased EXCEPT ![m] = FALSE]
  /\ UNCHANGED <<status, receipt, noted, spent, burned>>

\* The clock passes lease_expires: the row can be leased again.
LeaseLapses(m) ==
  /\ leased[m]
  /\ leased' = [leased EXCEPT ![m] = FALSE]
  /\ UNCHANGED <<status, receipt, noted, spent, burned>>

\* burn_nonce: an INSERT whose failure (already burned) changes nothing.
BurnNonce(m) ==
  /\ burned' = burned \cup {m}
  /\ UNCHANGED <<status, receipt, noted, leased, spent>>

\* The UPDATE that ends note_order: it writes back a list read earlier.
WriteOrders(m, ids) ==
  /\ noted' = [noted EXCEPT ![m] = ids]
  /\ UNCHANGED <<status, receipt, leased, spent, burned>>

\* record_spend: INSERT OR IGNORE on the mandate.
RecordSpend(m, o) ==
  /\ spent' = [spent EXCEPT ![m] = IF @ = None THEN o ELSE @]
  /\ UNCHANGED <<status, receipt, noted, leased, burned>>

\* The UPDATE that ends finalise.  It has no condition on the status.
WriteReceipt(m, s, o) ==
  /\ status' = [status EXCEPT ![m] = s]
  /\ receipt' = [receipt EXCEPT ![m] = o]
  /\ UNCHANGED <<noted, leased, spent, burned>>
=============================================================================
