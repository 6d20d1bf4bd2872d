--------------------------- MODULE TrustedSurface ---------------------------
(***************************************************************************)
(* The approval page of gateway/trusted_surface.py: purchases held for a   *)
(* person to decide.  Holds live in memory.  The routes run in a pool of   *)
(* threads and decide takes no lock, so between its look at the status and *)
(* its answer (three signatures later) another click may get in.           *)
(***************************************************************************)
EXTENDS Naturals, FiniteSets

CONSTANTS Holds,      \* hold ids
          Clicks      \* threads that serve a click on Approve or Decline

ASSUME ClicksAssumption == IsFiniteSet(Clicks)

VARIABLES hstatus,    \* HeldRequest.status; "unused" before, "lost" after a restart
          hcheckout,  \* HeldRequest.checkout_id
          hmandate,   \* HeldRequest.payment_mandate_id
          click,      \* what each thread is deciding: <<hold, approve>>, or <<>>
          decided     \* GATE_APPROVED and GATE_DENIED events of each hold in the log

surfaceVars == <<hstatus, hcheckout, hmandate, click, decided>>

SurfaceTypeOK(checkouts, mandates) ==
  /\ hstatus \in [Holds -> {"unused", "pending", "approved", "denied", "expired", "lost"}]
  /\ hcheckout \in [Holds -> checkouts]
  /\ hmandate \in [Holds -> mandates]
  /\ click \in [Clicks -> {<<>>} \cup (Holds \X BOOLEAN)]
  /\ decided \in [Holds -> Nat]

SurfaceInit(none) ==
  /\ hstatus = [h \in Holds |-> "unused"]
  /\ hcheckout = [h \in Holds |-> none]
  /\ hmandate = [h \in Holds |-> none]
  /\ click = [t \in Clicks |-> <<>>]
  /\ decided = [h \in Holds |-> 0]

\* hold
Hold(h, c) ==
  /\ hstatus[h] = "unused"
  /\ hstatus' = [hstatus EXCEPT ![h] = "pending"]
  /\ hcheckout' = [hcheckout EXCEPT ![h] = c]
  /\ UNCHANGED <<hmandate, click, decided>>

\* get: a pending hold older than HOLD_TTL_SECONDS expires when somebody looks,
\* and decide looks first.
Look(h) ==
  /\ hstatus[h] = "pending"
  /\ hstatus' = [hstatus EXCEPT ![h] = "expired"]
  /\ UNCHANGED <<hcheckout, hmandate, click, decided>>

\* Mutant: a hold that was decided can be decided again.
DecidesAgain(t, h, approve) ==
  /\ click[t] = <<>>
  /\ hstatus[h] \in {"pending", "approved", "denied"}
  /\ click' = [click EXCEPT ![t] = <<h, approve>>]
  /\ UNCHANGED <<hstatus, hcheckout, hmandate, decided>>

\* decide, up to the check of the status; a decided hold is returned as it is.
BeginDecision(t, h, approve) ==
  /\ click[t] = <<>>
  /\ hstatus[h] = "pending"
  /\ click' = [click EXCEPT ![t] = <<h, approve>>]
  /\ UNCHANGED <<hstatus, hcheckout, hmandate, decided>>

\* decide, the rest: denied, or approved with mandate m signed for the checkout.
Deny(t, h) ==
  /\ click[t] = <<h, FALSE>>
  /\ hstatus' = [hstatus EXCEPT ![h] = "denied"]
  /\ click' = [click EXCEPT ![t] = <<>>]
  /\ decided' = [decided EXCEPT ![h] = @ + 1]
  /\ UNCHANGED <<hcheckout, hmandate>>

Approve(t, h, m) ==
  /\ click[t] = <<h, TRUE>>
  /\ hstatus' = [hstatus EXCEPT ![h] = "approved"]
  /\ hmandate' = [hmandate EXCEPT ![h] = m]
  /\ click' = [click EXCEPT ![t] = <<>>]
  /\ decided' = [decided EXCEPT ![h] = @ + 1]
  /\ UNCHANGED hcheckout

\* The process restarts: every hold is forgotten.
ForgetHolds ==
  /\ hstatus' = [h \in Holds |-> IF hstatus[h] = "unused" THEN "unused" ELSE "lost"]
  /\ click' = [t \in Clicks |-> <<>>]
  /\ UNCHANGED <<hcheckout, hmandate, decided>>
=============================================================================
