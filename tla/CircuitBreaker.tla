--------------------------- MODULE CircuitBreaker ---------------------------
(***************************************************************************)
(* The in-memory circuit breaker of gateway/recovery.py, one per gateway   *)
(* process.  Only what is observable of its clock is kept: whether the     *)
(* reset interval has passed since _opened_at ("half_open") or not         *)
(* ("open").  The count of consecutive failures matters only up to the     *)
(* threshold; it is capped one above it.                                   *)
(***************************************************************************)
EXTENDS Naturals

CONSTANTS Processes,
          FailureThreshold   \* CircuitBreakerPolicy.failure_threshold

ASSUME ThresholdAssumption == FailureThreshold \in Nat \ {0}

VARIABLES failures,   \* _consecutive_failures
          circuit     \* the state property

breakerVars == <<failures, circuit>>

FailureCap == FailureThreshold + 1   \* bound on failures

BreakerTypeOK ==
  /\ failures \in [Processes -> 0 .. FailureCap]
  /\ circuit \in [Processes -> {"closed", "open", "half_open"}]

BreakerInit ==
  /\ failures = [p \in Processes |-> 0]
  /\ circuit = [p \in Processes |-> "closed"]

\* record_transport_failure returns TRUE
Trips(p) == failures[p] + 1 >= FailureThreshold /\ circuit[p] = "closed"

RecordTransportFailure(p) ==
  /\ failures' = [failures EXCEPT ![p] = IF @ < FailureCap THEN @ + 1 ELSE @]
  /\ circuit' = [circuit EXCEPT ![p] = IF Trips(p) THEN "open" ELSE @]

RecordDecline(p) ==
  /\ failures' = [failures EXCEPT ![p] = 0]
  /\ UNCHANGED circuit

\* record_success, and also what a restarted process begins with
RecordSuccess(p) ==
  /\ failures' = [failures EXCEPT ![p] = 0]
  /\ circuit' = [circuit EXCEPT ![p] = "closed"]

\* reset_after_seconds have passed since the breaker opened.
ResetElapses(p) ==
  /\ circuit[p] = "open"
  /\ circuit' = [circuit EXCEPT ![p] = "half_open"]
  /\ UNCHANGED failures
=============================================================================
