------------------------------ MODULE Webhooks ------------------------------
(***************************************************************************)
(* The receiver of gateway/webhooks.py over the audit chain, next to the   *)
(* other threads that append to it.  Razorpay delivers an event until it   *)
(* hears a 2xx, and sometimes again after that; anybody may post an        *)
(* unsigned body with any event id.  Deliveries are handled one at a time, *)
(* because the route runs on the event loop.  A signed body that is not    *)
(* JSON is answered 400 and changes nothing, so it is not an action.       *)
(***************************************************************************)
EXTENDS AuditChain

CONSTANTS Events,       \* values of X-Razorpay-Event-Id
          NoId,         \* the header is missing
          Hook,         \* the event loop, one of the Threads
          MaxRestarts   \* bound on restarts of the gateway

ASSUME WebhooksAssumption ==
  Hook \in Threads /\ NoId \notin Events /\ MaxRestarts \in Nat

VARIABLES seen,      \* _seen_event_ids
          job,       \* the delivery being handled
          acked,     \* events Razorpay heard a 2xx for
          unrecorded,\* events whose first record raised
          restarts

vars == <<auditVars, seen, job, acked, unrecorded, restarts>>

Kinds == {"received", "replayed", "rejected"}
\* A rejected delivery's row does not say which event it claimed to be.
RowOf(k, e) == [event |-> k, id |-> IF k = "rejected" THEN NoId ELSE e]
MoneyRow == [event |-> "money", id |-> NoId]
WebhookContents == {RowOf(k, e) : k \in Kinds, e \in Events \cup {NoId}} \cup {MoneyRow}

\* What the handler knows of the delivery it is answering.
Steps == {"append", "reply"}
Jobs == [event : Events \cup {NoId}, row : WebhookContents, at : Steps, ok : BOOLEAN]

ASSUME ContentsAssumption == WebhookContents \subseteq Contents /\ None \notin Jobs

Init ==
  /\ AuditInit
  /\ seen = {} /\ acked = {} /\ unrecorded = {}
  /\ job = None
  /\ restarts = 0

TypeOK ==
  /\ AuditTypeOK
  /\ seen \subseteq Events /\ acked \subseteq Events /\ unrecorded \subseteq Events
  /\ job \in Jobs \cup {None}
  /\ restarts \in 0 .. MaxRestarts

(***************************************************************************)
(* handle: signature first, deduplication second, then the record.         *)
(***************************************************************************)
\* Mutants: the id is looked at before the signature is; it is not remembered;
\* a missing id is remembered like any other.
RemembersUnverified(e, signed) == seen \cup ({e} \ {NoId})
RemembersNothing(e, signed) == seen
RemembersBlank(e, signed) == IF signed THEN seen \cup {e} ELSE seen

Remembers(e, signed) == IF signed THEN seen \cup ({e} \ {NoId}) ELSE seen

\* The row a delivery is recorded as.
Recorded(e, signed) ==
  CASE ~signed -> "rejected"
    [] signed /\ e \in seen -> "replayed"
    [] OTHER -> "received"

Receive(e, signed) ==
  /\ job = None
  /\ job' = [event |-> e, row |-> RowOf(Recorded(e, signed), e), at |-> "append",
             ok |-> signed]
  /\ seen' = Remembers(e, signed)
  /\ UNCHANGED <<auditVars, acked, unrecorded, restarts>>

Record ==
  /\ job # None /\ job.at = "append"
  /\ BeginAppend(Hook, job.row)
  /\ UNCHANGED <<seen, job, acked, unrecorded, restarts>>

RecordCommitted ==
  /\ CommitAppend(Hook)
  /\ job' = [job EXCEPT !.at = "reply"]
  /\ UNCHANGED <<seen, acked, unrecorded, restarts>>

\* The database is locked, or the disk is full: the endpoint answers 500.
RecordRaises ==
  /\ job # None /\ job.at = "append"
  /\ txn' = [txn EXCEPT ![Hook] = None]
  /\ job' = None
  /\ unrecorded' = unrecorded \cup
       (IF job.row.event = "received" THEN {job.event} \ {NoId} ELSE {})
  /\ UNCHANGED <<table, appended, tampers, report, seen, acked, restarts>>

\* 200 for a signed delivery, which Razorpay hears or does not; 400 otherwise.
Reply ==
  /\ job # None /\ job.at = "reply"
  /\ job' = None
  /\ \/ acked' = acked \cup (IF job.ok THEN {job.event} \ {NoId} ELSE {})
     \/ UNCHANGED acked
  /\ UNCHANGED <<auditVars, seen, unrecorded, restarts>>

\* The process dies: what it held in memory is gone, its transaction with it.
Restart ==
  /\ restarts < MaxRestarts
  /\ restarts' = restarts + 1
  /\ seen' = {}
  /\ job' = None
  /\ txn' = [t \in Threads |-> None]
  /\ UNCHANGED <<table, appended, tampers, report, acked, unrecorded>>

\* The other threads: the money path appends its rows.
MoneyAppends ==
  \E t \in Threads \ {Hook} :
    /\ BeginAppend(t, MoneyRow) \/ CommitAppend(t) \/ Rollback(t)
    /\ UNCHANGED <<seen, job, acked, unrecorded, restarts>>

Publish == (ReportVerdict \/ ReportTip) /\ UNCHANGED <<seen, job, acked, unrecorded, restarts>>
Tampered == Tamper /\ UNCHANGED <<seen, job, acked, unrecorded, restarts>>

Next ==
  \/ \E e \in Events \cup {NoId}, signed \in BOOLEAN : Receive(e, signed)
  \/ Record \/ RecordCommitted \/ RecordRaises \/ Reply
  \/ Restart
  \/ MoneyAppends
  \/ Publish
  \/ Tampered

Spec == Init /\ [][Next]_vars

(***************************************************************************)
(* Properties.                                                             *)
(***************************************************************************)
RowsOf(k, e) == {i \in DOMAIN appended : appended[i].content = RowOf(k, e)}

\* "Every delivery is keyed on the event id and answered exactly once"
\* (gateway/webhooks.py:73-74): however often Razorpay delivers it, an event is
\* recorded once in the life of the process.
RecordedOnce ==
  \A e \in Events : \A i, j \in RowsOf("received", e) :
    i # j => restarts > 0

\* An event Razorpay will not deliver again is in the log, whatever crashed
\* between the two, unless writing its first record raised.
AcknowledgedMeansRecorded ==
  \A e \in acked \ unrecorded : RowsOf("received", e) # {}

\* "It was already answered, so it was acknowledged and ignored"
\* (gateway/webhooks.py:133-134): an event recorded as a replay was recorded as
\* received before, so no forged delivery can suppress a genuine one.
ReplayedMeansReceived ==
  \A e \in Events \ unrecorded : \A i \in RowsOf("replayed", e) :
    \E j \in RowsOf("received", e) : j < i

\* Razorpay "will retry, rather than silently swallowing it with a 200": an
\* event is never acknowledged without a record of it.  The code does not do
\* this: handle() remembers the id before append() has recorded the event.
NothingSwallowed ==
  \A e \in acked : RowsOf("received", e) # {}
=============================================================================
