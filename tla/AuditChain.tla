----------------------------- MODULE AuditChain -----------------------------
(***************************************************************************)
(* The audit log of gateway/audit.py: an append-only table whose rows each *)
(* commit to the one before, written through the transactions of           *)
(* gateway/db.py and published by GET /audit in gateway/app.py.            *)
(*                                                                         *)
(* A hash stands for everything it commits to, so it is the sequence of    *)
(* the contents hashed into it: two rows with different contents or        *)
(* different predecessors never share one.  Row ids are left out: nothing  *)
(* commits to them, and they only give the order of the table.             *)
(***************************************************************************)
EXTENDS Naturals, Sequences

CONSTANTS Threads,    \* whoever appends, in this process or another
          Contents,   \* actor, event, payload, ts and human_reason of a row
          Unreadable, \* a payload that is not JSON
          None,
          Forgeries,  \* what a tampered row may say
          MaxRows,    \* bound on the rows ever appended
          MaxTampers  \* bound on the changes made behind the log's back

ASSUME AuditAssumption ==
  /\ None \notin Threads
  /\ Unreadable \notin Contents /\ Forgeries \subseteq Contents
  /\ MaxRows \in Nat /\ MaxTampers \in Nat

VARIABLES table,     \* audit_log in the order of its ids
          txn,       \* the append each thread has begun: content and tip read
          appended,  \* every row append() committed, in order
          tampers,   \* changes made behind the log's back
          report     \* what the last GET /audit has read so far

auditVars == <<table, txn, appended, tampers, report>>

GENESIS_HASH == <<>>

row_hash(prev, content) == Append(prev, content)

Tip(rows) == IF rows = <<>> THEN GENESIS_HASH ELSE rows[Len(rows)].hash
NewRow(prev, content) == [prev |-> prev, hash |-> row_hash(prev, content), content |-> content]

AuditInit ==
  /\ table = <<>> /\ appended = <<>>
  /\ txn = [t \in Threads |-> None]
  /\ tampers = 0
  /\ report = None

(***************************************************************************)
(* append: one immediate transaction that reads the tip and inserts.       *)
(***************************************************************************)
\* Mutant: a deferred transaction, where two threads read the same tip.
AnyoneMayWrite == TRUE

\* BEGIN IMMEDIATE: the lock of the process, then the database's write lock.
NobodyWrites == \A t \in Threads : txn[t] = None

BeginAppend(t, content) ==
  /\ txn[t] = None /\ NobodyWrites
  /\ Len(appended) < MaxRows
  /\ txn' = [txn EXCEPT ![t] = [content |-> content, prev |-> Tip(table)]]
  /\ UNCHANGED <<table, appended, tampers, report>>

CommitAppend(t) ==
  /\ txn[t] # None
  /\ LET row == NewRow(txn[t].prev, txn[t].content)
     IN table' = Append(table, row) /\ appended' = Append(appended, row)
  /\ txn' = [txn EXCEPT ![t] = None]
  /\ UNCHANGED <<tampers, report>>

\* ROLLBACK, on an exception or because the process died.
Rollback(t) ==
  /\ txn[t] # None
  /\ txn' = [txn EXCEPT ![t] = None]
  /\ UNCHANGED <<table, appended, tampers, report>>

(***************************************************************************)
(* verify_chain: the first row whose link or whose hash is wrong, or which *)
(* cannot be read at all.                                                  *)
(***************************************************************************)
\* Mutant: the links are not compared.
LinkIgnored(rows, i) == TRUE

LinkHolds(rows, i) == rows[i].prev = Tip(SubSeq(rows, 1, i - 1))
HashHolds(rows, i) == rows[i].hash = row_hash(rows[i].prev, rows[i].content)

Damaged(rows) ==
  {i \in DOMAIN rows :
     \/ rows[i].content = Unreadable
     \/ ~LinkHolds(rows, i)
     \/ ~HashHolds(rows, i)}

\* Mutant: the rows are counted from one too many.
VerifyOffByOne(rows) ==
  IF Damaged(rows) = {} THEN [verdict |-> "ok", row |-> Len(rows) + 1]
  ELSE [verdict |-> "broken", row |-> 1 + CHOOSE i \in Damaged(rows) : \A j \in Damaged(rows) : i <= j]

verify_chain(rows) ==
  IF Damaged(rows) = {} THEN [verdict |-> "ok", row |-> Len(rows)]
  ELSE LET first == CHOOSE i \in Damaged(rows) : \A j \in Damaged(rows) : i <= j
       IN [verdict |-> IF rows[first].content = Unreadable THEN "raises" ELSE "broken",
           row |-> first]

(***************************************************************************)
(* GET /audit: the verification, then the tip, in statements of their own. *)
(***************************************************************************)
ReportVerdict ==
  /\ report # None => report.tip # None
  /\ verify_chain(table).verdict # "raises"
  /\ report' = [verdict |-> verify_chain(table).verdict, checked |-> verify_chain(table).row,
                tip |-> None, untampered |-> FALSE]
  /\ UNCHANGED <<table, txn, appended, tampers>>

\* "untampered" is for the properties: what the reader of the report gets is
\* worth relying on when nobody had touched the table by then.
ReportTip ==
  /\ report # None /\ report.tip = None
  /\ report' = [report EXCEPT !.tip = Tip(table), !.untampered = (tampers = 0)]
  /\ UNCHANGED <<table, txn, appended, tampers>>

(***************************************************************************)
(* Somebody with the database file drops the triggers and changes a row:   *)
(* its content, its content and its hash, or takes it out, or puts one in. *)
(***************************************************************************)
RowEdited(i, content) == [table EXCEPT ![i].content = content]
RowForged(i, content) == [table EXCEPT ![i] = NewRow(@.prev, content)]
RowDeleted(i) == SubSeq(table, 1, i - 1) \o SubSeq(table, i + 1, Len(table))
RowSpliced(i, content) ==
  SubSeq(table, 1, i - 1) \o <<NewRow(Tip(SubSeq(table, 1, i - 1)), content)>>
    \o SubSeq(table, i, Len(table))

Tamper ==
  /\ tampers < MaxTampers
  /\ tampers' = tampers + 1
  /\ \E i \in DOMAIN table :
       \/ table' = RowDeleted(i)
       \/ \E content \in Forgeries \cup {Unreadable} : table' = RowEdited(i, content)
       \/ \E content \in Forgeries : table' = RowForged(i, content)
       \/ \E content \in Forgeries : table' = RowSpliced(i, content)
  /\ NobodyWrites
  /\ UNCHANGED <<txn, appended, report>>

AuditTypeOK ==
  /\ \A t \in Threads : txn[t] = None \/ txn[t].content \in Contents
  /\ Len(appended) <= MaxRows
  /\ tampers \in 0 .. MaxTampers
  /\ report = None \/ report.checked \in 0 .. (MaxRows + MaxTampers)

(***************************************************************************)
(* Properties of the chain.                                                *)
(***************************************************************************)
\* However appends interleave and die, the rows form one chain: until somebody
\* tampers the table is what was appended, and verify_chain finds it intact.
UntamperedVerifies ==
  tampers = 0 => table = appended /\ verify_chain(table).verdict = "ok"

\* "Anyone who records the tip today can detect truncation tomorrow"
\* (gateway/app.py:150): when the chain verifies and a tip published before the
\* tampering is still in it, every row up to that tip is as it was appended.
TipPinsHistory ==
  (report # None /\ report.untampered /\ verify_chain(table).verdict = "ok") =>
    \A k \in DOMAIN table :
      table[k].hash = report.tip =>
        k <= Len(appended) /\ SubSeq(table, 1, k) = SubSeq(appended, 1, k)

\* The rows that an answer of GET /audit calls verified lie under the tip it
\* publishes, although rows may be appended between the two reads.
TipCoversReport ==
  (report # None /\ report.untampered) => report.checked <= Len(report.tip)

\* "Reports which row broke": after one change the rows up to the last but one
\* before the break are as they were appended.
DamageLocated ==
  (tampers = 1 /\ verify_chain(table).verdict = "broken") =>
    LET n == verify_chain(table).row - 2
    IN SubSeq(table, 1, n) = SubSeq(appended, 1, n)
=============================================================================
