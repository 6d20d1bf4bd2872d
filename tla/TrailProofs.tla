---------------------------- MODULE TrailProofs ------------------------------
(***************************************************************************)
(* Theorems about the audit chain and the receiver of webhooks, for every  *)
(* number of threads, events, rows and restarts.                           *)
(***************************************************************************)
EXTENDS Webhooks, Sums

Hashes == Seq(Contents)
Rows == [prev : Hashes, hash : Hashes, content : Contents \cup {Unreadable}]
Begun == [content : Contents, prev : Hashes]

\* An append is one thread's at a time, and knows what it writes.
Shape ==
  /\ table \in Seq(Rows) /\ appended \in Seq(Rows)
  /\ txn \in [Threads -> Begun \cup {None}]
  /\ \A t \in Threads : txn[t] # None => txn[t] \in Begun
  /\ \A t, u \in Threads : txn[t] # None /\ txn[u] # None => t = u
  /\ tampers \in Nat

LEMMA TipTyped ==
  ASSUME NEW rows \in Seq(Rows)
  PROVE  Tip(rows) \in Hashes
<1>1. <<>> \in Hashes
  BY DEF Hashes
<1>2. CASE rows = <<>>
  BY <1>1, <1>2 DEF Tip, GENESIS_HASH
<1>3. CASE rows # <<>>
  <2>1. Len(rows) \in DOMAIN rows
    BY <1>3
  <2>2. rows[Len(rows)] \in Rows
    BY <2>1
  <2>3. QED BY <1>3, <2>2 DEF Tip, Rows
<1>4. QED BY <1>2, <1>3

LEMMA NewRowTyped ==
  ASSUME NEW prev \in Hashes, NEW content \in Contents
  PROVE  NewRow(prev, content) \in Rows
BY DEF NewRow, row_hash, Rows, Hashes

LEMMA BeginShape ==
  ASSUME Shape, NEW t \in Threads, NEW content \in Contents, BeginAppend(t, content)
  PROVE  Shape'
<1>1. Tip(table) \in Hashes
  BY TipTyped DEF Shape
<1>2. [content |-> content, prev |-> Tip(table)] \in Begun
  BY <1>1 DEF Begun
<1>3. QED BY <1>2 DEF Shape, BeginAppend, NobodyWrites

LEMMA CommitShape ==
  ASSUME Shape, NEW t \in Threads, CommitAppend(t)
  PROVE  Shape'
<1>1. txn[t] \in Begun
  BY DEF Shape, CommitAppend
<1>2. NewRow(txn[t].prev, txn[t].content) \in Rows
  BY <1>1, NewRowTyped DEF Begun
<1>3. table' \in Seq(Rows) /\ appended' \in Seq(Rows)
  BY <1>2 DEF Shape, CommitAppend
<1>4. QED BY <1>3 DEF Shape, CommitAppend

LEMMA TamperShape ==
  ASSUME Shape, Tamper
  PROVE  Shape'
<1>0. table \in Seq(Rows)
  BY DEF Shape
<1>1. PICK i \in DOMAIN table :
        \/ table' = RowDeleted(i)
        \/ \E content \in Forgeries \cup {Unreadable} : table' = RowEdited(i, content)
        \/ \E content \in Forgeries : table' = RowForged(i, content)
        \/ \E content \in Forgeries : table' = RowSpliced(i, content)
  BY DEF Tamper
<1>2. i \in 1 .. Len(table) /\ table[i] \in Rows
  BY <1>0
<1>3. SubSeq(table, 1, i - 1) \in Seq(Rows) /\ SubSeq(table, i + 1, Len(table)) \in Seq(Rows)
      /\ SubSeq(table, i, Len(table)) \in Seq(Rows)
  BY <1>0, <1>2
<1>4. ASSUME table' = RowDeleted(i)
      PROVE  table' \in Seq(Rows)
  BY <1>3, <1>4 DEF RowDeleted
<1>5. ASSUME NEW content \in Forgeries \cup {Unreadable}, table' = RowEdited(i, content)
      PROVE  table' \in Seq(Rows)
  <2>1. [table[i] EXCEPT !.content = content] \in Rows
    BY <1>2, AuditAssumption DEF Rows
  <2>2. QED BY <1>0, <1>2, <1>5, <2>1 DEF RowEdited
<1>6. ASSUME NEW content \in Forgeries, table' = RowForged(i, content)
      PROVE  table' \in Seq(Rows)
  <2>1. NewRow(table[i].prev, content) \in Rows
    BY <1>2, NewRowTyped, AuditAssumption DEF Rows
  <2>2. QED BY <1>0, <1>2, <1>6, <2>1 DEF RowForged
<1>7. ASSUME NEW content \in Forgeries, table' = RowSpliced(i, content)
      PROVE  table' \in Seq(Rows)
  <2>1. NewRow(Tip(SubSeq(table, 1, i - 1)), content) \in Rows
    BY <1>3, TipTyped, NewRowTyped, AuditAssumption
  <2>2. <<NewRow(Tip(SubSeq(table, 1, i - 1)), content)>> \in Seq(Rows)
    BY <2>1
  <2>3. QED BY <1>3, <1>7, <2>2 DEF RowSpliced
<1>8. table' \in Seq(Rows)
  BY <1>1, <1>4, <1>5, <1>6, <1>7
<1>9. QED BY <1>8 DEF Shape, Tamper

\* A row that commits to the tip damages nothing.
LEMMA DamageOfAppend ==
  ASSUME NEW rows \in Seq(Rows), NEW content \in Contents,
         NEW row, row = NewRow(Tip(rows), content)
  PROVE  /\ Append(rows, row) \in Seq(Rows)
         /\ Damaged(Append(rows, row)) = Damaged(rows)
<1> DEFINE more == Append(rows, row)
<1>1. row \in Rows /\ row.prev = Tip(rows) /\ row.content = content
      /\ row.hash = row_hash(Tip(rows), content)
  BY TipTyped, NewRowTyped DEF NewRow
<1>2. /\ more \in Seq(Rows) /\ DOMAIN more = 1 .. Len(rows) + 1 /\ DOMAIN rows = 1 .. Len(rows)
      /\ Len(rows) \in Nat /\ Len(more) = Len(rows) + 1
      /\ more[Len(rows) + 1] = row
      /\ \A i \in 1 .. Len(rows) : more[i] = rows[i]
  BY <1>1
<1> HIDE DEF more
<1>3. \A i \in 1 .. Len(rows) + 1 : SubSeq(more, 1, i - 1) = SubSeq(rows, 1, i - 1)
  <2> SUFFICES ASSUME NEW i \in 1 .. Len(rows) + 1
               PROVE  SubSeq(more, 1, i - 1) = SubSeq(rows, 1, i - 1)
    OBVIOUS
  <2>1. /\ SubSeq(more, 1, i - 1) = [j \in 1 .. i - 1 |-> more[j]]
        /\ SubSeq(rows, 1, i - 1) = [j \in 1 .. i - 1 |-> rows[j]]
    BY <1>2
  <2>2. \A j \in 1 .. i - 1 : more[j] = rows[j]
    BY <1>2
  <2>3. QED BY <2>1, <2>2
<1>4. SubSeq(rows, 1, Len(rows)) = rows
  BY <1>2
<1> HIDE DEF more
<1>5. Len(rows) + 1 \notin Damaged(more)
  <2>1. more[Len(rows) + 1] = row /\ SubSeq(more, 1, (Len(rows) + 1) - 1) = rows
    BY <1>2, <1>3, <1>4
  <2>2. QED BY <1>1, <2>1, AuditAssumption DEF Damaged, LinkHolds, HashHolds
<1>6. ASSUME NEW i \in 1 .. Len(rows)
      PROVE  i \in Damaged(more) <=> i \in Damaged(rows)
  <2>1. more[i] = rows[i] /\ SubSeq(more, 1, i - 1) = SubSeq(rows, 1, i - 1)
        /\ i \in DOMAIN more /\ i \in DOMAIN rows
    BY <1>2, <1>3
  <2>2. QED BY <2>1 DEF Damaged, LinkHolds, HashHolds
<1>7. Damaged(more) = Damaged(rows)
  BY <1>2, <1>5, <1>6 DEF Damaged
<1>8. QED BY <1>2, <1>7 DEF more

(***************************************************************************)
(* The chain.                                                              *)
(***************************************************************************)
\* As long as nobody tampers: what is there is what was appended, every link
\* and hash holds, a hash tells how many rows it covers, and who is appending
\* has read the tip.
Intact ==
  /\ table = appended /\ Damaged(table) = {}
  /\ \A i \in DOMAIN table : Len(table[i].hash) = i
  /\ \A t \in Threads : txn[t] # None => txn[t].prev = Tip(table)

LEMMA TipCovers ==
  ASSUME Shape, Intact
  PROVE  Tip(table) \in Hashes /\ Len(Tip(table)) = Len(table)
<1>0. table \in Seq(Rows)
  BY DEF Shape
<1>1. CASE table = <<>>
  BY <1>0, <1>1, TipTyped DEF Tip, GENESIS_HASH
<1>2. CASE table # <<>>
  <2>1. Len(table) \in DOMAIN table
    BY <1>0, <1>2
  <2>2. QED BY <1>0, <1>2, <2>1, TipTyped DEF Tip, Intact
<1>3. QED BY <1>1, <1>2

LEMMA CommitIntact ==
  ASSUME Shape, Intact, NEW t \in Threads, CommitAppend(t)
  PROVE  Intact'
<1> DEFINE row == NewRow(txn[t].prev, txn[t].content)
<1>0. table \in Seq(Rows) /\ Len(table) \in Nat
  BY DEF Shape
<1>1. txn[t] \in Begun /\ row = NewRow(Tip(table), txn[t].content)
  BY DEF Shape, CommitAppend, Intact
<1>2. table' = Append(table, row) /\ appended' = table'
  BY DEF CommitAppend, Intact
<1>3. row \in Rows /\ row.hash = Append(Tip(table), txn[t].content) /\ txn[t].content \in Contents
  BY <1>1, NewRowTyped DEF Begun, NewRow, row_hash
<1>4. Len(row.hash) = Len(table) + 1
  BY <1>3, TipCovers DEF Hashes
<1> HIDE DEF row
<1>5. Damaged(table') = {}
  BY <1>0, <1>1, <1>2, <1>3, DamageOfAppend DEF Intact
<1>6. Damaged(table)' = Damaged(table')
  BY DEF Damaged, LinkHolds, HashHolds, Tip, GENESIS_HASH, row_hash
<1>7. \A i \in DOMAIN table' : Len(table'[i].hash) = i
  BY <1>0, <1>2, <1>3, <1>4 DEF Intact
<1>8. \A u \in Threads : txn'[u] = None
  BY DEF CommitAppend, Shape
<1>9. QED BY <1>2, <1>5, <1>6, <1>7, <1>8 DEF Intact

\* What a report has read lies under the tip of a table nobody touched.
Reported ==
  report # None =>
    /\ report = [verdict |-> report.verdict, checked |-> report.checked,
                 tip |-> report.tip, untampered |-> report.untampered]
    /\ tampers = 0 => report.checked \in Nat /\ report.checked <= Len(table)
    /\ report.untampered => report.checked <= Len(report.tip)

ChainInv == Shape /\ (tampers = 0 => Intact) /\ Reported

LEMMA VerifiesIntact ==
  ASSUME Intact
  PROVE  verify_chain(table) = [verdict |-> "ok", row |-> Len(table)]
BY DEF Intact, verify_chain

LEMMA BeginChain ==
  ASSUME ChainInv, NEW t \in Threads, NEW content \in Contents, BeginAppend(t, content)
  PROVE  ChainInv'
<1>1. Shape'
  BY BeginShape DEF ChainInv
<1>2. ASSUME Intact PROVE Intact'
  BY <1>2 DEF BeginAppend, Intact, Shape, ChainInv, Damaged, LinkHolds, HashHolds, Tip
<1>3. QED BY <1>1, <1>2 DEF ChainInv, Reported, BeginAppend

LEMMA CommitChain ==
  ASSUME ChainInv, NEW t \in Threads, CommitAppend(t)
  PROVE  ChainInv'
<1>1. Shape'
  BY CommitShape DEF ChainInv
<1>2. ASSUME Intact PROVE Intact'
  BY <1>2, CommitIntact DEF ChainInv
<1>3. tampers' = tampers /\ report' = report
  BY DEF CommitAppend
<1>4. Len(table) \in Nat /\ Len(table') = Len(table) + 1
  BY DEF CommitAppend, ChainInv, Shape
<1>5. Reported'
  BY <1>3, <1>4 DEF ChainInv, Reported
<1>6. QED BY <1>1, <1>2, <1>3, <1>5 DEF ChainInv

\* A rollback, or several at once when the process dies.
Forgets ==
  /\ UNCHANGED <<table, appended, tampers, report>>
  /\ txn' \in [Threads -> Begun \cup {None}]
  /\ \A t \in Threads : txn'[t] = None \/ txn'[t] = txn[t]

LEMMA ForgetChain ==
  ASSUME ChainInv, Forgets
  PROVE  ChainInv'
<1>1. Shape'
  BY DEF ChainInv, Shape, Forgets
<1>2. ASSUME Intact PROVE Intact'
  BY <1>2 DEF Forgets, Intact, Damaged, LinkHolds, HashHolds, Tip
<1>3. QED BY <1>1, <1>2 DEF ChainInv, Reported, Forgets

LEMMA PublishChain ==
  ASSUME ChainInv, ReportVerdict \/ ReportTip
  PROVE  ChainInv'
<1>0. UNCHANGED <<table, txn, appended, tampers>>
  BY DEF ReportVerdict, ReportTip
<1>1. Shape' /\ (tampers = 0 => Intact')
  BY <1>0 DEF ChainInv, Shape, Intact, Damaged, LinkHolds, HashHolds, Tip
<1>2. Len(table) \in Nat
  BY DEF ChainInv, Shape
<1>3. ASSUME ReportVerdict
      PROVE  Reported'
  BY <1>0, <1>2, <1>3, VerifiesIntact DEF ReportVerdict, ChainInv, Reported
<1>4. ASSUME ReportTip
      PROVE  Reported'
  BY <1>0, <1>2, <1>4, TipCovers DEF ReportTip, ChainInv, Reported
<1>5. QED BY <1>0, <1>1, <1>3, <1>4 DEF ChainInv

LEMMA TamperChain ==
  ASSUME ChainInv, Tamper
  PROVE  ChainInv'
<1>1. Shape' /\ tampers' # 0 /\ report' = report
  BY TamperShape DEF ChainInv, Tamper, Shape
<1>2. QED BY <1>1 DEF ChainInv, Reported

LEMMA RowsTyped ==
  ASSUME NEW k \in Kinds, NEW e \in Events \cup {NoId}
  PROVE  RowOf(k, e) \in Contents
BY ContentsAssumption DEF WebhookContents

\* The delivery at hand has a row of one of the three kinds, which is what the
\* event loop is appending, if it is.
JobTyped ==
  /\ job # None =>
       /\ job.event \in Events \cup {NoId} /\ job.at \in Steps /\ job.ok \in BOOLEAN
       /\ \E k \in Kinds : job.row = RowOf(k, job.event)
       /\ job = [event |-> job.event, row |-> job.row, at |-> job.at, ok |-> job.ok]
  /\ txn[Hook] # None => job # None /\ job.at = "append" /\ txn[Hook].content = job.row
  /\ \A t \in Threads \ {Hook} : txn[t] # None => txn[t].content = MoneyRow

LEMMA JobStep ==
  ASSUME Shape, JobTyped, [Next]_vars
  PROVE  JobTyped'
<1> USE WebhooksAssumption DEF JobTyped, Steps
<1>1. ASSUME NEW e \in Events \cup {NoId}, NEW signed \in BOOLEAN, Receive(e, signed)
      PROVE  JobTyped'
  <2>1. Recorded(e, signed) \in Kinds
    BY DEF Recorded, Kinds
  <2>2. QED BY <1>1, <2>1 DEF Receive, auditVars
<1>2. CASE Record
  BY <1>2 DEF Record, BeginAppend, Shape
<1>3. CASE RecordCommitted
  BY <1>3 DEF RecordCommitted, CommitAppend, Shape
<1>4. CASE RecordRaises
  BY <1>4 DEF RecordRaises, Shape
<1>5. CASE Reply
  BY <1>5 DEF Reply, auditVars
<1>6. CASE Restart
  BY <1>6 DEF Restart
<1>7. CASE MoneyAppends
  BY <1>7 DEF MoneyAppends, BeginAppend, CommitAppend, Rollback, Shape
<1>8. CASE UNCHANGED <<txn, job>>
  BY <1>8
<1>9. QED
  BY <1>1, <1>2, <1>3, <1>4, <1>5, <1>6, <1>7, <1>8
     DEF Next, Publish, ReportVerdict, ReportTip, Tampered, Tamper, vars, auditVars

\* Every step is one of these to the chain.
LEMMA AuditMoves ==
  ASSUME Shape, JobTyped, [Next]_vars
  PROVE  \/ \E t \in Threads, content \in Contents : BeginAppend(t, content)
         \/ \E t \in Threads : CommitAppend(t)
         \/ Forgets \/ ReportVerdict \/ ReportTip \/ Tamper
<1> USE WebhooksAssumption
<1>1. CASE Record
  <2>1. job.row \in Contents
    BY <1>1, RowsTyped DEF Record, JobTyped
  <2>2. QED BY <1>1, <2>1 DEF Record
<1>2. CASE RecordCommitted
  BY <1>2 DEF RecordCommitted
<1>3. CASE RecordRaises
  BY <1>3 DEF RecordRaises, Shape, Forgets
<1>4. CASE Restart
  BY <1>4 DEF Restart, Forgets
<1>5. CASE MoneyAppends
  <2>1. PICK t \in Threads \ {Hook} : BeginAppend(t, MoneyRow) \/ CommitAppend(t) \/ Rollback(t)
    BY <1>5 DEF MoneyAppends
  <2>2. MoneyRow \in Contents
    BY ContentsAssumption DEF WebhookContents
  <2>3. CASE Rollback(t)
    BY <2>3 DEF Rollback, Shape, Forgets
  <2>4. QED BY <2>1, <2>2, <2>3
<1>6. CASE Publish
  BY <1>6 DEF Publish
<1>7. CASE Tampered
  BY <1>7 DEF Tampered
<1>8. CASE UNCHANGED auditVars
  BY <1>8 DEF auditVars, Shape, Forgets
<1>9. QED
  BY <1>1, <1>2, <1>3, <1>4, <1>5, <1>6, <1>7, <1>8 DEF Next, Receive, Reply, vars

LEMMA ChainStep ==
  ASSUME ChainInv, JobTyped, [Next]_vars
  PROVE  ChainInv'
BY AuditMoves, BeginChain, CommitChain, ForgetChain, PublishChain, TamperChain DEF ChainInv

LEMMA TrailInit == Init => ChainInv /\ JobTyped
<1> SUFFICES ASSUME Init PROVE ChainInv /\ JobTyped
  OBVIOUS
<1>1. table = <<>> /\ appended = <<>> /\ tampers = 0 /\ report = None /\ job = None
      /\ txn = [t \in Threads |-> None]
  BY DEF Init, AuditInit
<1>2. Shape
  BY <1>1 DEF Shape
<1>3. Intact
  BY <1>1 DEF Intact, Damaged
<1>4. JobTyped
  BY <1>1, WebhooksAssumption DEF JobTyped
<1>5. QED BY <1>1, <1>2, <1>3, <1>4 DEF ChainInv, Reported

LEMMA TrailInvariant == Spec => [](ChainInv /\ JobTyped)
<1>1. ChainInv /\ JobTyped /\ [Next]_vars => ChainInv' /\ JobTyped'
  BY ChainStep, JobStep DEF ChainInv
<1>2. QED BY <1>1, TrailInit, PTL DEF Spec

\* However appends of any number of threads and processes interleave, fail and
\* die, the table is what was appended and verify_chain calls it intact until
\* somebody changes the table behind the log's back (append, verify_chain).
THEOREM ChainStaysWhole == Spec => []UntamperedVerifies
<1>1. ChainInv => UntamperedVerifies
  BY VerifiesIntact DEF ChainInv, Intact, UntamperedVerifies
<1>2. QED BY <1>1, TrailInvariant, PTL

\* Every row GET /audit calls verified lies under the tip it publishes.
THEOREM ReportIsCovered == Spec => []TipCoversReport
<1>1. ChainInv => TipCoversReport
  BY DEF ChainInv, Reported, TipCoversReport
<1>2. QED BY <1>1, TrailInvariant, PTL

(***************************************************************************)
(* What the tip published tells, and where a change shows.                 *)
(***************************************************************************)
\* Row i of a chain whose last hash is h.
Spells(h, i, row) == row = NewRow(SubSeq(h, 1, i - 1), h[i])

LEMMA SpellsOn ==
  ASSUME NEW h \in Hashes, NEW content \in Contents, NEW i \in 1 .. Len(h), NEW row, Spells(h, i, row)
  PROVE  Spells(Append(h, content), i, row)
<1> DEFINE more == Append(h, content)
<1>1. /\ Len(h) \in Nat /\ more \in Seq(Contents) /\ Len(more) = Len(h) + 1
      /\ \A j \in 1 .. Len(h) : more[j] = h[j]
  BY DEF Hashes
<1> HIDE DEF more
<1>2. SubSeq(more, 1, i - 1) = [j \in 1 .. i - 1 |-> more[j]]
      /\ SubSeq(h, 1, i - 1) = [j \in 1 .. i - 1 |-> h[j]]
  BY <1>1 DEF Hashes
<1>3. SubSeq(more, 1, i - 1) = SubSeq(h, 1, i - 1)
  BY <1>1, <1>2
<1>4. QED BY <1>1, <1>3 DEF Spells, more

\* A chain without damage is spelled by its last hash.
LEMMA HashTellsRows ==
  ASSUME NEW rows \in Seq(Rows), Damaged(rows) = {}, NEW k \in DOMAIN rows
  PROVE  /\ Len(rows[k].hash) = k
         /\ \A i \in 1 .. k : Spells(rows[k].hash, i, rows[i])
<1> DEFINE Told(n) == /\ Len(rows[n].hash) = n
                      /\ \A i \in 1 .. n : Spells(rows[n].hash, i, rows[i])
           Bad == {n \in DOMAIN rows : ~Told(n)}
<1>0. DOMAIN rows = 1 .. Len(rows) /\ Len(rows) \in Nat
  OBVIOUS
<1>1. SUFFICES ASSUME Bad # {} PROVE FALSE
  OBVIOUS
<1>2. PICK m \in Bad : \A n \in Bad : m <= n
  <2>1. Bad \in SUBSET Nat
    BY <1>0
  <2> HIDE DEF Bad
  <2>2. QED BY <1>1, <2>1, LeastNatural
<1>3. m \in 1 .. Len(rows) /\ rows[m] \in Rows /\ rows[m].content \in Contents
      /\ rows[m].prev = Tip(SubSeq(rows, 1, m - 1))
      /\ rows[m].hash = Append(rows[m].prev, rows[m].content)
  <2>1. m \in 1 .. Len(rows) /\ rows[m] \in Rows /\ m \notin Damaged(rows)
    BY <1>0, <1>2
  <2>2. QED BY <2>1 DEF Damaged, LinkHolds, HashHolds, row_hash, Rows
<1>4. rows[m] = NewRow(rows[m].prev, rows[m].content) /\ rows[m].prev \in Hashes
  BY <1>3 DEF NewRow, row_hash, Rows
<1>5. CASE m = 1
  <2>1. SubSeq(rows, 1, m - 1) = <<>>
    BY <1>5
  <2>2. rows[m].prev = <<>>
    BY <1>3, <2>1 DEF Tip, GENESIS_HASH
  <2>3. Len(rows[m].hash) = 1 /\ rows[m].hash[1] = rows[m].content
        /\ SubSeq(rows[m].hash, 1, 0) = <<>>
    <3>1. rows[m].hash = Append(<<>>, rows[m].content) /\ <<>> \in Seq(Contents \cup {Unreadable})
      <4>1. rows[m].hash = Append(<<>>, rows[m].content)
        BY <1>3, <2>2
      <4>2. <<>> \in Seq(Contents \cup {Unreadable})
        OBVIOUS
      <4>3. QED BY <4>1, <4>2
    <3>2. Len(<<>>) = 0
      OBVIOUS
    <3>3. rows[m].hash \in Seq(Contents)
      BY <1>3, <2>1 DEF Rows, Hashes
    <3>4. QED BY <1>3, <3>1, <3>2, <3>3
  <2>4. Spells(rows[m].hash, 1, rows[1])
    <3>1. SubSeq(rows[m].hash, 1, 1 - 1) = <<>>
      BY <2>3
    <3>2. QED BY <1>4, <1>5, <2>2, <2>3, <3>1 DEF Spells
  <2>5. Told(m)
    BY <1>5, <2>3, <2>4
  <2>6. QED BY <1>2, <2>5
<1>6. CASE m # 1
  <2>1. m - 1 \in 1 .. Len(rows) /\ m - 1 \notin Bad
    BY <1>0, <1>2, <1>3, <1>6
  <2>2. Told(m - 1)
    BY <1>0, <2>1
  <2> DEFINE prior == SubSeq(rows, 1, m - 1)
  <2>3. prior \in Seq(Rows) /\ Len(prior) = m - 1 /\ prior # <<>> /\ prior[m - 1] = rows[m - 1]
    BY <1>0, <2>1
  <2>4. Tip(prior) = rows[m - 1].hash
    BY <2>3 DEF Tip
  <2> DEFINE h == rows[m - 1].hash
  <2>5. rows[m].prev = h /\ h \in Hashes /\ Len(h) = m - 1
        /\ rows[m].hash = Append(h, rows[m].content)
    BY <1>3, <1>4, <2>2, <2>4
  <2>6. \A i \in 1 .. m - 1 : Spells(h, i, rows[i])
    BY <2>2
  <2> HIDE DEF h, prior
  <2>7. \A i \in 1 .. m - 1 : Spells(rows[m].hash, i, rows[i])
    BY <1>3, <2>5, <2>6, SpellsOn
  <2>8. /\ Len(rows[m].hash) = m /\ rows[m].hash[m] = rows[m].content
        /\ SubSeq(rows[m].hash, 1, m - 1) = h
    BY <1>3, <2>5 DEF Hashes
  <2>9. Spells(rows[m].hash, m, rows[m])
    BY <1>4, <2>5, <2>8 DEF Spells
  <2>10. \A i \in 1 .. m : i = m \/ i \in 1 .. m - 1
    BY <1>3
  <2>11. Told(m)
    BY <2>7, <2>8, <2>9, <2>10
  <2>12. QED BY <1>2, <2>11
<1>7. QED BY <1>5, <1>6

LEMMA TipBefore ==
  ASSUME NEW rows \in Seq(Rows), NEW j \in DOMAIN rows
  PROVE  Tip(SubSeq(rows, 1, j - 1)) = IF j = 1 THEN GENESIS_HASH ELSE rows[j - 1].hash
<1>1. j \in 1 .. Len(rows) /\ Len(rows) \in Nat
  OBVIOUS
<1>2. CASE j = 1
  <2>1. SubSeq(rows, 1, j - 1) = <<>>
    BY <1>2
  <2>2. QED BY <1>2, <2>1 DEF Tip
<1>3. CASE j # 1
  <2> DEFINE prior == SubSeq(rows, 1, j - 1)
  <2>1. Len(prior) = j - 1 /\ prior # <<>> /\ prior[j - 1] = rows[j - 1]
    BY <1>1, <1>3
  <2>2. QED BY <1>3, <2>1 DEF Tip
<1>4. QED BY <1>2, <1>3

\* Two rows that follow each other in a sound chain are sound wherever they do.
LEMMA SoundElsewhere ==
  ASSUME NEW old \in Seq(Rows), Damaged(old) = {}, NEW rows \in Seq(Rows),
         NEW j \in DOMAIN rows, NEW k \in DOMAIN old, j # 1, k # 1,
         rows[j] = old[k], rows[j - 1] = old[k - 1]
  PROVE  j \notin Damaged(rows)
<1>1. k \notin Damaged(old)
  OBVIOUS
<1>2. Tip(SubSeq(rows, 1, j - 1)) = rows[j - 1].hash
      /\ Tip(SubSeq(old, 1, k - 1)) = old[k - 1].hash
  BY TipBefore
<1>3. QED BY <1>1, <1>2 DEF Damaged, LinkHolds, HashHolds

\* The rows before i are as appended, and no row after i + 1 is damaged.
CutAt(i) ==
  /\ i - 1 <= Len(appended) /\ i - 1 <= Len(table)
  /\ SubSeq(table, 1, i - 1) = SubSeq(appended, 1, i - 1)
  /\ \A d \in Damaged(table) : d <= i + 1

Cut == tampers = 1 => \E i \in Nat \ {0} : CutAt(i)

LEMMA SamePrefix ==
  ASSUME NEW S, NEW s \in Seq(S), NEW t \in Seq(S), NEW n \in Nat, n <= Len(s), n <= Len(t),
         \A j \in 1 .. n : s[j] = t[j]
  PROVE  SubSeq(s, 1, n) = SubSeq(t, 1, n)
<1>1. /\ SubSeq(s, 1, n) = [j \in 1 .. n |-> s[j]]
      /\ SubSeq(t, 1, n) = [j \in 1 .. n |-> t[j]]
  OBVIOUS
<1>2. QED BY <1>1

LEMMA Joined ==
  ASSUME NEW S, NEW s \in Seq(S), NEW t \in Seq(S)
  PROVE  /\ s \o t \in Seq(S) /\ Len(s \o t) = Len(s) + Len(t)
         /\ \A j \in 1 .. Len(s) : (s \o t)[j] = s[j]
         /\ \A j \in Len(s) + 1 .. Len(s) + Len(t) : (s \o t)[j] = t[j - Len(s)]
OBVIOUS

\* One change at row i leaves the rows before it alone, and the rows after the
\* next one follow those they followed.
ChangedAt(i) ==
  /\ i - 1 <= Len(table') /\ Len(table') <= Len(table) + 1
  /\ \A j \in 1 .. i - 1 : table'[j] = table[j]
  /\ \A j \in DOMAIN table' : j > i + 1 =>
       \E k \in DOMAIN table : k # 1 /\ table'[j] = table[k] /\ table'[j - 1] = table[k - 1]

LEMMA TamperChanges ==
  ASSUME Shape, Tamper
  PROVE  \E i \in DOMAIN table : ChangedAt(i)
<1>0. table \in Seq(Rows) /\ Len(table) \in Nat /\ DOMAIN table = 1 .. Len(table)
  BY DEF Shape
<1>1. PICK i \in DOMAIN table :
        \/ table' = RowDeleted(i)
        \/ \E content \in Forgeries \cup {Unreadable} : table' = RowEdited(i, content)
        \/ \E content \in Forgeries : table' = RowForged(i, content)
        \/ \E content \in Forgeries : table' = RowSpliced(i, content)
  BY DEF Tamper
<1> DEFINE low == SubSeq(table, 1, i - 1)
           n == Len(table)
<1>2. i \in 1 .. n /\ low \in Seq(Rows) /\ Len(low) = i - 1 /\ \A j \in 1 .. i - 1 : low[j] = table[j]
  BY <1>0
<1> HIDE DEF low
<1>3. ASSUME table' = RowDeleted(i)
      PROVE  ChangedAt(i)
  <2> DEFINE high == SubSeq(table, i + 1, n)
  <2>1. high \in Seq(Rows) /\ Len(high) = n - i /\ \A j \in 1 .. n - i : high[j] = table[i + j]
    BY <1>0, <1>2
  <2> HIDE DEF high
  <2>2. table' = low \o high
    BY <1>3 DEF RowDeleted, low, high
  <2>3. /\ DOMAIN table' = 1 .. n - 1 /\ Len(table') = n - 1
        /\ \A j \in 1 .. i - 1 : table'[j] = low[j]
        /\ \A j \in i .. n - 1 : table'[j] = high[j - (i - 1)]
    <3>1. /\ table' \in Seq(Rows) /\ Len(table') = (i - 1) + (n - i)
          /\ \A j \in 1 .. i - 1 : table'[j] = low[j]
          /\ \A j \in (i - 1) + 1 .. (i - 1) + (n - i) : table'[j] = high[j - (i - 1)]
      <4>1. /\ low \o high \in Seq(Rows) /\ Len(low \o high) = Len(low) + Len(high)
            /\ \A j \in 1 .. Len(low) : (low \o high)[j] = low[j]
            /\ \A j \in Len(low) + 1 .. Len(low) + Len(high) : (low \o high)[j] = high[j - Len(low)]
        BY ONLY <1>2, <2>1, Joined
      <4>2. QED BY ONLY <1>2, <2>1, <2>2, <4>1
    <3>2. (i - 1) + (n - i) = n - 1 /\ (i - 1) + 1 = i
      BY <1>0, <1>2
    <3>3. QED BY <3>1, <3>2
  <2>4. \A j \in i .. n - 1 : table'[j] = table[j + 1]
    <3> SUFFICES ASSUME NEW j \in i .. n - 1 PROVE table'[j] = table[j + 1]
      OBVIOUS
    <3>1. j - (i - 1) \in 1 .. n - i /\ i + (j - (i - 1)) = j + 1
      BY <1>0, <1>2
    <3>2. QED BY <2>1, <2>3, <3>1
  <2>5. ASSUME NEW j \in DOMAIN table', j > i + 1
        PROVE  j + 1 \in DOMAIN table /\ j + 1 # 1 /\ table'[j] = table[j + 1]
               /\ table'[j - 1] = table[(j + 1) - 1]
    <3>1. j \in i + 2 .. n - 1 /\ j \in i .. n - 1 /\ j - 1 \in i .. n - 1
      BY <1>0, <1>2, <2>3, <2>5
    <3>2. table'[j] = table[j + 1] /\ table'[j - 1] = table[(j - 1) + 1]
      BY <2>4, <3>1
    <3>3. (j - 1) + 1 = (j + 1) - 1 /\ j + 1 \in 1 .. n /\ j + 1 # 1
      BY <1>0, <1>2, <3>1
    <3>4. QED BY <1>0, <3>2, <3>3
  <2>6. QED BY <1>0, <1>2, <2>3, <2>5 DEF ChangedAt
<1>4. ASSUME NEW row, table' = [table EXCEPT ![i] = row]
      PROVE  ChangedAt(i)
  <2>1. DOMAIN table' = 1 .. n /\ Len(table') = n /\ \A j \in 1 .. n : j # i => table'[j] = table[j]
    BY <1>0, <1>2, <1>4
  <2>2. ASSUME NEW j \in DOMAIN table', j > i + 1
        PROVE  j \in DOMAIN table /\ j # 1 /\ table'[j] = table[j] /\ table'[j - 1] = table[j - 1]
    BY <1>0, <1>2, <2>1, <2>2
  <2>3. QED BY <1>0, <1>2, <2>1, <2>2 DEF ChangedAt
<1>5. ASSUME NEW content \in Forgeries, table' = RowSpliced(i, content)
      PROVE  ChangedAt(i)
  <2> DEFINE row == NewRow(Tip(low), content)
             high == SubSeq(table, i, n)
  <2>0. row \in Rows
    BY <1>2, TipTyped, NewRowTyped, AuditAssumption
  <2>1. high \in Seq(Rows) /\ Len(high) = n - i + 1 /\ \A j \in 1 .. n - i + 1 : high[j] = table[i + j - 1]
    BY <1>0, <1>2
  <2> HIDE DEF high, row
  <2>2. table' = (low \o <<row>>) \o high
    BY <1>5 DEF RowSpliced, low, high, row
  <2> DEFINE mid == low \o <<row>>
  <2>3. mid \in Seq(Rows) /\ Len(mid) = i /\ \A j \in 1 .. i - 1 : mid[j] = low[j]
    BY <1>2, <2>0
  <2> HIDE DEF mid
  <2>4. /\ DOMAIN table' = 1 .. n + 1 /\ Len(table') = n + 1
        /\ \A j \in 1 .. i - 1 : table'[j] = mid[j]
        /\ \A j \in i + 1 .. n + 1 : table'[j] = high[j - i]
    <3>1. table' = mid \o high
      BY <2>2 DEF mid
    <3>2. /\ table' \in Seq(Rows) /\ Len(table') = i + (n - i + 1)
          /\ \A j \in 1 .. i : table'[j] = mid[j]
          /\ \A j \in i + 1 .. i + (n - i + 1) : table'[j] = high[j - i]
      <4>1. /\ mid \o high \in Seq(Rows) /\ Len(mid \o high) = Len(mid) + Len(high)
            /\ \A j \in 1 .. Len(mid) : (mid \o high)[j] = mid[j]
            /\ \A j \in Len(mid) + 1 .. Len(mid) + Len(high) : (mid \o high)[j] = high[j - Len(mid)]
        BY ONLY <2>1, <2>3, Joined
      <4>2. QED BY ONLY <2>1, <2>3, <3>1, <4>1
    <3>3. i + (n - i + 1) = n + 1
      BY <1>0, <1>2
    <3>4. QED BY <1>2, <3>2, <3>3
  <2>5. \A j \in i + 1 .. n + 1 : table'[j] = table[j - 1]
    <3> SUFFICES ASSUME NEW j \in i + 1 .. n + 1 PROVE table'[j] = table[j - 1]
      OBVIOUS
    <3>1. j - i \in 1 .. n - i + 1 /\ i + (j - i) - 1 = j - 1
      BY <1>0, <1>2
    <3>2. QED BY <2>1, <2>4, <3>1
  <2>6. ASSUME NEW j \in DOMAIN table', j > i + 1
        PROVE  j - 1 \in DOMAIN table /\ j - 1 # 1 /\ table'[j] = table[j - 1]
               /\ table'[j - 1] = table[(j - 1) - 1]
    BY <1>0, <1>2, <2>4, <2>5, <2>6
  <2>7. \A j \in 1 .. i - 1 : table'[j] = table[j]
    BY <1>2, <2>3, <2>4
  <2>8. \A j \in DOMAIN table' : j > i + 1 =>
          \E k \in DOMAIN table : k # 1 /\ table'[j] = table[k] /\ table'[j - 1] = table[k - 1]
    BY <2>6
  <2>9. QED BY <1>0, <1>2, <2>4, <2>7, <2>8 DEF ChangedAt
<1>6. QED BY <1>1, <1>3, <1>4, <1>5 DEF RowEdited, RowForged

LEMMA TamperCut ==
  ASSUME ChainInv, Tamper
  PROVE  Cut'
<1>1. SUFFICES ASSUME tampers = 0 PROVE \E i \in Nat \ {0} : CutAt(i)'
  BY DEF Cut, Tamper, ChainInv, Shape
<1>2. table = appended /\ Damaged(table) = {} /\ table \in Seq(Rows) /\ appended' = appended
  BY <1>1 DEF ChainInv, Intact, Shape, Tamper
<1>3. table' \in Seq(Rows)
  BY TamperShape DEF ChainInv, Shape
<1>4. PICK i \in DOMAIN table : ChangedAt(i)
  BY TamperChanges DEF ChainInv
<1>5. i \in 1 .. Len(table)
  BY <1>2
<1>6. SubSeq(table', 1, i - 1) = SubSeq(table, 1, i - 1)
  BY <1>2, <1>3, <1>4, <1>5, SamePrefix DEF ChangedAt
<1>7. ASSUME NEW d \in Damaged(table')
      PROVE  d <= i + 1
  <2>1. d \in DOMAIN table' /\ d \in 1 .. Len(table')
    BY <1>3, <1>7 DEF Damaged
  <2>2. SUFFICES ASSUME d > i + 1 PROVE FALSE
    BY <1>5, <2>1
  <2>3. PICK k \in DOMAIN table : k # 1 /\ table'[d] = table[k] /\ table'[d - 1] = table[k - 1]
    BY <1>4, <2>1, <2>2 DEF ChangedAt
  <2>4. QED BY <1>2, <1>3, <1>5, <1>7, <2>1, <2>2, <2>3, SoundElsewhere
<1>8. Damaged(table)' = Damaged(table')
  BY DEF Damaged, LinkHolds, HashHolds, Tip, GENESIS_HASH, row_hash
<1>9. CutAt(i)'
  BY <1>2, <1>3, <1>4, <1>5, <1>6, <1>7, <1>8 DEF CutAt, ChangedAt
<1>10. QED BY <1>5, <1>9

\* What a tip published before any change says of the rows below it.
Pinned ==
  (report # None /\ report.untampered) =>
    /\ report.tip \in Hashes /\ Len(report.tip) <= Len(appended)
    /\ \A i \in 1 .. Len(report.tip) : Spells(report.tip, i, appended[i])

\* Who is appending has read the tip, even of a chain somebody changed.
Traced ==
  /\ \A t \in Threads : txn[t] # None => txn[t].prev = Tip(table)
  /\ Pinned /\ Cut

LEMMA AppendedGrows ==
  ASSUME ChainInv, Pinned, NEW row \in Rows, appended' = Append(appended, row), UNCHANGED report
  PROVE  Pinned'
<1>1. /\ Len(appended) \in Nat /\ Len(appended') = Len(appended) + 1
      /\ \A i \in 1 .. Len(appended) : appended'[i] = appended[i]
  BY DEF ChainInv, Shape
<1>2. report.tip \in Hashes => Len(report.tip) \in Nat
  BY DEF Hashes
<1>3. QED BY <1>1, <1>2 DEF Pinned, Spells, NewRow, row_hash

LEMMA CommitTraced ==
  ASSUME ChainInv, Traced, NEW t \in Threads, CommitAppend(t)
  PROVE  Traced'
<1> DEFINE row == NewRow(txn[t].prev, txn[t].content)
<1>1. /\ table \in Seq(Rows) /\ appended \in Seq(Rows) /\ txn[t] \in Begun
      /\ Len(table) \in Nat /\ Len(appended) \in Nat
      /\ row = NewRow(Tip(table), txn[t].content) /\ txn[t].content \in Contents
  BY DEF CommitAppend, ChainInv, Shape, Traced, Begun
<1>2. table' = Append(table, row) /\ appended' = Append(appended, row) /\ UNCHANGED <<report, tampers>>
  BY DEF CommitAppend
<1>3. row \in Rows
  BY <1>1, TipTyped, NewRowTyped
<1> HIDE DEF row
<1>4. Damaged(table') = Damaged(table)
  BY <1>1, <1>2, DamageOfAppend
<1>5. Damaged(table)' = Damaged(table')
  BY DEF Damaged, LinkHolds, HashHolds, Tip, GENESIS_HASH, row_hash
<1>6. ASSUME NEW i \in Nat \ {0}, CutAt(i)
      PROVE  CutAt(i)'
  <2>1. /\ i - 1 \in Nat /\ i - 1 <= Len(table) /\ i - 1 <= Len(appended)
        /\ i - 1 <= Len(table') /\ i - 1 <= Len(appended')
        /\ table' \in Seq(Rows) /\ appended' \in Seq(Rows)
    BY <1>1, <1>2, <1>3, <1>6 DEF CutAt
  <2>2. /\ \A j \in 1 .. i - 1 : table'[j] = table[j]
        /\ \A j \in 1 .. i - 1 : appended'[j] = appended[j]
    BY <1>1, <1>2, <1>3, <2>1
  <2>3. SubSeq(table', 1, i - 1) = SubSeq(table, 1, i - 1)
    BY <1>1, <2>1, <2>2, SamePrefix
  <2>4. SubSeq(appended', 1, i - 1) = SubSeq(appended, 1, i - 1)
    BY <1>1, <2>1, <2>2, SamePrefix
  <2>5. QED BY <1>4, <1>5, <1>6, <2>1, <2>3, <2>4 DEF CutAt
<1>7. Cut'
  BY <1>2, <1>6 DEF Traced, Cut
<1>8. \A u \in Threads : txn'[u] = None
  BY DEF CommitAppend, ChainInv, Shape
<1>9. QED BY <1>2, <1>3, <1>7, <1>8, AppendedGrows DEF Traced

LEMMA PublishTraced ==
  ASSUME ChainInv, Traced, ReportVerdict \/ ReportTip
  PROVE  Traced'
<1>0. UNCHANGED <<table, txn, appended, tampers>>
  BY DEF ReportVerdict, ReportTip
<1>1. CASE ReportVerdict
  BY <1>0, <1>1 DEF ReportVerdict, Traced, Pinned, Cut, CutAt, Damaged, LinkHolds, HashHolds, Tip
<1>2. CASE ReportTip
  <2>1. /\ report # None /\ report' = [report EXCEPT !.tip = Tip(table), !.untampered = (tampers = 0)]
        /\ report = [verdict |-> report.verdict, checked |-> report.checked,
                     tip |-> report.tip, untampered |-> report.untampered]
    BY <1>2 DEF ReportTip, ChainInv, Reported
  <2>2. report'.tip = Tip(table) /\ report'.untampered = (tampers = 0)
    BY <2>1
  <2>3. ASSUME tampers = 0
        PROVE  /\ Tip(table) \in Hashes /\ Len(Tip(table)) <= Len(appended)
               /\ \A i \in 1 .. Len(Tip(table)) : Spells(Tip(table), i, appended[i])
    <3>1. Shape /\ Intact /\ table = appended /\ Damaged(table) = {} /\ table \in Seq(Rows)
      BY <2>3 DEF ChainInv, Intact, Shape
    <3>2. Tip(table) \in Hashes /\ Len(Tip(table)) = Len(table)
      BY <3>1, TipCovers
    <3>3. CASE table = <<>>
      BY <3>1, <3>2, <3>3
    <3>4. CASE table # <<>>
      <4>1. Len(table) \in DOMAIN table /\ Tip(table) = table[Len(table)].hash
        BY <3>1, <3>4 DEF Tip
      <4>2. \A i \in 1 .. Len(table) : Spells(Tip(table), i, table[i])
        BY <3>1, <4>1, HashTellsRows
      <4>3. QED BY <3>1, <3>2, <4>2
    <3>5. QED BY <3>3, <3>4
  <2>4. Pinned'
    BY <1>0, <2>2, <2>3 DEF Pinned, Spells, NewRow, row_hash
  <2>5. QED
    BY <1>0, <2>4 DEF Traced, Cut, CutAt, Damaged, LinkHolds, HashHolds, Tip
<1>3. QED BY <1>1, <1>2

LEMMA TracedStep ==
  ASSUME ChainInv, JobTyped, Traced, [Next]_vars
  PROVE  Traced'
<1>1. ASSUME NEW t \in Threads, NEW content \in Contents, BeginAppend(t, content)
      PROVE  Traced'
  <2>1. UNCHANGED <<table, appended, tampers, report>>
    BY <1>1 DEF BeginAppend
  <2>2. \A u \in Threads : txn'[u] # None => txn'[u].prev = Tip(table)
    BY <1>1 DEF BeginAppend, NobodyWrites, ChainInv, Shape
  <2>3. QED
    BY <2>1, <2>2 DEF Traced, Pinned, Cut, CutAt, Spells, Damaged, LinkHolds, HashHolds, Tip
<1>2. CASE Forgets
  BY <1>2 DEF Forgets, Traced, Pinned, Cut, CutAt, Spells, Damaged, LinkHolds, HashHolds, Tip
<1>3. CASE Tamper
  <2>1. UNCHANGED <<txn, appended, report>> /\ \A t \in Threads : txn'[t] = None
    BY <1>3 DEF Tamper, NobodyWrites
  <2>2. Pinned'
    BY <2>1 DEF Traced, Pinned, Spells, NewRow, row_hash
  <2>3. QED BY <1>3, <2>1, <2>2, TamperCut DEF Traced
<1>4. QED
  BY <1>1, <1>2, <1>3, AuditMoves, CommitTraced, PublishTraced DEF ChainInv

LEMMA TracedInit == Init => Traced
BY DEF Init, AuditInit, Traced, Pinned, Cut

TracedInv == ChainInv /\ JobTyped /\ Traced

LEMMA TracedInvariant == Spec => []TracedInv
<1>1. TracedInv /\ [Next]_vars => TracedInv'
  BY ChainStep, JobStep, TracedStep DEF TracedInv, ChainInv
<1>2. QED BY <1>1, TrailInit, TracedInit, PTL DEF Spec, TracedInv

\* "Anyone who records the tip today can detect truncation tomorrow": when the
\* chain verifies and still has a tip published before anything was changed,
\* the rows up to it are as they were appended, however many changes there were
\* (verify_chain, GET /audit).
THEOREM TipIsPinned == Spec => []TipPinsHistory
<1>1. ASSUME TracedInv, report # None, report.untampered, verify_chain(table).verdict = "ok",
             NEW k \in DOMAIN table, table[k].hash = report.tip
      PROVE  k <= Len(appended) /\ SubSeq(table, 1, k) = SubSeq(appended, 1, k)
  <2>1. table \in Seq(Rows) /\ appended \in Seq(Rows) /\ k \in 1 .. Len(table)
    BY <1>1 DEF TracedInv, ChainInv, Shape
  <2>2. Damaged(table) = {}
    BY <1>1 DEF verify_chain
  <2>3. Len(report.tip) = k /\ \A i \in 1 .. k : Spells(report.tip, i, table[i])
    BY <1>1, <2>1, <2>2, HashTellsRows
  <2>4. k <= Len(appended) /\ \A i \in 1 .. k : Spells(report.tip, i, appended[i])
    BY <1>1, <2>3 DEF TracedInv, Traced, Pinned
  <2>5. \A i \in 1 .. k : table[i] = appended[i]
    BY <2>3, <2>4 DEF Spells
  <2>6. QED BY <2>1, <2>4, <2>5, SamePrefix
<1>2. TracedInv => TipPinsHistory
  BY <1>1 DEF TipPinsHistory
<1>3. QED BY <1>2, TracedInvariant, PTL

\* The row verify_chain names is the first that is damaged.
LEMMA FirstDamaged ==
  ASSUME NEW rows \in Seq(Rows), Damaged(rows) # {}
  PROVE  /\ verify_chain(rows).row \in Damaged(rows)
         /\ verify_chain(rows).row \in 1 .. Len(rows)
<1>1. Damaged(rows) \in SUBSET Nat /\ Damaged(rows) \subseteq 1 .. Len(rows)
  BY DEF Damaged
<1>2. \E i \in Damaged(rows) : \A j \in Damaged(rows) : i <= j
  BY <1>1, LeastNatural
<1>3. verify_chain(rows).row = CHOOSE i \in Damaged(rows) : \A j \in Damaged(rows) : i <= j
  BY DEF verify_chain
<1>4. QED BY <1>1, <1>2, <1>3

\* After one change the rows up to the last but one before the row that
\* verify_chain reports are as they were appended.
THEOREM BreakIsLocated == Spec => []DamageLocated
<1>1. ASSUME TracedInv, tampers = 1, verify_chain(table).verdict = "broken"
      PROVE  LET n == verify_chain(table).row - 2
             IN SubSeq(table, 1, n) = SubSeq(appended, 1, n)
  <2> DEFINE n == verify_chain(table).row - 2
  <2>1. table \in Seq(Rows) /\ appended \in Seq(Rows) /\ Len(table) \in Nat /\ Len(appended) \in Nat
    BY <1>1 DEF TracedInv, ChainInv, Shape
  <2>2. Damaged(table) # {}
    BY <1>1 DEF verify_chain
  <2>3. verify_chain(table).row \in Damaged(table) /\ verify_chain(table).row \in Nat /\ n \in Int
    <3>1. verify_chain(table).row \in Damaged(table) /\ verify_chain(table).row \in 1 .. Len(table)
      BY <2>1, <2>2, FirstDamaged
    <3>2. QED BY <2>1, <3>1
  <2>4. PICK i \in Nat \ {0} : CutAt(i)
    BY <1>1 DEF TracedInv, Traced, Cut
  <2>5. n <= i - 1
    <3>1. verify_chain(table).row <= i + 1
      BY <2>3, <2>4 DEF CutAt
    <3>2. QED BY <2>3, <2>4, <3>1
  <2> HIDE DEF n
  <2>6. CASE n < 1
    <3>1. SubSeq(table, 1, n) = <<>> /\ SubSeq(appended, 1, n) = <<>>
      BY <2>1, <2>3, <2>6
    <3>2. QED BY <3>1 DEF n
  <2>7. CASE n >= 1
    <3>1. /\ i - 1 <= Len(table) /\ i - 1 <= Len(appended)
          /\ SubSeq(table, 1, i - 1) = SubSeq(appended, 1, i - 1)
      BY <2>4 DEF CutAt
    <3>2. \A j \in 1 .. i - 1 : /\ SubSeq(table, 1, i - 1)[j] = table[j]
                                /\ SubSeq(appended, 1, i - 1)[j] = appended[j]
      BY <2>1, <2>4, <3>1
    <3>3. \A j \in 1 .. n : table[j] = appended[j]
      BY <2>3, <2>4, <2>5, <3>1, <3>2
    <3>4. n \in Nat /\ n <= Len(table) /\ n <= Len(appended)
      BY <2>1, <2>3, <2>4, <2>5, <2>7, <3>1
    <3>5. SubSeq(table, 1, n) = SubSeq(appended, 1, n)
      BY <2>1, <3>3, <3>4, SamePrefix
    <3>6. QED BY <3>5 DEF n
  <2>8. QED BY <2>3, <2>6, <2>7 DEF n
<1>2. TracedInv => DamageLocated
  BY <1>1 DEF DamageLocated
<1>3. QED BY <1>2, TracedInvariant, PTL

(***************************************************************************)
(* The receiver.                                                           *)
(***************************************************************************)
LEMMA RowsDiffer ==
  ASSUME NEW e \in Events, NEW k \in {"received", "replayed"},
         NEW f \in Events \cup {NoId}, NEW l \in Kinds
  PROVE  /\ RowOf(l, f) = RowOf(k, e) <=> l = k /\ f = e
         /\ MoneyRow # RowOf(k, e)
BY WebhooksAssumption DEF RowOf, MoneyRow, Kinds

\* The log of what was appended grows by the row of the delivery at hand or by
\* one of the money path.
LEMMA LogMoves ==
  ASSUME ChainInv, JobTyped, [Next]_vars
  PROVE  \/ UNCHANGED appended
         \/ /\ RecordCommitted
            /\ job # None /\ job.at = "append"
            /\ \E row \in Rows : row.content = job.row /\ appended' = Append(appended, row)
         \/ /\ UNCHANGED <<seen, job, acked, unrecorded, restarts>>
            /\ \E row \in Rows : row.content = MoneyRow /\ appended' = Append(appended, row)
<1>1. ASSUME NEW t \in Threads, CommitAppend(t)
      PROVE  \E row \in Rows : row.content = txn[t].content /\ appended' = Append(appended, row)
  <2>1. txn[t] \in Begun
    BY <1>1 DEF ChainInv, Shape, CommitAppend
  <2>2. NewRow(txn[t].prev, txn[t].content) \in Rows
    BY <2>1, NewRowTyped DEF Begun
  <2>3. QED BY <1>1, <2>2 DEF CommitAppend, NewRow
<1>2. CASE RecordCommitted
  <2>1. txn[Hook] # None /\ Hook \in Threads /\ CommitAppend(Hook)
    BY <1>2, WebhooksAssumption DEF RecordCommitted, CommitAppend
  <2>2. QED BY <1>1, <1>2, <2>1 DEF JobTyped
<1>3. CASE MoneyAppends
  <2>1. PICK t \in Threads \ {Hook} :
           /\ BeginAppend(t, MoneyRow) \/ CommitAppend(t) \/ Rollback(t)
           /\ UNCHANGED <<seen, job, acked, unrecorded, restarts>>
    BY <1>3 DEF MoneyAppends
  <2>2. CASE CommitAppend(t)
    BY <1>1, <2>1, <2>2 DEF JobTyped, CommitAppend
  <2>3. QED BY <2>1, <2>2 DEF BeginAppend, Rollback
<1>4. QED
  BY <1>2, <1>3 DEF Next, Receive, Record, BeginAppend, RecordRaises, Reply, Restart, Publish,
                    ReportVerdict, ReportTip, Tampered, Tamper, auditVars, vars

LEMMA RowsGrow ==
  ASSUME ChainInv, NEW row \in Rows, appended' = Append(appended, row),
         NEW k \in Kinds, NEW e \in Events
  PROVE  /\ RowsOf(k, e)' = RowsOf(k, e) \cup
              (IF row.content = RowOf(k, e) THEN {Len(appended) + 1} ELSE {})
         /\ \A i \in RowsOf(k, e) : i \in Nat /\ i < Len(appended) + 1
<1>1. /\ appended \in Seq(Rows) /\ Len(appended) \in Nat
      /\ DOMAIN appended = 1 .. Len(appended)
      /\ DOMAIN appended' = 1 .. Len(appended) + 1
      /\ \A i \in 1 .. Len(appended) : appended'[i] = appended[i]
      /\ appended'[Len(appended) + 1] = row
  BY DEF ChainInv, Shape
<1>2. QED BY <1>1 DEF RowsOf

Has(e) == RowsOf("received", e) # {}
Pending(e) == job # None /\ job.at = "append" /\ job.row = RowOf("received", e)

\* A remembered event is in the log, or about to be, or its record raised; a
\* delivery is called a replay of what is in the log; what is answered 2xx is.
Remembered ==
  /\ seen \subseteq Events
  /\ \A e \in seen \ unrecorded : Has(e) \/ Pending(e)
  /\ \A e \in Events :
       job # None =>
         /\ job.row = RowOf("replayed", e) /\ e \notin unrecorded => Has(e)
         /\ job.row = RowOf("received", e) /\ job.at = "reply" => Has(e)
         /\ job.ok /\ job.event = e =>
              job.row = RowOf("received", e) \/ job.row = RowOf("replayed", e)

LEMMA HasGrows ==
  ASSUME ChainInv, JobTyped, [Next]_vars, NEW e \in Events, Has(e)
  PROVE  Has(e)'
<1>1. CASE UNCHANGED appended
  BY <1>1 DEF Has, RowsOf
<1>2. ASSUME NEW row \in Rows, appended' = Append(appended, row)
      PROVE  Has(e)'
  BY <1>2, RowsGrow DEF Has, Kinds
<1>3. QED BY <1>1, <1>2, LogMoves

LEMMA RememberedStep ==
  ASSUME ChainInv, JobTyped, Remembered, [Next]_vars
  PROVE  Remembered'
<1>1. \A e \in Events : Has(e) => Has(e)'
  BY HasGrows
<1>2. ASSUME NEW e \in Events \cup {NoId}, NEW signed \in BOOLEAN, Receive(e, signed)
      PROVE  Remembered'
  <2>1. job = None /\ seen' = (IF signed THEN seen \cup ({e} \ {NoId}) ELSE seen)
        /\ job' = [event |-> e, row |-> RowOf(Recorded(e, signed), e), at |-> "append", ok |-> signed]
        /\ UNCHANGED unrecorded
    BY <1>2 DEF Receive, Remembers
  <2>2. Recorded(e, signed) \in Kinds
    BY DEF Recorded, Kinds
  <2>3. \A f \in seen \ unrecorded : Has(f)
    BY <2>1 DEF Remembered, Pending
  <2>4. \A f \in Events, k \in {"received", "replayed"} :
          RowOf(Recorded(e, signed), e) = RowOf(k, f) <=> Recorded(e, signed) = k /\ e = f
    BY <2>2, RowsDiffer
  <2>5. \A f \in seen' \ unrecorded' : Has(f)' \/ (f = e /\ Recorded(e, signed) = "received")
    BY <1>1, <2>1, <2>3 DEF Remembered, Recorded
  <2>6. \A f \in seen' \ unrecorded' : Has(f)' \/ Pending(f)'
    <3>1. Recorded(e, signed) = "received" => Pending(e)'
      <4>1. RowOf(Recorded(e, signed), e) \in WebhookContents
        BY <2>2 DEF WebhookContents
      <4>2. job' \in Jobs
        BY <2>1, <4>1 DEF Jobs, Steps
      <4>3. job' # None /\ job'.at = "append" /\ job'.row = RowOf(Recorded(e, signed), e)
        BY <2>1, <4>2, ContentsAssumption
      <4>4. QED BY <4>3 DEF Pending, RowOf
    <3>2. QED BY <2>5, <3>1
  <2>7. ASSUME NEW f \in Events
        PROVE  /\ job'.row = RowOf("replayed", f) /\ f \notin unrecorded' => Has(f)'
               /\ ~(job'.at = "reply")
               /\ job'.ok /\ job'.event = f =>
                    job'.row = RowOf("received", f) \/ job'.row = RowOf("replayed", f)
    <3>1. CASE f = e
      BY <1>1, <2>1, <2>3, <2>4, <3>1 DEF Recorded
    <3>2. CASE f # e
      BY <1>1, <2>1, <2>4, <3>2
    <3>3. QED BY <3>1, <3>2
  <2>8. seen' \subseteq Events
    BY <2>1 DEF Remembered
  <2>9. QED BY <2>6, <2>7, <2>8 DEF Remembered
<1>3. CASE RecordCommitted
  <2>1. job # None /\ job.at = "append" /\ UNCHANGED <<seen, acked, unrecorded, restarts>>
        /\ job' = [job EXCEPT !.at = "reply"]
    BY <1>3, WebhooksAssumption DEF RecordCommitted, CommitAppend, JobTyped
  <2>2. job'.row = job.row /\ job'.event = job.event /\ job'.ok = job.ok /\ job'.at = "reply"
    BY <2>1 DEF JobTyped
  <2>3. PICK row \in Rows : row.content = job.row /\ appended' = Append(appended, row)
    BY <1>3, WebhooksAssumption, NewRowTyped
       DEF RecordCommitted, CommitAppend, JobTyped, ChainInv, Shape, Begun, NewRow
  <2>4. \A e \in Events : job.row = RowOf("received", e) => Has(e)'
    BY <2>3, RowsGrow DEF Has, Kinds
  <2>5. QED BY <1>1, <2>1, <2>2, <2>4 DEF Remembered, Pending
<1>4. CASE RecordRaises
  <2>1. job # None /\ job' = None /\ UNCHANGED seen
        /\ unrecorded' = unrecorded \cup
             (IF job.row.event = "received" THEN {job.event} \ {NoId} ELSE {})
    BY <1>4 DEF RecordRaises
  <2>2. \A e \in Events : Pending(e) => e \in unrecorded'
    <3>1. ASSUME NEW e \in Events, Pending(e)
          PROVE  job.row.event = "received" /\ job.event = e
      <4>1. PICK k \in Kinds : job.row = RowOf(k, job.event)
        BY <2>1 DEF JobTyped
      <4>2. job.event \in Events \cup {NoId} /\ RowOf(k, job.event) = RowOf("received", e)
        BY <2>1, <3>1, <4>1 DEF JobTyped, Pending
      <4>3. k = "received" /\ job.event = e
        BY <4>1, <4>2, RowsDiffer
      <4>4. QED BY <4>1, <4>3 DEF RowOf
    <3>2. QED BY <2>1, <3>1, WebhooksAssumption
  <2>3. QED BY <1>1, <2>1, <2>2 DEF Remembered, Pending
<1>5. CASE Reply
  BY <1>1, <1>5 DEF Reply, Remembered, Pending
<1>6. CASE Restart
  BY <1>6 DEF Restart, Remembered
<1>7. CASE UNCHANGED <<seen, job, unrecorded>>
  BY <1>1, <1>7 DEF Remembered, Pending
<1>8. QED
  BY <1>2, <1>3, <1>4, <1>5, <1>6, <1>7 DEF Next, Record, MoneyAppends, Publish, Tampered, vars

\* What the delivery at hand and the money path add to the rows of an event.
LEMMA RowsAdded ==
  ASSUME ChainInv, JobTyped, [Next]_vars, NEW k \in {"received", "replayed"}, NEW e \in Events
  PROVE  \/ RowsOf(k, e)' = RowsOf(k, e)
         \/ /\ RecordCommitted
            /\ job # None /\ job.at = "append" /\ job.row = RowOf(k, e)
            /\ RowsOf(k, e)' = RowsOf(k, e) \cup {Len(appended) + 1}
            /\ \A i \in RowsOf(k, e) : i \in Nat /\ i < Len(appended) + 1
<1> k \in Kinds
  BY DEF Kinds
<1>1. CASE UNCHANGED appended
  BY <1>1 DEF RowsOf
<1>2. ASSUME NEW row \in Rows, row.content = MoneyRow, appended' = Append(appended, row)
      PROVE  RowsOf(k, e)' = RowsOf(k, e)
  <2>1. row.content # RowOf(k, e)
    BY <1>2, RowsDiffer DEF Kinds
  <2>2. QED BY <1>2, <2>1, RowsGrow
<1>3. ASSUME RecordCommitted, job # None, job.at = "append",
             NEW row \in Rows, row.content = job.row, appended' = Append(appended, row)
      PROVE  \/ RowsOf(k, e)' = RowsOf(k, e)
             \/ /\ job.row = RowOf(k, e)
                /\ RowsOf(k, e)' = RowsOf(k, e) \cup {Len(appended) + 1}
                /\ \A i \in RowsOf(k, e) : i \in Nat /\ i < Len(appended) + 1
  BY <1>3, RowsGrow
<1>4. QED BY <1>1, <1>2, <1>3, LogMoves

\* What Razorpay heard of is an event, and in the log.
Answered == acked \subseteq Events /\ AcknowledgedMeansRecorded

LEMMA AcknowledgedStep ==
  ASSUME ChainInv, JobTyped, Remembered, Answered, [Next]_vars
  PROVE  Answered'
<1>1. unrecorded \subseteq unrecorded'
  BY DEF Next, Receive, Record, RecordCommitted, RecordRaises, Reply, Restart, MoneyAppends,
         Publish, Tampered, vars
<1>2. \A e \in Events : Has(e) => Has(e)'
  BY HasGrows
<1>3. acked \subseteq Events
  BY DEF Answered
<1>4. CASE UNCHANGED acked
  BY <1>1, <1>2, <1>3, <1>4 DEF Answered, AcknowledgedMeansRecorded, Has
<1>5. CASE Reply
  <2>1. job # None /\ job.at = "reply"
    BY <1>5 DEF Reply
  <2>2. \A e \in acked' : e \in acked \/ (job.ok /\ job.event = e /\ e \in Events)
    BY <1>5, <2>1 DEF Reply, JobTyped
  <2>3. \A e \in Events \ unrecorded : job.ok /\ job.event = e => Has(e)
    BY <2>1 DEF Remembered
  <2>4. QED BY <1>1, <1>2, <1>3, <2>2, <2>3 DEF Answered, AcknowledgedMeansRecorded, Has
<1>6. QED
  BY <1>4, <1>5 DEF Next, Receive, Record, RecordCommitted, RecordRaises, Restart, MoneyAppends,
                    Publish, Tampered, vars

LEMMA ReplayedStep ==
  ASSUME ChainInv, JobTyped, Remembered, ReplayedMeansReceived, [Next]_vars
  PROVE  ReplayedMeansReceived'
<1> SUFFICES ASSUME NEW e \in Events, e \notin unrecorded', NEW i \in RowsOf("replayed", e)'
             PROVE  \E j \in RowsOf("received", e)' : j < i
  BY DEF ReplayedMeansReceived
<1>1. e \notin unrecorded
  BY DEF Next, Receive, Record, RecordCommitted, RecordRaises, Reply, Restart, MoneyAppends,
         Publish, Tampered, vars
<1>2. RowsOf("received", e) \subseteq RowsOf("received", e)'
  BY RowsAdded
<1>3. CASE i \in RowsOf("replayed", e)
  BY <1>1, <1>2, <1>3 DEF ReplayedMeansReceived
<1>4. CASE i \notin RowsOf("replayed", e)
  <2>1. i = Len(appended) + 1 /\ job # None /\ job.row = RowOf("replayed", e)
    BY <1>4, RowsAdded
  <2>2. RowsOf("received", e) # {}
    BY <1>1, <2>1 DEF Remembered, Has
  <2>3. \A j \in RowsOf("received", e) : j \in Nat /\ j < Len(appended) + 1
    BY DEF RowsOf, ChainInv, Shape
  <2>4. QED BY <1>2, <2>1, <2>2, <2>3
<1>5. QED BY <1>3, <1>4

\* In the first life of the process what is in the log, or about to be, is
\* remembered, and what is about to be is not there yet.
Once ==
  /\ restarts \in Nat
  /\ restarts = 0 =>
       \A e \in Events :
         /\ Has(e) => e \in seen /\ ~Pending(e)
         /\ Pending(e) => e \in seen
         /\ \A i, j \in RowsOf("received", e) : i = j

LEMMA OnceStep ==
  ASSUME ChainInv, JobTyped, Once, [Next]_vars
  PROVE  Once'
<1>1. restarts' \in Nat /\ (restarts' = 0 => restarts = 0 /\ seen \subseteq seen' /\ ~Restart)
  BY DEF Once, Next, Receive, Remembers, Record, RecordCommitted, RecordRaises, Reply, Restart,
         MoneyAppends, Publish, Tampered, vars
<1> SUFFICES ASSUME restarts' = 0, NEW e \in Events
             PROVE  /\ Has(e)' => e \in seen' /\ ~Pending(e)'
                    /\ Pending(e)' => e \in seen'
                    /\ \A i, j \in RowsOf("received", e)' : i = j
  BY <1>1 DEF Once
<1>2. /\ Has(e) => e \in seen' /\ ~Pending(e)
      /\ Pending(e) => e \in seen'
      /\ \A i, j \in RowsOf("received", e) : i = j
  BY <1>1 DEF Once
<1>3. ASSUME NEW f \in Events \cup {NoId}, NEW signed \in BOOLEAN, Receive(f, signed)
      PROVE  /\ RowsOf("received", e)' = RowsOf("received", e)
             /\ Pending(e)' => e \in seen' /\ ~Has(e)
  <2>1. job' = [event |-> f, row |-> RowOf(Recorded(f, signed), f), at |-> "append", ok |-> signed]
        /\ seen' = (IF signed THEN seen \cup ({f} \ {NoId}) ELSE seen)
        /\ UNCHANGED appended
    BY <1>3 DEF Receive, Remembers, auditVars
  <2>2. Recorded(f, signed) \in Kinds
    BY DEF Recorded, Kinds
  <2>3. Pending(e)' => Recorded(f, signed) = "received" /\ f = e
    BY <2>1, <2>2, RowsDiffer DEF Pending
  <2>4. Recorded(f, signed) = "received" => signed /\ f \notin seen
    BY DEF Recorded
  <2>5. Has(e) => e \in seen
    BY <1>1 DEF Once
  <2>6. QED BY <2>1, <2>3, <2>4, <2>5, WebhooksAssumption DEF RowsOf
<1>4. CASE RecordCommitted
  <2>1. job # None /\ job.at = "append" /\ job' = [job EXCEPT !.at = "reply"]
    BY <1>4, WebhooksAssumption DEF RecordCommitted, CommitAppend, JobTyped
  <2>2. ~Pending(e)'
    BY <2>1 DEF JobTyped, Pending
  <2>3. CASE RowsOf("received", e)' = RowsOf("received", e)
    BY <1>2, <2>2, <2>3 DEF Has
  <2>4. CASE Pending(e) /\ RowsOf("received", e)' = RowsOf("received", e) \cup {Len(appended) + 1}
    BY <1>2, <2>2, <2>4 DEF Has
  <2>5. QED BY <2>3, <2>4, RowsAdded DEF Pending
<1>5. CASE ~RecordCommitted /\ (job' = job \/ job' = None)
  <2>1. RowsOf("received", e)' = RowsOf("received", e)
    BY <1>5, RowsAdded
  <2>2. Pending(e)' => Pending(e)
    BY <1>5 DEF Pending, RowOf
  <2>3. QED BY <1>2, <2>1, <2>2 DEF Has
<1>6. QED
  <2>1. (\E f \in Events \cup {NoId}, signed \in BOOLEAN : Receive(f, signed))
        \/ RecordCommitted \/ job' = job \/ job' = None
    BY DEF Next, Record, RecordRaises, Reply, Restart, MoneyAppends, Publish, Tampered, vars
  <2>2. QED BY <1>2, <1>3, <1>4, <1>5, <2>1 DEF Has

ReceiverInv ==
  ChainInv /\ JobTyped /\ Remembered /\ Once
  /\ Answered /\ ReplayedMeansReceived

LEMMA ReceiverInit == Init => ReceiverInv
<1> SUFFICES ASSUME Init PROVE ReceiverInv
  OBVIOUS
<1>1. appended = <<>> /\ job = None /\ seen = {} /\ acked = {} /\ restarts = 0
  BY DEF Init, AuditInit
<1>2. \A k \in Kinds, e \in Events : RowsOf(k, e) = {}
  BY <1>1 DEF RowsOf
<1>3. Remembered /\ Once
  BY <1>1, <1>2 DEF Remembered, Once, Has, Pending, Kinds
<1>4. Answered /\ ReplayedMeansReceived
  BY <1>1, <1>2 DEF Answered, AcknowledgedMeansRecorded, ReplayedMeansReceived, Kinds
<1>5. QED BY <1>3, <1>4, TrailInit DEF ReceiverInv

LEMMA ReceiverInvariant == Spec => []ReceiverInv
<1>1. ReceiverInv /\ [Next]_vars => ReceiverInv'
  <2> SUFFICES ASSUME ReceiverInv, [Next]_vars PROVE ReceiverInv'
    OBVIOUS
  <2>1. ChainInv' /\ JobTyped'
    BY ChainStep, JobStep DEF ReceiverInv, ChainInv
  <2>2. Remembered' /\ Once'
    BY RememberedStep, OnceStep DEF ReceiverInv
  <2>3. Answered' /\ ReplayedMeansReceived'
    BY AcknowledgedStep, ReplayedStep DEF ReceiverInv
  <2>4. QED BY <2>1, <2>2, <2>3 DEF ReceiverInv
<1>2. QED BY <1>1, ReceiverInit, PTL DEF Spec

\* However often Razorpay delivers an event, the log has it as received once in
\* the life of the process (handle: the deduplication by event id).
THEOREM EventRecordedOnce == Spec => []RecordedOnce
<1>1. ReceiverInv => RecordedOnce
  BY DEF ReceiverInv, Once, RecordedOnce
<1>2. QED BY <1>1, ReceiverInvariant, PTL

\* An event answered with a 2xx is in the log, whatever died in between, unless
\* its first record raised (handle: the append comes before the answer).
THEOREM AcknowledgedIsRecorded == Spec => []AcknowledgedMeansRecorded
<1>1. ReceiverInv => AcknowledgedMeansRecorded
  BY DEF ReceiverInv, Answered
<1>2. QED BY <1>1, ReceiverInvariant, PTL

\* What the log calls a replay it has as received further up, so a forged
\* delivery suppresses no genuine one (handle: the signature comes first).
THEOREM ReplayedIsReceived == Spec => []ReplayedMeansReceived
<1>1. ReceiverInv => ReplayedMeansReceived
  BY DEF ReceiverInv
<1>2. QED BY <1>1, ReceiverInvariant, PTL

(***************************************************************************)
(* The bounds.                                                             *)
(***************************************************************************)
\* The bounds: an append begins below the bound and holds the lock until it
\* ends, and a change puts in one row at most.
Bounded ==
  /\ Len(appended) <= MaxRows
  /\ \A t \in Threads : txn[t] # None => Len(appended) < MaxRows
  /\ Len(table) <= Len(appended) + tampers
  /\ tampers <= MaxTampers
  /\ report # None => report.checked \in 0 .. MaxRows + MaxTampers

LEMMA BoundedStep ==
  ASSUME ChainInv, JobTyped, Bounded, [Next]_vars
  PROVE  Bounded'
<1>0. /\ table \in Seq(Rows) /\ appended \in Seq(Rows)
      /\ Len(table) \in Nat /\ Len(appended) \in Nat /\ tampers \in Nat
      /\ MaxRows \in Nat /\ MaxTampers \in Nat
  BY AuditAssumption DEF ChainInv, Shape
<1>1. ASSUME NEW t \in Threads, NEW content \in Contents, BeginAppend(t, content)
      PROVE  Bounded'
  BY <1>1 DEF BeginAppend, Bounded
<1>2. ASSUME NEW t \in Threads, CommitAppend(t)
      PROVE  Bounded'
  <2>1. /\ Len(table') = Len(table) + 1 /\ Len(appended') = Len(appended) + 1
        /\ UNCHANGED <<tampers, report>> /\ \A u \in Threads : txn'[u] = None
        /\ Len(appended) < MaxRows
    BY <1>0, <1>2 DEF CommitAppend, ChainInv, Shape, Bounded
  <2>2. QED BY <1>0, <2>1 DEF Bounded
<1>3. CASE Forgets
  BY <1>3 DEF Forgets, Bounded
<1>4. CASE ReportVerdict
  <2>1. UNCHANGED <<table, txn, appended, tampers>> /\ report'.checked = verify_chain(table).row
    BY <1>4 DEF ReportVerdict
  <2>2. verify_chain(table).row \in 0 .. Len(table)
    <3>1. CASE Damaged(table) = {}
      BY <1>0, <3>1 DEF verify_chain
    <3>2. CASE Damaged(table) # {}
      BY <1>0, <3>2, FirstDamaged
    <3>3. QED BY <3>1, <3>2
  <2>3. QED BY <1>0, <2>1, <2>2 DEF Bounded
<1>5. CASE ReportTip
  <2>1. UNCHANGED <<table, txn, appended, tampers>> /\ report # None /\ report'.checked = report.checked
    BY <1>5 DEF ReportTip, ChainInv, Reported
  <2>2. QED BY <2>1 DEF Bounded
<1>6. CASE Tamper
  <2>1. PICK i \in DOMAIN table : ChangedAt(i)
    BY <1>6, TamperChanges DEF ChainInv
  <2>2. table' \in Seq(Rows)
    BY <1>6, TamperShape DEF ChainInv, Shape
  <2>3. UNCHANGED <<txn, appended, report>> /\ tampers' = tampers + 1 /\ tampers < MaxTampers
        /\ Len(table') \in Nat /\ Len(table') <= Len(table) + 1
    BY <1>6, <2>1, <2>2 DEF Tamper, ChangedAt
  <2>4. QED BY <1>0, <2>3 DEF Bounded
<1>7. QED
  BY <1>1, <1>2, <1>3, <1>4, <1>5, <1>6, AuditMoves DEF ChainInv

\* What the receiver remembers are events.
Known ==
  /\ seen \subseteq Events /\ acked \subseteq Events /\ unrecorded \subseteq Events
  /\ restarts \in 0 .. MaxRestarts

LEMMA KnownStep ==
  ASSUME JobTyped, Known, [Next]_vars
  PROVE  Known'
<1> USE WebhooksAssumption DEF Known, JobTyped
<1>1. ASSUME NEW e \in Events \cup {NoId}, NEW signed \in BOOLEAN, Receive(e, signed)
      PROVE  Known'
  BY <1>1 DEF Receive, Remembers
<1>2. CASE RecordRaises
  BY <1>2 DEF RecordRaises
<1>3. CASE Reply
  BY <1>3 DEF Reply
<1>4. CASE Restart
  BY <1>4 DEF Restart
<1>5. CASE UNCHANGED <<seen, acked, unrecorded, restarts>>
  BY <1>5
<1>6. QED
  BY <1>1, <1>2, <1>3, <1>4, <1>5
     DEF Next, Record, RecordCommitted, MoneyAppends, Publish, Tampered, vars

\* Every variable keeps its type and every counter its bound: a report never
\* counts more rows than were appended and put in (AuditChain, Webhooks).
THEOREM TrailTyped == Spec => []TypeOK
<1> DEFINE Inv == ChainInv /\ JobTyped /\ Bounded /\ Known
<1>1. Init => Inv
  <2>1. Init => Bounded
    BY AuditAssumption DEF Init, AuditInit, Bounded
  <2>2. Init => Known
    BY WebhooksAssumption DEF Init, Known
  <2>3. QED BY <2>1, <2>2, TrailInit
<1>2. Inv /\ [Next]_vars => Inv'
  BY ChainStep, JobStep, BoundedStep, KnownStep DEF ChainInv
<1>3. Inv => TypeOK
  <2> SUFFICES ASSUME Inv PROVE TypeOK
    OBVIOUS
  <2>1. job # None => job \in Jobs
    <3> SUFFICES ASSUME job # None PROVE job \in Jobs
      OBVIOUS
    <3>1. PICK k \in Kinds : job.row = RowOf(k, job.event)
      BY DEF JobTyped
    <3>2. job.row \in WebhookContents
      BY <3>1 DEF JobTyped, WebhookContents
    <3>3. QED BY <3>2 DEF JobTyped, Jobs
  <2>2. AuditTypeOK
    BY AuditAssumption DEF AuditTypeOK, Bounded, ChainInv, Shape, Begun
  <2>3. QED BY <2>1, <2>2 DEF TypeOK, Known
<1>4. QED BY <1>1, <1>2, <1>3, PTL DEF Spec
=============================================================================
