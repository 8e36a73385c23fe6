------------------------- MODULE AlertPipelineProofs -------------------------
(***************************************************************************)
(* Theorems about AlertPipeline, for every number of scans, of signals, of *)
(* faults and of delivery attempts.                                        *)
(*                                                                         *)
(* Overlapping scans.  Every write of a pass turns the rows it sees into   *)
(* rows that extend them (Extends: ids, signal facts and row identities    *)
(* are kept, alerted and delivered are never unset).  So a row a pass read *)
(* is still there when it is written, whoever committed in between, and    *)
(* the committed database only ever moves to an extension of itself (Inv). *)
(*                                                                         *)
(* Serial scans.  The one scan under way has read nothing that is out of   *)
(* date: the rows of its flush are still queued, with the attempts it      *)
(* read, and the signals it alerts are unalerted.  So the pending rows are *)
(* one step of a life ahead of the committed ones (two for an alert stored *)
(* and examined in one transaction, which the lifecycle allows), the two   *)
(* tables stay in agreement in both copies, and the calls the tables do    *)
(* not show are the one in hand and one per fault (Settling).              *)
(*                                                                         *)
(* The cooldown.  No delivery on record is later than the clock or than    *)
(* the send in hand, and a scan's `now` is at most ScanLimit behind the    *)
(* clock; so the decision taken at `now` holds at the time of the send     *)
(* (Timed).                                                                *)
(***************************************************************************)
EXTENDS AlertPipeline, SequenceTheorems, TLAPS

(* The rows of b are those of a, possibly updated, and perhaps more.       *)
Extends(a, b) ==
  /\ Len(a.signals) <= Len(b.signals)
  /\ Len(a.notes) <= Len(b.notes)
  /\ \A s \in 1 .. Len(a.signals) :
       /\ b.signals[s].detected = a.signals[s].detected
       /\ a.signals[s].alerted => b.signals[s].alerted
  /\ \A i \in 1 .. Len(a.notes) :
       /\ b.notes[i].sig = a.notes[i].sig
       /\ b.notes[i].created = a.notes[i].created
       /\ a.notes[i].delivered => b.notes[i].delivered

FlushKinds == {"expired", "exhausted", "sent", "transient", "rejected"}
AlertKinds == {"skip", "queue", "sent", "transient", "rejected"}

(* What TypeOK leaves out about one copy of the tables: there is room for  *)
(* every signal id, and every notification refers to a signal.             *)
RowsOK(rows) ==
  /\ Len(rows.signals) <= MaxSignals
  /\ \A i \in 1 .. Len(rows.notes) : rows.notes[i].sig <= Len(rows.signals)

-----------------------------------------------------------------------------
(* One row at a time: the updates of both passes keep the row's type and   *)
(* identity and never unset delivered or alerted.                          *)

LEMMA FlushedRowOK ==
  ASSUME NEW n \in Note, NEW res \in Results, res.kind \in FlushKinds, NEW tries \in Nat
  PROVE  LET f == FlushedRow(n, res, tries) IN
         /\ f \in Note
         /\ f.sig = n.sig /\ f.created = n.created
         /\ n.delivered => f.delivered
         /\ f.delivered => n.delivered \/ res.kind = "sent"
  <1>1. Retries(res.kind, tries) \in BOOLEAN
    BY DEF Retries
  <1>2. CASE res.kind \in {"expired", "exhausted"}
    BY <1>2 DEF FlushedRow, Note, Results
  <1>3. CASE res.kind = "sent"
    <2>1. FlushedRow(n, res, tries) =
            [n EXCEPT !.delivered = TRUE, !.queued = FALSE, !.sentAt = res.at,
                      !.attempts = n.attempts + 1, !.err = "none"]
      BY <1>3 DEF FlushedRow
    <2>2. n.attempts + 1 \in Nat /\ res.at \in Nat
      BY DEF Note, Results
    <2> QED BY <1>3, <2>1, <2>2 DEF Note
  <1>4. CASE res.kind \in {"transient", "rejected"}
    <2> DEFINE again == Retries(res.kind, tries)
               err == IF res.kind = "transient" /\ ~again THEN "exhausted" ELSE res.kind
    <2>1. FlushedRow(n, res, tries) =
            [n EXCEPT !.queued = again, !.attempts = n.attempts + 1, !.err = err]
      BY <1>4 DEF FlushedRow
    <2>2. n.attempts + 1 \in Nat
      BY DEF Note
    <2>3. err \in {"transient", "rejected", "exhausted"}
      BY <1>4
    <2>4. again \in BOOLEAN
      BY <1>1
    <2> HIDE DEF again, err
    <2> QED BY <2>1, <2>2, <2>3, <2>4 DEF Note
  <1> QED BY <1>2, <1>3, <1>4 DEF FlushKinds

LEMMA FlushedSignalOK ==
  ASSUME NEW s \in Signal, NEW res \in Results
  PROVE  LET f == FlushedSignal(s, res) IN
         /\ f \in Signal
         /\ f.detected = s.detected /\ f.alerted = s.alerted
         /\ f.reason # "cooldown" => s.reason # "cooldown"
  BY DEF FlushedSignal, Signal

LEMMA AlertedSignalOK ==
  ASSUME NEW s \in Signal, NEW res \in Results, res.kind \in AlertKinds
  PROVE  LET f == AlertedSignal(s, res) IN
         /\ f \in Signal
         /\ f.detected = s.detected /\ f.alerted
         /\ res.kind = "skip" => f.reason = "cooldown"
  BY DEF AlertedSignal, Signal, AlertKinds

LEMMA NewRowOK ==
  ASSUME NEW s \in Ids, NEW signal \in Signal, NEW created \in Nat,
         NEW res \in Results, res.kind \in AlertKinds \ {"skip"}
  PROVE  LET n == NewRow(s, signal, created, res) IN
         /\ n \in Note
         /\ n.sig = s
         /\ n.delivered <=> res.kind = "sent"
  <1> DEFINE n == NewRow(s, signal, created, res)
             bypass == n.bypass
             queued == n.queued
             delivered == n.delivered
             attempts == n.attempts
             sentAt == n.sentAt
             err == n.err
  <1>1. n = [sig |-> s, created |-> created, bypass |-> bypass,
             queued |-> queued, delivered |-> delivered,
             attempts |-> attempts, sentAt |-> sentAt, err |-> err]
    BY DEF NewRow
  <1>2. queued \in BOOLEAN /\ delivered \in BOOLEAN
        /\ (delivered <=> res.kind = "sent")
    <2>1. queued = (res.kind = "queue" \/ res.kind = "transient")
      BY DEF NewRow
    <2>2. delivered = (res.kind = "sent")
      BY DEF NewRow
    <2> HIDE DEF queued, delivered
    <2>3. queued \in BOOLEAN
      BY <2>1, Zenon
    <2>4. delivered \in BOOLEAN
      BY <2>2, Zenon
    <2>5. delivered <=> res.kind = "sent"
      BY <2>2, Zenon
    <2> QED BY <2>3, <2>4, <2>5
  <1>3. bypass \in BOOLEAN
    <2>1. CASE res.kind = "queue"
      BY <2>1 DEF NewRow
    <2>2. CASE res.kind = "sent"
      <3>1. n.bypass = (IsQuietHours(created) /\ signal.severity = "very_strong")
        BY <2>2 DEF NewRow
      <3> QED BY <3>1
    <2>3. CASE res.kind \notin {"queue", "sent"}
      BY <2>3 DEF NewRow
    <2> QED BY <2>1, <2>2, <2>3
  <1>4. attempts \in Nat
    BY DEF NewRow
  <1>5. sentAt \in Nat \cup {Never}
    BY DEF NewRow, Results
  <1>6. err \in {"none", "transient", "rejected"}
    BY DEF NewRow
  <1> HIDE DEF bypass, queued, delivered, attempts, sentAt, err
  <1>7. n \in Note
    BY <1>1, <1>2, <1>3, <1>4, <1>5, <1>6 DEF Note, NewRow
  <1> QED BY <1>1, <1>2, <1>7

-----------------------------------------------------------------------------
(* One write at a time: every write of a scan extends the rows it saw.     *)

LEMMA ExtendsReflexive ==
  ASSUME NEW a \in Rows
  PROVE  Extends(a, a)
  BY LenProperties DEF Extends, Rows

LEMMA ExtendsTransitive ==
  ASSUME NEW a \in Rows, NEW b \in Rows, NEW c \in Rows, Extends(a, b), Extends(b, c)
  PROVE  Extends(a, c)
  <1>1. /\ Len(a.signals) \in Nat /\ Len(b.signals) \in Nat /\ Len(c.signals) \in Nat
        /\ Len(a.notes) \in Nat /\ Len(b.notes) \in Nat /\ Len(c.notes) \in Nat
    BY LenProperties DEF Rows
  <1> QED BY <1>1 DEF Extends

LEMMA FlushedRowsOK ==
  ASSUME NEW rows \in Rows, RowsOK(rows),
         NEW x \in [id: Nat, tries: Nat], x.id \in 1 .. Len(rows.notes),
         NEW res \in Results, res.kind \in FlushKinds
  PROVE  LET new == FlushedRows(rows, x, res) IN
         /\ new \in Rows /\ RowsOK(new) /\ Extends(rows, new)
         /\ Recorded(rows) => Recorded(new)
         /\ Backed(rows) /\ (res.kind = "sent" =>
                copies[rows.notes[x.id].sig] > unacked[rows.notes[x.id].sig])
              => Backed(new)
  <1> DEFINE n == rows.notes[x.id]
             s == n.sig
             row == FlushedRow(n, res, x.tries)
             signal == FlushedSignal(rows.signals[s], res)
             new == FlushedRows(rows, x, res)
  <1>1. /\ rows.signals \in Seq(Signal) /\ rows.notes \in Seq(Note)
        /\ Len(rows.signals) \in Nat /\ Len(rows.notes) \in Nat
        /\ DOMAIN rows.signals = 1 .. Len(rows.signals)
        /\ DOMAIN rows.notes = 1 .. Len(rows.notes)
    BY LenProperties DEF Rows
  <1>2. n \in Note
    BY <1>1, ElementOfSeq
  <1>3. s \in 1 .. Len(rows.signals)
    BY <1>1, <1>2, SMTT(30) DEF RowsOK, Note, Ids
  <1>4. rows.signals[s] \in Signal
    BY <1>1, <1>3, ElementOfSeq
  <1>5. /\ row \in Note /\ row.sig = n.sig /\ row.created = n.created
        /\ n.delivered => row.delivered
        /\ row.delivered => n.delivered \/ res.kind = "sent"
    BY <1>2, FlushedRowOK, SMTT(30)
  <1>6. /\ signal \in Signal /\ signal.detected = rows.signals[s].detected
        /\ signal.alerted = rows.signals[s].alerted
        /\ signal.reason # "cooldown" => rows.signals[s].reason # "cooldown"
    BY <1>4, FlushedSignalOK
  <1>7. new = [signals |-> [rows.signals EXCEPT ![s] = signal],
               notes |-> [rows.notes EXCEPT ![x.id] = row]]
    BY DEF FlushedRows
  <1> HIDE DEF row, signal, new
  <1>8. /\ new.signals \in Seq(Signal) /\ Len(new.signals) = Len(rows.signals)
        /\ \A t \in 1 .. Len(rows.signals) :
             new.signals[t] = IF t = s THEN signal ELSE rows.signals[t]
    BY <1>1, <1>3, <1>6, <1>7, ExceptSeq, SMTT(30)
  <1>9. /\ new.notes \in Seq(Note) /\ Len(new.notes) = Len(rows.notes)
        /\ \A i \in 1 .. Len(rows.notes) :
             new.notes[i] = IF i = x.id THEN row ELSE rows.notes[i]
    BY <1>1, <1>5, <1>7, ExceptSeq
  <1>10. DOMAIN new.signals = 1 .. Len(rows.signals) /\ DOMAIN new.notes = 1 .. Len(rows.notes)
    BY <1>8, <1>9, LenProperties
  <1>11. new \in Rows
    BY <1>7, <1>8, <1>9 DEF Rows
  <1>12. RowsOK(new)
    BY <1>1, <1>5, <1>8, <1>9 DEF RowsOK
  <1>13. Extends(rows, new)
    <2>1. ASSUME NEW t \in 1 .. Len(rows.signals)
          PROVE  /\ new.signals[t].detected = rows.signals[t].detected
                 /\ rows.signals[t].alerted => new.signals[t].alerted
      BY <1>6, <1>8
    <2>2. ASSUME NEW i \in 1 .. Len(rows.notes)
          PROVE  /\ new.notes[i].sig = rows.notes[i].sig
                 /\ new.notes[i].created = rows.notes[i].created
                 /\ rows.notes[i].delivered => new.notes[i].delivered
      BY <1>5, <1>9
    <2> QED BY <1>1, <1>8, <1>9, <2>1, <2>2 DEF Extends
  <1>14. ASSUME Recorded(rows) PROVE Recorded(new)
    <2>1. ASSUME NEW t \in 1 .. Len(rows.signals),
                 new.signals[t].alerted, new.signals[t].reason # "cooldown"
          PROVE  \E i \in 1 .. Len(rows.notes) : new.notes[i].sig = t
      <3>1. rows.signals[t].alerted /\ rows.signals[t].reason # "cooldown"
        BY <1>6, <1>8, <2>1
      <3>2. PICK i \in 1 .. Len(rows.notes) : rows.notes[i].sig = t
        BY <1>1, <1>14, <3>1 DEF Recorded
      <3> QED BY <1>5, <1>9, <3>2
    <2> QED BY <1>10, <2>1 DEF Recorded
  <1>15. Backed(rows) /\ (res.kind = "sent" => copies[s] > unacked[s]) => Backed(new)
    BY <1>1, <1>5, <1>9, <1>10 DEF Backed
  <1> QED BY <1>11, <1>12, <1>13, <1>14, <1>15 DEF new

LEMMA AlertedRowsOK ==
  ASSUME NEW rows \in Rows, RowsOK(rows),
         NEW s \in 1 .. Len(rows.signals), NEW created \in Nat,
         NEW res \in Results, res.kind \in AlertKinds
  PROVE  LET new == AlertedRows(rows, s, created, res) IN
         /\ new \in Rows /\ RowsOK(new) /\ Extends(rows, new)
         /\ Recorded(rows) => Recorded(new)
         /\ Backed(rows) /\ (res.kind = "sent" => copies[s] > unacked[s])
              => Backed(new)
  <1> DEFINE signal == AlertedSignal(rows.signals[s], res)
             row == NewRow(s, rows.signals[s], created, res)
             notes == IF res.kind = "skip" THEN rows.notes ELSE Append(rows.notes, row)
             new == AlertedRows(rows, s, created, res)
  <1>1. /\ rows.signals \in Seq(Signal) /\ rows.notes \in Seq(Note)
        /\ Len(rows.signals) \in Nat /\ Len(rows.notes) \in Nat
        /\ DOMAIN rows.signals = 1 .. Len(rows.signals)
        /\ DOMAIN rows.notes = 1 .. Len(rows.notes)
    BY LenProperties DEF Rows
  <1>2. rows.signals[s] \in Signal /\ s \in Ids
    BY <1>1, ElementOfSeq, PipelineAssumption DEF RowsOK, Ids
  <1>3. /\ signal \in Signal /\ signal.detected = rows.signals[s].detected
        /\ signal.alerted
        /\ res.kind = "skip" => signal.reason = "cooldown"
    BY <1>2, AlertedSignalOK
  <1>4. res.kind # "skip" =>
          /\ row \in Note /\ row.sig = s
          /\ row.delivered <=> res.kind = "sent"
    BY <1>2, NewRowOK
  <1>5. new = [signals |-> [rows.signals EXCEPT ![s] = signal], notes |-> notes]
    BY DEF AlertedRows
  <1> HIDE DEF row, signal, new
  <1>6. /\ new.signals \in Seq(Signal) /\ Len(new.signals) = Len(rows.signals)
        /\ \A t \in 1 .. Len(rows.signals) :
             new.signals[t] = IF t = s THEN signal ELSE rows.signals[t]
    BY <1>1, <1>3, <1>5, ExceptSeq
  <1>7. /\ notes \in Seq(Note) /\ Len(rows.notes) <= Len(notes)
        /\ \A i \in 1 .. Len(rows.notes) : notes[i] = rows.notes[i]
        /\ \A i \in 1 .. Len(notes) :
             i \in 1 .. Len(rows.notes) \/ (res.kind # "skip" /\ notes[i] = row)
        /\ res.kind # "skip" =>
             Len(rows.notes) + 1 \in 1 .. Len(notes) /\ notes[Len(rows.notes) + 1] = row
    <2>1. CASE res.kind = "skip"
      BY <1>1, <2>1
    <2>2. CASE res.kind # "skip"
      BY <1>1, <1>4, <2>2, AppendProperties
    <2> QED BY <2>1, <2>2
  <1> HIDE DEF notes
  <1>8. /\ new.notes = notes
        /\ DOMAIN new.signals = 1 .. Len(rows.signals) /\ DOMAIN notes = 1 .. Len(notes)
        /\ Len(notes) \in Nat
    BY <1>5, <1>6, <1>7, LenProperties
  <1>9. new \in Rows
    BY <1>5, <1>6, <1>7 DEF Rows
  <1>10. RowsOK(new)
    BY <1>1, <1>4, <1>6, <1>7, <1>8 DEF RowsOK
  <1>11. Extends(rows, new)
    <2>1. ASSUME NEW t \in 1 .. Len(rows.signals)
          PROVE  /\ new.signals[t].detected = rows.signals[t].detected
                 /\ rows.signals[t].alerted => new.signals[t].alerted
      BY <1>3, <1>6
    <2>2. \A i \in 1 .. Len(rows.notes) : new.notes[i] = rows.notes[i]
      BY <1>7, <1>8
    <2> QED BY <1>1, <1>6, <1>7, <1>8, <2>1, <2>2 DEF Extends
  <1>12. ASSUME Recorded(rows) PROVE Recorded(new)
    <2>1. ASSUME NEW t \in 1 .. Len(rows.signals),
                 new.signals[t].alerted, new.signals[t].reason # "cooldown"
          PROVE  \E i \in 1 .. Len(notes) : notes[i].sig = t
      <3>1. CASE t = s
        BY <1>3, <1>4, <1>6, <1>7, <2>1, <3>1
      <3>2. CASE t # s
        <4>1. PICK i \in 1 .. Len(rows.notes) : rows.notes[i].sig = t
          BY <1>1, <1>6, <1>12, <2>1, <3>2 DEF Recorded
        <4> QED BY <1>1, <1>7, <1>8, <4>1
      <3> QED BY <3>1, <3>2
    <2> QED BY <1>8, <2>1 DEF Recorded
  <1>13. Backed(rows) /\ (res.kind = "sent" => copies[s] > unacked[s]) => Backed(new)
    BY <1>1, <1>4, <1>7, <1>8 DEF Backed
  <1> QED BY <1>9, <1>10, <1>11, <1>12, <1>13 DEF new

LEMMA WithSignalOK ==
  ASSUME NEW rows \in Rows, RowsOK(rows), Len(rows.signals) < MaxSignals,
         NEW c \in Candidates, NEW detected \in Nat
  PROVE  LET new == WithSignal(rows, c, detected) IN
         /\ new \in Rows /\ RowsOK(new) /\ Extends(rows, new)
         /\ Recorded(rows) => Recorded(new)
         /\ Backed(rows) => Backed(new)
  <1> DEFINE signal == [symbol |-> c.symbol, severity |-> c.severity,
                        score |-> c.score, detected |-> detected,
                        alerted |-> FALSE, reason |-> "none"]
             new == WithSignal(rows, c, detected)
  <1>1. /\ rows.signals \in Seq(Signal) /\ rows.notes \in Seq(Note)
        /\ Len(rows.signals) \in Nat /\ Len(rows.notes) \in Nat
        /\ DOMAIN rows.signals = 1 .. Len(rows.signals)
    BY LenProperties DEF Rows
  <1>2. signal \in Signal /\ ~signal.alerted
    BY PipelineAssumption DEF Signal
  <1>3. new = [signals |-> Append(rows.signals, signal), notes |-> rows.notes]
    BY DEF WithSignal
  <1> HIDE DEF signal, new
  <1>4. /\ new.signals \in Seq(Signal) /\ Len(new.signals) = Len(rows.signals) + 1
        /\ \A t \in 1 .. Len(rows.signals) : new.signals[t] = rows.signals[t]
        /\ new.signals[Len(rows.signals) + 1] = signal
        /\ new.notes = rows.notes
        /\ DOMAIN new.signals = 1 .. Len(rows.signals) + 1
    BY <1>1, <1>2, <1>3, AppendProperties, LenProperties
  <1>5. new \in Rows
    BY <1>1, <1>3, <1>4 DEF Rows
  <1>6. RowsOK(new)
    <2>1. ASSUME NEW i \in 1 .. Len(rows.notes)
          PROVE  rows.notes[i].sig \in Nat
      <3>1. rows.notes[i] \in Note
        BY <1>1, ElementOfSeq
      <3> QED BY <3>1 DEF Note, Ids
    <2>2. MaxSignals \in Nat
      BY PipelineAssumption
    <2>3. Len(new.signals) <= MaxSignals
      BY <1>1, <1>4, <2>2
    <2>4. \A i \in 1 .. Len(rows.notes) : rows.notes[i].sig <= Len(new.signals)
      BY <1>1, <1>4, <2>1 DEF RowsOK
    <2> QED BY <1>4, <2>3, <2>4 DEF RowsOK
  <1>7. Extends(rows, new)
    BY <1>1, <1>4 DEF Extends
  <1>8. Recorded(rows) => Recorded(new)
    BY <1>1, <1>2, <1>4 DEF Recorded
  <1>9. Backed(rows) => Backed(new)
    BY <1>4 DEF Backed
  <1> QED BY <1>5, <1>6, <1>7, <1>8, <1>9 DEF new

-----------------------------------------------------------------------------
(* The inductive invariant.                                                *)

(* A pinned scan reads rows that the committed ones extend.                *)
SnapOK(p) ==
  snap[p].pinned => RowsOK(snap[p].rows) /\ Extends(snap[p].rows, db)

(* The committed rows, the lock holder's copy, the pinned snapshots, and   *)
(* how they are related.                                                   *)
StoreOK ==
  /\ db \in Rows /\ work \in Rows
  /\ writer \in Scans \cup {NoScan}
  /\ snap \in [Scans -> Snapshots]
  /\ \A p \in Scans : SnapOK(p)
  /\ RowsOK(db) /\ RowsOK(work)
  /\ Extends(db, work)
  /\ writer = NoScan => work = db
  /\ Recorded(db) /\ Recorded(work)
  /\ Backed(db) /\ Backed(work)

(* The rows a pass still has to deal with exist in what its connection     *)
(* sees, its pending result is one the pass can produce, and a successful  *)
(* send about to be recorded is backed by a copy that arrived.             *)
PassOK(p) ==
  /\ pc[p] \notin {"flushing", "alerting"} => result[p] = NoResult
  /\ pc[p] = "flushing" =>
       /\ \A x \in batch[p] : x.id \in 1 .. Len(View(p).notes)
       /\ result[p] # NoResult => result[p].kind \in FlushKinds
       /\ result[p].kind = "sent" =>
            \A x \in batch[p] : NextRow(p, x) =>
              copies[View(p).notes[x.id].sig] > unacked[View(p).notes[x.id].sig]
  /\ pc[p] = "alerting" =>
       /\ \A x \in batch[p] : x.id \in 1 .. Len(View(p).signals)
       /\ result[p] # NoResult => result[p].kind \in AlertKinds
       /\ result[p].kind = "sent" =>
            \A x \in batch[p] : NextSignal(p, x) => copies[x.id] > unacked[x.id]

(* An unacknowledged copy is a copy.                                       *)
PhoneOK == \A s \in Ids : unacked[s] <= copies[s]

Inv == TypeOK /\ StoreOK /\ PhoneOK /\ \A p \in Scans : PassOK(p)

(* A delivered copy stays delivered.                                       *)
CopiesGrow ==
  \A s \in Ids : copies[s] > unacked[s] => copies'[s] > unacked'[s]

LEMMA ViewOK ==
  ASSUME StoreOK, NEW p \in Scans
  PROVE  View(p) \in Rows /\ RowsOK(View(p))
  BY DEF StoreOK, SnapOK, Snapshots, View

LEMMA ViewTyped ==
  ASSUME StoreOK', NEW p \in Scans
  PROVE  View(p)' \in Rows
  BY DEF StoreOK, Snapshots, View

(* The writer of a row works on what its connection sees.                  *)
LEMMA WriterView ==
  ASSUME StoreOK, NEW q \in Scans, CanWrite(q)
  PROVE  View(q) = work
  BY PipelineAssumption DEF StoreOK, View, CanWrite

(* Scan q's reads are released; the others' stay as they were.             *)
LEMMA UnpinOK ==
  ASSUME StoreOK, NEW q \in Scans, Unpin(q), db' \in Rows, Extends(db, db')
  PROVE  /\ snap' \in [Scans -> Snapshots]
         /\ ~snap'[q].pinned
         /\ \A p \in Scans \ {q} : snap'[p] = snap[p]
         /\ \A p \in Scans : SnapOK(p)'
  <1>1. Live \in Snapshots /\ ~Live.pinned
    BY DEF Live, Snapshots, Rows, Empty
  <1>2. /\ snap' \in [Scans -> Snapshots] /\ snap'[q] = Live
        /\ \A p \in Scans \ {q} : snap'[p] = snap[p]
    BY <1>1 DEF StoreOK, Unpin
  <1>3. ASSUME NEW p \in Scans, snap'[p].pinned
        PROVE  RowsOK(snap'[p].rows) /\ Extends(snap'[p].rows, db')
    <2>1. snap'[p] = snap[p] /\ snap[p].rows \in Rows
      BY <1>1, <1>2, <1>3 DEF StoreOK, Snapshots
    <2>2. RowsOK(snap[p].rows) /\ Extends(snap[p].rows, db)
      BY <1>3, <2>1 DEF StoreOK, SnapOK
    <2> QED BY <2>1, <2>2, ExtendsTransitive DEF StoreOK
  <1> QED BY <1>1, <1>2, <1>3 DEF SnapOK, RowsOK

LEMMA WriteOK ==
  ASSUME StoreOK, NEW q \in Scans, NEW rows \in Rows,
         RowsOK(rows), Extends(work, rows), Recorded(rows), Backed(rows),
         Write(q, rows), UNCHANGED phoneVars
  PROVE  StoreOK' /\ \A p \in Scans : Extends(View(p), View(p)')
  <1>1. /\ db' = db /\ work' = rows /\ writer' = q /\ CanWrite(q) /\ Unpin(q)
        /\ copies' = copies /\ unacked' = unacked
    BY DEF Write, phoneVars
  <1>2. Extends(db, rows) /\ Extends(db, db)
    BY ExtendsTransitive, ExtendsReflexive DEF StoreOK
  <1>3. q # NoScan /\ writer \in {NoScan, q}
    BY <1>1, PipelineAssumption DEF CanWrite
  <1>4. Backed(db)' /\ Backed(work)'
    BY <1>1 DEF StoreOK, Backed
  <1>5. /\ snap' \in [Scans -> Snapshots]
        /\ \A p \in Scans \ {q} : snap'[p] = snap[p]
        /\ \A p \in Scans : SnapOK(p)'
    BY <1>1, <1>2, UnpinOK DEF StoreOK
  <1>6. StoreOK'
    BY <1>1, <1>2, <1>3, <1>4, <1>5 DEF StoreOK, Recorded
  <1>7. ASSUME NEW p \in Scans PROVE Extends(View(p), View(p)')
    <2>1. CASE p = q
      <3>1. View(p) = work
        BY <1>1, <2>1, WriterView
      <3>2. View(p)' = rows
        BY <1>1, <2>1 DEF View
      <3> QED BY <3>1, <3>2
    <2>2. CASE p # q
      <3>1. View(p)' = View(p)
        BY <1>1, <1>3, <1>5, <2>2, PipelineAssumption DEF View
      <3> QED BY <3>1, ViewOK, ExtendsReflexive
    <2> QED BY <2>1, <2>2
  <1> QED BY <1>6, <1>7

(* The views of the other scans follow what q publishes.                   *)
LEMMA OthersView ==
  ASSUME StoreOK, NEW q \in Scans, writer \in {NoScan, q}, writer' = NoScan,
         \A p \in Scans \ {q} : snap'[p] = snap[p], Extends(db, db')
  PROVE  \A p \in Scans \ {q} : Extends(View(p), View(p)')
  <1> SUFFICES ASSUME NEW p \in Scans \ {q} PROVE Extends(View(p), View(p)')
    OBVIOUS
  <1>1. writer # p /\ writer' # p
    BY PipelineAssumption
  <1>2. CASE snap[p].pinned
    BY <1>1, <1>2, ViewOK, ExtendsReflexive DEF View
  <1>3. CASE ~snap[p].pinned
    BY <1>1, <1>3 DEF View
  <1> QED BY <1>2, <1>3

LEMMA CommitOK ==
  ASSUME StoreOK, NEW q \in Scans, Commit(q), UNCHANGED phoneVars
  PROVE  StoreOK' /\ (\A p \in Scans : Extends(View(p), View(p)')) /\ Extends(db, db')
  <1>0. copies' = copies /\ unacked' = unacked /\ Unpin(q)
    BY DEF phoneVars, Commit
  <1>1. CASE writer = q
    <2>1. db' = work /\ work' = work /\ writer' = NoScan
      BY <1>1 DEF Commit
    <2>2. Backed(db)' /\ Backed(work)'
      BY <1>0, <2>1 DEF StoreOK, Backed
    <2>3. Extends(work, work) /\ Extends(db, db')
      BY <2>1, ExtendsReflexive DEF StoreOK
    <2>4. /\ snap' \in [Scans -> Snapshots] /\ ~snap'[q].pinned
          /\ \A p \in Scans \ {q} : snap'[p] = snap[p]
          /\ \A p \in Scans : SnapOK(p)'
      BY <1>0, <2>1, <2>3, UnpinOK DEF StoreOK
    <2>5. StoreOK'
      BY <2>1, <2>2, <2>3, <2>4 DEF StoreOK, Recorded
    <2>6. Extends(View(q), View(q)')
      BY <1>1, <2>1, <2>3, <2>4, PipelineAssumption DEF View
    <2>7. \A p \in Scans \ {q} : Extends(View(p), View(p)')
      BY <1>1, <2>1, <2>3, <2>4, OthersView
    <2> QED BY <2>3, <2>5, <2>6, <2>7
  <1>2. CASE writer # q
    <2>1. UNCHANGED <<db, work, writer>>
      BY <1>2 DEF Commit
    <2>2. Extends(db, db)
      BY ExtendsReflexive DEF StoreOK
    <2>3. /\ snap' \in [Scans -> Snapshots] /\ ~snap'[q].pinned
          /\ \A p \in Scans \ {q} : snap'[p] = snap[p]
          /\ \A p \in Scans : SnapOK(p)'
      BY <1>0, <2>1, <2>2, UnpinOK DEF StoreOK
    <2>4. StoreOK'
      BY <1>0, <2>1, <2>3 DEF StoreOK, Backed, Recorded
    <2>5. Extends(View(q), View(q)')
      BY <1>2, <2>1, <2>2, <2>3 DEF StoreOK, SnapOK, View
    <2>6. ASSUME NEW p \in Scans \ {q} PROVE Extends(View(p), View(p)')
      <3>1. View(p)' = View(p)
        BY <2>1, <2>3 DEF View
      <3> QED BY <3>1, ViewOK, ExtendsReflexive
    <2> QED BY <2>1, <2>2, <2>4, <2>5, <2>6
  <1> QED BY <1>1, <1>2

LEMMA RollbackOK ==
  ASSUME StoreOK, NEW q \in Scans, Rollback(q), UNCHANGED phoneVars
  PROVE  StoreOK' /\ db' = db
         /\ \A p \in Scans \ {q} : Extends(View(p), View(p)')
  <1>0. copies' = copies /\ unacked' = unacked /\ Unpin(q)
    BY DEF phoneVars, Rollback
  <1>1. /\ db' = db /\ writer' \in Scans \cup {NoScan}
        /\ (work' = db /\ writer' = NoScan /\ writer = q)
           \/ (work' = work /\ writer' = writer)
    BY DEF Rollback, StoreOK
  <1>2. Extends(db, db)
    BY ExtendsReflexive DEF StoreOK
  <1>3. Backed(db)' /\ Backed(work)'
    BY <1>0, <1>1 DEF StoreOK, Backed
  <1>4. /\ snap' \in [Scans -> Snapshots]
        /\ \A p \in Scans \ {q} : snap'[p] = snap[p]
        /\ \A p \in Scans : SnapOK(p)'
    BY <1>0, <1>1, <1>2, UnpinOK DEF StoreOK
  <1>5. StoreOK'
    BY <1>1, <1>2, <1>3, <1>4 DEF StoreOK, Recorded
  <1>6. ASSUME NEW p \in Scans \ {q} PROVE Extends(View(p), View(p)')
    <2>1. CASE work' = work /\ writer' = writer
      <3>1. View(p)' = View(p)
        BY <1>1, <1>4, <2>1 DEF View
      <3> QED BY <3>1, ViewOK, ExtendsReflexive
    <2>2. CASE writer' = NoScan /\ writer = q
      BY <1>1, <1>2, <1>4, <2>2, OthersView
    <2> QED BY <1>1, <2>1, <2>2
  <1> QED BY <1>1, <1>5, <1>6

(* A timed-out write pins the reads of q to what is committed.             *)
LEMMA TimeoutOK ==
  ASSUME TypeOK, StoreOK, NEW q \in Scans, Timeout(q), UNCHANGED phoneVars
  PROVE  StoreOK' /\ db' = db
         /\ \A p \in Scans \ {q} : Extends(View(p), View(p)')
  <1>1. /\ UNCHANGED <<db, work, writer>> /\ copies' = copies /\ unacked' = unacked
        /\ snap' = [snap EXCEPT ![q] = Pinned(db)]
    BY DEF Timeout, phoneVars
  <1>2. /\ Pinned(db) \in Snapshots /\ Pinned(db).rows = db
        /\ Extends(db, db)
    BY ExtendsReflexive DEF StoreOK, Pinned, Snapshots
  <1>3. snap' \in [Scans -> Snapshots] /\ \A p \in Scans : SnapOK(p)'
    BY <1>1, <1>2 DEF StoreOK, SnapOK, RowsOK
  <1>4. StoreOK'
    BY <1>1, <1>3 DEF StoreOK, Backed, Recorded
  <1>5. ASSUME NEW p \in Scans \ {q} PROVE Extends(View(p), View(p)')
    <2>1. View(p)' = View(p)
      BY <1>1 DEF View, StoreOK
    <2> QED BY <2>1, ViewOK, ExtendsReflexive
  <1> QED BY <1>1, <1>4, <1>5

LEMMA PersistOK ==
  ASSUME TypeOK, StoreOK, NEW q \in Scans, PersistSignal(q)
  PROVE  StoreOK' /\ (\A p \in Scans : Extends(View(p), View(p)')) /\ Extends(db, db')
  <1>1. /\ copies' = copies /\ unacked' = unacked /\ Unpin(q) /\ CanWrite(q)
        /\ writer' = NoScan /\ work' = db' /\ writer \in {NoScan, q}
    BY DEF PersistSignal, phoneVars, CanWrite
  <1>2. PICK c \in Candidates : db' = WithSignal(work, c, now[q])
    BY DEF PersistSignal
  <1>3. now[q] \in Nat /\ Len(work.signals) < MaxSignals
    BY PipelineAssumption DEF PersistSignal, TypeOK
  <1>4. /\ db' \in Rows /\ RowsOK(db') /\ Extends(work, db')
        /\ Recorded(work) => Recorded(db')
        /\ Backed(work) => Backed(WithSignal(work, c, now[q]))
    BY <1>2, <1>3, WithSignalOK DEF StoreOK
  <1>5. Extends(db, db') /\ Extends(db', db')
    BY <1>4, ExtendsTransitive, ExtendsReflexive DEF StoreOK
  <1>6. Backed(db)'
    BY <1>1, <1>2, <1>4 DEF StoreOK, Backed
  <1>7. /\ snap' \in [Scans -> Snapshots] /\ ~snap'[q].pinned
        /\ \A p \in Scans \ {q} : snap'[p] = snap[p]
        /\ \A p \in Scans : SnapOK(p)'
    BY <1>1, <1>4, <1>5, UnpinOK
  <1>8. StoreOK'
    BY <1>1, <1>4, <1>5, <1>6, <1>7 DEF StoreOK, Recorded, Backed, RowsOK
  <1>9. Extends(View(q), View(q)')
    <2>1. View(q) = work
      BY <1>1, WriterView
    <2>2. View(q)' = db'
      BY <1>1, <1>7, PipelineAssumption DEF View
    <2> QED BY <1>4, <2>1, <2>2
  <1>10. \A p \in Scans \ {q} : Extends(View(p), View(p)')
    BY <1>1, <1>5, <1>7, OthersView
  <1> QED BY <1>5, <1>8, <1>9, <1>10

-----------------------------------------------------------------------------
(* A pass survives whatever the other scans commit, and its own writes.    *)

LEMMA NextRowStable ==
  ASSUME StoreOK, StoreOK', NEW p \in Scans, Extends(View(p), View(p)'),
         batch'[p] = batch[p], \A y \in batch[p] : y.id \in 1 .. Len(View(p).notes),
         NEW x, NextRow(p, x)'
  PROVE  NextRow(p, x) /\ View(p)'.notes[x.id].sig = View(p).notes[x.id].sig
  <1> DEFINE old == View(p)
             new == View(p)'
  <1>1. \A i \in 1 .. Len(old.notes) :
          new.notes[i].sig = old.notes[i].sig /\ new.notes[i].created = old.notes[i].created
    BY DEF Extends
  <1>2. /\ x \in batch[p]
        /\ \A y \in batch[p] :
             Precedes(new.notes[x.id].created, x.id, new.notes[y.id].created, y.id)
    BY DEF NextRow
  <1> HIDE DEF old, new
  <1>3. \A y \in batch[p] :
          Precedes(old.notes[x.id].created, x.id, old.notes[y.id].created, y.id)
    BY <1>1, <1>2 DEF old
  <1> QED BY <1>1, <1>2, <1>3 DEF NextRow, old, new

LEMMA NextSignalStable ==
  ASSUME StoreOK, StoreOK', NEW p \in Scans, Extends(View(p), View(p)'),
         batch'[p] = batch[p], \A y \in batch[p] : y.id \in 1 .. Len(View(p).signals),
         NEW x, NextSignal(p, x)'
  PROVE  NextSignal(p, x)
  <1> DEFINE old == View(p)
             new == View(p)'
  <1>1. \A s \in 1 .. Len(old.signals) :
          new.signals[s].detected = old.signals[s].detected
    BY DEF Extends
  <1>2. /\ x \in batch[p]
        /\ \A y \in batch[p] :
             Precedes(new.signals[x.id].detected, x.id, new.signals[y.id].detected, y.id)
    BY DEF NextSignal
  <1> HIDE DEF old, new
  <1>3. \A y \in batch[p] :
          Precedes(old.signals[x.id].detected, x.id, old.signals[y.id].detected, y.id)
    BY <1>1, <1>2 DEF old
  <1> QED BY <1>2, <1>3 DEF NextSignal, old

LEMMA PassKept ==
  ASSUME StoreOK, StoreOK', CopiesGrow, NEW p \in Scans, PassOK(p),
         Extends(View(p), View(p)'),
         pc'[p] = pc[p], batch'[p] = batch[p], result'[p] = result[p]
  PROVE  PassOK(p)'
  <1>1. /\ View(p) \in Rows /\ RowsOK(View(p))
        /\ View(p)' \in Rows
    BY ViewOK, ViewTyped
  <1>2. /\ Len(View(p).notes) \in Nat /\ Len(View(p)'.notes) \in Nat
        /\ Len(View(p).signals) \in Nat /\ Len(View(p)'.signals) \in Nat
        /\ Len(View(p).notes) <= Len(View(p)'.notes)
        /\ Len(View(p).signals) <= Len(View(p)'.signals)
        /\ Len(View(p).signals) <= MaxSignals
    BY <1>1, LenProperties DEF Rows, Extends, RowsOK
  <1>3. CASE pc[p] = "flushing"
    <2>1. \A x \in batch'[p] : x.id \in 1 .. Len(View(p)'.notes)
      BY <1>2, <1>3 DEF PassOK
    <2>2. ASSUME result'[p].kind = "sent", NEW x \in batch'[p], NextRow(p, x)'
          PROVE  copies'[View(p)'.notes[x.id].sig] > unacked'[View(p)'.notes[x.id].sig]
      <3>1. NextRow(p, x) /\ View(p)'.notes[x.id].sig = View(p).notes[x.id].sig
        BY <1>3, <2>2, NextRowStable DEF PassOK
      <3>2. View(p).notes[x.id] \in Note
        BY <1>1, <1>3, ElementOfSeq DEF PassOK, Rows
      <3> QED BY <1>3, <2>2, <3>1, <3>2 DEF PassOK, CopiesGrow, Note
    <2> QED BY <1>3, <2>1, <2>2 DEF PassOK
  <1>4. CASE pc[p] = "alerting"
    <2>1. \A x \in batch'[p] : x.id \in 1 .. Len(View(p)'.signals)
      BY <1>2, <1>4 DEF PassOK
    <2>2. ASSUME result'[p].kind = "sent", NEW x \in batch'[p], NextSignal(p, x)'
          PROVE  copies'[x.id] > unacked'[x.id]
      <3>1. NextSignal(p, x)
        BY <1>4, <2>2, NextSignalStable DEF PassOK
      <3>2. x.id \in Ids
        BY <1>2, <1>4, <2>2, PipelineAssumption DEF PassOK, Ids
      <3> QED BY <1>4, <2>2, <3>1, <3>2 DEF PassOK, CopiesGrow
    <2> QED BY <1>4, <2>1, <2>2 DEF PassOK
  <1>5. CASE pc[p] \notin {"flushing", "alerting"}
    BY <1>5 DEF PassOK
  <1> QED BY <1>3, <1>4, <1>5

(* A pass that recorded a row, or has just read its list.                  *)
LEMMA PassMoved ==
  ASSUME NEW p \in Scans, result'[p] = NoResult,
         pc'[p] = "flushing" => \A x \in batch'[p] : x.id \in 1 .. Len(View(p)'.notes),
         pc'[p] = "alerting" => \A x \in batch'[p] : x.id \in 1 .. Len(View(p)'.signals)
  PROVE  PassOK(p)'
  BY DEF PassOK, NoResult

LEMMA CallGrows ==
  ASSUME TypeOK, PhoneOK, NEW s \in Ids, NEW outcome \in Outcomes, Call(s, outcome)
  PROVE  /\ CopiesGrow /\ PhoneOK'
         /\ outcome.kind = "sent" => copies'[s] > unacked'[s]
         /\ calls' \in [Ids -> Nat] /\ copies' \in [Ids -> Nat] /\ unacked' \in [Ids -> Nat]
  BY DEF TypeOK, Call, CopiesGrow, PhoneOK, Outcomes

(* No sender call happens outside the send actions.                        *)
LEMMA QuietPhone ==
  ASSUME UNCHANGED phoneVars
  PROVE  CopiesGrow /\ (PhoneOK => PhoneOK')
  BY DEF phoneVars, CopiesGrow, PhoneOK

(* A step that leaves the tables alone.                                    *)
LEMMA StoreKept ==
  ASSUME TypeOK, StoreOK, UNCHANGED dbVars, CopiesGrow
  PROVE  StoreOK' /\ \A p \in Scans : Extends(View(p), View(p)')
  <1>1. db' = db /\ work' = work /\ writer' = writer /\ snap' = snap
    BY DEF dbVars
  <1>2. ASSUME NEW rows \in Rows, Backed(rows) PROVE Backed(rows)'
    <2>1. \A i \in DOMAIN rows.notes : rows.notes[i].sig \in Ids
      <3>1. ASSUME NEW i \in DOMAIN rows.notes PROVE rows.notes[i] \in Note
        BY LenProperties, ElementOfSeq DEF Rows
      <3> QED BY <3>1 DEF Note
    <2> QED BY <1>2, <2>1 DEF Backed, CopiesGrow
  <1>3. Backed(db)' /\ Backed(work)'
    BY <1>1, <1>2 DEF StoreOK
  <1>4. StoreOK'
    BY <1>1, <1>3 DEF StoreOK, SnapOK, RowsOK, Recorded
  <1>5. ASSUME NEW p \in Scans PROVE Extends(View(p), View(p)')
    <2>1. View(p)' = View(p)
      BY <1>1 DEF View
    <2> QED BY <2>1, ViewOK, ExtendsReflexive
  <1> QED BY <1>4, <1>5

-----------------------------------------------------------------------------
(* The steps.                                                              *)

(* What remains of TypeOK once the tables are taken care of.               *)
TypesKept ==
  /\ clock' \in 0 .. MaxClock
  /\ pc' \in [Scans -> {"idle", "flush", "flushing", "score", "alerting"}]
  /\ now' \in [Scans -> 0 .. MaxClock]
  /\ batch' \in [Scans -> SUBSET [id: Nat, tries: Nat]]
  /\ result' \in [Scans -> Results]
  /\ calls' \in [Ids -> Nat] /\ copies' \in [Ids -> Nat] /\ unacked' \in [Ids -> Nat]
  /\ faults' \in 0 .. MaxFaults

(* Scan q alone moves.                                                     *)
OnlyMoves(q) ==
  \A p \in Scans \ {q} :
    pc'[p] = pc[p] /\ batch'[p] = batch[p] /\ result'[p] = result[p]

LEMMA InvFromParts ==
  ASSUME Inv, NEW q \in Scans, OnlyMoves(q), TypesKept, StoreOK', PhoneOK', CopiesGrow,
         PassOK(q)', \A p \in Scans \ {q} : Extends(View(p), View(p)')
  PROVE  Inv'
  <1>1. TypeOK'
    BY DEF TypesKept, StoreOK, TypeOK
  <1>2. ASSUME NEW p \in Scans PROVE PassOK(p)'
    <2>1. CASE p = q
      BY <2>1
    <2>2. CASE p # q
      BY <2>2, PassKept DEF Inv, OnlyMoves
    <2> QED BY <2>1, <2>2
  <1> QED BY <1>1, <1>2 DEF Inv

(* A step of scan q that touches neither the tables nor the phone.         *)
LEMMA LocalStep ==
  ASSUME Inv, NEW q \in Scans, UNCHANGED dbVars, UNCHANGED phoneVars,
         OnlyMoves(q), TypesKept, PassOK(q)'
  PROVE  Inv' /\ Extends(db, db')
  <1>1. CopiesGrow /\ PhoneOK'
    BY QuietPhone DEF Inv
  <1>2. StoreOK' /\ \A p \in Scans : Extends(View(p), View(p)')
    BY <1>1, StoreKept DEF Inv
  <1>3. Extends(db, db')
    BY ExtendsReflexive DEF dbVars, Inv, StoreOK
  <1> QED BY <1>1, <1>2, <1>3, InvFromParts

(* A step of scan q whose write timed out.                                 *)
LEMMA TimeoutStep ==
  ASSUME Inv, NEW q \in Scans, Timeout(q), UNCHANGED phoneVars,
         OnlyMoves(q), TypesKept, PassOK(q)'
  PROVE  Inv' /\ Extends(db, db')
  <1>1. CopiesGrow /\ PhoneOK'
    BY QuietPhone DEF Inv
  <1>2. StoreOK' /\ db' = db /\ \A p \in Scans \ {q} : Extends(View(p), View(p)')
    BY TimeoutOK DEF Inv
  <1>3. Extends(db, db')
    BY <1>2, ExtendsReflexive DEF Inv, StoreOK
  <1> QED BY <1>1, <1>2, <1>3, InvFromParts

LEMMA TickInv ==
  ASSUME Inv, Tick
  PROVE  Inv' /\ Extends(db, db')
  <1>1. /\ UNCHANGED dbVars /\ UNCHANGED phoneVars /\ db' = db
        /\ pc' = pc /\ batch' = batch /\ result' = result
    BY DEF Tick, dbVars, phoneVars
  <1>2. CopiesGrow /\ PhoneOK'
    BY <1>1, QuietPhone DEF Inv
  <1>3. StoreOK' /\ \A p \in Scans : Extends(View(p), View(p)')
    BY <1>1, <1>2, StoreKept DEF Inv
  <1>4. \A p \in Scans : PassOK(p)'
    BY <1>1, <1>2, <1>3, PassKept DEF Inv
  <1>5. TypeOK'
    BY <1>3, PipelineAssumption DEF Tick, Inv, TypeOK, StoreOK, phoneVars
  <1> QED BY <1>1, <1>2, <1>3, <1>4, <1>5, ExtendsReflexive DEF Inv, StoreOK

LEMMA StartScanInv ==
  ASSUME Inv, NEW q \in Scans, StartScan(q)
  PROVE  Inv' /\ Extends(db, db')
  <1>1. UNCHANGED dbVars /\ UNCHANGED phoneVars /\ OnlyMoves(q)
    BY DEF StartScan, OnlyMoves, Inv, TypeOK
  <1>2. TypesKept
    BY DEF StartScan, TypesKept, phoneVars, Inv, TypeOK
  <1>3. PassOK(q)'
    BY DEF StartScan, PassOK, Inv, TypeOK
  <1> QED BY <1>1, <1>2, <1>3, LocalStep

(* The list a pass reads.                                                  *)
LEMMA ReadQueueInv ==
  ASSUME Inv, NEW q \in Scans, ReadQueue(q)
  PROVE  Inv' /\ Extends(db, db')
  <1>1. UNCHANGED dbVars /\ UNCHANGED phoneVars /\ OnlyMoves(q)
    BY DEF ReadQueue, OnlyMoves, Inv, TypeOK
  <1>2. /\ View(q)' = View(q) /\ View(q) \in Rows
        /\ DOMAIN View(q).notes = 1 .. Len(View(q).notes)
        /\ Len(View(q).notes) \in Nat
    BY <1>1, LenProperties, ViewOK DEF Inv, dbVars, View, Rows
  <1>3. \A x \in batch'[q] : x \in [id: Nat, tries: Nat] /\ x.id \in 1 .. Len(View(q).notes)
    <2>1. ASSUME NEW i \in QueuedRows(View(q))
          PROVE  i \in 1 .. Len(View(q).notes) /\ View(q).notes[i].attempts \in Nat
      <3>1. i \in 1 .. Len(View(q).notes)
        BY <1>2 DEF QueuedRows
      <3>2. View(q).notes[i] \in Note
        BY <1>2, <3>1, ElementOfSeq DEF Rows
      <3> QED BY <3>1, <3>2 DEF Note
    <2>2. batch'[q] = {[id |-> i, tries |-> View(q).notes[i].attempts] :
                         i \in QueuedRows(View(q))}
      BY DEF ReadQueue, Inv, TypeOK
    <2> QED BY <1>2, <2>1, <2>2
  <1>4. TypesKept
    <2>1. batch' = [batch EXCEPT ![q] = batch'[q]]
      BY DEF ReadQueue, Inv, TypeOK
    <2>2. batch' \in [Scans -> SUBSET [id: Nat, tries: Nat]]
      BY <1>3, <2>1 DEF Inv, TypeOK
    <2> QED BY <2>2 DEF TypesKept, ReadQueue, phoneVars, Inv, TypeOK
  <1>5. result'[q] = NoResult /\ pc'[q] = "flushing"
    BY DEF ReadQueue, Inv, TypeOK, PassOK
  <1>6. PassOK(q)'
    BY <1>2, <1>3, <1>5, PassMoved
  <1> QED BY <1>1, <1>4, <1>6, LocalStep

LEMMA ReadPendingInv ==
  ASSUME Inv, NEW q \in Scans, ReadPending(q)
  PROVE  Inv' /\ Extends(db, db')
  <1>1. UNCHANGED dbVars /\ UNCHANGED phoneVars /\ OnlyMoves(q)
    BY DEF ReadPending, OnlyMoves, Inv, TypeOK
  <1>2. /\ View(q)' = View(q)
        /\ DOMAIN View(q).signals = 1 .. Len(View(q).signals)
        /\ Len(View(q).signals) \in Nat
    BY <1>1, LenProperties, ViewOK DEF Inv, dbVars, View, Rows
  <1>3. \A x \in batch'[q] : x \in [id: Nat, tries: Nat] /\ x.id \in 1 .. Len(View(q).signals)
    <2>1. batch'[q] = {[id |-> s, tries |-> 0] :
                         s \in {t \in DOMAIN View(q).signals :
                                  ~View(q).signals[t].alerted}}
      BY DEF ReadPending, Inv, TypeOK
    <2> QED BY <1>2, <2>1
  <1>4. TypesKept
    <2>1. batch' = [batch EXCEPT ![q] = batch'[q]]
      BY DEF ReadPending, Inv, TypeOK
    <2>2. batch' \in [Scans -> SUBSET [id: Nat, tries: Nat]]
      BY <1>3, <2>1 DEF Inv, TypeOK
    <2> QED BY <2>2 DEF TypesKept, ReadPending, phoneVars, Inv, TypeOK
  <1>5. result'[q] = NoResult /\ pc'[q] = "alerting"
    BY DEF ReadPending, Inv, TypeOK, PassOK
  <1>6. PassOK(q)'
    BY <1>2, <1>3, <1>5, PassMoved
  <1> QED BY <1>1, <1>4, <1>6, LocalStep

(* Decisions made without a send.                                          *)
LEMMA FlushDiscardInv ==
  ASSUME Inv, NEW q \in Scans, FlushDiscard(q)
  PROVE  Inv' /\ Extends(db, db')
  <1>1. UNCHANGED dbVars /\ UNCHANGED phoneVars /\ OnlyMoves(q)
    BY DEF FlushDiscard, OnlyMoves, Inv, TypeOK
  <1>2. PICK x \in batch[q] : /\ StopReason(q, x) # "none"
                              /\ result' = [result EXCEPT ![q] =
                                              [kind |-> StopReason(q, x), at |-> 0]]
    BY DEF FlushDiscard
  <1>3. StopReason(q, x) \in {"expired", "exhausted"}
    BY <1>2 DEF StopReason
  <1>4. result'[q] \in Results /\ result'[q].kind \in {"expired", "exhausted"}
        /\ result' \in [Scans -> Results]
    BY <1>2, <1>3 DEF Inv, TypeOK, Results, Kinds
  <1>5. TypesKept
    BY <1>4 DEF FlushDiscard, TypesKept, phoneVars, Inv, TypeOK
  <1>6. View(q)' = View(q) /\ pc' = pc /\ batch' = batch /\ pc[q] = "flushing"
    BY DEF FlushDiscard, dbVars, View
  <1>7. PassOK(q)'
    BY <1>4, <1>6 DEF Inv, PassOK, FlushKinds
  <1> QED BY <1>1, <1>5, <1>7, LocalStep

LEMMA FlushDeferInv ==
  ASSUME Inv, NEW q \in Scans, FlushDefer(q)
  PROVE  Inv' /\ Extends(db, db')
  <1>1. UNCHANGED dbVars /\ UNCHANGED phoneVars /\ OnlyMoves(q)
    BY DEF FlushDefer, OnlyMoves, Inv, TypeOK
  <1>2. PICK x \in batch[q] : batch' = [batch EXCEPT ![q] = @ \ {x}]
    BY DEF FlushDefer
  <1>3. TypesKept
    BY <1>2 DEF FlushDefer, TypesKept, phoneVars, Inv, TypeOK
  <1>4. /\ View(q)' = View(q) /\ pc' = pc /\ pc[q] = "flushing"
        /\ result'[q] = NoResult /\ batch'[q] \subseteq batch[q]
    BY <1>2 DEF FlushDefer, dbVars, View, Inv, TypeOK
  <1>5. PassOK(q)'
    BY <1>4, PassMoved DEF Inv, PassOK
  <1> QED BY <1>1, <1>3, <1>5, LocalStep

LEMMA AlertHoldInv ==
  ASSUME Inv, NEW q \in Scans, AlertHold(q)
  PROVE  Inv' /\ Extends(db, db')
  <1>1. UNCHANGED dbVars /\ UNCHANGED phoneVars /\ OnlyMoves(q)
    BY DEF AlertHold, OnlyMoves, Inv, TypeOK
  <1>2. PICK kind \in {"skip", "queue"} :
          result' = [result EXCEPT ![q] = [kind |-> kind, at |-> 0]]
    BY DEF AlertHold
  <1>3. result'[q].kind \in {"skip", "queue"} /\ result' \in [Scans -> Results]
    BY <1>2 DEF Inv, TypeOK, Results, Kinds
  <1>4. TypesKept
    BY <1>3 DEF AlertHold, TypesKept, phoneVars, Inv, TypeOK
  <1>5. View(q)' = View(q) /\ pc' = pc /\ batch' = batch /\ pc[q] = "alerting"
    BY DEF AlertHold, dbVars, View
  <1>6. PassOK(q)'
    BY <1>3, <1>5 DEF Inv, PassOK, AlertKinds
  <1> QED BY <1>1, <1>4, <1>6, LocalStep

LEMMA FlushAbortsInv ==
  ASSUME Inv, NEW q \in Scans, FlushAborts(q)
  PROVE  Inv' /\ Extends(db, db')
  <1>1. UNCHANGED phoneVars /\ OnlyMoves(q)
    BY DEF FlushAborts, Drop, OnlyMoves, Inv, TypeOK
  <1>2. NoResult \in Results
    BY DEF NoResult, Results, Kinds
  <1>3. TypesKept
    BY <1>2, PipelineAssumption
      DEF FlushAborts, Drop, Fault, TypesKept, phoneVars, Inv, TypeOK
  <1>4. PassOK(q)'
    BY PassMoved DEF FlushAborts, Drop, Inv, TypeOK
  <1>5. CASE UNCHANGED dbVars
    BY <1>1, <1>3, <1>4, <1>5, LocalStep
  <1>6. CASE Timeout(q)
    BY <1>1, <1>3, <1>4, <1>6, TimeoutStep
  <1> QED BY <1>5, <1>6 DEF FlushAborts

LEMMA StageTimesOutInv ==
  ASSUME Inv, NEW q \in Scans, StageTimesOut(q)
  PROVE  Inv' /\ Extends(db, db')
  <1>1. UNCHANGED phoneVars /\ OnlyMoves(q) /\ Timeout(q)
    BY DEF StageTimesOut, OnlyMoves, Inv, TypeOK
  <1>2. TypesKept
    BY PipelineAssumption DEF StageTimesOut, Fault, TypesKept, phoneVars, Inv, TypeOK
  <1>3. PassOK(q)'
    BY DEF StageTimesOut, PassOK, Inv, TypeOK
  <1> QED BY <1>1, <1>2, <1>3, TimeoutStep

(* A sender call.  The row it is about is the one its result is recorded   *)
(* in: the next row of a pass is unique.                                   *)
LEMMA NextRowUnique ==
  ASSUME StoreOK, NEW p \in Scans, \A y \in batch[p] : y.id \in 1 .. Len(View(p).notes),
         NEW x, NextRow(p, x), NEW y, NextRow(p, y)
  PROVE  x.id = y.id
  <1>1. View(p) \in Rows /\ Len(View(p).notes) \in Nat
    BY ViewOK, LenProperties DEF Rows
  <1>2. x \in batch[p] /\ y \in batch[p]
    BY DEF NextRow
  <1>3. x.id \in Nat /\ y.id \in Nat
    BY <1>1, <1>2
  <1>4. View(p).notes[x.id] \in Note /\ View(p).notes[y.id] \in Note
    BY <1>1, <1>2, ElementOfSeq DEF Rows
  <1>5. View(p).notes[x.id].created \in Nat /\ View(p).notes[y.id].created \in Nat
    BY <1>4 DEF Note
  <1>6. /\ Precedes(View(p).notes[x.id].created, x.id, View(p).notes[y.id].created, y.id)
        /\ Precedes(View(p).notes[y.id].created, y.id, View(p).notes[x.id].created, x.id)
    BY <1>2 DEF NextRow
  <1> QED BY <1>3, <1>5, <1>6 DEF Precedes

LEMMA NextSignalUnique ==
  ASSUME StoreOK, NEW p \in Scans, \A y \in batch[p] : y.id \in 1 .. Len(View(p).signals),
         NEW x, NextSignal(p, x), NEW y, NextSignal(p, y)
  PROVE  x.id = y.id
  <1>1. View(p) \in Rows /\ Len(View(p).signals) \in Nat
    BY ViewOK, LenProperties DEF Rows
  <1>2. x \in batch[p] /\ y \in batch[p]
    BY DEF NextSignal
  <1>3. x.id \in Nat /\ y.id \in Nat
    BY <1>1, <1>2
  <1>4. View(p).signals[x.id] \in Signal /\ View(p).signals[y.id] \in Signal
    BY <1>1, <1>2, ElementOfSeq DEF Rows
  <1>5. View(p).signals[x.id].detected \in Nat /\ View(p).signals[y.id].detected \in Nat
    BY <1>4 DEF Signal
  <1>6. /\ Precedes(View(p).signals[x.id].detected, x.id, View(p).signals[y.id].detected, y.id)
        /\ Precedes(View(p).signals[y.id].detected, y.id, View(p).signals[x.id].detected, x.id)
    BY <1>2 DEF NextSignal
  <1> QED BY <1>3, <1>5, <1>6 DEF Precedes

LEMMA SendResultOK ==
  ASSUME TypeOK, NEW p \in Scans, NEW outcome \in Outcomes
  PROVE  /\ SendResult(p, outcome) \in Results
         /\ SendResult(p, outcome).kind \in {"sent", "transient", "rejected"}
         /\ SendResult(p, outcome).kind = "sent" => outcome.kind = "sent"
  <1>1. now[p] \in Nat /\ clock \in Nat
    BY PipelineAssumption DEF TypeOK
  <1> QED BY <1>1 DEF SendResult, Outcomes, Results, Kinds

LEMMA FlushSendInv ==
  ASSUME Inv, NEW q \in Scans, FlushSend(q)
  PROVE  Inv' /\ Extends(db, db')
  <1>1. PICK x \in batch[q], outcome \in Outcomes :
          /\ NextRow(q, x)
          /\ Call(View(q).notes[x.id].sig, outcome)
          /\ result' = [result EXCEPT ![q] = SendResult(q, outcome)]
    BY DEF FlushSend
  <1>2. /\ UNCHANGED dbVars /\ OnlyMoves(q) /\ pc' = pc /\ batch' = batch
        /\ pc[q] = "flushing" /\ View(q)' = View(q)
    BY DEF FlushSend, OnlyMoves, Inv, TypeOK, dbVars, View
  <1>3. View(q).notes[x.id] \in Note
    BY <1>2, ViewOK, ElementOfSeq DEF Inv, PassOK, Rows
  <1> DEFINE s == View(q).notes[x.id].sig
  <1>4. s \in Ids
    BY <1>3 DEF Note
  <1>5. /\ CopiesGrow /\ PhoneOK'
        /\ outcome.kind = "sent" => copies'[s] > unacked'[s]
        /\ calls' \in [Ids -> Nat] /\ copies' \in [Ids -> Nat] /\ unacked' \in [Ids -> Nat]
    BY <1>1, <1>4, CallGrows DEF Inv
  <1>6. /\ result'[q] = SendResult(q, outcome) /\ result' \in [Scans -> Results]
        /\ result'[q].kind \in {"sent", "transient", "rejected"}
        /\ result'[q].kind = "sent" => outcome.kind = "sent"
    BY <1>1, SendResultOK DEF Inv, TypeOK
  <1>7. TypesKept
    BY <1>5, <1>6 DEF FlushSend, TypesKept, Inv, TypeOK
  <1>8. ASSUME NEW y \in batch'[q], NextRow(q, y)', result'[q].kind = "sent"
        PROVE  copies'[View(q)'.notes[y.id].sig] > unacked'[View(q)'.notes[y.id].sig]
    <2>1. NextRow(q, y)
      BY <1>2, <1>8 DEF NextRow
    <2>2. y.id = x.id
      BY <1>1, <1>2, <2>1, NextRowUnique DEF Inv, PassOK
    <2> QED BY <1>2, <1>5, <1>6, <1>8, <2>2
  <1>9. PassOK(q)'
    BY <1>2, <1>6, <1>8 DEF Inv, PassOK, FlushKinds
  <1>10. StoreOK' /\ \A p \in Scans : Extends(View(p), View(p)')
    BY <1>2, <1>5, StoreKept DEF Inv
  <1>11. Extends(db, db')
    BY <1>2, ExtendsReflexive DEF Inv, StoreOK, dbVars
  <1> QED BY <1>2, <1>5, <1>7, <1>9, <1>10, <1>11, InvFromParts

LEMMA AlertSendInv ==
  ASSUME Inv, NEW q \in Scans, AlertSend(q)
  PROVE  Inv' /\ Extends(db, db')
  <1>1. PICK x \in batch[q], outcome \in Outcomes :
          /\ NextSignal(q, x)
          /\ Call(x.id, outcome)
          /\ result' = [result EXCEPT ![q] = SendResult(q, outcome)]
    BY DEF AlertSend
  <1>2. /\ UNCHANGED dbVars /\ OnlyMoves(q) /\ pc' = pc /\ batch' = batch
        /\ pc[q] = "alerting" /\ View(q)' = View(q)
    BY DEF AlertSend, OnlyMoves, Inv, TypeOK, dbVars, View
  <1>3. x.id \in Ids
    <2>1. View(q) \in Rows /\ RowsOK(View(q)) /\ x.id \in 1 .. Len(View(q).signals)
      BY <1>2, ViewOK DEF Inv, PassOK
    <2> QED BY <2>1, LenProperties, PipelineAssumption DEF Rows, RowsOK, Ids
  <1>4. /\ CopiesGrow /\ PhoneOK'
        /\ outcome.kind = "sent" => copies'[x.id] > unacked'[x.id]
        /\ calls' \in [Ids -> Nat] /\ copies' \in [Ids -> Nat] /\ unacked' \in [Ids -> Nat]
    BY <1>1, <1>3, CallGrows DEF Inv
  <1>5. /\ result'[q] = SendResult(q, outcome) /\ result' \in [Scans -> Results]
        /\ result'[q].kind \in {"sent", "transient", "rejected"}
        /\ result'[q].kind = "sent" => outcome.kind = "sent"
    BY <1>1, SendResultOK DEF Inv, TypeOK
  <1>6. TypesKept
    BY <1>4, <1>5 DEF AlertSend, TypesKept, Inv, TypeOK
  <1>7. ASSUME NEW y \in batch'[q], NextSignal(q, y)', result'[q].kind = "sent"
        PROVE  copies'[y.id] > unacked'[y.id]
    <2>1. NextSignal(q, y)
      BY <1>2, <1>7 DEF NextSignal
    <2>2. y.id = x.id
      BY <1>1, <1>2, <2>1, NextSignalUnique DEF Inv, PassOK
    <2> QED BY <1>4, <1>5, <1>7, <2>2
  <1>8. PassOK(q)'
    BY <1>2, <1>5, <1>7 DEF Inv, PassOK, AlertKinds
  <1>9. StoreOK' /\ \A p \in Scans : Extends(View(p), View(p)')
    BY <1>2, <1>4, StoreKept DEF Inv
  <1>10. Extends(db, db')
    BY <1>2, ExtendsReflexive DEF Inv, StoreOK, dbVars
  <1> QED BY <1>2, <1>4, <1>6, <1>8, <1>9, <1>10, InvFromParts

LEMMA FlushRecordInv ==
  ASSUME Inv, NEW q \in Scans, FlushRecord(q)
  PROVE  Inv' /\ Extends(db, db')
  <1>1. PICK x \in batch[q] :
          /\ NextRow(q, x)
          /\ Write(q, FlushedRows(work, x, result[q]))
          /\ batch' = [batch EXCEPT ![q] = @ \ {x}]
    BY DEF FlushRecord
  <1>2. /\ UNCHANGED phoneVars /\ OnlyMoves(q) /\ pc' = pc
        /\ pc[q] = "flushing" /\ result[q] # NoResult
        /\ result' = [result EXCEPT ![q] = NoResult]
    BY DEF FlushRecord, OnlyMoves, Inv, TypeOK
  <1>3. View(q) = work
    BY <1>1, WriterView DEF Write, Inv
  <1> DEFINE new == FlushedRows(work, x, result[q])
  <1>4. /\ x \in [id: Nat, tries: Nat] /\ x.id \in 1 .. Len(work.notes)
        /\ result[q] \in Results /\ result[q].kind \in FlushKinds
        /\ result[q].kind = "sent" =>
             copies[work.notes[x.id].sig] > unacked[work.notes[x.id].sig]
    BY <1>1, <1>2, <1>3 DEF Inv, TypeOK, PassOK
  <1>5. /\ new \in Rows /\ RowsOK(new) /\ Extends(work, new)
        /\ Recorded(new) /\ Backed(new)
    BY <1>4, FlushedRowsOK DEF Inv, StoreOK
  <1>6. StoreOK' /\ \A p \in Scans : Extends(View(p), View(p)')
    BY <1>1, <1>2, <1>5, WriteOK DEF Inv
  <1>7. CopiesGrow /\ PhoneOK'
    BY <1>2, QuietPhone DEF Inv
  <1>8. NoResult \in Results
    BY DEF NoResult, Results, Kinds
  <1>9. TypesKept
    BY <1>1, <1>2, <1>8 DEF FlushRecord, TypesKept, phoneVars, Inv, TypeOK
  <1>10. result'[q] = NoResult /\ batch'[q] \subseteq batch[q]
    BY <1>1, <1>2 DEF Inv, TypeOK
  <1>11. \A y \in batch'[q] : y.id \in 1 .. Len(View(q)'.notes)
    <2>1. View(q) \in Rows /\ View(q)' \in Rows
      BY <1>6, ViewOK, ViewTyped DEF Inv
    <2>2. /\ Len(View(q).notes) \in Nat /\ Len(View(q)'.notes) \in Nat
          /\ Len(View(q).notes) <= Len(View(q)'.notes)
      BY <1>6, <2>1, LenProperties DEF Rows, Extends
    <2>3. \A y \in batch[q] : y.id \in 1 .. Len(View(q).notes)
      BY <1>2 DEF Inv, PassOK
    <2> QED BY <1>10, <2>2, <2>3
  <1>12. PassOK(q)'
    BY <1>2, <1>10, <1>11, PassMoved
  <1>13. Extends(db, db')
    BY <1>1, ExtendsReflexive DEF Write, Inv, StoreOK
  <1> QED BY <1>2, <1>6, <1>7, <1>9, <1>12, <1>13, InvFromParts

LEMMA AlertRecordInv ==
  ASSUME Inv, NEW q \in Scans, AlertRecord(q)
  PROVE  Inv' /\ Extends(db, db')
  <1>1. PICK x \in batch[q] :
          /\ NextSignal(q, x)
          /\ Write(q, AlertedRows(work, x.id, now[q], result[q]))
          /\ batch' = [batch EXCEPT ![q] = @ \ {x}]
    BY DEF AlertRecord
  <1>2. /\ UNCHANGED phoneVars /\ OnlyMoves(q) /\ pc' = pc
        /\ pc[q] = "alerting" /\ result[q] # NoResult
        /\ result' = [result EXCEPT ![q] = NoResult]
    BY DEF AlertRecord, OnlyMoves, Inv, TypeOK
  <1>3. View(q) = work
    BY <1>1, WriterView DEF Write, Inv
  <1> DEFINE new == AlertedRows(work, x.id, now[q], result[q])
  <1>4. /\ x.id \in 1 .. Len(work.signals) /\ now[q] \in Nat
        /\ result[q] \in Results /\ result[q].kind \in AlertKinds
        /\ result[q].kind = "sent" => copies[x.id] > unacked[x.id]
    BY <1>1, <1>2, <1>3, PipelineAssumption DEF Inv, TypeOK, PassOK
  <1>5. /\ new \in Rows /\ RowsOK(new) /\ Extends(work, new)
        /\ Recorded(new) /\ Backed(new)
    BY <1>4, AlertedRowsOK DEF Inv, StoreOK
  <1>6. StoreOK' /\ \A p \in Scans : Extends(View(p), View(p)')
    BY <1>1, <1>2, <1>5, WriteOK DEF Inv
  <1>7. CopiesGrow /\ PhoneOK'
    BY <1>2, QuietPhone DEF Inv
  <1>8. NoResult \in Results
    BY DEF NoResult, Results, Kinds
  <1>9. TypesKept
    BY <1>1, <1>2, <1>8 DEF AlertRecord, TypesKept, phoneVars, Inv, TypeOK
  <1>10. result'[q] = NoResult /\ batch'[q] \subseteq batch[q]
    BY <1>1, <1>2 DEF Inv, TypeOK
  <1>11. \A y \in batch'[q] : y.id \in 1 .. Len(View(q)'.signals)
    <2>1. View(q) \in Rows /\ View(q)' \in Rows
      BY <1>6, ViewOK, ViewTyped DEF Inv
    <2>2. /\ Len(View(q).signals) \in Nat /\ Len(View(q)'.signals) \in Nat
          /\ Len(View(q).signals) <= Len(View(q)'.signals)
      BY <1>6, <2>1, LenProperties DEF Rows, Extends
    <2>3. \A y \in batch[q] : y.id \in 1 .. Len(View(q).signals)
      BY <1>2 DEF Inv, PassOK
    <2> QED BY <1>10, <2>2, <2>3
  <1>12. PassOK(q)'
    BY <1>2, <1>10, <1>11, PassMoved
  <1>13. Extends(db, db')
    BY <1>1, ExtendsReflexive DEF Write, Inv, StoreOK
  <1> QED BY <1>2, <1>6, <1>7, <1>9, <1>12, <1>13, InvFromParts

(* Commits and rollbacks.                                                  *)
LEMMA FlushCommitInv ==
  ASSUME Inv, NEW q \in Scans, FlushCommit(q)
  PROVE  Inv' /\ Extends(db, db')
  <1>1. UNCHANGED phoneVars /\ OnlyMoves(q) /\ Commit(q)
    BY DEF FlushCommit, OnlyMoves, Inv, TypeOK
  <1>2. CopiesGrow /\ PhoneOK'
    BY <1>1, QuietPhone DEF Inv
  <1>3. StoreOK' /\ (\A p \in Scans : Extends(View(p), View(p)')) /\ Extends(db, db')
    BY <1>1, CommitOK DEF Inv
  <1>4. TypesKept
    BY DEF FlushCommit, TypesKept, phoneVars, Inv, TypeOK
  <1>5. PassOK(q)'
    BY DEF FlushCommit, PassOK, Inv, TypeOK
  <1> QED BY <1>1, <1>2, <1>3, <1>4, <1>5, InvFromParts

LEMMA StageCommitInv ==
  ASSUME Inv, NEW q \in Scans, StageCommit(q)
  PROVE  Inv' /\ Extends(db, db')
  <1>1. UNCHANGED phoneVars /\ OnlyMoves(q) /\ Commit(q)
    BY DEF StageCommit, OnlyMoves, Inv, TypeOK
  <1>2. CopiesGrow /\ PhoneOK'
    BY <1>1, QuietPhone DEF Inv
  <1>3. StoreOK' /\ (\A p \in Scans : Extends(View(p), View(p)')) /\ Extends(db, db')
    BY <1>1, CommitOK DEF Inv
  <1>4. TypesKept
    BY DEF StageCommit, TypesKept, phoneVars, Inv, TypeOK
  <1>5. PassOK(q)'
    BY DEF StageCommit, PassOK, Inv, TypeOK
  <1> QED BY <1>1, <1>2, <1>3, <1>4, <1>5, InvFromParts

LEMMA AlertCommitInv ==
  ASSUME Inv, NEW q \in Scans, AlertCommit(q)
  PROVE  Inv' /\ Extends(db, db')
  <1>1. UNCHANGED phoneVars /\ OnlyMoves(q) /\ Commit(q)
    BY DEF AlertCommit, Ends, OnlyMoves, Inv, TypeOK
  <1>2. CopiesGrow /\ PhoneOK'
    BY <1>1, QuietPhone DEF Inv
  <1>3. StoreOK' /\ (\A p \in Scans : Extends(View(p), View(p)')) /\ Extends(db, db')
    BY <1>1, CommitOK DEF Inv
  <1>4. TypesKept
    BY PipelineAssumption DEF AlertCommit, Ends, TypesKept, phoneVars, Inv, TypeOK
  <1>5. PassOK(q)'
    BY DEF AlertCommit, Ends, PassOK, Inv, TypeOK
  <1> QED BY <1>1, <1>2, <1>3, <1>4, <1>5, InvFromParts

LEMMA PersistSignalInv ==
  ASSUME Inv, NEW q \in Scans, PersistSignal(q)
  PROVE  Inv' /\ Extends(db, db')
  <1>1. UNCHANGED phoneVars /\ OnlyMoves(q)
    BY DEF PersistSignal, OnlyMoves, Inv, TypeOK
  <1>2. CopiesGrow /\ PhoneOK'
    BY <1>1, QuietPhone DEF Inv
  <1>3. StoreOK' /\ (\A p \in Scans : Extends(View(p), View(p)')) /\ Extends(db, db')
    BY PersistOK DEF Inv
  <1>4. TypesKept
    BY DEF PersistSignal, TypesKept, phoneVars, Inv, TypeOK
  <1>5. PassOK(q)'
    BY DEF PersistSignal, PassOK, Inv, TypeOK
  <1> QED BY <1>1, <1>2, <1>3, <1>4, <1>5, InvFromParts

LEMMA PendSignalInv ==
  ASSUME Inv, NEW q \in Scans, PendSignal(q)
  PROVE  Inv' /\ Extends(db, db')
  <1>1. PICK c \in Candidates : Write(q, WithSignal(work, c, now[q]))
    BY DEF PendSignal
  <1>2. /\ UNCHANGED phoneVars /\ OnlyMoves(q) /\ db' = db
        /\ Len(work.signals) < MaxSignals /\ now[q] \in Nat
    BY <1>1, PipelineAssumption DEF PendSignal, Write, OnlyMoves, Inv, TypeOK
  <1> DEFINE new == WithSignal(work, c, now[q])
  <1>3. /\ new \in Rows /\ RowsOK(new) /\ Extends(work, new)
        /\ Recorded(new) /\ Backed(new)
    BY <1>2, WithSignalOK DEF Inv, StoreOK
  <1>4. StoreOK' /\ \A p \in Scans : Extends(View(p), View(p)')
    BY <1>1, <1>2, <1>3, WriteOK DEF Inv
  <1>5. CopiesGrow /\ PhoneOK'
    BY <1>2, QuietPhone DEF Inv
  <1>6. TypesKept
    BY DEF PendSignal, TypesKept, phoneVars, Inv, TypeOK
  <1>7. PassOK(q)'
    BY DEF PendSignal, PassOK, Inv, TypeOK
  <1>8. Extends(db, db')
    BY <1>2, ExtendsReflexive DEF Inv, StoreOK
  <1> QED BY <1>2, <1>4, <1>5, <1>6, <1>7, <1>8, InvFromParts

(* The end of a scan that lost its connection, or gave it up.              *)
LEMMA ScanLost ==
  ASSUME Inv, NEW q \in Scans, Rollback(q), Drop(q), Ends(q),
         UNCHANGED phoneVars, clock' = clock, faults' \in 0 .. MaxFaults
  PROVE  Inv' /\ Extends(db, db')
  <1>1. OnlyMoves(q)
    BY DEF Drop, Ends, OnlyMoves, Inv, TypeOK
  <1>2. CopiesGrow /\ PhoneOK'
    BY QuietPhone DEF Inv
  <1>3. StoreOK' /\ db' = db /\ \A p \in Scans \ {q} : Extends(View(p), View(p)')
    BY RollbackOK DEF Inv
  <1>4. NoResult \in Results
    BY DEF NoResult, Results, Kinds
  <1>5. TypesKept
    BY <1>4, PipelineAssumption DEF Drop, Ends, TypesKept, phoneVars, Inv, TypeOK
  <1>6. PassOK(q)'
    BY DEF Drop, Ends, PassOK, Inv, TypeOK
  <1>7. Extends(db, db')
    BY <1>3, ExtendsReflexive DEF Inv, StoreOK
  <1> QED BY <1>1, <1>2, <1>3, <1>5, <1>6, <1>7, InvFromParts

LEMMA CrashInv ==
  ASSUME Inv, NEW q \in Scans, Crash(q)
  PROVE  Inv' /\ Extends(db, db')
  <1>1. faults' \in 0 .. MaxFaults
    BY PipelineAssumption DEF Crash, Fault, Inv, TypeOK
  <1> QED BY <1>1, ScanLost DEF Crash

LEMMA AlertRefusedInv ==
  ASSUME Inv, NEW q \in Scans, AlertRefused(q)
  PROVE  Inv' /\ Extends(db, db')
  <1>1. faults' \in 0 .. MaxFaults
    BY DEF AlertRefused, Inv, TypeOK
  <1> QED BY <1>1, ScanLost DEF AlertRefused

-----------------------------------------------------------------------------
(* The invariant holds at the start and at every step, and every step      *)
(* extends the committed rows.                                             *)

LEMMA InitInv == Init => Inv
  <1> SUFFICES ASSUME Init PROVE Inv
    OBVIOUS
  <1>1. db \in Rows /\ work = db /\ writer = NoScan
        /\ Len(db.signals) = 0 /\ Len(db.notes) = 0
        /\ snap \in [Scans -> Snapshots] /\ \A p \in Scans : ~snap[p].pinned
    BY DEF Init, Rows, Empty, Live, Snapshots
  <1>2. TypeOK
    BY <1>1, PipelineAssumption DEF Init, TypeOK, NoResult, Results, Kinds
  <1>3. DOMAIN db.signals = {} /\ DOMAIN db.notes = {}
    BY <1>1 DEF Init, Empty
  <1>4. StoreOK
    BY <1>1, <1>3, ExtendsReflexive, PipelineAssumption
      DEF StoreOK, SnapOK, RowsOK, Recorded, Backed
  <1>5. PhoneOK /\ \A p \in Scans : PassOK(p)
    BY DEF Init, PhoneOK, PassOK
  <1> QED BY <1>2, <1>4, <1>5 DEF Inv

LEMMA InvStep == Inv /\ [Next]_vars => Inv' /\ Extends(db, db')
  <1> SUFFICES ASSUME Inv, [Next]_vars PROVE Inv' /\ Extends(db, db')
    OBVIOUS
  <1>1. CASE Tick
    BY <1>1, TickInv
  <1>2. ASSUME NEW p \in Scans, ScanStep(p) PROVE Inv' /\ Extends(db, db')
    <2>1. CASE StartScan(p)
      BY <2>1, StartScanInv
    <2>2. CASE ReadQueue(p)
      BY <2>2, ReadQueueInv
    <2>3. CASE FlushDiscard(p)
      BY <2>3, FlushDiscardInv
    <2>4. CASE FlushDefer(p)
      BY <2>4, FlushDeferInv
    <2>5. CASE FlushSend(p)
      BY <2>5, FlushSendInv
    <2>6. CASE FlushRecord(p)
      BY <2>6, FlushRecordInv
    <2>7. CASE FlushCommit(p)
      BY <2>7, FlushCommitInv
    <2>8. CASE StageCommit(p)
      BY <2>8, StageCommitInv
    <2>9. CASE PersistSignal(p) \/ PendSignal(p)
      BY <2>9, PersistSignalInv, PendSignalInv
    <2>10. CASE ReadPending(p)
      BY <2>10, ReadPendingInv
    <2>11. CASE AlertHold(p)
      BY <2>11, AlertHoldInv
    <2>12. CASE AlertSend(p)
      BY <2>12, AlertSendInv
    <2>13. CASE AlertRecord(p)
      BY <2>13, AlertRecordInv
    <2>14. CASE AlertCommit(p)
      BY <2>14, AlertCommitInv
    <2>15. CASE AlertRefused(p)
      BY <2>15, AlertRefusedInv
    <2> QED BY <1>2, <2>1, <2>2, <2>3, <2>4, <2>5, <2>6, <2>7, <2>8, <2>9,
               <2>10, <2>11, <2>12, <2>13, <2>14, <2>15 DEF ScanStep
  <1>3. ASSUME NEW p \in Scans, Crash(p) PROVE Inv' /\ Extends(db, db')
    BY <1>3, CrashInv
  <1>4. ASSUME NEW p \in Scans, FlushAborts(p) PROVE Inv' /\ Extends(db, db')
    BY <1>4, FlushAbortsInv
  <1>5. ASSUME NEW p \in Scans, StageTimesOut(p) PROVE Inv' /\ Extends(db, db')
    BY <1>5, StageTimesOutInv
  <1>6. CASE UNCHANGED vars
    <2>1. UNCHANGED dbVars /\ UNCHANGED phoneVars /\ db' = db
          /\ clock' = clock /\ pc' = pc /\ now' = now /\ batch' = batch
          /\ result' = result /\ faults' = faults
      BY <1>6 DEF vars, dbVars, phoneVars
    <2>2. CopiesGrow /\ PhoneOK'
      BY <2>1, QuietPhone DEF Inv
    <2>3. StoreOK' /\ \A p \in Scans : Extends(View(p), View(p)')
      BY <2>1, <2>2, StoreKept DEF Inv
    <2>4. \A p \in Scans : PassOK(p)'
      BY <2>1, <2>2, <2>3, PassKept DEF Inv
    <2>5. TypeOK'
      BY <2>1, <2>3 DEF Inv, TypeOK, StoreOK, phoneVars
    <2> QED BY <2>1, <2>2, <2>3, <2>4, <2>5, ExtendsReflexive DEF Inv, StoreOK
  <1> QED BY <1>1, <1>2, <1>3, <1>4, <1>5, <1>6 DEF Next

LEMMA Invariance == Spec => []Inv
  <1>1. Inv /\ [Next]_vars => Inv'
    BY InvStep
  <1> QED BY <1>1, InitInv, PTL DEF Spec

-----------------------------------------------------------------------------
(* The theorems.                                                           *)

(* Every reachable state is well typed, for any number of overlapping      *)
(* scans and whatever the faults: the rows each pass writes from a list it *)
(* read earlier still exist when it writes them.                           *)
THEOREM TypeCorrect == Spec => []TypeOK
  <1>1. Inv => TypeOK
    BY DEF Inv
  <1> QED BY <1>1, Invariance, PTL

(* No alert vanishes: a committed signal that process_pending_signals has  *)
(* marked alerted has a notifications row or a cooldown reason, even with  *)
(* overlapping scans, crashes and aborted flushes.                         *)
THEOREM AlertsAreRecorded == Spec => []NoAlertVanishes
  <1>1. Inv => NoAlertVanishes
    BY DEF Inv, StoreOK, NoAlertVanishes
  <1> QED BY <1>1, Invariance, PTL

(* A committed delivered row is backed by a copy of the alert that reached *)
(* the phone and was acknowledged, whichever scan recorded it.             *)
THEOREM DeliveriesAreReal == Spec => []DeliveredReachedPhone
  <1>1. Inv => DeliveredReachedPhone
    BY DEF Inv, StoreOK, DeliveredReachedPhone
  <1> QED BY <1>1, Invariance, PTL

(* A committed delivery is never undone: no later write, of this scan or   *)
(* of another that read the row before, clears `delivered`.                *)
THEOREM DeliveryIsFinal == Spec => DeliveredForever
  <1> DEFINE Final ==
        \A i \in DOMAIN db.notes :
          db.notes[i].delivered => i \in DOMAIN db'.notes /\ db'.notes[i].delivered
  <1>1. Inv /\ [Next]_vars => [Final]_db
    <2> SUFFICES ASSUME Inv, [Next]_vars PROVE Final
      OBVIOUS
    <2>1. Inv' /\ Extends(db, db')
      BY InvStep
    <2>2. db \in Rows /\ db' \in Rows
      BY <2>1 DEF Inv, StoreOK
    <2>3. /\ DOMAIN db.notes = 1 .. Len(db.notes) /\ DOMAIN db'.notes = 1 .. Len(db'.notes)
          /\ Len(db.notes) \in Nat /\ Len(db'.notes) \in Nat
      BY <2>2, LenProperties DEF Rows
    <2> QED BY <2>1, <2>3 DEF Extends
  <1>2. Spec => [][Final]_db
    BY <1>1, Invariance, PTL DEF Spec
  <1> QED BY <1>2 DEF DeliveredForever

-----------------------------------------------------------------------------
(* Scans that do not overlap: the one under way sees its own writes, and   *)
(* nobody else's, from its start to its end.                               *)

Clean(p) == pc[p] = "idle" /\ ~snap[p].pinned /\ writer # p

OneScan == \A p, q \in Scans : p = q \/ Clean(p) \/ Clean(q)

Alone(q) == \A p \in Scans \ {q} : Clean(p)

(* How a sender call can end.                                              *)
Sending == {"sent", "transient", "rejected"}

(* What the scan under way has read is still so: the rows of its flush are *)
(* queued, with the attempts it read and as they are committed, and the    *)
(* signals it alerts have not been alerted.                                *)
HandOK(q) ==
  /\ pc[q] \in {"idle", "flush"} => ~snap[q].pinned /\ writer # q
  /\ snap[q].pinned => snap[q].rows = db /\ writer # q
  /\ pc[q] = "flushing" =>
       /\ \A x \in batch[q] :
            /\ x.id \in 1 .. Len(db.notes)
            /\ work.notes[x.id] = db.notes[x.id]
            /\ work.notes[x.id].queued
            /\ x.tries = work.notes[x.id].attempts
       /\ result[q].kind # "exhausted"
  /\ pc[q] = "alerting" =>
       /\ \A x \in batch[q] : x.tries = 0 /\ ~work.signals[x.id].alerted
       /\ result[q].kind = "queue" =>
            \A x \in batch[q] :
              NextSignal(q, x) => work.signals[x.id].severity # "very_strong"

(* The two tables agree, in one copy of them.                              *)
Sound(rows) ==
  /\ \A s \in DOMAIN rows.signals : SignalAccounted(rows, s)
  /\ \A i \in DOMAIN rows.notes : RowSound(rows, i)

(* From a to b every alert takes one step of its life at most.             *)
Advances(a, b) ==
  \A s \in Ids : \/ FateOf(b, s) = FateOf(a, s)
                 \/ FateOf(b, s) \in Lifecycle!Successors(FateOf(a, s))

(* A sender call about signal s that is not recorded yet.                  *)
Owes(p, s) ==
  /\ result[p].kind \in Sending
  /\ \/ pc[p] = "flushing"
          /\ \E x \in batch[p] : NextRow(p, x) /\ work.notes[x.id].sig = s
     \/ pc[p] = "alerting" /\ \E x \in batch[p] : NextSignal(p, x) /\ x.id = s

Owed(s) == IF \E p \in Scans : Owes(p, s) THEN 1 ELSE 0
OwedCopy(s) ==
  IF \E p \in Scans : Owes(p, s) /\ result[p].kind = "sent" THEN 1 ELSE 0

Tries(rows, s) == FateOf(rows, s).tries
Arrived(rows, s) == IF FateOf(rows, s).stage = "delivered" THEN 1 ELSE 0

(* Every call is recorded or about to be, but for one call per fault.      *)
CountsOK ==
  \A s \in Ids :
    /\ Tries(work, s) + Owed(s) <= calls[s]
    /\ calls[s] <= Tries(work, s) + Owed(s) + faults
    /\ copies[s] <= unacked[s] + Arrived(work, s) + OwedCopy(s) + faults

Settling ==
  /\ OneScan /\ \A q \in Scans : HandOK(q)
  /\ Sound(db) /\ Sound(work) /\ Advances(db, work)
  /\ CountsOK

-----------------------------------------------------------------------------
(* The fate of a signal, read off the tables.                              *)

LEMMA Shape ==
  ASSUME NEW rows \in Rows
  PROVE  /\ rows.signals \in Seq(Signal) /\ rows.notes \in Seq(Note)
         /\ Len(rows.signals) \in Nat /\ Len(rows.notes) \in Nat
         /\ DOMAIN rows.signals = 1 .. Len(rows.signals)
         /\ DOMAIN rows.notes = 1 .. Len(rows.notes)
         /\ \A s \in 1 .. Len(rows.signals) : rows.signals[s] \in Signal
         /\ \A i \in 1 .. Len(rows.notes) : rows.notes[i] \in Note
  BY LenProperties, ElementOfSeq DEF Rows

LEMMA NoRow ==
  ASSUME NEW rows \in Rows, NEW s \in DOMAIN rows.signals, ~rows.signals[s].alerted
  PROVE  FateOf(rows, s) = Lifecycle!Fate("pending", 0)
  BY DEF FateOf, Lifecycle!Fate

LEMMA OneRow ==
  ASSUME NEW rows \in Rows, NEW s \in DOMAIN rows.signals, rows.signals[s].alerted,
         NEW i, RowsOf(rows, s) = {i}
  PROVE  FateOf(rows, s) =
           Lifecycle!Fate(IF rows.notes[i].delivered THEN "delivered"
                          ELSE IF rows.notes[i].queued THEN "queued" ELSE "dropped",
                          rows.notes[i].attempts)
  <1>1. (CHOOSE j \in RowsOf(rows, s) : TRUE) = i
    BY DEF RowsOf
  <1> QED BY <1>1 DEF FateOf, Lifecycle!Fate

(* A signal whose own rows are untouched keeps its fate.                   *)
LEMMA SameFate ==
  ASSUME NEW a, NEW b, NEW s,
         s \in DOMAIN a.signals <=> s \in DOMAIN b.signals,
         s \in DOMAIN a.signals => b.signals[s].alerted = a.signals[s].alerted,
         RowsOf(b, s) = RowsOf(a, s),
         \A i \in RowsOf(a, s) : b.notes[i] = a.notes[i]
  PROVE  FateOf(b, s) = FateOf(a, s)
  <1> DEFINE i == CHOOSE j \in RowsOf(a, s) : TRUE
  <1>1. RowsOf(a, s) # {} => i \in RowsOf(a, s)
    OBVIOUS
  <1>2. RowsOf(a, s) # {} => b.notes[i] = a.notes[i]
    BY <1>1
  <1> HIDE DEF i
  <1>3. i = CHOOSE j \in RowsOf(b, s) : TRUE
    BY DEF i
  <1>4. CASE s \notin DOMAIN a.signals
    BY <1>4 DEF FateOf
  <1>5. CASE s \in DOMAIN a.signals /\ (~a.signals[s].alerted \/ RowsOf(a, s) = {})
    BY <1>5 DEF FateOf
  <1>6. CASE s \in DOMAIN a.signals /\ a.signals[s].alerted /\ RowsOf(a, s) # {}
    <2>1. FateOf(a, s) = [stage |-> IF a.notes[i].delivered THEN "delivered"
                                    ELSE IF a.notes[i].queued THEN "queued" ELSE "dropped",
                          tries |-> a.notes[i].attempts]
      BY <1>6 DEF FateOf, i
    <2>2. FateOf(b, s) = [stage |-> IF b.notes[i].delivered THEN "delivered"
                                    ELSE IF b.notes[i].queued THEN "queued" ELSE "dropped",
                          tries |-> b.notes[i].attempts]
      BY <1>3, <1>6 DEF FateOf
    <2> QED BY <1>2, <1>6, <2>1, <2>2
  <1> QED BY <1>4, <1>5, <1>6

(* A fate is one of the lifecycle's, and delivered or out of the queue it  *)
(* has used what attempts it has used.                                     *)
LEMMA FateTyped ==
  ASSUME NEW rows \in Rows, RowsOK(rows), Sound(rows), NEW s \in Ids
  PROVE  FateOf(rows, s) \in Lifecycle!Fates
  <1>1. MAX_DELIVERY_ATTEMPTS \in Nat /\ 0 \in 0 .. MAX_DELIVERY_ATTEMPTS
    BY PipelineAssumption
  <1>2. CASE s \notin DOMAIN rows.signals
    BY <1>1, <1>2 DEF FateOf, Lifecycle!Fates
  <1>3. CASE s \in DOMAIN rows.signals /\ ~rows.signals[s].alerted
    BY <1>1, <1>3 DEF FateOf, Lifecycle!Fates
  <1>4. CASE s \in DOMAIN rows.signals /\ rows.signals[s].alerted
    <2>1. CASE RowsOf(rows, s) = {}
      BY <1>1, <1>4, <2>1 DEF FateOf, Lifecycle!Fates
    <2>2. CASE RowsOf(rows, s) # {}
      <3>1. PICK i : RowsOf(rows, s) = {i}
        BY <1>4, <2>2 DEF Sound, SignalAccounted
      <3>2. i \in DOMAIN rows.notes
        BY <3>1 DEF RowsOf
      <3>3. rows.notes[i].attempts \in 0 .. MAX_DELIVERY_ATTEMPTS
        <4>1. rows.notes[i].attempts \in Nat
          BY <3>2, Shape DEF Note
        <4>2. rows.notes[i].attempts <= MAX_DELIVERY_ATTEMPTS
          BY <3>2 DEF Sound, RowSound
        <4> QED BY <1>1, <4>1, <4>2
      <3> QED BY <1>4, <3>1, <3>3, OneRow DEF Lifecycle!Fates, Lifecycle!Fate
    <2> QED BY <2>1, <2>2
  <1> QED BY <1>2, <1>3, <1>4

LEMMA TriesTyped ==
  ASSUME NEW rows \in Rows, RowsOK(rows), Sound(rows), NEW s \in Ids
  PROVE  /\ Tries(rows, s) \in Nat /\ Tries(rows, s) <= MAX_DELIVERY_ATTEMPTS
         /\ Arrived(rows, s) \in {0, 1}
  BY FateTyped, PipelineAssumption DEF Tries, Arrived, Lifecycle!Fates

LEMMA EarlyFate ==
  ASSUME NEW rows \in Rows, NEW s, FateOf(rows, s).stage \in {"absent", "pending", "skipped"}
  PROVE  FateOf(rows, s).tries = 0
  BY DEF FateOf

(* One step of a life uses one attempt at most.                            *)
LEMMA OneTry ==
  ASSUME NEW a \in Rows, NEW b \in Rows, RowsOK(a), RowsOK(b), Sound(a), Sound(b),
         Advances(a, b), NEW s \in Ids
  PROVE  /\ Tries(a, s) <= Tries(b, s) /\ Tries(b, s) <= Tries(a, s) + 1
         /\ Arrived(b, s) <= Arrived(a, s) + 1
  <1> DEFINE f == FateOf(a, s)
             g == FateOf(b, s)
  <1>1. f \in Lifecycle!Fates /\ g \in Lifecycle!Fates
    BY FateTyped
  <1>2. g = f \/ g \in Lifecycle!Successors(f)
    BY DEF Advances
  <1>3. f.tries \in Nat /\ g.tries \in Nat
    BY <1>1, PipelineAssumption DEF Lifecycle!Fates
  <1>4. f.stage \in {"absent", "pending", "skipped"} => f.tries = 0
    BY EarlyFate
  <1> HIDE DEF f, g
  <1>5. f.tries <= g.tries /\ g.tries <= f.tries + 1
    <2>1. CASE g = f
      BY <1>3, <2>1
    <2>2. ASSUME g \in Lifecycle!AfterPending PROVE g.tries \in {0, 1}
      BY <2>2 DEF Lifecycle!AfterPending, Lifecycle!Fate
    <2>3. CASE g \in Lifecycle!Successors(f) /\ f.stage \in {"absent", "pending"}
      <3>1. g = Lifecycle!Fate("pending", 0) \/ g \in Lifecycle!AfterPending
        BY <2>3 DEF Lifecycle!Successors
      <3>2. g.tries \in {0, 1}
        BY <2>2, <3>1 DEF Lifecycle!Fate
      <3> QED BY <1>4, <2>3, <3>2
    <2>4. CASE g \in Lifecycle!Successors(f) /\ f.stage = "queued"
      <3>1. g \in Lifecycle!AfterQueued(f.tries)
        BY <2>4 DEF Lifecycle!Successors
      <3>2. g.tries \in {f.tries, f.tries + 1}
        BY <3>1 DEF Lifecycle!AfterQueued, Lifecycle!Fate
      <3> QED BY <1>3, <3>2
    <2>5. CASE g \in Lifecycle!Successors(f) /\ f.stage \notin {"absent", "pending", "queued"}
      BY <2>5 DEF Lifecycle!Successors
    <2> QED BY <1>2, <2>1, <2>3, <2>4, <2>5
  <1> QED BY <1>5 DEF Tries, Arrived, f, g

-----------------------------------------------------------------------------
(* What the writes of a pass do to the tables, and to the fate of the one  *)
(* signal they are about.                                                  *)

LEMMA FlushedNote ==
  ASSUME NEW n \in Note, n.queued, n.attempts < MAX_DELIVERY_ATTEMPTS,
         NEW res \in Results, res.kind \in Sending \cup {"expired"}
  PROVE  LET f == FlushedRow(n, res, n.attempts) IN
         /\ f \in Note /\ f.sig = n.sig /\ f.bypass = n.bypass
         /\ f.delivered <=> n.delivered \/ res.kind = "sent"
         /\ res.kind = "sent" => f.sentAt = res.at
         /\ res.kind # "sent" => f.sentAt = n.sentAt
         /\ f.attempts = IF res.kind = "expired" THEN n.attempts ELSE n.attempts + 1
         /\ f.queued <=> res.kind = "transient" /\ n.attempts + 1 < MAX_DELIVERY_ATTEMPTS
         /\ f.queued => f.err = "transient"
         /\ ~f.queued /\ res.kind # "sent" => f.err \in {"rejected", "expired", "exhausted"}
         /\ f.err = "exhausted" => f.attempts = MAX_DELIVERY_ATTEMPTS
  <1> DEFINE f == FlushedRow(n, res, n.attempts)
  <1>0. /\ n.attempts \in Nat /\ MAX_DELIVERY_ATTEMPTS \in Nat
        /\ n.delivered \in BOOLEAN
        /\ n \in [sig: Ids, created: Nat, bypass: BOOLEAN, queued: BOOLEAN,
                  delivered: BOOLEAN, attempts: Nat, sentAt: Nat \cup {Never},
                  err: {"none", "transient", "rejected", "expired", "exhausted"}]
    BY PipelineAssumption DEF Note
  <1>1. f \in Note /\ f.sig = n.sig
    <2>1. res.kind \in FlushKinds
      BY DEF FlushKinds, Sending
    <2> QED BY <1>0, <2>1, FlushedRowOK
  <1>2. CASE res.kind = "expired"
    <2>1. f = [n EXCEPT !.queued = FALSE, !.err = "expired"]
      BY <1>2 DEF FlushedRow
    <2> QED BY <1>0, <1>1, <1>2, <2>1
  <1>3. CASE res.kind = "sent"
    <2>1. f = [n EXCEPT !.delivered = TRUE, !.queued = FALSE, !.sentAt = res.at,
                        !.attempts = n.attempts + 1, !.err = "none"]
      BY <1>3 DEF FlushedRow
    <2> QED BY <1>0, <1>1, <1>3, <2>1
  <1>4. CASE res.kind = "rejected"
    <2>1. ~Retries(res.kind, n.attempts)
      BY <1>4 DEF Retries
    <2>2. f = [n EXCEPT !.queued = Retries(res.kind, n.attempts),
                        !.attempts = n.attempts + 1, !.err = "rejected"]
      BY <1>4 DEF FlushedRow
    <2> QED BY <1>0, <1>1, <1>4, <2>1, <2>2
  <1>5. CASE res.kind = "transient"
    <2> DEFINE again == Retries(res.kind, n.attempts)
               err == IF res.kind = "transient" /\ ~again THEN "exhausted" ELSE res.kind
    <2>1. f = [n EXCEPT !.queued = again, !.attempts = n.attempts + 1, !.err = err]
      BY <1>5 DEF FlushedRow
    <2>2. again <=> n.attempts + 1 < MAX_DELIVERY_ATTEMPTS
      BY <1>5 DEF Retries
    <2>3. err = IF again THEN "transient" ELSE "exhausted"
      BY <1>5
    <2> HIDE DEF again, err, f
    <2>4. /\ f.queued = again /\ f.attempts = n.attempts + 1 /\ f.err = err
          /\ f.delivered = n.delivered /\ f.bypass = n.bypass /\ f.sentAt = n.sentAt
      BY <1>0, <2>1
    <2> QED BY <1>0, <1>1, <1>5, <2>2, <2>3, <2>4 DEF f
  <1> QED BY <1>2, <1>3, <1>4, <1>5 DEF Sending

LEMMA FlushedTables ==
  ASSUME NEW rows \in Rows, RowsOK(rows),
         NEW x \in [id: Nat, tries: Nat], x.id \in 1 .. Len(rows.notes),
         NEW res \in Results, res.kind \in Sending \cup {"expired"}
  PROVE  LET new == FlushedRows(rows, x, res)
             s == rows.notes[x.id].sig
         IN  /\ new \in Rows /\ RowsOK(new)
             /\ Len(new.signals) = Len(rows.signals) /\ Len(new.notes) = Len(rows.notes)
             /\ s \in 1 .. Len(rows.signals)
             /\ new.notes[x.id] = FlushedRow(rows.notes[x.id], res, x.tries)
             /\ new.signals[s] = FlushedSignal(rows.signals[s], res)
             /\ \A i \in 1 .. Len(rows.notes) : i # x.id => new.notes[i] = rows.notes[i]
             /\ \A t \in 1 .. Len(rows.signals) : t # s => new.signals[t] = rows.signals[t]
             /\ \A t : RowsOf(new, t) = RowsOf(rows, t)
  <1> DEFINE n == rows.notes[x.id]
             s == n.sig
             row == FlushedRow(n, res, x.tries)
             signal == FlushedSignal(rows.signals[s], res)
             new == FlushedRows(rows, x, res)
  <1>1. res.kind \in FlushKinds
    BY DEF FlushKinds, Sending
  <1>2. new \in Rows /\ RowsOK(new)
    BY <1>1, FlushedRowsOK
  <1>3. n \in Note /\ s \in 1 .. Len(rows.signals)
    BY Shape, SMTT(30) DEF RowsOK, Note, Ids
  <1>4. row \in Note /\ row.sig = s
    BY <1>1, <1>3, FlushedRowOK
  <1>5. signal \in Signal
    BY <1>3, Shape, FlushedSignalOK
  <1>6. new = [signals |-> [rows.signals EXCEPT ![s] = signal],
               notes |-> [rows.notes EXCEPT ![x.id] = row]]
    BY DEF FlushedRows
  <1> HIDE DEF row, signal, new
  <1>7. /\ Len(new.signals) = Len(rows.signals) /\ new.signals[s] = signal
        /\ \A t \in 1 .. Len(rows.signals) : t # s => new.signals[t] = rows.signals[t]
    BY <1>3, <1>5, <1>6, Shape, ExceptSeq
  <1>8. /\ Len(new.notes) = Len(rows.notes) /\ new.notes[x.id] = row
        /\ \A i \in 1 .. Len(rows.notes) : i # x.id => new.notes[i] = rows.notes[i]
    BY <1>4, <1>6, Shape, ExceptSeq
  <1>9. ASSUME NEW t PROVE RowsOf(new, t) = RowsOf(rows, t)
    <2>1. DOMAIN new.notes = DOMAIN rows.notes /\ DOMAIN rows.notes = 1 .. Len(rows.notes)
      BY <1>2, <1>8, Shape
    <2> QED BY <1>4, <1>8, <2>1 DEF RowsOf
  <1> QED BY <1>2, <1>3, <1>7, <1>8, <1>9 DEF new, row, signal

LEMMA FlushedSound ==
  ASSUME NEW rows \in Rows, RowsOK(rows), Sound(rows),
         NEW x \in [id: Nat, tries: Nat], x.id \in 1 .. Len(rows.notes),
         rows.notes[x.id].queued, x.tries = rows.notes[x.id].attempts,
         NEW res \in Results, res.kind \in Sending \cup {"expired"}
  PROVE  LET new == FlushedRows(rows, x, res)
             s == rows.notes[x.id].sig
         IN  /\ Sound(new)
             /\ FateOf(rows, s) = Lifecycle!Fate("queued", x.tries)
             /\ x.tries < MAX_DELIVERY_ATTEMPTS
             /\ FateOf(new, s) =
                  Lifecycle!Fate(IF res.kind = "sent" THEN "delivered"
                                 ELSE IF res.kind = "transient"
                                           /\ x.tries + 1 < MAX_DELIVERY_ATTEMPTS
                                      THEN "queued" ELSE "dropped",
                                 IF res.kind = "expired" THEN x.tries ELSE x.tries + 1)
             /\ \A t \in Ids \ {s} : FateOf(new, t) = FateOf(rows, t)
  <1> DEFINE n == rows.notes[x.id]
             s == n.sig
             row == FlushedRow(n, res, n.attempts)
             new == FlushedRows(rows, x, res)
  <1>1. /\ new \in Rows /\ RowsOK(new)
        /\ Len(new.signals) = Len(rows.signals) /\ Len(new.notes) = Len(rows.notes)
        /\ s \in 1 .. Len(rows.signals)
        /\ new.notes[x.id] = row
        /\ new.signals[s] = FlushedSignal(rows.signals[s], res)
        /\ \A i \in 1 .. Len(rows.notes) : i # x.id => new.notes[i] = rows.notes[i]
        /\ \A t \in 1 .. Len(rows.signals) : t # s => new.signals[t] = rows.signals[t]
        /\ \A t : RowsOf(new, t) = RowsOf(rows, t)
    BY FlushedTables
  <1>2. /\ DOMAIN rows.notes = 1 .. Len(rows.notes)
        /\ DOMAIN new.notes = 1 .. Len(rows.notes)
        /\ DOMAIN rows.signals = 1 .. Len(rows.signals)
        /\ DOMAIN new.signals = 1 .. Len(rows.signals)
        /\ n \in Note /\ rows.signals[s] \in Signal
    BY <1>1, Shape
  <1>3. RowSound(rows, x.id) /\ SignalAccounted(rows, s)
    BY <1>1, <1>2 DEF Sound
  <1>4. n.attempts < MAX_DELIVERY_ATTEMPTS /\ ~n.delivered /\ n.attempts \in Nat
    BY <1>2, <1>3 DEF RowSound, Note
  <1>5. /\ row \in Note /\ row.sig = s /\ row.bypass = n.bypass
        /\ row.delivered <=> n.delivered \/ res.kind = "sent"
        /\ res.kind = "sent" => row.sentAt = res.at
        /\ res.kind # "sent" => row.sentAt = n.sentAt
        /\ row.attempts = IF res.kind = "expired" THEN n.attempts ELSE n.attempts + 1
        /\ row.queued <=> res.kind = "transient" /\ n.attempts + 1 < MAX_DELIVERY_ATTEMPTS
        /\ row.queued => row.err = "transient"
        /\ ~row.queued /\ res.kind # "sent" => row.err \in {"rejected", "expired", "exhausted"}
        /\ row.err = "exhausted" => row.attempts = MAX_DELIVERY_ATTEMPTS
    BY <1>2, <1>4, FlushedNote, Zenon
  <1>6. /\ new.signals[s].alerted = rows.signals[s].alerted
        /\ new.signals[s].severity = rows.signals[s].severity
        /\ new.signals[s].reason =
             IF res.kind = "sent" /\ rows.signals[s].reason = "send_failed"
               THEN "none" ELSE rows.signals[s].reason
    BY <1>1, <1>2, SMTT(30) DEF FlushedSignal, Signal
  <1>7. rows.signals[s].alerted /\ RowsOf(rows, s) = {x.id}
    <2>1. x.id \in RowsOf(rows, s)
      BY <1>2 DEF RowsOf
    <2> QED BY <1>3, <2>1, Zenon DEF SignalAccounted
  <1>8. \A i \in 1 .. Len(rows.notes) : rows.notes[i].sig \in 1 .. Len(rows.signals)
    <2>1. ASSUME NEW i \in 1 .. Len(rows.notes)
          PROVE  rows.notes[i].sig \in 1 .. Len(rows.signals)
      <3>1. rows.notes[i].sig \in 1 .. MaxSignals /\ Len(rows.signals) \in Nat
        BY Shape DEF Note, Ids
      <3>2. rows.notes[i].sig <= Len(rows.signals)
        BY DEF RowsOK
      <3> QED BY <3>1, <3>2, PipelineAssumption
    <2> QED BY <2>1
  <1> HIDE DEF row, new
  <1>9. ASSUME NEW i \in 1 .. Len(rows.notes) PROVE RowSound(new, i)
    <2>1. CASE i = x.id
      <3>1. row.delivered <=> row.sentAt # Never
        BY <1>2, <1>3, <1>4, <1>5 DEF RowSound, Results, Never
      <3>2. row.attempts <= MAX_DELIVERY_ATTEMPTS
        BY <1>4, <1>5, PipelineAssumption
      <3>3. row.queued => /\ ~row.delivered /\ row.err \in {"none", "transient"}
                          /\ row.attempts < MAX_DELIVERY_ATTEMPTS
                          /\ row.bypass <=> new.signals[s].severity = "very_strong"
        BY <1>3, <1>4, <1>5, <1>6 DEF RowSound
      <3>4. /\ ~row.queued /\ ~row.delivered => row.err \in {"rejected", "expired", "exhausted"}
            /\ row.err = "exhausted" => row.attempts = MAX_DELIVERY_ATTEMPTS
        BY <1>4, <1>5
      <3> QED BY <1>1, <1>5, <2>1, <3>1, <3>2, <3>3, <3>4 DEF RowSound
    <2>2. CASE i # x.id
      <3>1. RowSound(rows, i) /\ new.notes[i] = rows.notes[i]
        BY <1>1, <1>2, <2>2, Zenon DEF Sound
      <3>2. new.signals[rows.notes[i].sig].severity = rows.signals[rows.notes[i].sig].severity
        BY <1>1, <1>6, <1>8
      <3> QED BY <3>1, <3>2 DEF RowSound
    <2> QED BY <2>1, <2>2
  <1>10. ASSUME NEW t \in 1 .. Len(rows.signals) PROVE SignalAccounted(new, t)
    <2>1. SignalAccounted(rows, t) /\ RowsOf(new, t) = RowsOf(rows, t)
      BY <1>1, <1>2 DEF Sound
    <2>2. CASE t = s
      <3>1. /\ new.signals[s].reason = "none" => row.delivered
            /\ new.signals[s].reason = "send_failed" => ~row.delivered /\ row.attempts > 0
        <4>1. /\ rows.signals[s].reason = "none" => n.delivered
              /\ rows.signals[s].reason = "send_failed" => n.attempts > 0
          BY <1>3, <1>7 DEF SignalAccounted
        <4>2. row.attempts >= n.attempts /\ row.attempts \in Nat
          BY <1>4, <1>5
        <4>3. res.kind # "sent" => ~row.delivered
          BY <1>4, <1>5
        <4> QED BY <1>4, <1>5, <1>6, <4>1, <4>2, <4>3, SMTT(30)
      <3>2. ~(~new.signals[s].alerted \/ new.signals[s].reason = "cooldown")
        BY <1>3, <1>6, <1>7 DEF SignalAccounted
      <3> QED BY <1>1, <1>7, <2>1, <2>2, <3>1, <3>2, Zenon DEF SignalAccounted
    <2>3. CASE t # s
      <3>1. \A i \in RowsOf(rows, t) : new.notes[i] = rows.notes[i]
        BY <1>1, <1>2, <2>3 DEF RowsOf
      <3>2. new.signals[t] = rows.signals[t]
        BY <1>1, <2>3
      <3> QED BY <2>1, <3>1, <3>2 DEF SignalAccounted
    <2> QED BY <2>2, <2>3
  <1>11. Sound(new)
    BY <1>2, <1>9, <1>10 DEF Sound
  <1>12. FateOf(rows, s) = Lifecycle!Fate("queued", x.tries)
    BY <1>1, <1>2, <1>4, <1>7, OneRow, SMTT(30)
  <1>13. FateOf(new, s) =
           Lifecycle!Fate(IF row.delivered THEN "delivered"
                          ELSE IF row.queued THEN "queued" ELSE "dropped", row.attempts)
    <2>1. s \in DOMAIN new.signals /\ new.signals[s].alerted
      BY <1>1, <1>2, <1>6, <1>7
    <2>2. RowsOf(new, s) = {x.id}
      BY <1>1, <1>7
    <2>3. FateOf(new, s) =
            Lifecycle!Fate(IF new.notes[x.id].delivered THEN "delivered"
                           ELSE IF new.notes[x.id].queued THEN "queued" ELSE "dropped",
                           new.notes[x.id].attempts)
      <3>1. new \in Rows
        BY <1>1
      <3> HIDE DEF n, s
      <3> QED BY <3>1, <2>1, <2>2, OneRow, Zenon
    <2> QED BY <1>1, <2>3
  <1>14. ASSUME NEW t \in Ids \ {s} PROVE FateOf(new, t) = FateOf(rows, t)
    <2>1. \A i \in RowsOf(rows, t) : new.notes[i] = rows.notes[i]
      BY <1>1, <1>2, <1>14 DEF RowsOf
    <2>2. t \in DOMAIN rows.signals => new.signals[t].alerted = rows.signals[t].alerted
      BY <1>1, <1>2, <1>14
    <2> QED BY <1>1, <1>2, <2>1, <2>2, SameFate
  <1> QED BY <1>4, <1>5, <1>11, <1>12, <1>13, <1>14 DEF new, row

(* The first handling of a signal, and the arrival of one.                 *)
LEMMA NewNote ==
  ASSUME NEW s \in Ids, NEW signal \in Signal, NEW created \in Nat,
         NEW res \in Results, res.kind \in AlertKinds \ {"skip"}
  PROVE  LET n == NewRow(s, signal, created, res) IN
         /\ n \in Note /\ n.sig = s /\ n.created = created
         /\ n.delivered <=> res.kind = "sent"
         /\ n.sentAt = IF res.kind = "sent" THEN res.at ELSE Never
         /\ n.attempts = IF res.kind = "queue" THEN 0 ELSE 1
         /\ n.queued <=> res.kind \in {"queue", "transient"}
         /\ n.queued => /\ n.err \in {"none", "transient"}
                        /\ n.bypass <=> res.kind = "transient"
                                         /\ signal.severity = "very_strong"
         /\ ~n.queued /\ ~n.delivered => n.err = "rejected"
         /\ n.err # "exhausted"
  <1> DEFINE n == NewRow(s, signal, created, res)
  <1>1. n \in Note /\ n.sig = s /\ (n.delivered <=> res.kind = "sent")
    BY NewRowOK
  <1>2. /\ n.created = created
        /\ n.sentAt = IF res.kind = "sent" THEN res.at ELSE Never
        /\ n.attempts = IF res.kind = "queue" THEN 0 ELSE 1
        /\ n.err = IF res.kind \in {"transient", "rejected"} THEN res.kind ELSE "none"
    BY DEF NewRow
  <1>3. n.queued <=> res.kind \in {"queue", "transient"}
    BY DEF NewRow
  <1>4. CASE res.kind = "queue"
    <2>1. n.bypass = FALSE
      BY <1>4 DEF NewRow
    <2> QED BY <1>1, <1>2, <1>3, <1>4, <2>1
  <1>5. CASE res.kind = "transient"
    <2>1. n.bypass = (signal.severity = "very_strong")
      BY <1>5 DEF NewRow
    <2> HIDE DEF n
    <2> QED BY <1>1, <1>2, <1>3, <1>5, <2>1 DEF n
  <1>6. CASE res.kind \in {"sent", "rejected"}
    BY <1>1, <1>2, <1>3, <1>6
  <1> QED BY <1>4, <1>5, <1>6 DEF AlertKinds

(* `new` is `rows` with signal s handled.                                  *)
Alerts(rows, new, s, created, res) ==
  LET n == Len(rows.notes) + 1 IN
  /\ new \in Rows /\ RowsOK(new) /\ s \in Ids
  /\ Len(new.signals) = Len(rows.signals)
  /\ new.signals[s] = AlertedSignal(rows.signals[s], res)
  /\ \A t \in 1 .. Len(rows.signals) : t # s => new.signals[t] = rows.signals[t]
  /\ res.kind = "skip" => new.notes = rows.notes
  /\ res.kind # "skip" =>
       /\ Len(new.notes) = n
       /\ new.notes[n] = NewRow(s, rows.signals[s], created, res)
       /\ new.notes[n].sig = s
       /\ \A i \in 1 .. Len(rows.notes) : new.notes[i] = rows.notes[i]

LEMMA AlertedTables ==
  ASSUME NEW rows \in Rows, RowsOK(rows),
         NEW s \in 1 .. Len(rows.signals), NEW created \in Nat,
         NEW res \in Results, res.kind \in AlertKinds
  PROVE  Alerts(rows, AlertedRows(rows, s, created, res), s, created, res)
  <1> DEFINE signal == AlertedSignal(rows.signals[s], res)
             row == NewRow(s, rows.signals[s], created, res)
             new == AlertedRows(rows, s, created, res)
  <1>1. new \in Rows /\ RowsOK(new)
    BY AlertedRowsOK
  <1>2. s \in Ids /\ rows.signals[s] \in Signal
    BY Shape, PipelineAssumption DEF RowsOK, Ids
  <1>3. signal \in Signal
    BY <1>2, AlertedSignalOK
  <1>4. res.kind # "skip" => row \in Note /\ row.sig = s
    BY <1>2, NewRowOK
  <1>5. new = [signals |-> [rows.signals EXCEPT ![s] = signal],
               notes |-> IF res.kind = "skip" THEN rows.notes ELSE Append(rows.notes, row)]
    BY DEF AlertedRows
  <1> HIDE DEF row, signal, new
  <1>6. /\ Len(new.signals) = Len(rows.signals) /\ new.signals[s] = signal
        /\ \A t \in 1 .. Len(rows.signals) : t # s => new.signals[t] = rows.signals[t]
    BY <1>3, <1>5, Shape, ExceptSeq
  <1>7. res.kind = "skip" => new.notes = rows.notes
    BY <1>5
  <1>8. ASSUME res.kind # "skip"
        PROVE  /\ Len(new.notes) = Len(rows.notes) + 1
               /\ new.notes[Len(rows.notes) + 1] = row
               /\ \A i \in 1 .. Len(rows.notes) : new.notes[i] = rows.notes[i]
    BY <1>4, <1>5, <1>8, Shape, AppendProperties
  <1> QED BY <1>1, <1>2, <1>4, <1>6, <1>7, <1>8 DEF new, row, signal, Alerts

LEMMA AlertedSignals ==
  ASSUME NEW rows \in Rows, RowsOK(rows),
         NEW s \in 1 .. Len(rows.signals), NEW created \in Nat,
         NEW res \in Results, res.kind \in AlertKinds
  PROVE  LET new == AlertedRows(rows, s, created, res) IN
         /\ Len(new.signals) = Len(rows.signals)
         /\ new.signals[s] = AlertedSignal(rows.signals[s], res)
         /\ \A t \in 1 .. Len(rows.signals) : t # s => new.signals[t] = rows.signals[t]
  <1> DEFINE new == AlertedRows(rows, s, created, res)
  <1>1. Alerts(rows, new, s, created, res)
    BY AlertedTables
  <1> HIDE DEF new
  <1>2. /\ Len(new.signals) = Len(rows.signals)
        /\ new.signals[s] = AlertedSignal(rows.signals[s], res)
        /\ \A t \in 1 .. Len(rows.signals) : t # s => new.signals[t] = rows.signals[t]
    BY <1>1 DEF Alerts
  <1> QED BY <1>2 DEF new

LEMMA AlertedRowsOf ==
  ASSUME NEW rows \in Rows, RowsOK(rows),
         NEW s \in 1 .. Len(rows.signals), NEW created \in Nat,
         NEW res \in Results, res.kind \in AlertKinds
  PROVE  LET new == AlertedRows(rows, s, created, res) IN
         /\ \A t : t # s \/ res.kind = "skip" => RowsOf(new, t) = RowsOf(rows, t)
         /\ res.kind # "skip" =>
              RowsOf(new, s) = RowsOf(rows, s) \cup {Len(rows.notes) + 1}
  <1> DEFINE new == AlertedRows(rows, s, created, res)
             n == Len(rows.notes) + 1
  <1>1. /\ new \in Rows /\ RowsOK(new) /\ s \in Ids
        /\ Len(new.signals) = Len(rows.signals)
        /\ new.signals[s] = AlertedSignal(rows.signals[s], res)
        /\ \A t \in 1 .. Len(rows.signals) : t # s => new.signals[t] = rows.signals[t]
        /\ res.kind = "skip" => new.notes = rows.notes
        /\ res.kind # "skip" =>
             /\ Len(new.notes) = n
             /\ new.notes[n] = NewRow(s, rows.signals[s], created, res)
             /\ new.notes[n].sig = s
             /\ \A i \in 1 .. Len(rows.notes) : new.notes[i] = rows.notes[i]
    <2>1. Alerts(rows, new, s, created, res)
      BY AlertedTables
    <2> HIDE DEF new
    <2> QED BY <2>1 DEF Alerts
  <1> HIDE DEF new
  <1>2. /\ DOMAIN rows.notes = 1 .. Len(rows.notes) /\ Len(rows.notes) \in Nat
        /\ DOMAIN new.notes = 1 .. Len(new.notes)
    <2>1. new \in Rows
      BY <1>1
    <2> QED BY <2>1, Shape
  <1>3. CASE res.kind = "skip"
    BY <1>1, <1>3 DEF RowsOf, new
  <1>4. CASE res.kind # "skip"
    <2>1. DOMAIN new.notes = DOMAIN rows.notes \cup {n} /\ n \notin DOMAIN rows.notes
      BY <1>1, <1>2, <1>4
    <2>2. \A i \in DOMAIN rows.notes : new.notes[i].sig = rows.notes[i].sig
      BY <1>1, <1>2, <1>4
    <2>3. new.notes[n].sig = s
      BY <1>1, <1>4
    <2> HIDE DEF n
    <2>4. \A t : t # s => RowsOf(new, t) = RowsOf(rows, t)
      BY <2>1, <2>2, <2>3 DEF RowsOf
    <2>5. RowsOf(new, s) = RowsOf(rows, s) \cup {n}
      BY <2>1, <2>2, <2>3 DEF RowsOf
    <2> QED BY <1>4, <2>4, <2>5 DEF new, n
  <1> QED BY <1>3, <1>4

LEMMA AlertedSound ==
  ASSUME NEW rows \in Rows, RowsOK(rows), Sound(rows),
         NEW s \in 1 .. Len(rows.signals), ~rows.signals[s].alerted,
         NEW created \in Nat, NEW res \in Results, res.kind \in AlertKinds,
         res.kind = "queue" => rows.signals[s].severity # "very_strong"
  PROVE  LET new == AlertedRows(rows, s, created, res) IN
         /\ Sound(new) /\ s \in Ids
         /\ FateOf(rows, s) = Lifecycle!Fate("pending", 0)
         /\ FateOf(new, s) =
              IF res.kind = "skip" THEN Lifecycle!Fate("skipped", 0)
              ELSE Lifecycle!Fate(IF res.kind = "sent" THEN "delivered"
                                  ELSE IF res.kind \in {"queue", "transient"}
                                       THEN "queued" ELSE "dropped",
                                  IF res.kind = "queue" THEN 0 ELSE 1)
         /\ \A t \in Ids \ {s} : FateOf(new, t) = FateOf(rows, t)
  <1> DEFINE new == AlertedRows(rows, s, created, res)
             n == Len(rows.notes) + 1
             row == NewRow(s, rows.signals[s], created, res)
             signal == rows.signals[s]
             after == new.signals[s]
  <1>1. /\ new \in Rows /\ RowsOK(new) /\ s \in Ids
        /\ Len(new.signals) = Len(rows.signals)
        /\ after = AlertedSignal(signal, res)
        /\ \A t \in 1 .. Len(rows.signals) : t # s => new.signals[t] = rows.signals[t]
        /\ res.kind = "skip" => new.notes = rows.notes
        /\ res.kind # "skip" =>
             /\ Len(new.notes) = n
             /\ new.notes[n] = row
             /\ \A i \in 1 .. Len(rows.notes) : new.notes[i] = rows.notes[i]
    <2>1. Alerts(rows, new, s, created, res)
      BY AlertedTables
    <2> HIDE DEF new
    <2> QED BY <2>1 DEF Alerts
  <1>2. /\ \A t : t # s \/ res.kind = "skip" => RowsOf(new, t) = RowsOf(rows, t)
        /\ res.kind # "skip" => RowsOf(new, s) = RowsOf(rows, s) \cup {n}
    BY AlertedRowsOf
  <1>3. /\ DOMAIN rows.notes = 1 .. Len(rows.notes) /\ Len(rows.notes) \in Nat
        /\ DOMAIN new.notes = 1 .. Len(new.notes)
        /\ DOMAIN rows.signals = 1 .. Len(rows.signals)
        /\ DOMAIN new.signals = 1 .. Len(rows.signals)
        /\ signal \in Signal
    BY <1>1, Shape
  <1>4. RowsOf(rows, s) = {}
    BY <1>3 DEF Sound, SignalAccounted
  <1>5. /\ after.alerted /\ after.severity = signal.severity
        /\ after.reason = CASE res.kind = "skip" -> "cooldown"
                            [] res.kind = "queue" -> "quiet_hours"
                            [] res.kind = "sent" -> "none"
                            [] OTHER -> "send_failed"
    BY <1>1, <1>3 DEF AlertedSignal, Signal
  <1>6. \A i \in 1 .. Len(rows.notes) :
          rows.notes[i].sig \in 1 .. Len(rows.signals) /\ rows.notes[i].sig # s
    <2>1. ASSUME NEW i \in 1 .. Len(rows.notes)
          PROVE  rows.notes[i].sig \in 1 .. Len(rows.signals)
      <3>1. rows.notes[i].sig \in 1 .. MaxSignals /\ Len(rows.signals) \in Nat
        BY Shape DEF Note, Ids
      <3>2. rows.notes[i].sig <= Len(rows.signals)
        BY DEF RowsOK
      <3> QED BY <3>1, <3>2, PipelineAssumption
    <2> QED BY <1>3, <1>4, <2>1 DEF RowsOf
  <1>7. res.kind # "skip" =>
          /\ row \in Note /\ row.sig = s /\ row.created = created
          /\ row.delivered <=> res.kind = "sent"
          /\ row.sentAt = IF res.kind = "sent" THEN res.at ELSE Never
          /\ row.attempts = IF res.kind = "queue" THEN 0 ELSE 1
          /\ row.queued <=> res.kind \in {"queue", "transient"}
          /\ row.queued => /\ row.err \in {"none", "transient"}
                           /\ row.bypass <=> res.kind = "transient"
                                              /\ signal.severity = "very_strong"
          /\ ~row.queued /\ ~row.delivered => row.err = "rejected"
          /\ row.err # "exhausted"
    BY <1>1, <1>3, NewNote
  <1> HIDE DEF new, row, signal, after, n
  <1>8. ASSUME NEW i \in 1 .. Len(rows.notes), new.notes[i] = rows.notes[i]
        PROVE  RowSound(new, i)
    <2>1. RowSound(rows, i)
      BY <1>3 DEF Sound
    <2>2. new.signals[rows.notes[i].sig] = rows.signals[rows.notes[i].sig]
      BY <1>1, <1>6
    <2> QED BY <1>8, <2>1, <2>2 DEF RowSound
  <1>9. ASSUME res.kind # "skip" PROVE RowSound(new, n)
    <2>1. row.delivered <=> row.sentAt # Never
      BY <1>7, <1>9 DEF Results, Never
    <2>2. row.attempts < MAX_DELIVERY_ATTEMPTS /\ row.attempts <= MAX_DELIVERY_ATTEMPTS
      BY <1>7, <1>9, PipelineAssumption
    <2>3. row.queued => /\ ~row.delivered
                        /\ row.bypass <=> after.severity = "very_strong"
      BY <1>5, <1>7, <1>9 DEF signal
    <2> QED BY <1>1, <1>7, <1>9, <2>1, <2>2, <2>3 DEF RowSound, after
  <1>10. ASSUME NEW i \in DOMAIN new.notes PROVE RowSound(new, i)
    <2>1. CASE res.kind = "skip"
      BY <1>1, <1>3, <1>8, <2>1
    <2>2. CASE res.kind # "skip"
      <3>1. i \in 1 .. Len(rows.notes) \/ i = n
        BY <1>1, <1>3, <2>2 DEF n
      <3> QED BY <1>1, <1>8, <1>9, <2>2, <3>1
    <2> QED BY <2>1, <2>2
  <1>11. \A t \in 1 .. Len(rows.signals) : t # s =>
           \A i \in RowsOf(rows, t) : new.notes[i] = rows.notes[i]
    BY <1>1, <1>3 DEF RowsOf
  <1>12. ASSUME NEW t \in DOMAIN new.signals PROVE SignalAccounted(new, t)
    <2>1. CASE t = s
      <3>1. CASE res.kind = "skip"
        BY <1>2, <1>4, <1>5, <2>1, <3>1 DEF SignalAccounted, after
      <3>2. CASE res.kind # "skip"
        <4>1. RowsOf(new, s) = {n} /\ new.notes[n] = row
          BY <1>1, <1>2, <1>4, <3>2
        <4>2. /\ after.reason = "none" => row.delivered
              /\ after.reason = "send_failed" => ~row.delivered /\ row.attempts > 0
              /\ after.reason # "cooldown"
          BY <1>5, <1>7, <3>2
        <4> QED BY <1>5, <2>1, <4>1, <4>2 DEF SignalAccounted, after
      <3> QED BY <3>1, <3>2
    <2>2. CASE t # s
      <3>1. SignalAccounted(rows, t) /\ new.signals[t] = rows.signals[t]
        BY <1>1, <1>3, <2>2 DEF Sound
      <3> QED BY <1>2, <1>3, <1>11, <2>2, <3>1 DEF SignalAccounted
    <2> QED BY <2>1, <2>2
  <1>13. Sound(new)
    BY <1>10, <1>12 DEF Sound
  <1>14. FateOf(rows, s) = Lifecycle!Fate("pending", 0)
    BY <1>3, NoRow
  <1>15. CASE res.kind = "skip"
    <2>1. RowsOf(new, s) = {} /\ s \in DOMAIN new.signals /\ new.signals[s].alerted
      BY <1>2, <1>3, <1>4, <1>5, <1>15 DEF after
    <2>2. FateOf(new, s) = Lifecycle!Fate("skipped", 0)
      BY <2>1 DEF FateOf, Lifecycle!Fate
    <2>3. ASSUME NEW t \in Ids \ {s} PROVE FateOf(new, t) = FateOf(rows, t)
      <3>1. /\ t \in DOMAIN rows.signals => new.signals[t].alerted = rows.signals[t].alerted
            /\ RowsOf(new, t) = RowsOf(rows, t)
            /\ \A i \in RowsOf(rows, t) : new.notes[i] = rows.notes[i]
        BY <1>1, <1>2, <1>3, <1>15, <2>3
      <3> QED BY <1>3, <3>1, SameFate
    <2> QED BY <1>1, <1>13, <1>14, <1>15, <2>2, <2>3 DEF new
  <1>16. CASE res.kind # "skip"
    <2>1. /\ RowsOf(new, s) = {n} /\ s \in DOMAIN new.signals /\ new.signals[s].alerted
          /\ new.notes[n] = row
      BY <1>1, <1>2, <1>3, <1>4, <1>5, <1>16 DEF after
    <2>2. FateOf(new, s) =
            Lifecycle!Fate(IF new.notes[n].delivered THEN "delivered"
                           ELSE IF new.notes[n].queued THEN "queued" ELSE "dropped",
                           new.notes[n].attempts)
      <3>1. new \in Rows
        BY <1>1
      <3> QED BY <2>1, <3>1, OneRow, Zenon
    <2>3. FateOf(new, s) =
            Lifecycle!Fate(IF res.kind = "sent" THEN "delivered"
                           ELSE IF res.kind \in {"queue", "transient"}
                                THEN "queued" ELSE "dropped",
                           IF res.kind = "queue" THEN 0 ELSE 1)
      BY <1>7, <1>16, <2>1, <2>2
    <2>4. ASSUME NEW t \in Ids \ {s} PROVE FateOf(new, t) = FateOf(rows, t)
      <3>1. t \in DOMAIN rows.signals => new.signals[t].alerted = rows.signals[t].alerted
        BY <1>1, <1>3, <2>4
      <3>2. \A i \in RowsOf(rows, t) : new.notes[i] = rows.notes[i]
        BY <1>1, <1>3, <1>16 DEF RowsOf
      <3>3. RowsOf(new, t) = RowsOf(rows, t)
        BY <1>2, <2>4
      <3> QED BY <1>3, <3>1, <3>2, <3>3, SameFate
    <2> QED BY <1>1, <1>13, <1>14, <1>16, <2>3, <2>4 DEF new
  <1> QED BY <1>15, <1>16

LEMMA PersistedSound ==
  ASSUME NEW rows \in Rows, RowsOK(rows), Sound(rows), Len(rows.signals) < MaxSignals,
         NEW c \in Candidates, NEW detected \in Nat
  PROVE  LET new == WithSignal(rows, c, detected)
             n == Len(rows.signals) + 1
         IN  /\ Sound(new) /\ n \in Ids
             /\ FateOf(rows, n) = Lifecycle!Fate("absent", 0)
             /\ FateOf(new, n) = Lifecycle!Fate("pending", 0)
             /\ \A t \in Ids \ {n} : FateOf(new, t) = FateOf(rows, t)
  <1> DEFINE signal == [symbol |-> c.symbol, severity |-> c.severity,
                        score |-> c.score, detected |-> detected,
                        alerted |-> FALSE, reason |-> "none"]
             new == WithSignal(rows, c, detected)
             n == Len(rows.signals) + 1
  <1>1. new \in Rows
    BY WithSignalOK
  <1>2. signal \in Signal /\ ~signal.alerted
    BY PipelineAssumption DEF Signal
  <1>3. new = [signals |-> Append(rows.signals, signal), notes |-> rows.notes]
    BY DEF WithSignal
  <1>4. /\ DOMAIN rows.notes = 1 .. Len(rows.notes) /\ Len(rows.signals) \in Nat
        /\ DOMAIN rows.signals = 1 .. Len(rows.signals)
    BY Shape
  <1> HIDE DEF signal, new
  <1>5. /\ Len(new.signals) = n /\ new.signals[n] = signal
        /\ \A t \in 1 .. Len(rows.signals) : new.signals[t] = rows.signals[t]
        /\ new.notes = rows.notes
    BY <1>2, <1>3, Shape, AppendProperties
  <1>6. /\ DOMAIN new.signals = DOMAIN rows.signals \cup {n} /\ n \notin DOMAIN rows.signals
        /\ n \in Ids
    <2>1. DOMAIN new.signals = 1 .. n
      BY <1>1, <1>5, Shape
    <2> QED BY <1>4, <2>1, PipelineAssumption DEF Ids
  <1>7. \A t : RowsOf(new, t) = RowsOf(rows, t)
    BY <1>5 DEF RowsOf
  <1>8. \A i \in DOMAIN rows.notes : rows.notes[i].sig \in DOMAIN rows.signals
    <2>1. ASSUME NEW i \in 1 .. Len(rows.notes)
          PROVE  rows.notes[i].sig \in 1 .. Len(rows.signals)
      <3>1. rows.notes[i].sig \in 1 .. MaxSignals /\ Len(rows.signals) \in Nat
        BY Shape DEF Note, Ids
      <3>2. rows.notes[i].sig <= Len(rows.signals)
        BY DEF RowsOK
      <3> QED BY <3>1, <3>2, PipelineAssumption
    <2> QED BY <1>4, <2>1
  <1>9. RowsOf(new, n) = {}
    BY <1>5, <1>6, <1>8 DEF RowsOf
  <1>10. \A t \in DOMAIN rows.signals : new.signals[t] = rows.signals[t]
    BY <1>4, <1>5
  <1> HIDE DEF n
  <1>11. Sound(new)
    <2>1. ASSUME NEW i \in DOMAIN new.notes PROVE RowSound(new, i)
      <3>1. RowSound(rows, i)
        BY <1>5 DEF Sound
      <3>2. new.signals[rows.notes[i].sig] = rows.signals[rows.notes[i].sig]
        BY <1>5, <1>8, <1>10
      <3> QED BY <1>5, <3>1, <3>2 DEF RowSound
    <2>2. ASSUME NEW t \in DOMAIN rows.signals PROVE SignalAccounted(new, t)
      <3>1. SignalAccounted(rows, t)
        BY DEF Sound
      <3> QED BY <1>5, <1>7, <1>10, <3>1 DEF SignalAccounted
    <2>3. SignalAccounted(new, n)
      BY <1>2, <1>5, <1>9 DEF SignalAccounted
    <2> QED BY <1>6, <2>1, <2>2, <2>3 DEF Sound
  <1>12. FateOf(rows, n) = Lifecycle!Fate("absent", 0)
    BY <1>6 DEF FateOf, Lifecycle!Fate
  <1>13. FateOf(new, n) = Lifecycle!Fate("pending", 0)
    BY <1>1, <1>2, <1>5, <1>6, NoRow
  <1>14. ASSUME NEW t \in Ids \ {n} PROVE FateOf(new, t) = FateOf(rows, t)
    BY <1>5, <1>6, <1>7, <1>10, <1>14, SameFate
  <1> QED BY <1>6, <1>11, <1>12, <1>13, <1>14 DEF new, n

-----------------------------------------------------------------------------
(* The scan under way.                                                     *)

LEMMA TheScan ==
  ASSUME Inv, Settling, NEW q \in Scans, pc[q] # "idle"
  PROVE  /\ Alone(q) /\ View(q) = work /\ writer \in {q, NoScan}
         /\ writer # q => work = db
  <1>1. Alone(q)
    BY DEF Settling, OneScan, Clean, Alone
  <1>2. writer \in {q, NoScan}
    BY <1>1 DEF Alone, Clean, Inv, StoreOK
  <1> QED BY <1>1, <1>2 DEF Inv, StoreOK, Settling, HandOK, View

LEMMA StaysAlone ==
  ASSUME NEW q \in Scans, Alone(q), OnlyMoves(q),
         \A p \in Scans \ {q} : snap'[p] = snap[p],
         writer' \in {writer, q, NoScan}
  PROVE  Alone(q)'
  BY PipelineAssumption DEF Alone, Clean, OnlyMoves

LEMMA SettlingFrom ==
  ASSUME NEW q \in Scans, Alone(q)', HandOK(q)', Sound(db)', Sound(work)',
         Advances(db, work)', CountsOK'
  PROVE  Settling'
  <1>1. OneScan'
    BY DEF Alone, OneScan
  <1>2. ASSUME NEW p \in Scans PROVE HandOK(p)'
    <2>1. CASE p = q
      BY <2>1
    <2>2. CASE p # q
      <3>1. Clean(p)'
        BY <2>2 DEF Alone
      <3> QED BY <3>1 DEF HandOK, Clean
    <2> QED BY <2>1, <2>2
  <1> QED BY <1>1, <1>2 DEF Settling

LEMMA StillAdvances ==
  ASSUME NEW rows
  PROVE  Advances(rows, rows)
  BY DEF Advances

(* A step that leaves the tables alone.                                    *)
LEMMA SameTables ==
  ASSUME Settling, NEW q \in Scans, UNCHANGED dbVars, OnlyMoves(q), Alone(q),
         HandOK(q)', CountsOK'
  PROVE  Settling'
  <1>1. Alone(q)'
    BY StaysAlone DEF dbVars
  <1>2. Sound(db)' /\ Sound(work)' /\ Advances(db, work)'
    BY DEF Settling, dbVars
  <1> QED BY <1>1, <1>2, SettlingFrom

-----------------------------------------------------------------------------
(* Calls and copies.                                                       *)

LEMMA NobodyElseOwes ==
  ASSUME Inv, NEW q \in Scans, Alone(q)
  PROVE  /\ \A s : Owed(s) = IF Owes(q, s) THEN 1 ELSE 0
         /\ \A s : OwedCopy(s) = IF Owes(q, s) /\ result[q].kind = "sent" THEN 1 ELSE 0
  <1>1. \A p \in Scans \ {q} : \A s : ~Owes(p, s)
    <2>1. \A p \in Scans \ {q} : result[p] = NoResult
      BY DEF Alone, Clean, Inv, PassOK
    <2> QED BY <2>1 DEF Owes, NoResult, Sending
  <1> QED BY <1>1 DEF Owed, OwedCopy

LEMMA NobodyElseOwesNext ==
  ASSUME Inv', NEW q \in Scans, Alone(q)'
  PROVE  /\ \A s : Owed(s)' = IF Owes(q, s)' THEN 1 ELSE 0
         /\ \A s : OwedCopy(s)' =
              IF Owes(q, s)' /\ result'[q].kind = "sent" THEN 1 ELSE 0
  <1>1. \A p \in Scans \ {q} : \A s : ~Owes(p, s)'
    <2>1. \A p \in Scans \ {q} : result'[p] = NoResult
      BY DEF Alone, Clean, Inv, PassOK
    <2> QED BY <2>1 DEF Owes, NoResult, Sending
  <1> QED BY <1>1 DEF Owed, OwedCopy

LEMMA QueuedFate ==
  ASSUME NEW rows \in Rows, RowsOK(rows), Sound(rows),
         NEW i \in 1 .. Len(rows.notes), rows.notes[i].queued
  PROVE  LET n == rows.notes[i] IN
         /\ n.sig \in 1 .. Len(rows.signals)
         /\ rows.signals[n.sig].alerted /\ RowsOf(rows, n.sig) = {i}
         /\ ~n.delivered /\ n.attempts \in Nat /\ n.attempts < MAX_DELIVERY_ATTEMPTS
         /\ FateOf(rows, n.sig) = Lifecycle!Fate("queued", n.attempts)
  <1> DEFINE n == rows.notes[i]
             s == n.sig
  <1>1. /\ DOMAIN rows.notes = 1 .. Len(rows.notes)
        /\ DOMAIN rows.signals = 1 .. Len(rows.signals)
        /\ Len(rows.signals) \in Nat /\ n \in Note
    BY Shape
  <1>2. s \in 1 .. Len(rows.signals)
    BY <1>1 DEF RowsOK, Note, Ids
  <1>3. RowSound(rows, i) /\ SignalAccounted(rows, s)
    BY <1>1, <1>2 DEF Sound
  <1>4. n.attempts < MAX_DELIVERY_ATTEMPTS /\ ~n.delivered /\ n.attempts \in Nat
    BY <1>1, <1>3 DEF RowSound, Note
  <1>5. rows.signals[s].alerted /\ RowsOf(rows, s) = {i}
    <2>1. i \in RowsOf(rows, s)
      BY <1>1 DEF RowsOf
    <2> QED BY <1>3, <2>1 DEF SignalAccounted
  <1>6. FateOf(rows, s) = Lifecycle!Fate("queued", n.attempts)
    BY <1>1, <1>2, <1>4, <1>5, OneRow
  <1> QED BY <1>2, <1>4, <1>5, <1>6

(* The alert a pass is calling about is as it is committed, and has tries  *)
(* left.                                                                   *)
LEMMA OwesFate ==
  ASSUME Inv, Settling, NEW q \in Scans, NEW s \in Ids, Owes(q, s)
  PROVE  /\ Tries(work, s) <= Tries(db, s) /\ Tries(work, s) < MAX_DELIVERY_ATTEMPTS
         /\ Arrived(work, s) = 0
  <1>0. /\ db \in Rows /\ work \in Rows /\ RowsOK(db) /\ RowsOK(work)
        /\ Sound(db) /\ Sound(work) /\ Tries(db, s) \in Nat
        /\ DOMAIN work.signals = 1 .. Len(work.signals)
    BY Shape, TriesTyped DEF Inv, StoreOK, Settling
  <1>1. CASE pc[q] = "flushing"
    <2>1. PICK x \in batch[q] : NextRow(q, x) /\ work.notes[x.id].sig = s
      BY <1>1 DEF Owes
    <2>2. /\ x.id \in 1 .. Len(db.notes) /\ x.id \in 1 .. Len(work.notes)
          /\ work.notes[x.id] = db.notes[x.id] /\ work.notes[x.id].queued
      <3>1. View(q) = work
        BY <1>1, TheScan
      <3> QED BY <1>1, <3>1 DEF Inv, PassOK, Settling, HandOK
    <2> DEFINE n == work.notes[x.id]
    <2>3. FateOf(work, s) = Lifecycle!Fate("queued", n.attempts)
          /\ n.attempts < MAX_DELIVERY_ATTEMPTS /\ n.attempts \in Nat
      BY <1>0, <2>1, <2>2, QueuedFate
    <2>4. FateOf(db, s) = Lifecycle!Fate("queued", n.attempts)
      BY <1>0, <2>1, <2>2, QueuedFate
    <2> QED BY <2>3, <2>4 DEF Tries, Arrived, Lifecycle!Fate
  <1>2. CASE pc[q] = "alerting"
    <2>1. /\ s \in 1 .. Len(work.signals) /\ ~work.signals[s].alerted
      <3>1. View(q) = work
        BY <1>2, TheScan
      <3> QED BY <1>2, <3>1 DEF Owes, Inv, PassOK, Settling, HandOK
    <2>2. FateOf(work, s) = Lifecycle!Fate("pending", 0)
      BY <1>0, <2>1, NoRow
    <2> QED BY <1>0, <2>2, PipelineAssumption DEF Tries, Arrived, Lifecycle!Fate
  <1> QED BY <1>1, <1>2 DEF Owes

LEMMA OneCycle ==
  ASSUME Inv, Settling, NEW q \in Scans, Alone(q), NEW s \in Ids
  PROVE  /\ Owed(s) \in {0, 1} /\ OwedCopy(s) \in {0, 1} /\ OwedCopy(s) <= Owed(s)
         /\ Tries(work, s) + Owed(s) <= Tries(db, s) + 1
         /\ Tries(work, s) + Owed(s) <= MAX_DELIVERY_ATTEMPTS
         /\ Arrived(work, s) + OwedCopy(s) <= 1
         /\ Tries(db, s) <= Tries(work, s)
         /\ Tries(work, s) \in Nat /\ Tries(db, s) \in Nat
         /\ Arrived(work, s) \in {0, 1} /\ Arrived(db, s) \in {0, 1}
  <1>1. /\ Owed(s) = IF Owes(q, s) THEN 1 ELSE 0
        /\ OwedCopy(s) = IF Owes(q, s) /\ result[q].kind = "sent" THEN 1 ELSE 0
    BY NobodyElseOwes
  <1>2. /\ Tries(work, s) \in Nat /\ Tries(work, s) <= MAX_DELIVERY_ATTEMPTS
        /\ Arrived(work, s) \in {0, 1}
        /\ Tries(db, s) \in Nat /\ Arrived(db, s) \in {0, 1}
    BY TriesTyped DEF Inv, StoreOK, Settling
  <1>3. Tries(db, s) <= Tries(work, s) /\ Tries(work, s) <= Tries(db, s) + 1
    BY OneTry DEF Inv, StoreOK, Settling
  <1>4. CASE Owes(q, s)
    <2>1. /\ Tries(work, s) <= Tries(db, s) /\ Tries(work, s) < MAX_DELIVERY_ATTEMPTS
          /\ Arrived(work, s) = 0
      BY <1>4, OwesFate
    <2> QED BY <1>1, <1>2, <1>3, <1>4, <2>1, PipelineAssumption
  <1>5. CASE ~Owes(q, s)
    BY <1>1, <1>2, <1>3, <1>5, PipelineAssumption
  <1> QED BY <1>4, <1>5

(* No call is made and none is waiting to be recorded.                     *)
LEMMA CountsKept ==
  ASSUME Inv, Inv', CountsOK, NEW q \in Scans, Alone(q), Alone(q)',
         result[q].kind \notin Sending, result'[q].kind \notin Sending,
         UNCHANGED phoneVars, faults' = faults,
         \A s \in Ids : Tries(work, s)' = Tries(work, s)
                        /\ Arrived(work, s)' = Arrived(work, s)
  PROVE  CountsOK'
  <1>1. \A s : Owed(s) = 0 /\ OwedCopy(s) = 0
    BY NobodyElseOwes DEF Owes
  <1>2. \A s : Owed(s)' = 0 /\ OwedCopy(s)' = 0
    BY NobodyElseOwesNext DEF Owes
  <1> QED BY <1>1, <1>2 DEF CountsOK, phoneVars

(* What a pass had in hand, or all it wrote, is lost.                      *)
LEMMA CountsLost ==
  ASSUME Inv, Inv', Settling, NEW q \in Scans, Alone(q), Alone(q)',
         result'[q] = NoResult, UNCHANGED phoneVars, faults' = faults + 1,
         work' = work \/ work' = db
  PROVE  CountsOK'
  <1> SUFFICES ASSUME NEW s \in Ids
               PROVE  /\ Tries(work, s)' + Owed(s)' <= calls'[s]
                      /\ calls'[s] <= Tries(work, s)' + Owed(s)' + faults'
                      /\ copies'[s] <= unacked'[s] + Arrived(work, s)' + OwedCopy(s)' + faults'
    BY DEF CountsOK
  <1>1. Owed(s)' = 0 /\ OwedCopy(s)' = 0
    BY NobodyElseOwesNext DEF Owes, NoResult, Sending
  <1>2. /\ Owed(s) \in {0, 1} /\ OwedCopy(s) \in {0, 1}
        /\ Tries(work, s) + Owed(s) <= Tries(db, s) + 1
        /\ Arrived(work, s) + OwedCopy(s) <= 1
        /\ Tries(db, s) <= Tries(work, s)
        /\ Tries(work, s) \in Nat /\ Tries(db, s) \in Nat
        /\ Arrived(work, s) \in {0, 1} /\ Arrived(db, s) \in {0, 1}
    BY OneCycle
  <1>3. /\ Tries(work, s) + Owed(s) <= calls[s]
        /\ calls[s] <= Tries(work, s) + Owed(s) + faults
        /\ copies[s] <= unacked[s] + Arrived(work, s) + OwedCopy(s) + faults
    BY DEF Settling, CountsOK
  <1>4. /\ calls[s] \in Nat /\ copies[s] \in Nat /\ unacked[s] \in Nat /\ faults \in Nat
        /\ calls' = calls /\ copies' = copies /\ unacked' = unacked
    BY PipelineAssumption DEF Inv, TypeOK, phoneVars
  <1>5. CASE work' = work
    <2>1. Tries(work, s)' = Tries(work, s) /\ Arrived(work, s)' = Arrived(work, s)
      BY <1>5 DEF Tries, Arrived
    <2> QED BY <1>1, <1>2, <1>3, <1>4, <2>1
  <1>6. CASE work' = db
    <2>1. Tries(work, s)' = Tries(db, s) /\ Arrived(work, s)' = Arrived(db, s)
      BY <1>6 DEF Tries, Arrived
    <2> QED BY <1>1, <1>2, <1>3, <1>4, <2>1
  <1> QED BY <1>5, <1>6

-----------------------------------------------------------------------------
(* A call is made, or what came of it is recorded.                         *)

LEMMA CountsCalled ==
  ASSUME Inv, Inv', Settling, NEW q \in Scans, Alone(q), Alone(q)',
         result[q] = NoResult, NEW s \in Ids, NEW outcome \in Outcomes, Call(s, outcome),
         result'[q].kind = outcome.kind, work' = work, faults' = faults,
         Owes(q, s)', \A t : Owes(q, t)' => t = s
  PROVE  CountsOK'
  <1> SUFFICES ASSUME NEW t \in Ids
               PROVE  /\ Tries(work, t)' + Owed(t)' <= calls'[t]
                      /\ calls'[t] <= Tries(work, t)' + Owed(t)' + faults'
                      /\ copies'[t] <= unacked'[t] + Arrived(work, t)' + OwedCopy(t)' + faults'
    BY DEF CountsOK
  <1>1. Owed(t) = 0 /\ OwedCopy(t) = 0
    BY NobodyElseOwes DEF Owes, NoResult, Sending
  <1>2. /\ Owed(t)' = IF t = s THEN 1 ELSE 0
        /\ OwedCopy(t)' = IF t = s /\ outcome.kind = "sent" THEN 1 ELSE 0
    BY NobodyElseOwesNext
  <1>3. /\ Tries(work, t) + Owed(t) <= calls[t]
        /\ calls[t] <= Tries(work, t) + Owed(t) + faults
        /\ copies[t] <= unacked[t] + Arrived(work, t) + OwedCopy(t) + faults
    BY DEF Settling, CountsOK
  <1>4. Tries(work, t)' = Tries(work, t) /\ Arrived(work, t)' = Arrived(work, t)
    BY DEF Tries, Arrived
  <1>5. Tries(work, t) \in Nat /\ Arrived(work, t) \in {0, 1}
    BY TriesTyped DEF Inv, StoreOK, Settling
  <1>6. calls[t] \in Nat /\ copies[t] \in Nat /\ unacked[t] \in Nat /\ faults \in Nat
    BY PipelineAssumption DEF Inv, TypeOK
  <1>7. CASE t = s
    <2>1. /\ calls'[t] = calls[t] + 1
          /\ copies'[t] = copies[t] + outcome.lost + (IF outcome.kind = "sent" THEN 1 ELSE 0)
          /\ unacked'[t] = unacked[t] + outcome.lost
      BY <1>7 DEF Call, Inv, TypeOK
    <2>2. outcome.lost \in Nat
      BY PipelineAssumption DEF Outcomes
    <2> QED BY <1>1, <1>2, <1>3, <1>4, <1>5, <1>6, <1>7, <2>1, <2>2
  <1>8. CASE t # s
    <2>1. calls'[t] = calls[t] /\ copies'[t] = copies[t] /\ unacked'[t] = unacked[t]
      BY <1>8 DEF Call, Inv, TypeOK
    <2> QED BY <1>1, <1>2, <1>3, <1>4, <1>5, <1>6, <1>8, <2>1
  <1> QED BY <1>7, <1>8

LEMMA CountsRecorded ==
  ASSUME Inv, Inv', Settling, NEW q \in Scans, Alone(q), Alone(q)',
         result'[q] = NoResult, UNCHANGED phoneVars, faults' = faults,
         \A t \in Ids : /\ Tries(work, t)' = Tries(work, t) + Owed(t)
                        /\ Arrived(work, t)' = Arrived(work, t) + OwedCopy(t)
  PROVE  CountsOK'
  <1> SUFFICES ASSUME NEW t \in Ids
               PROVE  /\ Tries(work, t)' + Owed(t)' <= calls'[t]
                      /\ calls'[t] <= Tries(work, t)' + Owed(t)' + faults'
                      /\ copies'[t] <= unacked'[t] + Arrived(work, t)' + OwedCopy(t)' + faults'
    BY DEF CountsOK
  <1>1. Owed(t)' = 0 /\ OwedCopy(t)' = 0
    BY NobodyElseOwesNext DEF Owes, NoResult, Sending
  <1>2. /\ Tries(work, t) + Owed(t) <= calls[t]
        /\ calls[t] <= Tries(work, t) + Owed(t) + faults
        /\ copies[t] <= unacked[t] + Arrived(work, t) + OwedCopy(t) + faults
    BY DEF Settling, CountsOK
  <1>3. /\ Tries(work, t) \in Nat /\ Arrived(work, t) \in {0, 1}
        /\ Owed(t) \in {0, 1} /\ OwedCopy(t) \in {0, 1}
    BY OneCycle
  <1>4. /\ Tries(work, t)' = Tries(work, t) + Owed(t)
        /\ Arrived(work, t)' = Arrived(work, t) + OwedCopy(t)
    OBVIOUS
  <1>5. /\ calls' = calls /\ copies' = copies /\ unacked' = unacked
        /\ calls[t] \in Nat /\ copies[t] \in Nat /\ unacked[t] \in Nat /\ faults \in Nat
    BY PipelineAssumption DEF Inv, TypeOK, phoneVars
  <1> QED BY <1>1, <1>2, <1>3, <1>4, <1>5

-----------------------------------------------------------------------------
(* The steps that leave the tables alone.                                  *)

LEMMA IdleSettles ==
  ASSUME Inv, Settling, UNCHANGED dbVars, UNCHANGED phoneVars,
         pc' = pc, batch' = batch, result' = result, faults' = faults
  PROVE  Settling'
  <1>1. db' = db /\ work' = work /\ writer' = writer /\ snap' = snap
        /\ calls' = calls /\ copies' = copies /\ unacked' = unacked
    BY DEF dbVars, phoneVars
  <1>2. OneScan'
    BY <1>1 DEF Settling, OneScan, Clean
  <1>3. \A q \in Scans : HandOK(q)'
    BY <1>1 DEF Settling, HandOK, NextSignal, View
  <1>4. \A q \in Scans : \A s : Owes(q, s)' <=> Owes(q, s)
    BY <1>1 DEF Owes, NextSignal, NextRow, View
  <1>5. CountsOK'
    BY <1>1, <1>4 DEF Settling, CountsOK, Owed, OwedCopy, Tries, Arrived
  <1> QED BY <1>1, <1>2, <1>3, <1>5 DEF Settling

LEMMA StartScanSettles ==
  ASSUME Inv, Inv', Settling, Serial, NEW q \in Scans, StartScan(q)
  PROVE  Settling'
  <1>1. \A p \in Scans : pc[p] = "idle"
    BY DEF StartScan
  <1>2. \A p \in Scans : Clean(p)
    BY <1>1 DEF Settling, HandOK, Clean
  <1>3. /\ Alone(q) /\ OnlyMoves(q) /\ UNCHANGED dbVars /\ UNCHANGED phoneVars
        /\ result' = result /\ work' = work /\ faults' = faults /\ pc'[q] = "flush"
    BY <1>2 DEF StartScan, Alone, OnlyMoves, Inv, TypeOK, dbVars
  <1>4. Alone(q)'
    BY <1>3, StaysAlone DEF dbVars
  <1>5. HandOK(q)'
    BY <1>2, <1>3 DEF HandOK, Clean, dbVars
  <1>6. result[q] = NoResult
    BY <1>1 DEF Inv, PassOK
  <1>7. CountsOK'
    <2>1. \A s \in Ids : Tries(work, s)' = Tries(work, s)
                         /\ Arrived(work, s)' = Arrived(work, s)
      BY <1>3 DEF Tries, Arrived
    <2> QED BY <1>3, <1>4, <1>6, <2>1, CountsKept DEF Settling, NoResult, Sending
  <1> QED BY <1>3, <1>5, <1>7, SameTables

(* A step of the scan under way that makes no call and records nothing.    *)
LEMMA LooksOn ==
  ASSUME Inv, Inv', Settling, NEW q \in Scans, pc[q] # "idle",
         UNCHANGED dbVars, UNCHANGED phoneVars, faults' = faults, OnlyMoves(q),
         result[q] = NoResult, result'[q].kind \notin Sending, HandOK(q)'
  PROVE  Settling'
  <1>1. Alone(q) /\ work' = work
    BY TheScan DEF dbVars
  <1>2. Alone(q)'
    BY <1>1, StaysAlone DEF dbVars
  <1>3. \A s \in Ids : Tries(work, s)' = Tries(work, s)
                       /\ Arrived(work, s)' = Arrived(work, s)
    BY <1>1 DEF Tries, Arrived
  <1>4. CountsOK'
    BY <1>1, <1>2, <1>3, CountsKept DEF Settling, NoResult, Sending
  <1> QED BY <1>1, <1>4, SameTables

LEMMA ReadQueueSettles ==
  ASSUME Inv, Inv', Settling, NEW q \in Scans, ReadQueue(q)
  PROVE  Settling'
  <1>1. /\ pc[q] = "flush" /\ pc'[q] = "flushing" /\ UNCHANGED dbVars /\ UNCHANGED phoneVars
        /\ faults' = faults /\ OnlyMoves(q) /\ result' = result
        /\ db' = db /\ work' = work /\ snap' = snap /\ writer' = writer
    BY DEF ReadQueue, OnlyMoves, Inv, TypeOK, dbVars
  <1>2. /\ View(q) = work /\ work = db /\ result[q] = NoResult
        /\ ~snap[q].pinned
    BY <1>1, TheScan DEF Settling, HandOK, Inv, PassOK
  <1>3. batch'[q] = {[id |-> i, tries |-> work.notes[i].attempts] : i \in QueuedRows(work)}
    BY <1>2 DEF ReadQueue, Inv, TypeOK
  <1>4. \A x \in batch'[q] : /\ x.id \in 1 .. Len(db.notes) /\ work.notes[x.id].queued
                             /\ x.tries = work.notes[x.id].attempts
    <2>1. DOMAIN work.notes = 1 .. Len(db.notes)
      BY <1>2, Shape DEF Inv, StoreOK
    <2> QED BY <1>3, <2>1 DEF QueuedRows
  <1>5. HandOK(q)'
    BY <1>1, <1>2, <1>4 DEF HandOK, NoResult
  <1> QED BY <1>1, <1>2, <1>5, LooksOn DEF NoResult, Sending

LEMMA FlushDiscardSettles ==
  ASSUME Inv, Inv', Settling, NEW q \in Scans, FlushDiscard(q)
  PROVE  Settling'
  <1>1. /\ pc[q] = "flushing" /\ pc' = pc /\ UNCHANGED dbVars /\ UNCHANGED phoneVars
        /\ faults' = faults /\ OnlyMoves(q) /\ batch' = batch /\ result[q] = NoResult
        /\ db' = db /\ work' = work /\ snap' = snap /\ writer' = writer
    BY DEF FlushDiscard, OnlyMoves, Inv, TypeOK, dbVars
  <1>2. View(q) = work
    BY <1>1, TheScan
  <1>3. PICK x \in batch[q] : /\ StopReason(q, x) # "none"
                              /\ result' = [result EXCEPT ![q] =
                                              [kind |-> StopReason(q, x), at |-> 0]]
    BY DEF FlushDiscard
  <1>4. x.tries < MAX_DELIVERY_ATTEMPTS /\ x.tries \in Nat
    <2>1. /\ work.notes[x.id].queued /\ x.tries = work.notes[x.id].attempts
          /\ x.id \in 1 .. Len(work.notes)
      BY <1>1, <1>2 DEF Settling, HandOK, Inv, PassOK
    <2> QED BY <2>1, QueuedFate DEF Inv, StoreOK, Settling
  <1>5. result'[q].kind = "expired"
    <2>1. StopReason(q, x) = "expired"
      BY <1>3, <1>4, PipelineAssumption DEF StopReason
    <2> QED BY <1>3, <2>1 DEF Inv, TypeOK
  <1>6. HandOK(q)'
    BY <1>1, <1>5 DEF Settling, HandOK
  <1> QED BY <1>1, <1>5, <1>6, LooksOn DEF Sending

LEMMA FlushDeferSettles ==
  ASSUME Inv, Inv', Settling, NEW q \in Scans, FlushDefer(q)
  PROVE  Settling'
  <1>1. /\ pc[q] = "flushing" /\ pc' = pc /\ UNCHANGED dbVars /\ UNCHANGED phoneVars
        /\ faults' = faults /\ OnlyMoves(q) /\ result' = result /\ result[q] = NoResult
        /\ db' = db /\ work' = work /\ snap' = snap /\ writer' = writer
        /\ batch'[q] \subseteq batch[q]
    BY DEF FlushDefer, OnlyMoves, Inv, TypeOK, dbVars
  <1>2. HandOK(q)'
    BY <1>1 DEF Settling, HandOK
  <1> QED BY <1>1, <1>2, LooksOn DEF NoResult, Sending

LEMMA ReadPendingSettles ==
  ASSUME Inv, Inv', Settling, NEW q \in Scans, ReadPending(q)
  PROVE  Settling'
  <1>1. /\ pc[q] = "score" /\ pc'[q] = "alerting" /\ UNCHANGED dbVars /\ UNCHANGED phoneVars
        /\ faults' = faults /\ OnlyMoves(q) /\ result' = result
        /\ db' = db /\ work' = work /\ snap' = snap /\ writer' = writer
    BY DEF ReadPending, OnlyMoves, Inv, TypeOK, dbVars
  <1>2. View(q) = work /\ result[q] = NoResult
    BY <1>1, TheScan DEF Inv, PassOK
  <1>3. batch'[q] = {[id |-> s, tries |-> 0] :
                       s \in {t \in DOMAIN work.signals : ~work.signals[t].alerted}}
    BY <1>2 DEF ReadPending, Inv, TypeOK
  <1>4. \A x \in batch'[q] : x.tries = 0 /\ ~work.signals[x.id].alerted
    BY <1>3
  <1>5. HandOK(q)'
    BY <1>1, <1>2, <1>4 DEF Settling, HandOK, NoResult
  <1> QED BY <1>1, <1>2, <1>5, LooksOn DEF NoResult, Sending

LEMMA AlertHoldSettles ==
  ASSUME Inv, Inv', Settling, NEW q \in Scans, AlertHold(q)
  PROVE  Settling'
  <1>1. /\ pc[q] = "alerting" /\ pc' = pc /\ UNCHANGED dbVars /\ UNCHANGED phoneVars
        /\ faults' = faults /\ OnlyMoves(q) /\ batch' = batch /\ result[q] = NoResult
        /\ db' = db /\ work' = work /\ snap' = snap /\ writer' = writer
    BY DEF AlertHold, OnlyMoves, Inv, TypeOK, dbVars
  <1>2. View(q) = work /\ View(q)' = View(q)
    BY <1>1, TheScan DEF View
  <1>3. PICK x \in batch[q], kind \in {"skip", "queue"} :
          /\ NextSignal(q, x)
          /\ kind = "queue" => Decides(q, x.id, "queue")
          /\ result' = [result EXCEPT ![q] = [kind |-> kind, at |-> 0]]
    BY DEF AlertHold
  <1>4. result'[q].kind = kind
    BY <1>3 DEF Inv, TypeOK
  <1>5. kind = "queue" => work.signals[x.id].severity # "very_strong"
    BY <1>2, <1>3 DEF Decides, DecideAlert
  <1>6. ASSUME kind = "queue", NEW y \in batch'[q], NextSignal(q, y)'
        PROVE  work'.signals[y.id].severity # "very_strong"
    <2>1. NextSignal(q, y)
      BY <1>1, <1>2, <1>6 DEF NextSignal
    <2>2. y.id = x.id
      BY <1>1, <1>3, <2>1, NextSignalUnique DEF Inv, PassOK
    <2> QED BY <1>1, <1>5, <1>6, <2>2
  <1>7. HandOK(q)'
    BY <1>1, <1>4, <1>6 DEF Settling, HandOK
  <1> QED BY <1>1, <1>4, <1>7, LooksOn DEF Sending

LEMMA FlushSendSettles ==
  ASSUME Inv, Inv', Settling, NEW q \in Scans, FlushSend(q)
  PROVE  Settling'
  <1>1. /\ pc[q] = "flushing" /\ pc' = pc /\ UNCHANGED dbVars
        /\ faults' = faults /\ OnlyMoves(q) /\ batch' = batch /\ result[q] = NoResult
        /\ db' = db /\ work' = work /\ snap' = snap /\ writer' = writer
    BY DEF FlushSend, OnlyMoves, Inv, TypeOK, dbVars
  <1>2. View(q) = work /\ View(q)' = View(q) /\ Alone(q)
    BY <1>1, TheScan DEF View
  <1>3. PICK x \in batch[q], outcome \in Outcomes :
          /\ NextRow(q, x)
          /\ Call(work.notes[x.id].sig, outcome)
          /\ result' = [result EXCEPT ![q] = SendResult(q, outcome)]
    BY <1>2 DEF FlushSend
  <1> DEFINE s == work.notes[x.id].sig
  <1>4. result'[q].kind = outcome.kind /\ outcome.kind \in Sending
    BY <1>3 DEF Inv, TypeOK, SendResult, Outcomes, Sending
  <1>5. s \in Ids
    <2>1. x.id \in 1 .. Len(work.notes) /\ work \in Rows
      BY <1>1, <1>2 DEF Inv, PassOK, StoreOK
    <2>2. work.notes[x.id] \in Note
      BY <2>1, Shape
    <2> QED BY <2>2 DEF Note
  <1>6. Owes(q, s)'
    BY <1>1, <1>2, <1>3, <1>4 DEF Owes, NextRow
  <1>7. ASSUME NEW t, Owes(q, t)' PROVE t = s
    <2>1. PICK y \in batch[q] : NextRow(q, y) /\ work.notes[y.id].sig = t
      BY <1>1, <1>2, <1>7 DEF Owes, NextRow
    <2>2. y.id = x.id
      BY <1>1, <1>3, <2>1, NextRowUnique DEF Inv, PassOK
    <2> QED BY <2>1, <2>2
  <1>8. Alone(q)'
    BY <1>1, <1>2, StaysAlone DEF dbVars
  <1>9. CountsOK'
    BY <1>1, <1>2, <1>3, <1>4, <1>5, <1>6, <1>7, <1>8, CountsCalled
  <1>10. HandOK(q)'
    BY <1>1, <1>4 DEF Settling, HandOK, Sending
  <1> QED BY <1>1, <1>2, <1>9, <1>10, SameTables

LEMMA AlertSendSettles ==
  ASSUME Inv, Inv', Settling, NEW q \in Scans, AlertSend(q)
  PROVE  Settling'
  <1>1. /\ pc[q] = "alerting" /\ pc' = pc /\ UNCHANGED dbVars
        /\ faults' = faults /\ OnlyMoves(q) /\ batch' = batch /\ result[q] = NoResult
        /\ db' = db /\ work' = work /\ snap' = snap /\ writer' = writer
    BY DEF AlertSend, OnlyMoves, Inv, TypeOK, dbVars
  <1>2. View(q) = work /\ View(q)' = View(q) /\ Alone(q)
    BY <1>1, TheScan DEF View
  <1>3. PICK x \in batch[q], outcome \in Outcomes :
          /\ NextSignal(q, x)
          /\ Call(x.id, outcome)
          /\ result' = [result EXCEPT ![q] = SendResult(q, outcome)]
    BY DEF AlertSend
  <1>4. result'[q].kind = outcome.kind /\ outcome.kind \in Sending
    BY <1>3 DEF Inv, TypeOK, SendResult, Outcomes, Sending
  <1>5. x.id \in Ids
    <2>1. x.id \in 1 .. Len(work.signals) /\ work \in Rows /\ RowsOK(work)
      BY <1>1, <1>2 DEF Inv, PassOK, StoreOK
    <2> QED BY <2>1, Shape, PipelineAssumption DEF RowsOK, Ids
  <1>6. Owes(q, x.id)'
    BY <1>1, <1>2, <1>3, <1>4 DEF Owes, NextSignal
  <1>7. ASSUME NEW t, Owes(q, t)' PROVE t = x.id
    <2>1. PICK y \in batch[q] : NextSignal(q, y) /\ y.id = t
      BY <1>1, <1>2, <1>7 DEF Owes, NextSignal
    <2>2. y.id = x.id
      BY <1>1, <1>3, <2>1, NextSignalUnique DEF Inv, PassOK
    <2> QED BY <2>1, <2>2
  <1>8. Alone(q)'
    BY <1>1, <1>2, StaysAlone DEF dbVars
  <1>9. CountsOK'
    BY <1>1, <1>2, <1>3, <1>4, <1>5, <1>6, <1>7, <1>8, CountsCalled
  <1>10. HandOK(q)'
    BY <1>1, <1>4 DEF Settling, HandOK, Sending
  <1> QED BY <1>1, <1>2, <1>9, <1>10, SameTables

-----------------------------------------------------------------------------
(* The writes.                                                             *)

LEMMA FlushRecordSettles ==
  ASSUME Inv, Inv', Settling, NEW q \in Scans, FlushRecord(q)
  PROVE  Settling'
  <1>1. PICK x \in batch[q] :
          /\ NextRow(q, x)
          /\ Write(q, FlushedRows(work, x, result[q]))
          /\ batch' = [batch EXCEPT ![q] = @ \ {x}]
    BY DEF FlushRecord
  <1> DEFINE res == result[q]
             s == work.notes[x.id].sig
  <1>2. /\ pc[q] = "flushing" /\ pc' = pc /\ UNCHANGED phoneVars
        /\ faults' = faults /\ OnlyMoves(q) /\ res # NoResult /\ result'[q] = NoResult
        /\ db' = db /\ writer' = q /\ ~snap'[q].pinned
        /\ \A p \in Scans \ {q} : snap'[p] = snap[p]
        /\ batch'[q] = batch[q] \ {x} /\ work' = FlushedRows(work, x, res)
    BY <1>1 DEF FlushRecord, Write, Unpin, Live, OnlyMoves, Inv, TypeOK
  <1>3. View(q) = work /\ Alone(q)
    BY <1>2, TheScan
  <1>4. Alone(q)'
    BY <1>2, <1>3, StaysAlone
  <1>5. /\ db \in Rows /\ work \in Rows /\ RowsOK(db) /\ RowsOK(work)
        /\ Sound(db) /\ Sound(work) /\ Len(work.notes) \in Nat
    BY Shape DEF Inv, StoreOK, Settling
  <1>6. \A y \in batch[q] :
          /\ y \in [id: Nat, tries: Nat]
          /\ y.id \in 1 .. Len(work.notes) /\ y.id \in 1 .. Len(db.notes)
          /\ work.notes[y.id] = db.notes[y.id] /\ work.notes[y.id].queued
          /\ y.tries = work.notes[y.id].attempts
    BY <1>2, <1>3 DEF Settling, HandOK, Inv, PassOK, TypeOK
  <1>7. res \in Results /\ res.kind \in Sending \cup {"expired"}
    <2>1. res \in Results /\ res.kind \in FlushKinds /\ res.kind # "exhausted"
      BY <1>2 DEF Settling, HandOK, Inv, PassOK, TypeOK
    <2> QED BY <2>1 DEF FlushKinds, Sending
  <1>8. /\ Sound(work')
        /\ FateOf(work, s) = Lifecycle!Fate("queued", x.tries)
        /\ x.tries < MAX_DELIVERY_ATTEMPTS
        /\ FateOf(work', s) =
             Lifecycle!Fate(IF res.kind = "sent" THEN "delivered"
                            ELSE IF res.kind = "transient"
                                      /\ x.tries + 1 < MAX_DELIVERY_ATTEMPTS
                                 THEN "queued" ELSE "dropped",
                            IF res.kind = "expired" THEN x.tries ELSE x.tries + 1)
        /\ \A t \in Ids \ {s} : FateOf(work', t) = FateOf(work, t)
    BY <1>2, <1>5, <1>6, <1>7, FlushedSound
  <1>9. \A i \in 1 .. Len(work.notes) : i # x.id => work'.notes[i] = work.notes[i]
    BY <1>2, <1>5, <1>6, <1>7, FlushedTables
  <1>10. FateOf(db, s) = FateOf(work, s)
    <2>1. FateOf(db, s) = Lifecycle!Fate("queued", db.notes[x.id].attempts)
      BY <1>5, <1>6, QueuedFate
    <2> QED BY <1>6, <1>8, <2>1
  <1> HIDE DEF res, s
  <1>11. x.tries \in Nat
    BY <1>6
  <1>12. FateOf(work', s) \in Lifecycle!Successors(FateOf(db, s))
    <2>1. Lifecycle!Successors(FateOf(db, s)) = Lifecycle!AfterQueued(x.tries)
      BY <1>8, <1>10 DEF Lifecycle!Successors, Lifecycle!Fate
    <2>2. FateOf(work', s) \in Lifecycle!AfterQueued(x.tries)
      <3>1. CASE res.kind = "sent"
        BY <1>8, <3>1 DEF Lifecycle!AfterQueued
      <3>2. CASE res.kind = "expired"
        BY <1>8, <3>2 DEF Lifecycle!AfterQueued
      <3>3. CASE res.kind \in {"transient", "rejected"}
        <4>1. \/ FateOf(work', s) = Lifecycle!Fate("dropped", x.tries + 1)
              \/ /\ FateOf(work', s) = Lifecycle!Fate("queued", x.tries + 1)
                 /\ x.tries + 1 < MAX_DELIVERY_ATTEMPTS
          BY <1>8, <3>3
        <4> QED BY <4>1 DEF Lifecycle!AfterQueued
      <3> QED BY <1>7, <3>1, <3>2, <3>3 DEF Sending
    <2> QED BY <2>1, <2>2
  <1>13. Advances(db, work)'
    <2>1. ASSUME NEW t \in Ids
          PROVE  \/ FateOf(work', t) = FateOf(db, t)
                 \/ FateOf(work', t) \in Lifecycle!Successors(FateOf(db, t))
      <3>1. CASE t = s
        BY <1>12, <3>1
      <3>2. CASE t # s
        BY <1>8, <3>2 DEF Settling, Advances
      <3> QED BY <3>1, <3>2
    <2> QED BY <1>2, <2>1 DEF Advances
  <1>14. HandOK(q)'
    <2>1. ASSUME NEW y \in batch'[q]
          PROVE  /\ y.id \in 1 .. Len(db.notes)
                 /\ work'.notes[y.id] = db.notes[y.id]
                 /\ work'.notes[y.id].queued
                 /\ y.tries = work'.notes[y.id].attempts
      <3>1. y \in batch[q] /\ y # x
        BY <1>2
      <3>2. y.id # x.id
        BY <1>6, <3>1
      <3> QED BY <1>6, <1>9, <3>1, <3>2
    <2> QED BY <1>2, <2>1 DEF HandOK, NoResult
  <1>15. ASSUME NEW t \in Ids
         PROVE  /\ Tries(work, t)' = Tries(work, t) + Owed(t)
                /\ Arrived(work, t)' = Arrived(work, t) + OwedCopy(t)
    <2>1. /\ Owed(t) = IF Owes(q, t) THEN 1 ELSE 0
          /\ OwedCopy(t) = IF Owes(q, t) /\ res.kind = "sent" THEN 1 ELSE 0
      BY <1>3, NobodyElseOwes DEF res
    <2>2. Owes(q, t) <=> t = s /\ res.kind \in Sending
      <3>1. ASSUME Owes(q, t) PROVE t = s /\ res.kind \in Sending
        <4>1. PICK y \in batch[q] : NextRow(q, y) /\ work.notes[y.id].sig = t
          BY <1>2, <3>1 DEF Owes
        <4>2. y.id = x.id
          BY <1>1, <1>2, <4>1, NextRowUnique DEF Inv, PassOK
        <4> QED BY <3>1, <4>1, <4>2 DEF Owes, res, s
      <3> QED BY <1>1, <1>2, <3>1 DEF Owes, res, s
    <2>3. CASE t = s
      BY <1>7, <1>8, <1>11, <2>1, <2>2, <2>3
        DEF Tries, Arrived, Lifecycle!Fate, Sending
    <2>4. CASE t # s
      <3>1. FateOf(work', t) = FateOf(work, t)
        BY <1>8, <2>4
      <3>2. Tries(work, t) \in Nat /\ Arrived(work, t) \in {0, 1}
        BY <1>5, TriesTyped
      <3> QED BY <2>1, <2>2, <2>4, <3>1, <3>2 DEF Tries, Arrived
    <2> QED BY <2>3, <2>4
  <1>16. CountsOK'
    BY <1>2, <1>3, <1>4, <1>15, CountsRecorded
  <1>17. Sound(db)'
    BY <1>2, <1>5
  <1> QED BY <1>4, <1>8, <1>13, <1>14, <1>16, <1>17, SettlingFrom

LEMMA AlertRecordSettles ==
  ASSUME Inv, Inv', Settling, NEW q \in Scans, AlertRecord(q)
  PROVE  Settling'
  <1>1. PICK x \in batch[q] :
          /\ NextSignal(q, x)
          /\ Write(q, AlertedRows(work, x.id, now[q], result[q]))
          /\ batch' = [batch EXCEPT ![q] = @ \ {x}]
    BY DEF AlertRecord
  <1> DEFINE res == result[q]
             s == x.id
  <1>2. /\ pc[q] = "alerting" /\ pc' = pc /\ UNCHANGED phoneVars
        /\ faults' = faults /\ OnlyMoves(q) /\ res # NoResult /\ result'[q] = NoResult
        /\ db' = db /\ writer' = q /\ ~snap'[q].pinned
        /\ \A p \in Scans \ {q} : snap'[p] = snap[p]
        /\ batch'[q] = batch[q] \ {x} /\ work' = AlertedRows(work, s, now[q], res)
    BY <1>1 DEF AlertRecord, Write, Unpin, Live, OnlyMoves, Inv, TypeOK
  <1>3. View(q) = work /\ Alone(q)
    BY <1>2, TheScan
  <1>4. Alone(q)'
    BY <1>2, <1>3, StaysAlone
  <1>5. /\ db \in Rows /\ work \in Rows /\ RowsOK(db) /\ RowsOK(work)
        /\ Sound(db) /\ Sound(work) /\ Len(work.signals) \in Nat
        /\ DOMAIN db.signals = 1 .. Len(db.signals) /\ Extends(db, work)
    BY Shape DEF Inv, StoreOK, Settling
  <1>6. \A y \in batch[q] :
          /\ y \in [id: Nat, tries: Nat] /\ y.tries = 0
          /\ y.id \in 1 .. Len(work.signals) /\ ~work.signals[y.id].alerted
    BY <1>2, <1>3 DEF Settling, HandOK, Inv, PassOK, TypeOK
  <1>7. /\ res \in Results /\ res.kind \in AlertKinds /\ now[q] \in Nat
        /\ res.kind = "queue" => work.signals[s].severity # "very_strong"
    <2>1. res \in Results /\ res.kind \in AlertKinds
      BY <1>2 DEF Inv, PassOK, TypeOK
    <2>2. now[q] \in Nat
      BY PipelineAssumption DEF Inv, TypeOK
    <2>3. res.kind = "queue" => work.signals[s].severity # "very_strong"
      BY <1>1, <1>2 DEF Settling, HandOK
    <2> QED BY <2>1, <2>2, <2>3
  <1>8. /\ Sound(work') /\ s \in Ids
        /\ FateOf(work, s) = Lifecycle!Fate("pending", 0)
        /\ FateOf(work', s) =
             IF res.kind = "skip" THEN Lifecycle!Fate("skipped", 0)
             ELSE Lifecycle!Fate(IF res.kind = "sent" THEN "delivered"
                                 ELSE IF res.kind \in {"queue", "transient"}
                                      THEN "queued" ELSE "dropped",
                                 IF res.kind = "queue" THEN 0 ELSE 1)
        /\ \A t \in Ids \ {s} : FateOf(work', t) = FateOf(work, t)
    BY <1>2, <1>5, <1>6, <1>7, AlertedSound
  <1>9. /\ Len(work'.signals) = Len(work.signals)
        /\ \A t \in 1 .. Len(work.signals) : t # s => work'.signals[t] = work.signals[t]
    <2>1. s \in 1 .. Len(work.signals)
      BY <1>6
    <2>2. work \in Rows /\ RowsOK(work) /\ res \in Results /\ res.kind \in AlertKinds
          /\ now[q] \in Nat /\ work' = AlertedRows(work, s, now[q], res)
      BY <1>2, <1>5, <1>7
    <2> HIDE DEF res, s
    <2> QED BY <2>1, <2>2, AlertedSignals
  <1>10. FateOf(db, s) \in {Lifecycle!Fate("pending", 0), Lifecycle!Fate("absent", 0)}
    <2>1. CASE s \in DOMAIN db.signals
      <3>1. ~db.signals[s].alerted
        BY <1>5, <1>6, <2>1 DEF Extends
      <3> QED BY <1>5, <2>1, <3>1, NoRow
    <2>2. CASE s \notin DOMAIN db.signals
      BY <2>2 DEF FateOf, Lifecycle!Fate
    <2> QED BY <2>1, <2>2
  <1> HIDE DEF res, s
  <1>11. FateOf(work', s) \in Lifecycle!Successors(FateOf(db, s))
    <2>1. Lifecycle!AfterPending \subseteq Lifecycle!Successors(FateOf(db, s))
      BY <1>10 DEF Lifecycle!Successors, Lifecycle!Fate
    <2>2. FateOf(work', s) \in Lifecycle!AfterPending
      <3>1. CASE res.kind = "skip"
        BY <1>8, <3>1 DEF Lifecycle!AfterPending
      <3>2. CASE res.kind = "queue"
        BY <1>8, <3>2 DEF Lifecycle!AfterPending
      <3>3. CASE res.kind \in Sending
        <4>1. FateOf(work', s) \in {Lifecycle!Fate("delivered", 1),
                Lifecycle!Fate("queued", 1), Lifecycle!Fate("dropped", 1)}
          BY <1>8, <3>3 DEF Sending
        <4> QED BY <4>1 DEF Lifecycle!AfterPending
      <3> QED BY <1>7, <3>1, <3>2, <3>3 DEF Sending, AlertKinds
    <2> QED BY <2>1, <2>2
  <1>12. Advances(db, work)'
    <2>1. ASSUME NEW t \in Ids
          PROVE  \/ FateOf(work', t) = FateOf(db, t)
                 \/ FateOf(work', t) \in Lifecycle!Successors(FateOf(db, t))
      <3>1. CASE t = s
        BY <1>11, <3>1
      <3>2. CASE t # s
        BY <1>8, <3>2 DEF Settling, Advances
      <3> QED BY <3>1, <3>2
    <2> QED BY <1>2, <1>5, <1>9, <2>1 DEF Advances
  <1>13. HandOK(q)'
    <2>1. ASSUME NEW y \in batch'[q]
          PROVE  y.tries = 0 /\ ~work'.signals[y.id].alerted
      <3>1. y \in batch[q] /\ y # x
        BY <1>2
      <3>2. y.id # s
        BY <1>6, <3>1 DEF s
      <3> QED BY <1>6, <1>9, <3>1, <3>2
    <2> QED BY <1>2, <2>1 DEF HandOK, NoResult
  <1>14. ASSUME NEW t \in Ids
         PROVE  /\ Tries(work, t)' = Tries(work, t) + Owed(t)
                /\ Arrived(work, t)' = Arrived(work, t) + OwedCopy(t)
    <2>1. /\ Owed(t) = IF Owes(q, t) THEN 1 ELSE 0
          /\ OwedCopy(t) = IF Owes(q, t) /\ res.kind = "sent" THEN 1 ELSE 0
      BY <1>3, NobodyElseOwes DEF res
    <2>2. Owes(q, t) <=> t = s /\ res.kind \in Sending
      <3>1. ASSUME Owes(q, t) PROVE t = s /\ res.kind \in Sending
        <4>1. PICK y \in batch[q] : NextSignal(q, y) /\ y.id = t
          BY <1>2, <3>1 DEF Owes
        <4>2. y.id = x.id
          BY <1>1, <1>2, <4>1, NextSignalUnique DEF Inv, PassOK
        <4> QED BY <3>1, <4>1, <4>2 DEF Owes, res, s
      <3> QED BY <1>1, <1>2, <3>1 DEF Owes, res, s
    <2>3. CASE t = s
      BY <1>7, <1>8, <2>1, <2>2, <2>3
        DEF Tries, Arrived, Lifecycle!Fate, Sending, AlertKinds
    <2>4. CASE t # s
      <3>1. FateOf(work', t) = FateOf(work, t)
        BY <1>8, <2>4
      <3>2. Tries(work, t) \in Nat /\ Arrived(work, t) \in {0, 1}
        BY <1>5, TriesTyped
      <3> QED BY <2>1, <2>2, <2>4, <3>1, <3>2 DEF Tries, Arrived
    <2> QED BY <2>3, <2>4
  <1>15. CountsOK'
    BY <1>2, <1>3, <1>4, <1>14, CountsRecorded
  <1>16. Sound(db)'
    BY <1>2, <1>5
  <1> QED BY <1>4, <1>8, <1>12, <1>13, <1>15, <1>16, SettlingFrom

-----------------------------------------------------------------------------
(* Commits.                                                                *)

LEMMA Published ==
  ASSUME Inv, Settling, NEW q \in Scans, pc[q] # "idle", Commit(q)
  PROVE  /\ db' = work /\ work' = work /\ writer' = NoScan /\ ~snap'[q].pinned
         /\ \A p \in Scans \ {q} : snap'[p] = snap[p]
  BY TheScan DEF Commit, Unpin, Live, Inv, TypeOK

LEMMA CommitSettles ==
  ASSUME Inv, Inv', Settling, NEW q \in Scans, pc[q] # "idle", Commit(q), OnlyMoves(q),
         UNCHANGED phoneVars, faults' = faults, result[q] = NoResult, result'[q] = NoResult,
         pc'[q] \in {"score", "idle"}
  PROVE  Settling'
  <1>1. /\ db' = work /\ work' = work /\ writer' = NoScan /\ ~snap'[q].pinned
        /\ \A p \in Scans \ {q} : snap'[p] = snap[p]
    BY Published
  <1>2. Alone(q)
    BY TheScan
  <1>3. Alone(q)'
    BY <1>1, <1>2, StaysAlone
  <1>4. Sound(db)' /\ Sound(work)' /\ Advances(db, work)'
    BY <1>1, StillAdvances DEF Settling, Advances
  <1>5. HandOK(q)'
    BY <1>1, PipelineAssumption DEF HandOK
  <1>6. CountsOK'
    <2>1. \A s \in Ids : Tries(work, s)' = Tries(work, s)
                         /\ Arrived(work, s)' = Arrived(work, s)
      BY <1>1 DEF Tries, Arrived
    <2> QED BY <1>2, <1>3, <2>1, CountsKept DEF Settling, NoResult, Sending
  <1> QED BY <1>3, <1>4, <1>5, <1>6, SettlingFrom

LEMMA CommitsSettle ==
  ASSUME Inv, Inv', Settling, NEW q \in Scans,
         FlushCommit(q) \/ StageCommit(q) \/ AlertCommit(q)
  PROVE  Settling'
  <1>1. CASE FlushCommit(q)
    BY <1>1, CommitSettles DEF FlushCommit, OnlyMoves, Inv, TypeOK
  <1>2. CASE StageCommit(q)
    <2>1. result[q] = NoResult
      BY <1>2 DEF StageCommit, Inv, PassOK
    <2> QED BY <1>2, <2>1, CommitSettles DEF StageCommit, OnlyMoves, Inv, TypeOK
  <1>3. CASE AlertCommit(q)
    BY <1>3, CommitSettles DEF AlertCommit, Ends, OnlyMoves, Inv, TypeOK
  <1> QED BY <1>1, <1>2, <1>3

(* A stored signal moves every alert by one step: from absent to pending.  *)
LEMMA NewSignalLives ==
  ASSUME Inv, Settling, NEW q \in Scans, NEW c \in Candidates, Len(work.signals) < MaxSignals
  PROVE  LET new == WithSignal(work, c, now[q])
         IN  /\ Sound(new) /\ Advances(db, new)
             /\ \A s \in Ids : Tries(new, s) = Tries(work, s)
                              /\ Arrived(new, s) = Arrived(work, s)
  <1> DEFINE new == WithSignal(work, c, now[q])
             n == Len(work.signals) + 1
  <1>1. /\ now[q] \in Nat /\ work \in Rows /\ RowsOK(work) /\ Sound(work)
        /\ Advances(db, work) /\ Extends(db, work)
    BY PipelineAssumption DEF Inv, TypeOK, StoreOK, Settling
  <1>2. /\ Sound(new) /\ n \in Ids
        /\ FateOf(work, n) = Lifecycle!Fate("absent", 0)
        /\ FateOf(new, n) = Lifecycle!Fate("pending", 0)
        /\ \A t \in Ids \ {n} : FateOf(new, t) = FateOf(work, t)
    BY <1>1, PersistedSound
  <1>3. FateOf(db, n) = Lifecycle!Fate("absent", 0)
    <2>1. /\ DOMAIN db.signals = 1 .. Len(db.signals) /\ Len(db.signals) \in Nat
          /\ Len(work.signals) \in Nat /\ Len(db.signals) <= Len(work.signals)
      BY <1>1, Shape DEF Inv, StoreOK, Extends
    <2>2. n \notin DOMAIN db.signals
      BY <2>1
    <2> QED BY <2>2 DEF FateOf, Lifecycle!Fate
  <1> HIDE DEF new, n
  <1>4. Advances(db, new)
    BY <1>1, <1>2, <1>3 DEF Advances, Lifecycle!Successors, Lifecycle!Fate
  <1>5. ASSUME NEW s \in Ids
        PROVE  Tries(new, s) = Tries(work, s) /\ Arrived(new, s) = Arrived(work, s)
    <2>1. CASE s = n
      BY <1>2, <2>1 DEF Tries, Arrived, Lifecycle!Fate
    <2>2. CASE s # n
      BY <1>2, <2>2 DEF Tries, Arrived
    <2> QED BY <2>1, <2>2
  <1> QED BY <1>2, <1>4, <1>5 DEF new

LEMMA PersistSignalSettles ==
  ASSUME Inv, Inv', Settling, NEW q \in Scans, PersistSignal(q) \/ PendSignal(q)
  PROVE  Settling'
  <1>1. PICK c \in Candidates : work' = WithSignal(work, c, now[q])
    BY DEF PersistSignal, PendSignal, Write
  <1>2. /\ pc[q] = "score" /\ pc' = pc /\ OnlyMoves(q) /\ UNCHANGED phoneVars
        /\ faults' = faults /\ result' = result /\ Len(work.signals) < MaxSignals
        /\ db' = db \/ db' = work'
        /\ PersistSignal(q) => writer' = NoScan
        /\ PendSignal(q) => writer' = q
        /\ ~snap'[q].pinned /\ \A p \in Scans \ {q} : snap'[p] = snap[p]
    BY DEF PersistSignal, PendSignal, Write, Unpin, Live, OnlyMoves, Inv, TypeOK
  <1>3. Alone(q) /\ result[q] = NoResult
    BY <1>2, TheScan DEF Inv, PassOK
  <1>4. Alone(q)'
    BY <1>2, <1>3, StaysAlone
  <1>5. /\ Sound(work') /\ Advances(db, work')
        /\ \A s \in Ids : Tries(work', s) = Tries(work, s)
                         /\ Arrived(work', s) = Arrived(work, s)
    BY <1>1, <1>2, NewSignalLives
  <1>6. Sound(db)' /\ Sound(work)' /\ Advances(db, work)'
    BY <1>2, <1>5, StillAdvances DEF Settling, Advances
  <1>7. HandOK(q)'
    BY <1>2, PipelineAssumption DEF HandOK
  <1>8. CountsOK'
    <2>1. \A s \in Ids : Tries(work, s)' = Tries(work, s)
                         /\ Arrived(work, s)' = Arrived(work, s)
      BY <1>5 DEF Tries, Arrived
    <2> QED BY <1>2, <1>3, <1>4, <2>1, CountsKept DEF Settling, NoResult, Sending
  <1> QED BY <1>4, <1>6, <1>7, <1>8, SettlingFrom

-----------------------------------------------------------------------------
(* Faults.                                                                 *)

LEMMA CrashSettles ==
  ASSUME Inv, Inv', Settling, NEW q \in Scans, Crash(q)
  PROVE  Settling'
  <1>1. /\ pc[q] # "idle" /\ pc'[q] = "idle" /\ OnlyMoves(q) /\ UNCHANGED phoneVars
        /\ faults' = faults + 1 /\ result'[q] = NoResult /\ ~snap'[q].pinned
        /\ \A p \in Scans \ {q} : snap'[p] = snap[p]
    BY DEF Crash, Drop, Ends, Fault, Rollback, Unpin, Live, OnlyMoves, Inv, TypeOK
  <1>2. Alone(q) /\ writer \in {q, NoScan} /\ (writer # q => work = db)
    BY <1>1, TheScan
  <1>3. db' = db /\ work' = db /\ writer' = NoScan
    BY <1>2 DEF Crash, Rollback
  <1>4. Alone(q)'
    BY <1>1, <1>2, <1>3, StaysAlone
  <1>5. Sound(db)' /\ Sound(work)' /\ Advances(db, work)'
    BY <1>3, StillAdvances DEF Settling, Advances
  <1>6. HandOK(q)'
    BY <1>1, <1>3, PipelineAssumption DEF HandOK
  <1>7. CountsOK'
    BY <1>1, <1>2, <1>3, <1>4, CountsLost
  <1> QED BY <1>4, <1>5, <1>6, <1>7, SettlingFrom

(* A pass gives up, and its connection may be left in an old transaction.  *)
LEMMA GivesUpSettles ==
  ASSUME Inv, Inv', Settling, NEW q \in Scans, pc[q] # "idle", pc'[q] = "score",
         OnlyMoves(q), UNCHANGED phoneVars, faults' = faults + 1, result'[q] = NoResult,
         UNCHANGED dbVars \/ (writer # q /\ Timeout(q))
  PROVE  Settling'
  <1>1. /\ db' = db /\ work' = work /\ writer' = writer
        /\ \A p \in Scans \ {q} : snap'[p] = snap[p]
        /\ snap'[q] = snap[q] \/ (writer # q /\ snap'[q] = Pinned(db))
    BY DEF dbVars, Timeout, Inv, TypeOK
  <1>2. Alone(q)
    BY TheScan
  <1>3. Alone(q)'
    BY <1>1, <1>2, StaysAlone
  <1>4. Sound(db)' /\ Sound(work)' /\ Advances(db, work)'
    BY <1>1 DEF Settling
  <1>5. HandOK(q)'
    BY <1>1 DEF Settling, HandOK, Pinned
  <1>6. CountsOK'
    BY <1>1, <1>2, <1>3, CountsLost
  <1> QED BY <1>3, <1>4, <1>5, <1>6, SettlingFrom

LEMMA AbortsSettle ==
  ASSUME Inv, Inv', Settling, NEW q \in Scans, FlushAborts(q) \/ StageTimesOut(q)
  PROVE  Settling'
  <1>1. CASE FlushAborts(q)
    BY <1>1, GivesUpSettles DEF FlushAborts, Drop, Fault, OnlyMoves, Inv, TypeOK
  <1>2. CASE StageTimesOut(q)
    <2>1. result[q] = NoResult
      BY <1>2 DEF StageTimesOut, Inv, PassOK
    <2> QED BY <1>2, <2>1, GivesUpSettles DEF StageTimesOut, Fault, OnlyMoves, Inv, TypeOK
  <1> QED BY <1>1, <1>2

(* Nobody commits behind the back of the scan under way.                   *)
LEMMA NeverRefused ==
  ASSUME Settling, NEW q \in Scans
  PROVE  ~AlertRefused(q)
  BY DEF AlertRefused, Settling, HandOK

-----------------------------------------------------------------------------
(* What serial scans keep, and what follows from it.                       *)

LEMMA InitSettling == Init => Settling
  <1> SUFFICES ASSUME Init PROVE Settling
    OBVIOUS
  <1>1. /\ db = Empty /\ work = Empty /\ writer = NoScan
        /\ \A p \in Scans : pc[p] = "idle" /\ ~snap[p].pinned /\ result[p] = NoResult
        /\ \A p \in Scans : writer # p
    BY PipelineAssumption DEF Init, Live
  <1>2. DOMAIN Empty.signals = {} /\ DOMAIN Empty.notes = {}
    BY DEF Empty
  <1>3. Sound(db) /\ Sound(work) /\ Advances(db, work)
    BY <1>1, <1>2, StillAdvances DEF Sound
  <1>4. OneScan /\ \A q \in Scans : HandOK(q)
    BY <1>1 DEF OneScan, Clean, HandOK
  <1>5. \A s \in Ids : Tries(work, s) = 0 /\ Arrived(work, s) = 0
    BY <1>1, <1>2 DEF Tries, Arrived, FateOf
  <1>6. \A s : Owed(s) = 0 /\ OwedCopy(s) = 0
    BY <1>1 DEF Owed, OwedCopy, Owes, NoResult, Sending
  <1>7. CountsOK
    BY <1>5, <1>6 DEF CountsOK, Init
  <1> QED BY <1>3, <1>4, <1>7 DEF Settling

LEMMA StepSettles ==
  ASSUME Serial, Inv, Inv', Settling, [Next]_vars
  PROVE  Settling'
  <1>1. CASE Tick
    BY <1>1, IdleSettles DEF Tick, phoneVars
  <1>2. ASSUME NEW p \in Scans, ScanStep(p) PROVE Settling'
    <2>1. CASE StartScan(p)
      BY <2>1, StartScanSettles
    <2>2. CASE ReadQueue(p)
      BY <2>2, ReadQueueSettles
    <2>3. CASE FlushDiscard(p)
      BY <2>3, FlushDiscardSettles
    <2>4. CASE FlushDefer(p)
      BY <2>4, FlushDeferSettles
    <2>5. CASE FlushSend(p)
      BY <2>5, FlushSendSettles
    <2>6. CASE FlushRecord(p)
      BY <2>6, FlushRecordSettles
    <2>7. CASE FlushCommit(p) \/ StageCommit(p) \/ AlertCommit(p)
      BY <2>7, CommitsSettle
    <2>8. CASE PersistSignal(p) \/ PendSignal(p)
      BY <2>8, PersistSignalSettles
    <2>9. CASE ReadPending(p)
      BY <2>9, ReadPendingSettles
    <2>10. CASE AlertHold(p)
      BY <2>10, AlertHoldSettles
    <2>11. CASE AlertSend(p)
      BY <2>11, AlertSendSettles
    <2>12. CASE AlertRecord(p)
      BY <2>12, AlertRecordSettles
    <2>13. CASE AlertRefused(p)
      BY <2>13, NeverRefused
    <2> QED BY <1>2, <2>1, <2>2, <2>3, <2>4, <2>5, <2>6, <2>7, <2>8, <2>9,
               <2>10, <2>11, <2>12, <2>13 DEF ScanStep
  <1>3. ASSUME NEW p \in Scans, Crash(p) PROVE Settling'
    BY <1>3, CrashSettles
  <1>4. ASSUME NEW p \in Scans, FlushAborts(p) \/ StageTimesOut(p) PROVE Settling'
    BY <1>4, AbortsSettle
  <1>5. CASE UNCHANGED vars
    BY <1>5, IdleSettles DEF vars, dbVars, phoneVars
  <1> QED BY <1>1, <1>2, <1>3, <1>4, <1>5 DEF Next

LEMMA SettlingHolds == ASSUME Serial PROVE Spec => []Settling
  <1>1. Inv /\ Inv' /\ Settling /\ [Next]_vars => Settling'
    BY StepSettles
  <1> QED BY <1>1, InitSettling, Invariance, PTL DEF Spec

(* Serial scans give every signal exactly one fate on record, whatever     *)
(* crashes between the send and the commit, aborts or rolls back: the      *)
(* alerted flag, its reason and the notifications row always agree.        *)
THEOREM FatesAreOne == ASSUME Serial PROVE Spec => []OneFatePerSignal
  <1>1. Settling => OneFatePerSignal
    BY DEF Settling, Sound, OneFatePerSignal
  <1> QED BY <1>1, SettlingHolds, PTL

LEMMA CausesKnown ==
  ASSUME Inv, Settling
  PROVE  DuplicatesHaveACause
  <1>1. ASSUME NEW s \in Ids
        PROVE  /\ Tries(db, s) <= calls[s]
               /\ copies[s] <= 1 + unacked[s] + faults
               /\ calls[s] <= MAX_DELIVERY_ATTEMPTS + faults
    <2>1. /\ Tries(work, s) + Owed(s) <= calls[s]
          /\ calls[s] <= Tries(work, s) + Owed(s) + faults
          /\ copies[s] <= unacked[s] + Arrived(work, s) + OwedCopy(s) + faults
      BY DEF Settling, CountsOK
    <2>2. /\ calls[s] \in Nat /\ copies[s] \in Nat /\ unacked[s] \in Nat /\ faults \in Nat
          /\ MAX_DELIVERY_ATTEMPTS \in Nat
      BY PipelineAssumption DEF Inv, TypeOK
    <2>3. CASE \E q \in Scans : Alone(q)
      <3>1. PICK q \in Scans : Alone(q)
        BY <2>3
      <3>2. /\ Owed(s) \in {0, 1} /\ OwedCopy(s) \in {0, 1}
            /\ Tries(work, s) + Owed(s) <= MAX_DELIVERY_ATTEMPTS
            /\ Arrived(work, s) + OwedCopy(s) <= 1
            /\ Tries(db, s) <= Tries(work, s)
            /\ Tries(work, s) \in Nat /\ Tries(db, s) \in Nat
            /\ Arrived(work, s) \in {0, 1}
        BY <3>1, OneCycle
      <3> QED BY <2>1, <2>2, <3>2
    <2>4. CASE \A q \in Scans : ~Alone(q)
      <3>1. Scans = {}
        BY <2>4 DEF Settling, OneScan, Alone
      <3>2. Owed(s) = 0 /\ OwedCopy(s) = 0
        BY <3>1 DEF Owed, OwedCopy
      <3>3. /\ Tries(work, s) \in Nat /\ Tries(work, s) <= MAX_DELIVERY_ATTEMPTS
            /\ Arrived(work, s) \in {0, 1} /\ Tries(db, s) \in Nat
            /\ Tries(db, s) <= Tries(work, s)
        BY TriesTyped, OneTry DEF Inv, StoreOK, Settling
      <3> QED BY <2>1, <2>2, <3>2, <3>3
    <2> QED BY <2>3, <2>4
  <1>2. ASSUME NEW i \in DOMAIN db.notes
        PROVE  db.notes[i].attempts <= calls[db.notes[i].sig]
    <2> DEFINE s == db.notes[i].sig
    <2>1. db \in Rows /\ RowsOK(db) /\ Sound(db) /\ i \in 1 .. Len(db.notes)
      BY <1>2, Shape DEF Inv, StoreOK, Settling
    <2>2. /\ s \in 1 .. Len(db.signals) /\ s \in Ids
          /\ DOMAIN db.signals = 1 .. Len(db.signals)
          /\ DOMAIN db.notes = 1 .. Len(db.notes)
      <3>1. db.notes[i] \in Note /\ Len(db.signals) \in Nat
            /\ DOMAIN db.signals = 1 .. Len(db.signals)
            /\ DOMAIN db.notes = 1 .. Len(db.notes)
        BY <2>1, Shape
      <3> QED BY <2>1, <3>1 DEF Note, Ids, RowsOK
    <2>3. i \in RowsOf(db, s) /\ SignalAccounted(db, s)
      BY <1>2, <2>1, <2>2 DEF RowsOf, Sound
    <2>4. db.signals[s].alerted /\ RowsOf(db, s) = {i}
      BY <2>3 DEF SignalAccounted
    <2>5. Tries(db, s) = db.notes[i].attempts
      BY <2>1, <2>2, <2>4, OneRow DEF Tries, Lifecycle!Fate
    <2> QED BY <1>1, <2>2, <2>5
  <1> QED BY <1>1, <1>2 DEF DuplicatesHaveACause

(* The phone gets an alert twice only for a cause: a fault that undid the  *)
(* record of a send, or an acknowledgement that was lost; and the calls    *)
(* for one alert stay within the delivery cycles, but for one per fault.   *)
THEOREM DuplicatesAreExplained == ASSUME Serial PROVE Spec => []DuplicatesHaveACause
  <1>1. Inv /\ Settling => DuplicatesHaveACause
    BY CausesKnown
  <1> QED BY <1>1, SettlingHolds, Invariance, PTL

-----------------------------------------------------------------------------
(* Every call is due.                                                      *)

LEMMA RetriesAreDue ==
  ASSUME Inv, Settling, NEW q \in Scans, FlushSend(q),
         NEW s \in Ids, NEW p \in Scans, calls'[s] # calls[s], result'[p] # result[p]
  PROVE  /\ \A i \in RowsOf(db, s) : StillDue(p, db.notes[i])
         /\ IsQuietHours(now[p]) => View(p).signals[s].severity = "very_strong"
  <1>1. /\ pc[q] = "flushing" /\ p = q
        /\ db \in Rows /\ work \in Rows /\ RowsOK(work) /\ Sound(work) /\ Extends(db, work)
        /\ now[q] \in Nat
    BY PipelineAssumption DEF FlushSend, Inv, TypeOK, StoreOK, Settling
  <1>2. View(q) = work
    BY <1>1, TheScan
  <1>3. PICK x \in batch[q], outcome \in Outcomes :
          /\ StopReason(q, x) = "none" /\ ~Deferred(q, x)
          /\ Call(work.notes[x.id].sig, outcome)
    BY <1>2 DEF FlushSend
  <1> DEFINE n == work.notes[x.id]
  <1>4. s = n.sig
    BY <1>3 DEF Call, Inv, TypeOK
  <1>5. /\ x.id \in 1 .. Len(db.notes) /\ x.id \in 1 .. Len(work.notes)
        /\ n = db.notes[x.id] /\ n.queued /\ x.tries = n.attempts
    BY <1>1, <1>2 DEF Settling, HandOK, Inv, PassOK
  <1>6. /\ n.sig \in 1 .. Len(work.signals) /\ RowsOf(work, n.sig) = {x.id}
        /\ ~n.delivered /\ n.attempts \in Nat /\ n.attempts < MAX_DELIVERY_ATTEMPTS
    BY <1>1, <1>5, QueuedFate
  <1>7. RowSound(work, x.id) /\ n.created \in Nat
    <2>1. x.id \in DOMAIN work.notes /\ n \in Note
      BY <1>1, <1>5, Shape
    <2> QED BY <1>1, <2>1 DEF Sound, Note
  <1>8. RowsOf(db, s) \subseteq {x.id}
    <2>1. /\ DOMAIN db.notes = 1 .. Len(db.notes) /\ DOMAIN work.notes = 1 .. Len(work.notes)
          /\ Len(db.notes) \in Nat /\ Len(work.notes) \in Nat
      BY <1>1, Shape
    <2>2. \A i \in DOMAIN db.notes : i \in DOMAIN work.notes /\ work.notes[i].sig = db.notes[i].sig
      BY <1>1, <2>1 DEF Extends
    <2>3. RowsOf(db, s) \subseteq RowsOf(work, s)
      BY <2>2 DEF RowsOf
    <2> QED BY <1>4, <1>6, <2>3
  <1>9. now[q] - n.created < MAX_NOTIFICATION_AGE
    BY <1>1, <1>2, <1>3, <1>6, <1>7, PolicyAssumption
      DEF StopReason, MAX_NOTIFICATION_AGE
  <1>10. StillDue(q, n)
    BY <1>5, <1>6, <1>9 DEF StillDue
  <1>11. IsQuietHours(now[q]) => n.bypass
    BY <1>2, <1>3 DEF Deferred
  <1>12. n.bypass => work.signals[n.sig].severity = "very_strong"
    BY <1>5, <1>7 DEF RowSound
  <1> QED BY <1>1, <1>2, <1>4, <1>5, <1>8, <1>10, <1>11, <1>12

LEMMA AlertsAreDue ==
  ASSUME Inv, Settling, NEW q \in Scans, AlertSend(q),
         NEW s \in Ids, NEW p \in Scans, calls'[s] # calls[s], result'[p] # result[p]
  PROVE  /\ \A i \in RowsOf(db, s) : StillDue(p, db.notes[i])
         /\ IsQuietHours(now[p]) => View(p).signals[s].severity = "very_strong"
  <1>1. /\ pc[q] = "alerting" /\ p = q
        /\ db \in Rows /\ work \in Rows /\ Sound(work) /\ Extends(db, work)
    BY DEF AlertSend, Inv, TypeOK, StoreOK, Settling
  <1>2. View(q) = work
    BY <1>1, TheScan
  <1>3. PICK x \in batch[q], outcome \in Outcomes :
          /\ Decides(q, x.id, "send_now")
          /\ Call(x.id, outcome)
    BY DEF AlertSend
  <1>4. s = x.id
    BY <1>3 DEF Call, Inv, TypeOK
  <1>5. x.id \in 1 .. Len(work.signals) /\ ~work.signals[x.id].alerted
    BY <1>1, <1>2 DEF Settling, HandOK, Inv, PassOK
  <1>6. RowsOf(db, s) = {}
    <2>1. /\ DOMAIN db.notes = 1 .. Len(db.notes) /\ DOMAIN work.notes = 1 .. Len(work.notes)
          /\ Len(db.notes) \in Nat /\ Len(work.notes) \in Nat
          /\ DOMAIN work.signals = 1 .. Len(work.signals)
      BY <1>1, Shape
    <2>2. \A i \in DOMAIN db.notes : i \in DOMAIN work.notes /\ work.notes[i].sig = db.notes[i].sig
      BY <1>1, <2>1 DEF Extends
    <2>3. RowsOf(work, s) = {}
      BY <1>1, <1>4, <1>5, <2>1 DEF Sound, SignalAccounted
    <2> QED BY <2>2, <2>3 DEF RowsOf
  <1>7. IsQuietHours(now[q]) => work.signals[s].severity = "very_strong"
    BY <1>2, <1>3, <1>4 DEF Decides, DecideAlert
  <1> QED BY <1>1, <1>2, <1>6, <1>7

(* No alert is sent again once it is delivered, given up or expired in the *)
(* committed database, and in quiet hours only a very-strong one sounds.   *)
THEOREM EveryCallIsDue == ASSUME Serial PROVE Spec => SendsAreDue
  <1> DEFINE Due ==
        \A s \in Ids, p \in Scans :
          calls'[s] # calls[s] /\ result'[p] # result[p] =>
            /\ \A i \in RowsOf(db, s) : StillDue(p, db.notes[i])
            /\ IsQuietHours(now[p]) => View(p).signals[s].severity = "very_strong"
  <1>1. Inv /\ Settling /\ [Next]_vars => Due
    <2> SUFFICES ASSUME Inv, Settling, [Next]_vars PROVE Due
      OBVIOUS
    <2>1. \/ calls' = calls
          \/ \E q \in Scans : FlushSend(q) \/ AlertSend(q)
      BY DEF Next, ScanStep, vars, phoneVars, Tick, StartScan, ReadQueue, FlushDiscard,
             FlushDefer, FlushRecord, FlushCommit, StageCommit, PersistSignal, PendSignal,
             ReadPending, AlertHold, AlertRecord, AlertRefused, AlertCommit, Crash, FlushAborts,
             StageTimesOut
    <2> QED BY <2>1, RetriesAreDue, AlertsAreDue
  <1>2. Due => [Due]_vars
    OBVIOUS
  <1> QED BY <1>1, SettlingHolds, Invariance, PTL DEF Spec, SendsAreDue

-----------------------------------------------------------------------------
(* The tables implement the abstract life of an alert.                     *)

(* What a step commits.                                                    *)
LEMMA StepCommits ==
  ASSUME Inv, Settling, [Next]_vars
  PROVE  \/ db' = db
         \/ db' = work
         \/ \E q \in Scans : PersistSignal(q)
  BY DEF Next, ScanStep, vars, dbVars, Tick, StartScan, ReadQueue, FlushDiscard,
         FlushDefer, FlushSend, FlushRecord, FlushCommit, StageCommit, PendSignal,
         ReadPending, AlertHold, AlertSend, AlertRecord, AlertRefused, AlertCommit, Crash, FlushAborts,
         StageTimesOut, Write, Commit, Rollback, Timeout

LEMMA Lives ==
  ASSUME Inv, Inv', Settling, Settling', [Next]_vars
  PROVE  [Lifecycle!Next]_([s \in Ids |-> FateOf(db, s)])
  <1>1. \A s \in Ids : FateOf(db', s) \in Lifecycle!Fates
    BY FateTyped DEF Inv, StoreOK, Settling
  <1>2. \A s \in Ids : \/ FateOf(db', s) = FateOf(db, s)
                       \/ FateOf(db', s) \in Lifecycle!Successors(FateOf(db, s))
    <2>1. CASE db' = db \/ db' = work
      BY <2>1 DEF Settling, Advances
    <2>2. ASSUME NEW q \in Scans, PersistSignal(q) PROVE Advances(db, db')
      <3>1. PICK c \in Candidates : db' = WithSignal(work, c, now[q])
        BY <2>2 DEF PersistSignal
      <3> QED BY <2>2, <3>1, NewSignalLives DEF PersistSignal
    <2> QED BY <2>1, <2>2, StepCommits DEF Advances
  <1> QED BY <1>1, <1>2 DEF Lifecycle!Next

(* Whatever crashes, aborts, rolls back or waits in an open transaction,   *)
(* each commit of serial scans moves every alert by one step of the        *)
(* abstract lifecycle at most, and only a new alert may be published       *)
(* together with what its first pass made of it: the two tables and the    *)
(* two passes refine the lifecycle.                                        *)
THEOREM RefinesLifecycle == ASSUME Serial PROVE Spec => ImplementsLifecycle
  <1>1. Init => Lifecycle!Init
    <2>1. DOMAIN Empty.signals = {}
      BY DEF Empty
    <2> QED BY <2>1 DEF Init, Lifecycle!Init, Lifecycle!Fate, FateOf
  <1>2. Inv /\ Inv' /\ Settling /\ Settling' /\ [Next]_vars
          => [Lifecycle!Next]_([s \in Ids |-> FateOf(db, s)])
    BY Lives
  <1> QED BY <1>1, <1>2, SettlingHolds, Invariance, PTL
          DEF Spec, ImplementsLifecycle, Lifecycle!Spec

-----------------------------------------------------------------------------
(* The cooldown, by the real times of the sends.                           *)

(* No delivery in this copy of the tables is later than t.                 *)
SentBy(rows, t) ==
  \A i \in DOMAIN rows.notes : rows.notes[i].delivered => rows.notes[i].sentAt <= t

(* Signal s may sound at t, after the deliveries this copy holds.          *)
RestedAt(rows, s, t) ==
  \A i \in DeliveredFor(rows, rows.signals[s].symbol) :
    \/ rows.notes[i].sentAt = t
    \/ t - rows.notes[i].sentAt >= Cooldown
    \/ \E k \in DeliveredFor(rows, rows.signals[s].symbol) :
         /\ rows.notes[k].sentAt >= rows.notes[i].sentAt
         /\ rows.signals[s].score - rows.signals[rows.notes[k].sig].score >= EscalationJump

(* A send about to be recorded is later than every delivery on record, and *)
(* a first one respects the cooldown.                                      *)
SendTimed(p) ==
  result[p].kind = "sent" =>
    /\ result[p].at <= clock /\ SentBy(work, result[p].at)
    /\ pc[p] = "alerting" =>
         \A x \in batch[p] : NextSignal(p, x) => RestedAt(work, x.id, result[p].at)

(* A scan is never older than ScanLimit.                                   *)
OnTime(p) == pc[p] # "idle" => now[p] <= clock /\ clock <= now[p] + ScanLimit

Timed ==
  /\ \A p \in Scans : OnTime(p) /\ SendTimed(p)
  /\ SentBy(db, clock) /\ SentBy(work, clock)
  /\ LiveAlertsRested(db) /\ LiveAlertsRested(work)

-----------------------------------------------------------------------------
(* What the writes do to the times of the deliveries.                      *)

LEMMA SigTyped ==
  ASSUME NEW rows \in Rows, RowsOK(rows), NEW i \in DOMAIN rows.notes
  PROVE  /\ rows.notes[i].sig \in DOMAIN rows.signals
         /\ rows.notes[i].sentAt \in Int
         /\ rows.notes[i] \in Note
  <1>1. /\ DOMAIN rows.notes = 1 .. Len(rows.notes) /\ rows.notes[i] \in Note
        /\ DOMAIN rows.signals = 1 .. Len(rows.signals) /\ Len(rows.signals) \in Nat
    BY Shape
  <1>2. rows.notes[i].sig \in Nat /\ 1 <= rows.notes[i].sig
    BY <1>1 DEF Note, Ids
  <1>3. rows.notes[i].sig <= Len(rows.signals)
    BY <1>1 DEF RowsOK
  <1>4. rows.notes[i].sentAt \in Int
    BY <1>1, SMTT(30) DEF Note, Never
  <1> QED BY <1>1, <1>2, <1>3, <1>4

(* From a to b deliveries stay as they are, new ones are as late as any,   *)
(* and a new live one respects the cooldown.                               *)
LEMMA CooldownCarries ==
  ASSUME NEW a \in Rows, NEW b \in Rows, RowsOK(a), RowsOK(b),
         DOMAIN a.notes \subseteq DOMAIN b.notes,
         \A i \in DOMAIN b.notes, j \in DOMAIN a.notes : i < j => i \in DOMAIN a.notes,
         \A i \in DOMAIN a.notes :
           /\ b.notes[i].sig = a.notes[i].sig
           /\ a.notes[i].delivered => b.notes[i] = a.notes[i],
         \A s \in DOMAIN a.signals : b.signals[s].symbol = a.signals[s].symbol
                                     /\ b.signals[s].score = a.signals[s].score,
         \A i \in DOMAIN b.notes :
           b.notes[i].delivered /\ ~(i \in DOMAIN a.notes /\ a.notes[i].delivered)
             => SentBy(a, b.notes[i].sentAt),
         \A j \in DOMAIN b.notes : SentLive(b, j) =>
           (j \in DOMAIN a.notes /\ SentLive(a, j)) \/ LiveAlertRested(b, j),
         LiveAlertsRested(a)
  PROVE  LiveAlertsRested(b)
  <1> SUFFICES ASSUME NEW j \in DOMAIN b.notes, j \in DOMAIN a.notes, SentLive(a, j)
               PROVE  LiveAlertRested(b, j)
    BY DEF LiveAlertsRested
  <1> DEFINE note == a.notes[j]
             signal == a.signals[note.sig]
             Old == {i \in DeliveredFor(a, signal.symbol) :
                       i < j /\ a.notes[i].sentAt <= note.sentAt}
             New == {i \in DeliveredFor(b, signal.symbol) :
                       i < j /\ b.notes[i].sentAt <= note.sentAt}
  <1>1. /\ note.delivered /\ b.notes[j] = note
        /\ note.sig \in DOMAIN a.signals
        /\ b.signals[note.sig].symbol = signal.symbol
        /\ b.signals[note.sig].score = signal.score
    BY SigTyped DEF SentLive
  <1>2. ASSUME NEW i \in New
        PROVE  i \in Old \/ b.notes[i].sentAt = note.sentAt
    <2>1. i \in DOMAIN b.notes /\ b.notes[i].delivered /\ i \in DOMAIN a.notes
          /\ b.signals[b.notes[i].sig].symbol = signal.symbol
      BY DEF DeliveredFor
    <2>2. CASE a.notes[i].delivered
      <3>1. b.notes[i] = a.notes[i] /\ a.notes[i].sig \in DOMAIN a.signals
        BY <2>1, <2>2, SigTyped
      <3> QED BY <2>1, <2>2, <3>1 DEF DeliveredFor
    <2>3. CASE ~a.notes[i].delivered
      <3>1. note.sentAt <= b.notes[i].sentAt
        BY <1>1, <2>1, <2>3 DEF SentBy
      <3>2. note.sentAt \in Int /\ b.notes[i].sentAt \in Int
        BY <1>1, <2>1, SigTyped
      <3> QED BY <3>1, <3>2
    <2> QED BY <2>2, <2>3
  <1>3. ASSUME NEW k \in Old
        PROVE  /\ k \in New /\ b.notes[k] = a.notes[k]
               /\ b.signals[b.notes[k].sig].score = a.signals[a.notes[k].sig].score
    <2>1. /\ k \in DOMAIN a.notes /\ a.notes[k].delivered
          /\ a.signals[a.notes[k].sig].symbol = signal.symbol
      BY DEF DeliveredFor
    <2>2. k \in DOMAIN b.notes /\ b.notes[k] = a.notes[k]
          /\ a.notes[k].sig \in DOMAIN a.signals
      BY <2>1, SigTyped, Zenon
    <2> QED BY <2>1, <2>2 DEF DeliveredFor
  <1>4. \A i \in Old :
          \/ a.notes[i].sentAt = note.sentAt
          \/ note.sentAt - a.notes[i].sentAt >= Cooldown
          \/ \E k \in Old :
               /\ a.notes[k].sentAt >= a.notes[i].sentAt
               /\ signal.score - a.signals[a.notes[k].sig].score >= EscalationJump
    BY DEF LiveAlertsRested, LiveAlertRested
  <1> HIDE DEF Old, New
  <1>5. \A i \in New :
          \/ b.notes[i].sentAt = note.sentAt
          \/ note.sentAt - b.notes[i].sentAt >= Cooldown
          \/ \E k \in New :
               /\ b.notes[k].sentAt >= b.notes[i].sentAt
               /\ signal.score - b.signals[b.notes[k].sig].score >= EscalationJump
    <2> TAKE i \in New
    <2>1. CASE i \in Old
      <3>1. b.notes[i] = a.notes[i]
        BY <1>3, <2>1
      <3>2. ASSUME NEW k \in Old, a.notes[k].sentAt >= a.notes[i].sentAt,
                   signal.score - a.signals[a.notes[k].sig].score >= EscalationJump
            PROVE  \E l \in New :
                     /\ b.notes[l].sentAt >= b.notes[i].sentAt
                     /\ signal.score - b.signals[b.notes[l].sig].score >= EscalationJump
        <4>1. k \in New /\ b.notes[k] = a.notes[k]
              /\ b.signals[b.notes[k].sig].score = a.signals[a.notes[k].sig].score
          BY <1>3
        <4> QED BY <3>1, <3>2, <4>1
      <3> QED BY <1>4, <2>1, <3>1, <3>2
    <2>2. CASE i \notin Old
      BY <1>2, <2>2
    <2> QED BY <2>1, <2>2
  <1>6. New = {i \in DeliveredFor(b, b.signals[b.notes[j].sig].symbol) :
                 i < j /\ b.notes[i].sentAt <= b.notes[j].sentAt}
    BY <1>1 DEF New
  <1>7. \A i \in New :
          \/ b.notes[i].sentAt = b.notes[j].sentAt
          \/ b.notes[j].sentAt - b.notes[i].sentAt >= Cooldown
          \/ \E k \in New :
               /\ b.notes[k].sentAt >= b.notes[i].sentAt
               /\ b.signals[b.notes[j].sig].score - b.signals[b.notes[k].sig].score
                    >= EscalationJump
    BY <1>1, <1>5, Zenon
  <1> HIDE DEF note, signal
  <1> QED BY <1>6, <1>7 DEF LiveAlertRested

LEMMA SentLater ==
  ASSUME NEW rows \in Rows, RowsOK(rows), NEW t \in Int, NEW u \in Int, t <= u, SentBy(rows, t)
  PROVE  SentBy(rows, u)
  BY SigTyped DEF SentBy

(* A retry of a queued row.                                                *)
LEMMA FlushedTimes ==
  ASSUME NEW rows \in Rows, RowsOK(rows), Sound(rows), LiveAlertsRested(rows),
         NEW x \in [id: Nat, tries: Nat], x.id \in 1 .. Len(rows.notes),
         rows.notes[x.id].queued, x.tries = rows.notes[x.id].attempts,
         NEW res \in Results, res.kind \in Sending \cup {"expired"},
         res.kind = "sent" => SentBy(rows, res.at),
         NEW t \in Nat, SentBy(rows, t), res.kind = "sent" => res.at <= t
  PROVE  LET new == FlushedRows(rows, x, res) IN
         LiveAlertsRested(new) /\ SentBy(new, t)
  <1> DEFINE new == FlushedRows(rows, x, res)
             n == rows.notes[x.id]
             s == n.sig
  <1>1. /\ new \in Rows /\ RowsOK(new)
        /\ Len(new.signals) = Len(rows.signals) /\ Len(new.notes) = Len(rows.notes)
        /\ s \in 1 .. Len(rows.signals)
        /\ new.notes[x.id] = FlushedRow(n, res, x.tries)
        /\ new.signals[s] = FlushedSignal(rows.signals[s], res)
        /\ \A i \in 1 .. Len(rows.notes) : i # x.id => new.notes[i] = rows.notes[i]
        /\ \A u \in 1 .. Len(rows.signals) : u # s => new.signals[u] = rows.signals[u]
    BY FlushedTables, SMTT(30)
  <1>2. /\ rows.signals[s].alerted /\ RowsOf(rows, s) = {x.id}
        /\ ~n.delivered /\ n.attempts \in Nat /\ n.attempts < MAX_DELIVERY_ATTEMPTS
    BY QueuedFate
  <1>3. n \in Note /\ rows.signals[s] \in Signal
    BY <1>1, Shape
  <1>4. LET f == new.notes[x.id] IN
        /\ f.sig = s
        /\ f.delivered <=> res.kind = "sent"
        /\ res.kind = "sent" => f.sentAt = res.at /\ f.attempts = n.attempts + 1
    BY <1>1, <1>2, <1>3, FlushedNote, SMTT(30)
  <1>5. /\ DOMAIN new.notes = 1 .. Len(rows.notes) /\ DOMAIN rows.notes = 1 .. Len(rows.notes)
        /\ DOMAIN rows.signals = 1 .. Len(rows.signals)
        /\ DOMAIN new.signals = 1 .. Len(rows.signals)
    BY <1>1, Shape
  <1>6. /\ new.signals[s].symbol = rows.signals[s].symbol
        /\ new.signals[s].score = rows.signals[s].score
        /\ rows.signals[s].reason # "send_failed" =>
             new.signals[s].reason = rows.signals[s].reason
    BY <1>1, <1>3 DEF FlushedSignal, Signal
  <1> HIDE DEF new
  <1>7. ASSUME NEW j \in DOMAIN new.notes, SentLive(new, j)
        PROVE  SentLive(rows, j)
    <2>1. CASE j = x.id
      <3>1. SignalAccounted(rows, s)
        BY <1>1, <1>5 DEF Sound
      <3>2. rows.signals[s].reason \notin {"none", "cooldown"}
        BY <1>2, <3>1 DEF SignalAccounted
      <3>3. rows.signals[s].reason = "send_failed" => n.attempts > 0
        BY <1>2, <3>1 DEF SignalAccounted
      <3>4. new.notes[x.id].delivered /\ new.notes[x.id].attempts = 1
            /\ new.signals[s].reason = "none"
        BY <1>4, <1>7, <2>1 DEF SentLive
      <3> QED BY <1>2, <1>4, <1>6, <3>2, <3>3, <3>4, SMTT(30)
    <2>2. CASE j # x.id
      <3>1. new.notes[j] = rows.notes[j] /\ j \in DOMAIN rows.notes
        BY <1>1, <1>5, <2>2
      <3>2. rows.notes[j].sig # s
        BY <1>2, <2>2, <3>1 DEF RowsOf
      <3>3. new.signals[rows.notes[j].sig] = rows.signals[rows.notes[j].sig]
        BY <1>1, <1>5, <3>1, <3>2, SigTyped
      <3> QED BY <1>7, <3>1, <3>3 DEF SentLive
    <2> QED BY <2>1, <2>2
  <1>8. \A i \in DOMAIN rows.notes :
          /\ new.notes[i].sig = rows.notes[i].sig
          /\ rows.notes[i].delivered => new.notes[i] = rows.notes[i]
    BY <1>1, <1>2, <1>4, <1>5
  <1>9. \A u \in DOMAIN rows.signals : new.signals[u].symbol = rows.signals[u].symbol
                                       /\ new.signals[u].score = rows.signals[u].score
    BY <1>1, <1>5, <1>6
  <1>10. \A i \in DOMAIN new.notes :
           new.notes[i].delivered /\ ~(i \in DOMAIN rows.notes /\ rows.notes[i].delivered)
             => SentBy(rows, new.notes[i].sentAt)
    BY <1>1, <1>4, <1>5
  <1>11. LiveAlertsRested(new)
    BY <1>1, <1>5, <1>7, <1>8, <1>9, <1>10, CooldownCarries
  <1>12. SentBy(new, t)
    BY <1>1, <1>4, <1>5 DEF SentBy
  <1> QED BY <1>11, <1>12 DEF new

(* The first handling of a new signal.                                     *)
LEMMA AlertedTimes ==
  ASSUME NEW rows \in Rows, RowsOK(rows), Sound(rows), LiveAlertsRested(rows),
         NEW s \in 1 .. Len(rows.signals), ~rows.signals[s].alerted, NEW created \in Nat,
         NEW res \in Results, res.kind \in AlertKinds,
         res.kind = "sent" => SentBy(rows, res.at) /\ RestedAt(rows, s, res.at),
         NEW t \in Nat, SentBy(rows, t), res.kind = "sent" => res.at <= t
  PROVE  LET new == AlertedRows(rows, s, created, res) IN
         LiveAlertsRested(new) /\ SentBy(new, t)
  <1> DEFINE new == AlertedRows(rows, s, created, res)
             n == Len(rows.notes) + 1
  <1>1. /\ new \in Rows /\ RowsOK(new) /\ s \in Ids
        /\ Len(new.signals) = Len(rows.signals)
        /\ new.signals[s] = AlertedSignal(rows.signals[s], res)
        /\ \A u \in 1 .. Len(rows.signals) : u # s => new.signals[u] = rows.signals[u]
        /\ res.kind = "skip" => new.notes = rows.notes
        /\ res.kind # "skip" =>
             /\ Len(new.notes) = n
             /\ new.notes[n] = NewRow(s, rows.signals[s], created, res)
             /\ new.notes[n].sig = s
             /\ \A i \in 1 .. Len(rows.notes) : new.notes[i] = rows.notes[i]
    <2>1. Alerts(rows, new, s, created, res)
      BY AlertedTables
    <2> HIDE DEF new
    <2> QED BY <2>1 DEF Alerts
  <1>2. rows.signals[s] \in Signal /\ Len(rows.notes) \in Nat
    BY Shape
  <1>3. res.kind # "skip" =>
          /\ new.notes[n].delivered <=> res.kind = "sent"
          /\ res.kind = "sent" => new.notes[n].sentAt = res.at
    BY <1>1, <1>2, NewNote, SMTT(30)
  <1>4. /\ DOMAIN rows.notes = 1 .. Len(rows.notes)
        /\ DOMAIN rows.signals = 1 .. Len(rows.signals)
        /\ DOMAIN new.notes = 1 .. Len(new.notes)
        /\ DOMAIN new.signals = 1 .. Len(rows.signals)
    BY <1>1, Shape
  <1>5. /\ new.signals[s].symbol = rows.signals[s].symbol
        /\ new.signals[s].score = rows.signals[s].score
    BY <1>1, <1>2 DEF AlertedSignal, Signal
  <1>6. RowsOf(rows, s) = {}
    BY <1>4 DEF Sound, SignalAccounted
  <1>7. /\ DOMAIN new.notes = DOMAIN rows.notes
             \/ (res.kind # "skip" /\ DOMAIN new.notes = DOMAIN rows.notes \cup {n})
        /\ \A i \in DOMAIN rows.notes : new.notes[i] = rows.notes[i] /\ i < n
        /\ n \notin DOMAIN rows.notes
    BY <1>1, <1>2, <1>4
  <1> HIDE DEF new, n
  <1>8. \A u \in DOMAIN rows.signals : new.signals[u].symbol = rows.signals[u].symbol
                                       /\ new.signals[u].score = rows.signals[u].score
    BY <1>1, <1>4, <1>5
  <1>9. ASSUME NEW j \in DOMAIN rows.notes, SentLive(new, j)
        PROVE  SentLive(rows, j)
    <2>1. rows.notes[j].sig # s
      BY <1>6 DEF RowsOf
    <2>2. new.signals[rows.notes[j].sig] = rows.signals[rows.notes[j].sig]
      BY <1>1, <1>4, <2>1, SigTyped
    <2> QED BY <1>7, <1>9, <2>2 DEF SentLive
  <1>10. ASSUME n \in DOMAIN new.notes, SentLive(new, n)
         PROVE  LiveAlertRested(new, n)
    <2>1. res.kind = "sent"
      BY <1>3, <1>7, <1>10 DEF SentLive
    <2> DEFINE symbol == rows.signals[s].symbol
    <2>2. /\ new.notes[n].sig = s /\ new.notes[n].sentAt = res.at
          /\ new.signals[s].symbol = symbol
      BY <1>1, <1>3, <1>5, <2>1
    <2>3. ASSUME NEW i, i \in DeliveredFor(new, symbol), i < n
          PROVE  i \in DeliveredFor(rows, symbol)
      <3>1. i \in DOMAIN rows.notes
        <4>1. i \in DOMAIN new.notes /\ i # n
          BY <2>3, <1>2 DEF DeliveredFor, n
        <4> QED BY <1>7, <4>1
      <3>2. new.signals[rows.notes[i].sig].symbol = rows.signals[rows.notes[i].sig].symbol
        BY <1>8, <3>1, SigTyped
      <3> QED BY <1>7, <2>3, <3>1, <3>2 DEF DeliveredFor
    <2>4. ASSUME NEW k, k \in DeliveredFor(rows, symbol)
          PROVE  /\ k \in DeliveredFor(new, symbol) /\ k < n
                 /\ new.notes[k] = rows.notes[k] /\ new.notes[k].sentAt <= res.at
                 /\ new.signals[new.notes[k].sig].score = rows.signals[rows.notes[k].sig].score
      <3>1. k \in DOMAIN rows.notes /\ rows.notes[k].delivered
        BY <2>4 DEF DeliveredFor
      <3>2. /\ new.signals[rows.notes[k].sig].symbol = rows.signals[rows.notes[k].sig].symbol
            /\ new.signals[rows.notes[k].sig].score = rows.signals[rows.notes[k].sig].score
        BY <1>8, <3>1, SigTyped
      <3> QED BY <1>7, <2>1, <2>4, <3>1, <3>2 DEF DeliveredFor, SentBy
    <2>5. \A i \in DeliveredFor(rows, symbol) :
            \/ rows.notes[i].sentAt = res.at
            \/ res.at - rows.notes[i].sentAt >= Cooldown
            \/ \E k \in DeliveredFor(rows, symbol) :
                 /\ rows.notes[k].sentAt >= rows.notes[i].sentAt
                 /\ rows.signals[s].score - rows.signals[rows.notes[k].sig].score
                      >= EscalationJump
      BY <2>1 DEF RestedAt
    <2> DEFINE before == {i \in DeliveredFor(new, symbol) :
                            i < n /\ new.notes[i].sentAt <= res.at}
    <2>6. ASSUME NEW i \in before
          PROVE  \/ new.notes[i].sentAt = res.at
                 \/ res.at - new.notes[i].sentAt >= Cooldown
                 \/ \E k \in before :
                      /\ new.notes[k].sentAt >= new.notes[i].sentAt
                      /\ new.signals[s].score - new.signals[new.notes[k].sig].score
                           >= EscalationJump
      <3>1. i \in DeliveredFor(rows, symbol)
        BY <2>3, <2>6
      <3>2. new.notes[i] = rows.notes[i]
        BY <2>4, <3>1
      <3>3. ASSUME NEW k \in DeliveredFor(rows, symbol),
                   rows.notes[k].sentAt >= rows.notes[i].sentAt,
                   rows.signals[s].score - rows.signals[rows.notes[k].sig].score
                     >= EscalationJump
            PROVE  \E l \in before :
                      /\ new.notes[l].sentAt >= new.notes[i].sentAt
                      /\ new.signals[s].score - new.signals[new.notes[l].sig].score
                           >= EscalationJump
        <4>1. /\ k \in before /\ new.notes[k] = rows.notes[k]
              /\ new.signals[new.notes[k].sig].score = rows.signals[rows.notes[k].sig].score
          BY <2>4
        <4> QED BY <1>5, <3>2, <3>3, <4>1
      <3> QED BY <2>5, <3>1, <3>2, <3>3
    <2> HIDE DEF symbol
    <2> QED BY <2>2, <2>6 DEF LiveAlertRested
  <1>11. \A i \in DOMAIN new.notes :
           new.notes[i].delivered /\ ~(i \in DOMAIN rows.notes /\ rows.notes[i].delivered)
             => SentBy(rows, new.notes[i].sentAt)
    BY <1>3, <1>7
  <1>12. \A i \in DOMAIN new.notes, j \in DOMAIN rows.notes :
           i < j => i \in DOMAIN rows.notes
    <2>1. \A j \in DOMAIN rows.notes : j < n /\ j \in Int /\ n \in Int
      BY <1>2, <1>4, <1>7 DEF n
    <2> QED BY <1>7, <2>1
  <1>13. LiveAlertsRested(new)
    <2>1. \A j \in DOMAIN new.notes : SentLive(new, j) =>
            (j \in DOMAIN rows.notes /\ SentLive(rows, j)) \/ LiveAlertRested(new, j)
      BY <1>7, <1>9, <1>10
    <2>2. /\ DOMAIN rows.notes \subseteq DOMAIN new.notes
          /\ \A i \in DOMAIN rows.notes :
               /\ new.notes[i].sig = rows.notes[i].sig
               /\ rows.notes[i].delivered => new.notes[i] = rows.notes[i]
      BY <1>7
    <2> QED BY <1>1, <1>8, <1>11, <1>12, <2>1, <2>2, CooldownCarries
  <1>14. SentBy(new, t)
    BY <1>3, <1>7 DEF SentBy
  <1> QED BY <1>13, <1>14 DEF new

LEMMA PersistedTimes ==
  ASSUME NEW rows \in Rows, RowsOK(rows), Len(rows.signals) < MaxSignals,
         NEW c \in Candidates, NEW detected \in Nat, LiveAlertsRested(rows),
         NEW t \in Nat, SentBy(rows, t)
  PROVE  LET new == WithSignal(rows, c, detected) IN
         LiveAlertsRested(new) /\ SentBy(new, t)
  <1> DEFINE signal == [symbol |-> c.symbol, severity |-> c.severity,
                        score |-> c.score, detected |-> detected,
                        alerted |-> FALSE, reason |-> "none"]
             new == WithSignal(rows, c, detected)
  <1>1. new \in Rows /\ RowsOK(new)
    BY WithSignalOK
  <1>2. signal \in Signal
    BY PipelineAssumption DEF Signal
  <1>3. new = [signals |-> Append(rows.signals, signal), notes |-> rows.notes]
    BY DEF WithSignal
  <1> HIDE DEF signal, new
  <1>4. \A u \in DOMAIN rows.signals : new.signals[u] = rows.signals[u]
    BY <1>2, <1>3, Shape, AppendProperties
  <1>5. new.notes = rows.notes
    BY <1>3
  <1>6. \A j \in DOMAIN new.notes : SentLive(new, j) => SentLive(rows, j)
    BY <1>4, <1>5, SigTyped DEF SentLive
  <1>7. LiveAlertsRested(new)
    BY <1>1, <1>4, <1>5, <1>6, CooldownCarries
  <1> QED BY <1>5, <1>7 DEF SentBy, new

-----------------------------------------------------------------------------
(* The steps, one scan at a time, no scan as long as the cooldown.         *)

LEMMA TimesTyped ==
  ASSUME Inv, NEW p \in Scans
  PROVE  /\ clock \in Nat /\ now[p] \in Nat /\ ScanLimit \in Nat
         /\ result[p] \in Results /\ result[p].at \in Nat
         /\ db \in Rows /\ work \in Rows /\ RowsOK(db) /\ RowsOK(work)
  BY PipelineAssumption DEF Inv, TypeOK, StoreOK, Results

LEMMA OnTimeKept ==
  ASSUME Timed, clock' = clock,
         \A p \in Scans : pc'[p] # "idle" => pc[p] # "idle" /\ now'[p] = now[p]
  PROVE  \A p \in Scans : OnTime(p)'
  BY DEF Timed, OnTime

(* A step after which a scan has a send to record only if it had before.   *)
LEMMA TimedKept ==
  ASSUME Inv, Inv', Timed, db' \in {db, work}, work' \in {db, work},
         clock <= clock', \A p \in Scans : OnTime(p)',
         \A p \in Scans : result'[p].kind = "sent" =>
           /\ result'[p] = result[p] /\ pc'[p] = pc[p] /\ batch'[p] = batch[p]
           /\ View(p)' = View(p) /\ work' = work
  PROVE  Timed'
  <1>1. clock \in Nat /\ clock' \in Nat
    BY PipelineAssumption DEF Inv, TypeOK
  <1>2. SentBy(db, clock') /\ SentBy(work, clock')
    BY <1>1, SentLater DEF Timed, Inv, StoreOK
  <1>3. SentBy(db, clock)' /\ SentBy(work, clock)'
    BY <1>2 DEF SentBy
  <1>4. LiveAlertsRested(db)' /\ LiveAlertsRested(work)'
    <2>1. \A rows \in {db, work} : LiveAlertsRested(rows)
      BY DEF Timed
    <2> QED BY <2>1
  <1>5. ASSUME NEW p \in Scans PROVE SendTimed(p)'
    <2> SUFFICES ASSUME result'[p].kind = "sent"
                 PROVE  /\ result'[p].at <= clock' /\ SentBy(work', result'[p].at)
                        /\ pc'[p] = "alerting" =>
                             \A x \in batch'[p] :
                               NextSignal(p, x)' => RestedAt(work', x.id, result'[p].at)
      BY DEF SendTimed
    <2>1. /\ result'[p] = result[p] /\ pc'[p] = pc[p] /\ batch'[p] = batch[p]
          /\ View(p)' = View(p) /\ work' = work
      OBVIOUS
    <2>2. SendTimed(p) /\ result[p].at \in Nat
      BY TimesTyped DEF Timed
    <2>3. \A x : NextSignal(p, x)' => NextSignal(p, x)
      BY <2>1 DEF NextSignal
    <2> QED BY <1>1, <2>1, <2>2, <2>3 DEF SendTimed
  <1> QED BY <1>3, <1>4, <1>5 DEF Timed

(* A step of the scan under way that sends nothing.                        *)
LEMMA QuietStep ==
  ASSUME Inv, Inv', Settling, Timed, NEW q \in Scans, pc[q] # "idle", OnlyMoves(q),
         result'[q].kind # "sent", db' \in {db, work}, work' \in {db, work},
         clock' = clock, \A p \in Scans : pc'[p] # "idle" => now'[p] = now[p]
  PROVE  Timed'
  <1>1. Alone(q)
    BY TheScan
  <1>2. \A p \in Scans : result'[p].kind # "sent"
    BY <1>1 DEF Alone, Clean, OnlyMoves, Inv, PassOK, NoResult
  <1>3. \A p \in Scans : OnTime(p)'
    BY OnTimeKept DEF OnlyMoves
  <1>4. clock <= clock'
    BY TimesTyped
  <1> QED BY <1>2, <1>3, <1>4, TimedKept

LEMMA TickTimed ==
  ASSUME Inv, Inv', Timed, Tick
  PROVE  Timed'
  <1>1. /\ clock' = clock + 1 /\ db' = db /\ work' = work /\ pc' = pc /\ now' = now
        /\ batch' = batch /\ result' = result /\ snap' = snap /\ writer' = writer
        /\ \A p \in Scans : pc[p] # "idle" => clock < now[p] + ScanLimit
    BY DEF Tick, dbVars
  <1>2. clock \in Nat
    BY PipelineAssumption DEF Inv, TypeOK
  <1>3. ASSUME NEW p \in Scans PROVE OnTime(p)'
    BY <1>1, TimesTyped DEF Timed, OnTime
  <1>4. \A p \in Scans : View(p)' = View(p)
    BY <1>1 DEF View
  <1> QED BY <1>1, <1>2, <1>3, <1>4, TimedKept

LEMMA StartScanTimed ==
  ASSUME Inv, Inv', Timed, NEW q \in Scans, StartScan(q)
  PROVE  Timed'
  <1>1. /\ clock' = clock /\ db' = db /\ work' = work /\ batch' = batch /\ result' = result
        /\ snap' = snap /\ writer' = writer /\ now'[q] = clock /\ pc'[q] = "flush"
        /\ \A p \in Scans \ {q} : pc'[p] = pc[p] /\ now'[p] = now[p]
    BY DEF StartScan, dbVars, Inv, TypeOK
  <1>2. ASSUME NEW p \in Scans PROVE OnTime(p)'
    BY <1>1, TimesTyped DEF Timed, OnTime
  <1>3. ASSUME NEW p \in Scans, result'[p].kind = "sent"
        PROVE  /\ result'[p] = result[p] /\ pc'[p] = pc[p] /\ batch'[p] = batch[p]
               /\ View(p)' = View(p) /\ work' = work
    <2>1. result[q] = NoResult
      BY DEF StartScan, Inv, PassOK
    <2> QED BY <1>1, <1>3, <2>1 DEF NoResult, View
  <1>4. clock <= clock'
    BY <1>1, TimesTyped
  <1> QED BY <1>1, <1>2, <1>3, <1>4, TimedKept

(* A send the scan under way has just made.                                *)
LEMMA SendKept ==
  ASSUME Inv, Inv', Settling, Timed, NEW q \in Scans, pc[q] # "idle",
         UNCHANGED dbVars, OnlyMoves(q), clock' = clock, now' = now, pc' = pc, SendTimed(q)'
  PROVE  Timed'
  <1>1. Alone(q) /\ db' = db /\ work' = work
    BY TheScan DEF dbVars
  <1>2. \A p \in Scans \ {q} : result'[p].kind # "sent"
    BY <1>1 DEF Alone, Clean, OnlyMoves, Inv, PassOK, NoResult
  <1>3. \A p \in Scans : SendTimed(p)'
    BY <1>2 DEF SendTimed
  <1>4. \A p \in Scans : OnTime(p)'
    BY OnTimeKept
  <1> QED BY <1>1, <1>3, <1>4 DEF Timed

LEMMA SentNow ==
  ASSUME Inv, Timed, NEW q \in Scans, pc[q] # "idle", NEW outcome \in Outcomes,
         result' = [result EXCEPT ![q] = SendResult(q, outcome)]
  PROVE  result'[q].at = clock
  <1>1. now[q] <= clock /\ now[q] \in Nat /\ clock \in Nat
    BY TimesTyped DEF Timed, OnTime
  <1> QED BY <1>1 DEF SendResult, Inv, TypeOK

LEMMA FlushSendTimed ==
  ASSUME Inv, Inv', Settling, Timed, NEW q \in Scans, FlushSend(q)
  PROVE  Timed'
  <1>1. /\ pc[q] = "flushing" /\ pc' = pc /\ UNCHANGED dbVars /\ clock' = clock
        /\ now' = now /\ OnlyMoves(q) /\ work' = work
    BY DEF FlushSend, OnlyMoves, Inv, TypeOK, dbVars
  <1>2. PICK outcome \in Outcomes : result' = [result EXCEPT ![q] = SendResult(q, outcome)]
    BY DEF FlushSend
  <1>3. result'[q].at = clock
    BY <1>1, <1>2, SentNow
  <1>4. SendTimed(q)'
    BY <1>1, <1>3, TimesTyped DEF SendTimed, Timed
  <1> QED BY <1>1, <1>4, SendKept

(* The decision to alert is taken at `now`; the send comes at most         *)
(* ScanLimit later.                                                        *)
LEMMA DecidedRested ==
  ASSUME Cooldown = 0 \/ ScanLimit < Cooldown, Inv, Settling, Timed,
         NEW q \in Scans, pc[q] = "alerting", NEW s \in DOMAIN work.signals,
         Decides(q, s, "send_now")
  PROVE  RestedAt(work, s, clock)
  <1>1. View(q) = work
    BY TheScan
  <1> DEFINE signal == work.signals[s]
             sent == DeliveredFor(work, signal.symbol)
  <1>2. PICK prior \in PriorAlerts(work, signal.symbol) :
          DecideAlert(signal, prior, now[q]) = "send_now"
    BY <1>1 DEF Decides
  <1>3. ~InCooldown(signal, prior, now[q])
    BY <1>2 DEF DecideAlert
  <1>4. CASE sent = {}
    BY <1>4 DEF RestedAt
  <1>5. CASE sent # {}
    <2>1. PICK p \in sent : /\ \A k \in sent : work.notes[k].sentAt <= work.notes[p].sentAt
                            /\ prior = [sentAt |-> work.notes[p].sentAt,
                                        score |-> work.signals[work.notes[p].sig].score]
      BY <1>2, <1>5 DEF PriorAlerts
    <2>2. work \in Rows /\ RowsOK(work) /\ p \in DOMAIN work.notes /\ work.notes[p].delivered
      BY <2>1 DEF DeliveredFor, Inv, StoreOK
    <2>3. work.notes[p].sentAt # Never /\ work.notes[p].sentAt \in Int
      BY <2>2, SigTyped DEF Settling, Sound, RowSound
    <2>4. work.notes[p].sentAt \in Nat
      BY <2>2, <2>3, SigTyped DEF Note
    <2>5. prior # NoPrior /\ prior.sentAt = work.notes[p].sentAt
          /\ prior.score = work.signals[work.notes[p].sig].score
      BY <2>1, <2>3 DEF NoPrior
    <2>6. /\ signal.score \in Nat /\ prior.score \in Nat
      <3>1. work.signals[work.notes[p].sig] \in Signal /\ signal \in Signal
        BY <2>2, SigTyped, Shape
      <3> QED BY <2>5, <3>1 DEF Signal
    <2>7. /\ now[q] <= clock /\ clock <= now[q] + ScanLimit /\ work.notes[p].sentAt <= clock
          /\ now[q] \in Nat /\ clock \in Nat /\ ScanLimit \in Nat
      BY <2>2, TimesTyped DEF Timed, OnTime, SentBy
    <2>8. \/ Elapsed(now[q], work.notes[p].sentAt) >= Cooldown
          \/ signal.score - prior.score >= EscalationJump
      <3>1. \/ ~(Elapsed(now[q], prior.sentAt) < Cooldown)
            \/ ~(signal.score - prior.score < EscalationJump)
        BY <1>3, <2>5 DEF InCooldown
      <3> QED BY <2>4, <2>5, <2>6, <2>7, <3>1, PolicyAssumption DEF Elapsed
    <2>9. ASSUME NEW i \in sent
          PROVE  work.notes[i].sentAt <= work.notes[p].sentAt /\ work.notes[i].sentAt \in Int
      <3>1. i \in DOMAIN work.notes
        BY DEF DeliveredFor
      <3> QED BY <2>1, <2>2, <3>1, SigTyped
    <2>10. CASE signal.score - prior.score >= EscalationJump
      BY <2>1, <2>5, <2>9, <2>10 DEF RestedAt
    <2>11. CASE Elapsed(now[q], work.notes[p].sentAt) >= Cooldown
      <3>1. clock - work.notes[p].sentAt >= Cooldown
        BY <2>4, <2>7, <2>11, PolicyAssumption DEF Elapsed
      <3>2. \A i \in sent : clock - work.notes[i].sentAt >= Cooldown
        BY <2>4, <2>7, <2>9, <3>1, PolicyAssumption
      <3> QED BY <3>2 DEF RestedAt
    <2> QED BY <2>8, <2>10, <2>11
  <1> QED BY <1>4, <1>5

LEMMA AlertSendTimed ==
  ASSUME Cooldown = 0 \/ ScanLimit < Cooldown,
         Inv, Inv', Settling, Timed, NEW q \in Scans, AlertSend(q)
  PROVE  Timed'
  <1>1. /\ pc[q] = "alerting" /\ pc' = pc /\ UNCHANGED dbVars /\ clock' = clock
        /\ now' = now /\ OnlyMoves(q) /\ batch' = batch
        /\ work' = work /\ db' = db /\ snap' = snap /\ writer' = writer
    BY DEF AlertSend, OnlyMoves, Inv, TypeOK, dbVars
  <1>2. View(q) = work /\ View(q)' = View(q)
    BY <1>1, TheScan DEF View
  <1>3. PICK x \in batch[q], outcome \in Outcomes :
          /\ NextSignal(q, x) /\ Decides(q, x.id, "send_now")
          /\ result' = [result EXCEPT ![q] = SendResult(q, outcome)]
    BY DEF AlertSend
  <1>4. result'[q].at = clock
    BY <1>1, <1>3, SentNow
  <1>5. x.id \in DOMAIN work.signals
    BY <1>1, <1>2, Shape DEF Inv, PassOK, StoreOK
  <1>6. RestedAt(work, x.id, clock)
    BY <1>1, <1>3, <1>5, DecidedRested
  <1>7. ASSUME NEW y \in batch'[q], NextSignal(q, y)' PROVE y.id = x.id
    <2>1. NextSignal(q, y)
      BY <1>1, <1>2, <1>7 DEF NextSignal
    <2> QED BY <1>1, <1>3, <2>1, NextSignalUnique DEF Inv, PassOK
  <1>8. SendTimed(q)'
    <2>1. clock <= clock /\ SentBy(work, clock)
      BY TimesTyped DEF Timed
    <2> QED BY <1>1, <1>4, <1>6, <1>7, <2>1 DEF SendTimed
  <1> QED BY <1>1, <1>8, SendKept

(* What the scan under way records.                                        *)
LEMMA RecordTimed ==
  ASSUME Inv, Inv', Settling, Timed, NEW q \in Scans, pc[q] # "idle", OnlyMoves(q),
         clock' = clock, now' = now, pc' = pc, result'[q] = NoResult, db' = db,
         LiveAlertsRested(work'), SentBy(work', clock)
  PROVE  Timed'
  <1>1. Alone(q)
    BY TheScan
  <1>2. \A p \in Scans : result'[p].kind # "sent"
    BY <1>1 DEF Alone, Clean, OnlyMoves, Inv, PassOK, NoResult
  <1>3. \A p \in Scans : SendTimed(p)'
    BY <1>2 DEF SendTimed
  <1>4. \A p \in Scans : OnTime(p)'
    BY OnTimeKept
  <1> QED BY <1>3, <1>4 DEF Timed

LEMMA FlushRecordTimed ==
  ASSUME Inv, Inv', Settling, Timed, NEW q \in Scans, FlushRecord(q)
  PROVE  Timed'
  <1>1. PICK x \in batch[q] : NextRow(q, x) /\ Write(q, FlushedRows(work, x, result[q]))
    BY DEF FlushRecord
  <1> DEFINE res == result[q]
  <1>2. /\ pc[q] = "flushing" /\ pc' = pc /\ clock' = clock /\ now' = now /\ OnlyMoves(q)
        /\ res # NoResult /\ result'[q] = NoResult
        /\ db' = db /\ work' = FlushedRows(work, x, res)
    BY <1>1 DEF FlushRecord, Write, OnlyMoves, Inv, TypeOK
  <1>3. View(q) = work
    BY <1>2, TheScan
  <1>4. /\ work \in Rows /\ RowsOK(work) /\ Sound(work) /\ LiveAlertsRested(work)
        /\ res \in Results /\ clock \in Nat /\ SentBy(work, clock)
    BY TimesTyped DEF Settling, Timed
  <1>5. /\ x \in [id: Nat, tries: Nat] /\ x.id \in 1 .. Len(work.notes)
        /\ work.notes[x.id].queued /\ x.tries = work.notes[x.id].attempts
        /\ res.kind \in FlushKinds /\ res.kind # "exhausted"
    BY <1>2, <1>3 DEF Settling, HandOK, Inv, PassOK, TypeOK
  <1>6. res.kind \in Sending \cup {"expired"}
    BY <1>5 DEF FlushKinds, Sending
  <1>7. res.kind = "sent" => SentBy(work, res.at) /\ res.at <= clock
    BY DEF Timed, SendTimed
  <1> HIDE DEF res
  <1>8. LiveAlertsRested(work') /\ SentBy(work', clock)
    BY <1>2, <1>4, <1>5, <1>6, <1>7, FlushedTimes
  <1> QED BY <1>2, <1>8, RecordTimed

LEMMA AlertRecordTimed ==
  ASSUME Inv, Inv', Settling, Timed, NEW q \in Scans, AlertRecord(q)
  PROVE  Timed'
  <1>1. PICK x \in batch[q] :
          /\ NextSignal(q, x) /\ Write(q, AlertedRows(work, x.id, now[q], result[q]))
    BY DEF AlertRecord
  <1> DEFINE res == result[q]
  <1>2. /\ pc[q] = "alerting" /\ pc' = pc /\ clock' = clock /\ now' = now /\ OnlyMoves(q)
        /\ res # NoResult /\ result'[q] = NoResult
        /\ db' = db /\ work' = AlertedRows(work, x.id, now[q], res)
    BY <1>1 DEF AlertRecord, Write, OnlyMoves, Inv, TypeOK
  <1>3. View(q) = work
    BY <1>2, TheScan
  <1>4. /\ work \in Rows /\ RowsOK(work) /\ Sound(work) /\ LiveAlertsRested(work)
        /\ res \in Results /\ clock \in Nat /\ now[q] \in Nat /\ SentBy(work, clock)
    BY TimesTyped DEF Settling, Timed
  <1>5. /\ x.id \in 1 .. Len(work.signals) /\ ~work.signals[x.id].alerted
        /\ res.kind \in AlertKinds
    BY <1>2, <1>3 DEF Settling, HandOK, Inv, PassOK
  <1>6. res.kind = "sent" => /\ SentBy(work, res.at) /\ RestedAt(work, x.id, res.at)
                             /\ res.at <= clock
    BY <1>1, <1>2 DEF Timed, SendTimed
  <1> HIDE DEF res
  <1>7. LiveAlertsRested(work') /\ SentBy(work', clock)
    BY <1>2, <1>4, <1>5, <1>6, AlertedTimes
  <1> QED BY <1>2, <1>7, RecordTimed

LEMMA PersistSignalTimed ==
  ASSUME Inv, Inv', Settling, Timed, NEW q \in Scans, PersistSignal(q) \/ PendSignal(q)
  PROVE  Timed'
  <1>1. PICK c \in Candidates : work' = WithSignal(work, c, now[q])
    BY DEF PersistSignal, PendSignal, Write
  <1>2. /\ pc[q] = "score" /\ pc' = pc /\ OnlyMoves(q) /\ clock' = clock /\ now' = now
        /\ result' = result /\ (db' = db \/ db' = work') /\ Len(work.signals) < MaxSignals
    BY DEF PersistSignal, PendSignal, Write, OnlyMoves, Inv, TypeOK
  <1>3. /\ work \in Rows /\ RowsOK(work) /\ LiveAlertsRested(work)
        /\ clock \in Nat /\ now[q] \in Nat /\ SentBy(work, clock)
    BY TimesTyped DEF Timed
  <1>4. LiveAlertsRested(work') /\ SentBy(work', clock)
    BY <1>1, <1>2, <1>3, PersistedTimes
  <1>5. Alone(q) /\ result[q] = NoResult
    BY <1>2, TheScan DEF Inv, PassOK
  <1>6. \A p \in Scans : result'[p].kind # "sent"
    BY <1>2, <1>5 DEF Alone, Clean, Inv, PassOK, NoResult
  <1>7. \A p \in Scans : OnTime(p)' /\ SendTimed(p)'
    BY <1>2, <1>6, OnTimeKept DEF SendTimed
  <1> QED BY <1>2, <1>4, <1>7 DEF Timed

-----------------------------------------------------------------------------
(* Steps that record no send, and the theorem.                             *)
LEMMA FaultTimed ==
  ASSUME Inv, Inv', Settling, Timed, NEW q \in Scans,
         Crash(q) \/ FlushAborts(q) \/ StageTimesOut(q)
  PROVE  Timed'
  <1>1. /\ pc[q] # "idle" /\ OnlyMoves(q) /\ clock' = clock
        /\ \A p \in Scans : pc'[p] # "idle" => now'[p] = now[p]
    BY DEF Crash, FlushAborts, StageTimesOut, Drop, Ends, OnlyMoves, Inv, TypeOK
  <1>2. result'[q].kind # "sent"
    <2>1. CASE Crash(q) \/ FlushAborts(q)
      BY <2>1 DEF Crash, FlushAborts, Drop, NoResult, Inv, TypeOK
    <2>2. CASE StageTimesOut(q)
      BY <2>2 DEF StageTimesOut, NoResult, Inv, PassOK
    <2> QED BY <2>1, <2>2
  <1>3. db' \in {db, work} /\ work' \in {db, work}
    BY DEF Crash, FlushAborts, StageTimesOut, Rollback, Timeout, dbVars
  <1> QED BY <1>1, <1>2, <1>3, QuietStep

LEMMA LookTimed ==
  ASSUME Inv, Inv', Settling, Timed, NEW q \in Scans,
         ReadQueue(q) \/ FlushDiscard(q) \/ FlushDefer(q) \/ ReadPending(q) \/ AlertHold(q)
  PROVE  Timed'
  <1>1. /\ pc[q] # "idle" /\ OnlyMoves(q) /\ clock' = clock /\ now' = now
        /\ db' = db /\ work' = work
    BY DEF ReadQueue, FlushDiscard, FlushDefer, ReadPending, AlertHold, OnlyMoves,
           dbVars, Inv, TypeOK
  <1>2. result'[q].kind # "sent"
    <2>1. CASE ReadQueue(q) \/ FlushDefer(q) \/ ReadPending(q)
      BY <2>1 DEF ReadQueue, FlushDefer, ReadPending, NoResult, Inv, PassOK
    <2>2. CASE FlushDiscard(q)
      <3>1. PICK x \in batch[q] : /\ StopReason(q, x) # "none"
                                  /\ result' = [result EXCEPT ![q] =
                                                  [kind |-> StopReason(q, x), at |-> 0]]
        BY <2>2 DEF FlushDiscard
      <3>2. StopReason(q, x) \in {"expired", "exhausted"}
        BY <3>1 DEF StopReason
      <3> QED BY <3>1, <3>2 DEF Inv, TypeOK
    <2>3. CASE AlertHold(q)
      BY <2>3 DEF AlertHold, Inv, TypeOK
    <2> QED BY <2>1, <2>2, <2>3
  <1> QED BY <1>1, <1>2, QuietStep

LEMMA CommitTimed ==
  ASSUME Inv, Inv', Settling, Timed, NEW q \in Scans,
         FlushCommit(q) \/ StageCommit(q) \/ AlertCommit(q)
  PROVE  Timed'
  <1>1. /\ pc[q] # "idle" /\ OnlyMoves(q) /\ clock' = clock
        /\ \A p \in Scans : pc'[p] # "idle" => now'[p] = now[p]
    BY DEF FlushCommit, StageCommit, AlertCommit, Ends, OnlyMoves, Inv, TypeOK
  <1>2. result'[q].kind # "sent"
    BY DEF FlushCommit, StageCommit, AlertCommit, NoResult, Inv, PassOK
  <1>3. db' \in {db, work} /\ work' \in {db, work}
    BY DEF FlushCommit, StageCommit, AlertCommit, Commit
  <1> QED BY <1>1, <1>2, <1>3, QuietStep

LEMMA StepTimed ==
  ASSUME Serial, Cooldown = 0 \/ ScanLimit < Cooldown,
         Inv, Inv', Settling, Timed, [Next]_vars
  PROVE  Timed'
  <1>1. CASE Tick
    BY <1>1, TickTimed
  <1>2. ASSUME NEW p \in Scans, ScanStep(p) PROVE Timed'
    <2>1. CASE StartScan(p)
      BY <2>1, StartScanTimed
    <2>2. CASE ReadQueue(p) \/ FlushDiscard(p) \/ FlushDefer(p) \/ ReadPending(p)
                 \/ AlertHold(p)
      BY <2>2, LookTimed
    <2>3. CASE FlushSend(p)
      BY <2>3, FlushSendTimed
    <2>4. CASE FlushRecord(p)
      BY <2>4, FlushRecordTimed
    <2>5. CASE FlushCommit(p) \/ StageCommit(p) \/ AlertCommit(p)
      BY <2>5, CommitTimed
    <2>6. CASE PersistSignal(p) \/ PendSignal(p)
      BY <2>6, PersistSignalTimed
    <2>7. CASE AlertSend(p)
      BY <2>7, AlertSendTimed
    <2>8. CASE AlertRecord(p)
      BY <2>8, AlertRecordTimed
    <2>9. CASE AlertRefused(p)
      BY <2>9, NeverRefused
    <2> QED BY <1>2, <2>1, <2>2, <2>3, <2>4, <2>5, <2>6, <2>7, <2>8, <2>9 DEF ScanStep
  <1>3. ASSUME NEW p \in Scans, Crash(p) \/ FlushAborts(p) \/ StageTimesOut(p)
        PROVE  Timed'
    BY <1>3, FaultTimed
  <1>4. CASE UNCHANGED vars
    <2>1. /\ clock' = clock /\ db' = db /\ work' = work /\ pc' = pc /\ now' = now
          /\ batch' = batch /\ result' = result /\ snap' = snap /\ writer' = writer
      BY <1>4 DEF vars
    <2>2. \A p \in Scans : View(p)' = View(p)
      BY <2>1 DEF View
    <2>3. \A p \in Scans : OnTime(p)'
      BY <2>1, OnTimeKept
    <2>4. clock <= clock'
      BY <2>1, PipelineAssumption DEF Inv, TypeOK
    <2> QED BY <2>1, <2>2, <2>3, <2>4, TimedKept
  <1> QED BY <1>1, <1>2, <1>3, <1>4 DEF Next

LEMMA InitTimed == Init => Timed
  <1> SUFFICES ASSUME Init PROVE Timed
    OBVIOUS
  <1>1. db.notes = <<>> /\ work.notes = <<>> /\ DOMAIN db.notes = {} /\ DOMAIN work.notes = {}
    BY DEF Init, Empty
  <1>2. \A p \in Scans : pc[p] = "idle" /\ result[p].kind # "sent"
    BY DEF Init, NoResult
  <1> QED BY <1>1, <1>2 DEF Timed, OnTime, SendTimed, SentBy, LiveAlertsRested

(* When no scan outlasts the cooldown (or there is none), a live alert     *)
(* comes a cooldown after the deliveries before it, or escalates, by the   *)
(* real times of the sends and although every decision uses the time the   *)
(* scan began.                                                             *)
THEOREM LiveAlertsWait ==
  ASSUME Serial, Cooldown = 0 \/ ScanLimit < Cooldown
  PROVE  Spec => []CooldownKept
  <1>1. Inv /\ Inv' /\ Settling /\ Timed /\ [Next]_vars => Timed'
    BY StepTimed
  <1>2. Timed => CooldownKept
    BY DEF Timed, CooldownKept
  <1> QED BY <1>1, <1>2, InitTimed, SettlingHolds, Invariance, PTL DEF Spec

=============================================================================
