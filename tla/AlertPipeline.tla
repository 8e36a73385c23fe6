---------------------------- MODULE AlertPipeline ----------------------------
(***************************************************************************)
(* Buy-alert delivery: the signals and notifications tables, and the scan  *)
(* processes that share them (scheduler/entrypoints.py, run_scan).         *)
(*                                                                         *)
(* A scan fixes its `now`, retries the queue (flush_queue), inserts fresh  *)
(* signals (the scoring pass) and dispatches every unalerted signal        *)
(* (process_pending_signals).  Each of the two notification passes reads   *)
(* its list of rows once, makes one sender call per row it acts on, and    *)
(* commits once at its end.  SQLite admits one writer: the first write of  *)
(* a pass takes the write lock, which the scan keeps until it commits.     *)
(* `db` is the committed database and `work` the lock holder's private     *)
(* copy of it, equal to `db` while nobody holds the lock.                  *)
(*                                                                         *)
(* A write that cannot get the lock in time raises, but leaves the         *)
(* transaction Python opened for it on the connection.  The next read      *)
(* pins that transaction to what was committed then (`snap`): the scan     *)
(* sees nothing newer, and SQLite refuses its writes once the database     *)
(* has moved on.                                                           *)
(***************************************************************************)
EXTENDS AlertPolicy, Sequences

CONSTANTS
  Scans,                  (* scan processes (scheduled, or started by hand)*)
  NoScan,                 (* "nobody": the value of a free write lock      *)
  Serial,                 (* TRUE: the scheduler never overlaps two scans  *)
  Symbols,                (* tracked symbols                               *)
  Candidates,             (* what the scoring pass may emit                *)
  MAX_DELIVERY_ATTEMPTS,  (* 5 in the code                                 *)
  HttpRetries,            (* [ntfy].max_retries, inside one sender call    *)
  MaxSignals,             (* bound: signals ever inserted                  *)
  MaxClock,               (* bound: the wall clock stops here              *)
  MaxFaults,              (* bound: crashes, busy timeouts and exceptions  *)
  ScanLimit               (* bound: clock units a scan may last            *)

ASSUME PipelineAssumption ==
  /\ NoScan \notin Scans
  /\ Serial \in BOOLEAN
  /\ Candidates \subseteq
       [symbol: Symbols, severity: Severities, score: Nat]
  /\ MAX_DELIVERY_ATTEMPTS \in Nat \ {0, 1} /\ HttpRetries \in Nat
  /\ MaxSignals \in Nat /\ MaxClock \in Nat /\ MaxFaults \in Nat
  /\ ScanLimit \in Nat

VARIABLES
  clock,    (* wall clock, now_utc()                                       *)
  db,       (* committed rows: signals and notifications, by id            *)
  work,     (* the lock holder's uncommitted rows                          *)
  writer,   (* the scan that holds SQLite's write lock, or NoScan          *)
  snap,     (* what each scan's reads are pinned to, if a write timed out  *)
  pc,       (* where each scan is in run_scan                              *)
  now,      (* `now` of each running scan, fixed when it starts            *)
  batch,    (* rows the current pass has read and not yet dealt with       *)
  result,   (* what the current row's write will record, if one is due     *)
  calls,    (* history: sender calls made for each signal                  *)
  copies,   (* history: copies of each alert that reached the phone        *)
  unacked,  (* history: copies that arrived although the sender saw an error*)
  faults    (* history: crashes, busy timeouts and exceptions so far       *)

dbVars == <<db, work, writer, snap>>
phoneVars == <<calls, copies, unacked>>
vars == <<clock, db, work, writer, snap, pc, now, batch, result, calls, copies,
          unacked, faults>>

Ids == 1 .. MaxSignals

MAX_NOTIFICATION_AGE == Day

(* alerted and alert_skipped_reason (its stable prefix) of a signals row.  *)
Signal == [symbol: Symbols, severity: Severities, score: Nat, detected: Nat,
           alerted: BOOLEAN,
           reason: {"none", "cooldown", "quiet_hours", "send_failed"}]

(* A notifications row; `err` is the leading code of last_error.           *)
Note == [sig: Ids, created: Nat, bypass: BOOLEAN, queued: BOOLEAN,
         delivered: BOOLEAN, attempts: Nat, sentAt: Nat \cup {Never},
         err: {"none", "transient", "rejected", "expired", "exhausted"}]

(* What a pass does with the row in hand: a decision without a send, or    *)
(* the SendResult of a sender call with the time it was acknowledged.      *)
NoResult == [kind |-> "none", at |-> 0]
Kinds == {"none", "skip", "queue", "expired", "exhausted",
          "sent", "transient", "rejected"}
Results == [kind: Kinds, at: Nat]

(* How a sender call can end: what send_ntfy returns, after `lost` posts   *)
(* that the server accepted but whose answer never came.  Any other post   *)
(* that was retried, or is reported as a transient error, left no copy.    *)
Outcomes ==
  {o \in [kind: {"sent", "transient", "rejected"}, lost: 0 .. HttpRetries + 1] :
     o.lost <= HttpRetries \/ o.kind = "transient"}

Rows == [signals: Seq(Signal), notes: Seq(Note)]

Empty == [signals |-> <<>>, notes |-> <<>>]

Snapshots == [pinned: BOOLEAN, rows: Rows]

(* Reads see whatever is committed; reads see `rows`.                      *)
Live == [pinned |-> FALSE, rows |-> Empty]
Pinned(rows) == [pinned |-> TRUE, rows |-> rows]

TypeOK ==
  /\ clock \in 0 .. MaxClock
  /\ db \in Rows /\ work \in Rows
  /\ writer \in Scans \cup {NoScan}
  /\ snap \in [Scans -> Snapshots]
  /\ pc \in [Scans -> {"idle", "flush", "flushing", "score", "alerting"}]
  /\ now \in [Scans -> 0 .. MaxClock]
  /\ batch \in [Scans -> SUBSET [id: Nat, tries: Nat]]
  /\ result \in [Scans -> Results]
  /\ calls \in [Ids -> Nat] /\ copies \in [Ids -> Nat] /\ unacked \in [Ids -> Nat]
  /\ faults \in 0 .. MaxFaults

Init ==
  /\ clock = 0
  /\ db = Empty
  /\ work = db
  /\ writer = NoScan
  /\ snap = [p \in Scans |-> Live]
  /\ pc = [p \in Scans |-> "idle"]
  /\ now = [p \in Scans |-> 0]
  /\ batch = [p \in Scans |-> {}]
  /\ result = [p \in Scans |-> NoResult]
  /\ calls = [s \in Ids |-> 0]
  /\ copies = [s \in Ids |-> 0]
  /\ unacked = [s \in Ids |-> 0]
  /\ faults = 0

-----------------------------------------------------------------------------
(* The database as one connection sees it.                                 *)

View(p) ==
  IF writer = p THEN work ELSE IF snap[p].pinned THEN snap[p].rows ELSE db

(* The lock is free or p's, and the reads of p are not out of date.        *)
CanWrite(p) ==
  \/ writer = p
  \/ writer = NoScan /\ (snap[p].pinned => snap[p].rows = db)

Unpin(p) == snap' = [snap EXCEPT ![p] = Live]

(* An INSERT or UPDATE: it needs the write lock, and keeps it.             *)
Write(p, rows) ==
  /\ CanWrite(p)
  /\ writer' = p
  /\ work' = rows
  /\ Unpin(p)
  /\ UNCHANGED db

(* conn.commit(): publishes the pending writes, if there are any.          *)
Commit(p) ==
  /\ Unpin(p)
  /\ IF writer = p
       THEN db' = work /\ writer' = NoScan /\ UNCHANGED work
       ELSE UNCHANGED <<db, work, writer>>

(* conn.close() or the death of the process: pending writes are undone.    *)
Rollback(p) ==
  /\ Unpin(p)
  /\ IF writer = p
       THEN work' = db /\ writer' = NoScan /\ UNCHANGED db
       ELSE UNCHANGED <<db, work, writer>>

(* ORDER BY <time> ASC, id ASC.                                            *)
Precedes(t1, i1, t2, i2) == t1 < t2 \/ (t1 = t2 /\ i1 <= i2)

NextRow(p, x) ==
  /\ x \in batch[p]
  /\ \A y \in batch[p] :
       Precedes(View(p).notes[x.id].created, x.id,
                View(p).notes[y.id].created, y.id)

NextSignal(p, x) ==
  /\ x \in batch[p]
  /\ \A y \in batch[p] :
       Precedes(View(p).signals[x.id].detected, x.id,
                View(p).signals[y.id].detected, y.id)

-----------------------------------------------------------------------------
(* The phone and the wall clock.                                           *)

(* One sender call about signal s with the given outcome.                  *)
Call(s, outcome) ==
  /\ calls' = [calls EXCEPT ![s] = @ + 1]
  /\ copies' = [copies EXCEPT
                  ![s] = @ + outcome.lost + (IF outcome.kind = "sent" THEN 1 ELSE 0)]
  /\ unacked' = [unacked EXCEPT ![s] = @ + outcome.lost]

(* Variant: a timed-out send is taken for a success.                       *)
SendResultOptimistic(p, outcome) ==
  [kind |-> IF outcome.lost > 0 THEN "sent" ELSE outcome.kind,
   at |-> IF now[p] >= clock THEN now[p] ELSE clock]

(* SendResult, with sent_at as the callers take it: max(now, sent_clock()).*)
SendResult(p, outcome) ==
  [kind |-> outcome.kind, at |-> IF now[p] >= clock THEN now[p] ELSE clock]

Tick ==
  /\ clock < MaxClock
  /\ \A p \in Scans : pc[p] # "idle" => clock < now[p] + ScanLimit
  /\ clock' = clock + 1
  /\ UNCHANGED <<dbVars, pc, now, batch, result, phoneVars, faults>>

-----------------------------------------------------------------------------
(* run_scan and flush_queue.                                               *)

StartScan(p) ==
  /\ pc[p] = "idle"
  /\ Serial => \A q \in Scans : pc[q] = "idle"
  /\ pc' = [pc EXCEPT ![p] = "flush"]
  /\ now' = [now EXCEPT ![p] = clock]
  /\ UNCHANGED <<clock, dbVars, batch, result, phoneVars, faults>>

(* Variant: only rows deferred by quiet hours are picked up.               *)
QueuedRowsFirstTry(rows) ==
  {i \in DOMAIN rows.notes :
     rows.notes[i].queued /\ ~rows.notes[i].delivered /\ rows.notes[i].attempts = 0}

(* SELECT ... WHERE delivered = 0 AND queued = 1.  The attempt count is    *)
(* used later as it was read here.                                         *)
QueuedRows(rows) ==
  {i \in DOMAIN rows.notes : rows.notes[i].queued /\ ~rows.notes[i].delivered}

ReadQueue(p) ==
  /\ pc[p] = "flush"
  /\ pc' = [pc EXCEPT ![p] = "flushing"]
  /\ batch' = [batch EXCEPT ![p] =
                 {[id |-> i, tries |-> View(p).notes[i].attempts] :
                    i \in QueuedRows(View(p))}]
  /\ UNCHANGED <<clock, dbVars, now, result, phoneVars, faults>>

(* Variant: no age limit.                                                  *)
StopReasonAgeless(p, x) ==
  IF x.tries >= MAX_DELIVERY_ATTEMPTS THEN "exhausted" ELSE "none"

(* Age and attempt limits come before quiet hours: a row beyond either is  *)
(* discarded without a send.                                               *)
StopReason(p, x) ==
  CASE now[p] - View(p).notes[x.id].created >= MAX_NOTIFICATION_AGE -> "expired"
    [] now[p] - View(p).notes[x.id].created < MAX_NOTIFICATION_AGE
         /\ x.tries >= MAX_DELIVERY_ATTEMPTS -> "exhausted"
    [] OTHER -> "none"

Deferred(p, x) == IsQuietHours(now[p]) /\ ~View(p).notes[x.id].bypass

FlushDiscard(p) ==
  /\ pc[p] = "flushing" /\ result[p] = NoResult
  /\ \E x \in batch[p] :
       /\ NextRow(p, x)
       /\ StopReason(p, x) # "none"
       /\ result' = [result EXCEPT ![p] = [kind |-> StopReason(p, x), at |-> 0]]
  /\ UNCHANGED <<clock, dbVars, pc, now, batch, phoneVars, faults>>

FlushDefer(p) ==
  /\ pc[p] = "flushing" /\ result[p] = NoResult
  /\ \E x \in batch[p] :
       /\ NextRow(p, x)
       /\ StopReason(p, x) = "none" /\ Deferred(p, x)
       /\ batch' = [batch EXCEPT ![p] = @ \ {x}]
  /\ UNCHANGED <<clock, dbVars, pc, now, result, phoneVars, faults>>

FlushSend(p) ==
  /\ pc[p] = "flushing" /\ result[p] = NoResult
  /\ \E x \in batch[p], outcome \in Outcomes :
       /\ NextRow(p, x)
       /\ StopReason(p, x) = "none" /\ ~Deferred(p, x)
       /\ Call(View(p).notes[x.id].sig, outcome)
       /\ result' = [result EXCEPT ![p] = SendResult(p, outcome)]
  /\ UNCHANGED <<clock, dbVars, pc, now, batch, faults>>

(* The row after the UPDATE: the SQL adds 1 to the stored count, while the *)
(* decision to keep retrying uses the count read with the list.            *)
Retries(kind, tries) == kind = "transient" /\ tries + 1 < MAX_DELIVERY_ATTEMPTS

(* Variants: an HTTP retry counts as a cycle; a failure overwrites         *)
(* delivered.                                                              *)
FlushedRowPerRequest(note, res, tries) ==
  [note EXCEPT !.delivered = @ \/ res.kind = "sent",
               !.queued = Retries(res.kind, tries), !.attempts = @ + 2]

FlushedRowUndelivers(note, res, tries) ==
  IF res.kind = "sent"
    THEN [note EXCEPT !.delivered = TRUE, !.queued = FALSE, !.sentAt = res.at,
                      !.attempts = @ + 1, !.err = "none"]
    ELSE [note EXCEPT !.delivered = FALSE, !.queued = Retries(res.kind, tries),
                      !.attempts = @ + 1, !.err = res.kind]

FlushedRow(note, res, tries) ==
  CASE res.kind \in {"expired", "exhausted"} ->
         [note EXCEPT !.queued = FALSE, !.err = res.kind]
    [] res.kind = "sent" ->
         [note EXCEPT !.delivered = TRUE, !.queued = FALSE, !.sentAt = res.at,
                      !.attempts = @ + 1, !.err = "none"]
    [] OTHER ->
         [note EXCEPT !.queued = Retries(res.kind, tries), !.attempts = @ + 1,
                      !.err = IF res.kind = "transient" /\ ~Retries(res.kind, tries)
                                THEN "exhausted" ELSE res.kind]

(* Variant: the send_failed mark is never cleared.                         *)
FlushedSignalStale(signal, res) == signal

(* A delivered retry clears a send_failed mark, and no other.              *)
FlushedSignal(signal, res) ==
  IF res.kind = "sent" /\ signal.reason = "send_failed"
    THEN [signal EXCEPT !.reason = "none"]
    ELSE signal

(* The two UPDATEs that record a flush of row x.                           *)
FlushedRows(rows, x, res) ==
  [signals |-> [rows.signals EXCEPT ![rows.notes[x.id].sig] = FlushedSignal(@, res)],
   notes |-> [rows.notes EXCEPT ![x.id] = FlushedRow(@, res, x.tries)]]

FlushRecord(p) ==
  /\ pc[p] = "flushing" /\ result[p] # NoResult
  /\ \E x \in batch[p] :
       /\ NextRow(p, x)
       /\ Write(p, FlushedRows(work, x, result[p]))
       /\ batch' = [batch EXCEPT ![p] = @ \ {x}]
  /\ result' = [result EXCEPT ![p] = NoResult]
  /\ UNCHANGED <<clock, pc, now, phoneVars, faults>>

FlushCommit(p) ==
  /\ pc[p] = "flushing" /\ result[p] = NoResult /\ batch[p] = {}
  /\ Commit(p)
  /\ pc' = [pc EXCEPT ![p] = "score"]
  /\ UNCHANGED <<clock, now, batch, result, phoneVars, faults>>

-----------------------------------------------------------------------------
(* Between the two passes: ingestion and scoring.                          *)

(* A stage that commits its own writes also commits whatever an aborted    *)
(* flush left pending, and ends a transaction left open by a timeout.      *)
StageCommit(p) ==
  /\ pc[p] = "score" /\ CanWrite(p)
  /\ writer = p \/ snap[p].pinned
  /\ Commit(p)
  /\ UNCHANGED <<clock, pc, now, batch, result, phoneVars, faults>>

(* insert_signal of an accepted candidate.  It commits, or with the        *)
(* watchlist on the RELEASE of the savepoint around it does.               *)
WithSignal(rows, c, detected) ==
  [signals |-> Append(rows.signals,
                      [symbol |-> c.symbol, severity |-> c.severity,
                       score |-> c.score, detected |-> detected,
                       alerted |-> FALSE, reason |-> "none"]),
   notes |-> rows.notes]

PersistSignal(p) ==
  /\ pc[p] = "score" /\ CanWrite(p)
  /\ Len(work.signals) < MaxSignals
  /\ \E c \in Candidates : db' = WithSignal(work, c, now[p])
  /\ work' = db'
  /\ writer' = NoScan
  /\ Unpin(p)
  /\ UNCHANGED <<clock, pc, now, batch, result, phoneVars, faults>>

(* The same with the watchlist on, when an aborted flush or a timeout left *)
(* a transaction open: the RELEASE of _insert_and_promote's savepoint then *)
(* commits nothing, and the signal waits with the other pending writes.    *)
PendSignal(p) ==
  /\ pc[p] = "score"
  /\ writer = p \/ snap[p].pinned
  /\ Len(work.signals) < MaxSignals
  /\ \E c \in Candidates : Write(p, WithSignal(work, c, now[p]))
  /\ UNCHANGED <<clock, pc, now, batch, result, phoneVars, faults>>

-----------------------------------------------------------------------------
(* process_pending_signals.                                                *)

(* SELECT ... WHERE alerted = 0.                                           *)
ReadPending(p) ==
  /\ pc[p] = "score"
  /\ pc' = [pc EXCEPT ![p] = "alerting"]
  /\ batch' = [batch EXCEPT ![p] =
                 {[id |-> s, tries |-> 0] :
                    s \in {t \in DOMAIN View(p).signals :
                             ~View(p).signals[t].alerted}}]
  /\ UNCHANGED <<clock, dbVars, now, result, phoneVars, faults>>

(* _load_prior_alert: the delivered notification of the symbol with the    *)
(* latest sent_at.  Rows stamped in the same clock unit tie: any of them.  *)
DeliveredFor(rows, symbol) ==
  {i \in DOMAIN rows.notes :
     rows.notes[i].delivered /\ rows.signals[rows.notes[i].sig].symbol = symbol}

PriorAlerts(rows, symbol) ==
  LET sent == DeliveredFor(rows, symbol) IN
  IF sent = {} THEN {NoPrior}
  ELSE {[sentAt |-> rows.notes[i].sentAt,
         score |-> rows.signals[rows.notes[i].sig].score] :
          i \in {j \in sent : \A k \in sent :
                   rows.notes[k].sentAt <= rows.notes[j].sentAt}}

(* decide_alert on signal s against any of its possible priors.            *)
Decides(p, s, action) ==
  \E prior \in PriorAlerts(View(p), View(p).signals[s].symbol) :
     DecideAlert(View(p).signals[s], prior, now[p]) = action

AlertHold(p) ==
  /\ pc[p] = "alerting" /\ result[p] = NoResult
  /\ \E x \in batch[p] :
       /\ NextSignal(p, x)
       /\ \/ /\ Decides(p, x.id, "skip_cooldown")
             /\ result' = [result EXCEPT ![p] = [kind |-> "skip", at |-> 0]]
          \/ /\ Decides(p, x.id, "queue")
             /\ result' = [result EXCEPT ![p] = [kind |-> "queue", at |-> 0]]
  /\ UNCHANGED <<clock, dbVars, pc, now, batch, phoneVars, faults>>

AlertSend(p) ==
  /\ pc[p] = "alerting" /\ result[p] = NoResult
  /\ \E x \in batch[p], outcome \in Outcomes :
       /\ NextSignal(p, x)
       /\ Decides(p, x.id, "send_now")
       /\ Call(x.id, outcome)
       /\ result' = [result EXCEPT ![p] = SendResult(p, outcome)]
  /\ UNCHANGED <<clock, dbVars, pc, now, batch, faults>>

(* The notifications row a pass writes for a new signal.  A failed very-   *)
(* strong alert may bypass quiet hours later, whenever it failed first.    *)
NewRow(s, signal, created, res) ==
  [sig |-> s, created |-> created,
   bypass |-> CASE res.kind = "queue" -> FALSE
                [] res.kind = "sent" ->
                     IsQuietHours(created) /\ signal.severity = "very_strong"
                [] OTHER -> signal.severity = "very_strong",
   queued |-> res.kind \in {"queue", "transient"},
   delivered |-> res.kind = "sent",
   attempts |-> IF res.kind = "queue" THEN 0 ELSE 1,
   sentAt |-> IF res.kind = "sent" THEN res.at ELSE Never,
   err |-> IF res.kind \in {"transient", "rejected"} THEN res.kind ELSE "none"]

(* Variants: the free-form reason is stored; a failed send stays pending.  *)
AlertedSignalFreeForm(signal, res) ==
  [signal EXCEPT !.alerted = TRUE, !.reason = res.kind]

AlertedSignalIfSent(signal, res) ==
  [signal EXCEPT !.alerted = res.kind \in {"sent", "skip", "queue"},
                 !.reason = CASE res.kind = "skip" -> "cooldown"
                              [] res.kind = "queue" -> "quiet_hours"
                              [] res.kind = "sent" -> "none"
                              [] OTHER -> "send_failed"]

(* _mark_signal_alerted and the value it stores in alert_skipped_reason.   *)
AlertedSignal(signal, res) ==
  [signal EXCEPT !.alerted = TRUE,
                 !.reason = CASE res.kind = "skip" -> "cooldown"
                              [] res.kind = "queue" -> "quiet_hours"
                              [] res.kind = "sent" -> "none"
                              [] OTHER -> "send_failed"]

(* Variant: a permanent failure leaves no row.                             *)
AlertedRowsUnlogged(rows, s, created, res) ==
  [signals |-> [rows.signals EXCEPT ![s] = AlertedSignal(@, res)],
   notes |-> IF res.kind \in {"skip", "rejected"} THEN rows.notes
             ELSE Append(rows.notes, NewRow(s, rows.signals[s], created, res))]

(* The INSERT (none for a cooldown skip) and the UPDATE of the signal.     *)
AlertedRows(rows, s, created, res) ==
  [signals |-> [rows.signals EXCEPT ![s] = AlertedSignal(@, res)],
   notes |-> IF res.kind = "skip" THEN rows.notes
             ELSE Append(rows.notes, NewRow(s, rows.signals[s], created, res))]

AlertRecord(p) ==
  /\ pc[p] = "alerting" /\ result[p] # NoResult
  /\ \E x \in batch[p] :
       /\ NextSignal(p, x)
       /\ Write(p, AlertedRows(work, x.id, now[p], result[p]))
       /\ batch' = [batch EXCEPT ![p] = @ \ {x}]
  /\ result' = [result EXCEPT ![p] = NoResult]
  /\ UNCHANGED <<clock, pc, now, phoneVars, faults>>

(* The process ends; its `now` goes with it.                               *)
Ends(p) == /\ pc' = [pc EXCEPT ![p] = "idle"]
           /\ now' = [now EXCEPT ![p] = 0]

AlertCommit(p) ==
  /\ pc[p] = "alerting" /\ result[p] = NoResult /\ batch[p] = {}
  /\ Commit(p)
  /\ Ends(p)
  /\ UNCHANGED <<clock, batch, result, phoneVars, faults>>

-----------------------------------------------------------------------------
(* Failures.                                                               *)

Fault == faults < MaxFaults /\ faults' = faults + 1

Drop(p) == /\ batch' = [batch EXCEPT ![p] = {}]
           /\ result' = [result EXCEPT ![p] = NoResult]

(* The process dies, or process_pending_signals raises: the connection     *)
(* closes without a commit.                                                *)
Crash(p) ==
  /\ pc[p] # "idle"
  /\ Fault
  /\ Rollback(p)
  /\ Drop(p)
  /\ Ends(p)
  /\ UNCHANGED <<clock, phoneVars>>

(* A write waits in vain for the lock (any process may hold it).           *)
Timeout(p) == snap' = [snap EXCEPT ![p] = Pinned(db)] /\ UNCHANGED <<db, work, writer>>

(* flush_queue raises and run_scan goes on with the next stage.  What the  *)
(* pass had written stays pending on the connection; its first write may   *)
(* have timed out.                                                         *)
FlushAborts(p) ==
  /\ pc[p] = "flushing"
  /\ Fault
  /\ \/ UNCHANGED dbVars
     \/ writer # p /\ result[p] # NoResult /\ Timeout(p)
  /\ Drop(p)
  /\ pc' = [pc EXCEPT ![p] = "score"]
  /\ UNCHANGED <<clock, now, phoneVars>>

(* A write of a stage between the passes times out; run_scan goes on.      *)
StageTimesOut(p) ==
  /\ pc[p] = "score" /\ writer # p /\ ~snap[p].pinned
  /\ Fault
  /\ Timeout(p)
  /\ UNCHANGED <<clock, pc, now, batch, result, phoneVars>>

(* The first write of a scan whose reads are out of date is refused:       *)
(* process_pending_signals raises, whatever it has just sent.              *)
AlertRefused(p) ==
  /\ pc[p] = "alerting" /\ result[p] # NoResult
  /\ writer # p /\ snap[p].pinned /\ snap[p].rows # db
  /\ Rollback(p)
  /\ Drop(p)
  /\ Ends(p)
  /\ UNCHANGED <<clock, phoneVars, faults>>

-----------------------------------------------------------------------------
ScanStep(p) ==
  \/ StartScan(p)
  \/ ReadQueue(p) \/ FlushDiscard(p) \/ FlushDefer(p) \/ FlushSend(p)
  \/ FlushRecord(p) \/ FlushCommit(p)
  \/ StageCommit(p) \/ PersistSignal(p) \/ PendSignal(p)
  \/ ReadPending(p) \/ AlertHold(p) \/ AlertSend(p)
  \/ AlertRecord(p) \/ AlertRefused(p) \/ AlertCommit(p)

Next == Tick \/ \E p \in Scans : ScanStep(p) \/ Crash(p) \/ FlushAborts(p) \/ StageTimesOut(p)

Spec == Init /\ [][Next]_vars

-----------------------------------------------------------------------------
(***************************************************************************)
(* Properties of the committed database when scans do not overlap          *)
(***************************************************************************)

RowsOf(rows, s) == {i \in DOMAIN rows.notes : rows.notes[i].sig = s}

(* Every signal has exactly one fate on record: an unalerted or cooled-    *)
(* down signal has no notifications row, any other has exactly one, and    *)
(* alert_skipped_reason agrees with how that row stands (a clean send or a *)
(* recovered failure is delivered, send_failed is not).  Two passes, a     *)
(* retry and a rollback must all keep the two tables in step.              *)
SignalAccounted(rows, s) ==
  LET signal == rows.signals[s] IN
  IF ~signal.alerted \/ signal.reason = "cooldown"
    THEN RowsOf(rows, s) = {}
    ELSE \E i \in RowsOf(rows, s) :
           /\ RowsOf(rows, s) = {i}
           /\ signal.reason = "none" => rows.notes[i].delivered
           /\ signal.reason = "send_failed" =>
                ~rows.notes[i].delivered /\ rows.notes[i].attempts > 0

(* A row leaves the queue only delivered, or undelivered for the reason    *)
(* last_error gives; while it waits it has attempts left, and only a very- *)
(* strong alert may bypass quiet hours when it is retried.                 *)
RowSound(rows, i) ==
  LET n == rows.notes[i] IN
  /\ n.delivered <=> n.sentAt # Never
  /\ n.attempts <= MAX_DELIVERY_ATTEMPTS
  /\ n.queued => /\ ~n.delivered /\ n.err \in {"none", "transient"}
                 /\ n.attempts < MAX_DELIVERY_ATTEMPTS
                 /\ n.bypass <=> rows.signals[n.sig].severity = "very_strong"
  /\ ~n.queued /\ ~n.delivered => n.err \in {"rejected", "expired", "exhausted"}
  /\ n.err = "exhausted" => n.attempts = MAX_DELIVERY_ATTEMPTS

OneFatePerSignal ==
  /\ \A s \in DOMAIN db.signals : SignalAccounted(db, s)
  /\ \A i \in DOMAIN db.notes : RowSound(db, i)

(* The phone gets a second copy of an alert only after a fault that undid  *)
(* the record of a send, or after a send whose acknowledgement was lost.   *)
(* Sender calls for one alert stay within the delivery-cycle limit, but    *)
(* for the one call per fault whose record the fault undid, and no row     *)
(* counts more delivery cycles than calls were made.                       *)
DuplicatesHaveACause ==
  /\ \A s \in Ids : /\ copies[s] <= 1 + unacked[s] + faults
                     /\ calls[s] <= MAX_DELIVERY_ATTEMPTS + faults
  /\ \A i \in DOMAIN db.notes : db.notes[i].attempts <= calls[db.notes[i].sig]

StillDue(p, n) ==
  /\ n.queued /\ ~n.delivered /\ n.attempts < MAX_DELIVERY_ATTEMPTS
  /\ now[p] - n.created < MAX_NOTIFICATION_AGE

(* A sender call is made for a signal with no row yet, or for a queued row *)
(* younger than 24 hours with attempts left: nothing delivered, discarded  *)
(* or expired in the committed database is ever sent again.  And no scan   *)
(* that starts in quiet hours makes a sound for anything but a very-strong *)
(* alert, on the first attempt or on any retry.                            *)
SendsAreDue ==
  [][\A s \in Ids, p \in Scans :
       calls'[s] # calls[s] /\ result'[p] # result[p] =>
         /\ \A i \in RowsOf(db, s) : StillDue(p, db.notes[i])
         /\ IsQuietHours(now[p]) => View(p).signals[s].severity = "very_strong"]_vars

(* A delivery that did not go through the queue: sent by the pass that     *)
(* first saw the signal, which checked the cooldown.                       *)
SentLive(rows, i) ==
  rows.notes[i].delivered /\ rows.notes[i].attempts = 1
    /\ rows.signals[rows.notes[i].sig].reason = "none"

(* The deliveries for the symbol that row j's live send came after, or in  *)
(* the same clock unit as: each is Cooldown old or as new as j, or j's     *)
(* score escalates over one of them that is no older.                      *)
LiveAlertRested(rows, j) ==
  LET note == rows.notes[j]
      signal == rows.signals[note.sig]
      before == {i \in DeliveredFor(rows, signal.symbol) :
                   i < j /\ rows.notes[i].sentAt <= note.sentAt}
  IN  \A i \in before :
        \/ rows.notes[i].sentAt = note.sentAt
        \/ note.sentAt - rows.notes[i].sentAt >= Cooldown
        \/ \E k \in before :
             /\ rows.notes[k].sentAt >= rows.notes[i].sentAt
             /\ signal.score - rows.signals[rows.notes[k].sig].score >= EscalationJump

LiveAlertsRested(rows) ==
  \A j \in DOMAIN rows.notes : SentLive(rows, j) => LiveAlertRested(rows, j)

(* The cooldown as the user meets it: a live alert comes at least Cooldown *)
(* after the previous delivery for its symbol, by the real times of both   *)
(* sends, unless its score escalates over a delivery no older than that.   *)
(* Of two rows sent in one clock unit nothing tells which came first.      *)
(* (Scans last less than the cooldown: `now` is fixed at their start.)     *)
CooldownKept == LiveAlertsRested(db)

(* The committed tables implement the abstract life of an alert: whatever  *)
(* crashes and rolls back, each commit moves a signal at most one step, or *)
(* stores it together with what its first pass made of it.                 *)
FateOf(rows, s) ==
  IF s \notin DOMAIN rows.signals THEN [stage |-> "absent", tries |-> 0]
  ELSE IF ~rows.signals[s].alerted THEN [stage |-> "pending", tries |-> 0]
  ELSE IF RowsOf(rows, s) = {} THEN [stage |-> "skipped", tries |-> 0]
  ELSE LET n == rows.notes[CHOOSE i \in RowsOf(rows, s) : TRUE] IN
       [stage |-> IF n.delivered THEN "delivered"
                  ELSE IF n.queued THEN "queued" ELSE "dropped",
        tries |-> n.attempts]

Lifecycle == INSTANCE AlertLifecycle WITH
  MaxTries <- MAX_DELIVERY_ATTEMPTS,
  fate <- [s \in Ids |-> FateOf(db, s)]

ImplementsLifecycle == Lifecycle!Spec

(***************************************************************************)
(* Properties that overlapping scans must keep too                         *)
(***************************************************************************)

(* No alert vanishes: an alerted signal has a row or a cooldown reason.    *)
Recorded(rows) ==
  \A s \in DOMAIN rows.signals :
    rows.signals[s].alerted /\ rows.signals[s].reason # "cooldown"
      => \E i \in DOMAIN rows.notes : rows.notes[i].sig = s

NoAlertVanishes == Recorded(db)

(* The delivery log is never ahead of the phone: a row marked delivered is *)
(* backed by a copy whose acknowledgement came.                            *)
Backed(rows) ==
  \A i \in DOMAIN rows.notes :
    rows.notes[i].delivered => copies[rows.notes[i].sig] > unacked[rows.notes[i].sig]

DeliveredReachedPhone == Backed(db)

(* A committed delivery is never taken back, whoever writes the row next.  *)
DeliveredForever ==
  [][\A i \in DOMAIN db.notes :
       db.notes[i].delivered =>
         i \in DOMAIN db'.notes /\ db'.notes[i].delivered]_db

(***************************************************************************)
(* Liveness                                                                *)
(***************************************************************************)

(* The scheduler keeps starting scans, a running scan keeps running, and   *)
(* time passes.  Faults are not fair: they need not happen.                *)
Fairness == WF_vars(Tick) /\ \A p \in Scans : WF_vars(ScanStep(p))

FairSpec == Spec /\ Fairness

Settled(rows, s) ==
  rows.signals[s].alerted /\ \A i \in RowsOf(rows, s) : ~rows.notes[i].queued

(* Every signal's alert is eventually settled (delivered, cooled down or   *)
(* given up with a reason), whatever the network does and through crashes. *)
EventuallySettled ==
  \A s \in Ids : (s \in DOMAIN db.signals) ~>
                 (s \in DOMAIN db.signals /\ Settled(db, s))

(***************************************************************************)
(* What the repository says and the code does not keep                     *)
(***************************************************************************)

(* service.py:14: a signal is marked alerted "so processing it again       *)
(* cannot create a second queue row".                                      *)
OneQueueRowPerSignal ==
  \A i, j \in DOMAIN db.notes :
    db.notes[i].queued /\ db.notes[j].queued /\ i # j
      => db.notes[i].sig # db.notes[j].sig

(* config.example.toml:102: cooldown_minutes is the "Minimum minutes       *)
(* between alerts for the same symbol, unless overridden".                 *)
CooldownBetweenAlerts ==
  \A i, j \in DOMAIN db.notes :
    LET si == db.signals[db.notes[i].sig]
        sj == db.signals[db.notes[j].sig]
    IN  /\ i # j /\ db.notes[i].delivered /\ db.notes[j].delivered
        /\ si.symbol = sj.symbol
        /\ db.notes[i].sentAt <= db.notes[j].sentAt
        => \/ db.notes[j].sentAt - db.notes[i].sentAt >= Cooldown
           \/ sj.score - si.score >= EscalationJump
           \/ si.score - sj.score >= EscalationJump

=============================================================================
