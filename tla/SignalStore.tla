----------------------------- MODULE SignalStore -----------------------------
(***************************************************************************)
(* The scoring pass of a scan: the dedup insert of signals and the life of *)
(* a watchlist row (_score_and_persist in scheduler/entrypoints.py,        *)
(* signals/persistence.py, signals/policy.py and watchlist/).              *)
(*                                                                         *)
(* For each symbol a scan reads what is stored, then writes.  With the     *)
(* watchlist off, and in the watchlist helpers, each read is a transaction *)
(* of its own, so another scan may commit between read and write.  A       *)
(* promotion reads and writes inside one SAVEPOINT: SQLite refuses its     *)
(* first write if the database has changed since its first read.           *)
(*                                                                         *)
(* A write that waits for the lock in vain raises, but leaves open the     *)
(* transaction Python began for it; the reads that follow are pinned to    *)
(* what was committed then (`snap`), and the writes that follow refused    *)
(* once the database has moved on.                                         *)
(***************************************************************************)
EXTENDS Integers, Sequences, FiniteSets, FiniteSetsExt

CONSTANTS
  Scans,            (* scan processes                                      *)
  NoScan,           (* "nobody": the value of a free write lock            *)
  Serial,           (* TRUE: two scans never overlap                       *)
  Symbols,          (* scorable symbols, numbered in their scoring order   *)
  Scores,           (* total scores a symbol may get                       *)
  Adjusts,          (* regime adjustments of the emit floor                *)
  Modes,            (* values of [watchlist].enabled over time             *)
  MinSignalScore,   (* [scoring.thresholds].min_signal_score               *)
  Normal, Strong, VeryStrong,   (* [scoring.severity]                      *)
  FloorScore,       (* [watchlist].floor_score                             *)
  MaxWatchHours,    (* [watchlist].max_watch_hours                         *)
  MaxClock,         (* bound: the last hour                                *)
  MaxSignals, MaxWatches,       (* bounds: rows ever inserted              *)
  MaxFaults         (* bound: crashes and busy timeouts                    *)

ASSUME StoreAssumption ==
  /\ NoScan \notin Scans
  /\ Serial \in BOOLEAN
  /\ Symbols \subseteq Nat \ {0} /\ Scores \subseteq Nat
  /\ Adjusts \subseteq Int /\ Modes \subseteq BOOLEAN
  /\ {MinSignalScore, Normal, Strong, VeryStrong, FloorScore} \subseteq Nat
  /\ MaxWatchHours \in Nat \ {0}
  /\ {MaxClock, MaxSignals, MaxWatches, MaxFaults} \subseteq Nat

VARIABLES
  clock,    (* wall clock in hours; its value names the last closed candle *)
  db,       (* committed rows of signals and watchlist, by id              *)
  work,     (* the lock holder's uncommitted rows                          *)
  writer,   (* the scan that holds the write lock, or NoScan               *)
  snap,     (* what each scan's reads are pinned to, if a write timed out  *)
  scan,     (* each scan: pc, now, and the settings it runs under          *)
  todo,     (* symbols each scan has still to score                        *)
  hold      (* what each scan has read and decided for the current symbol  *)

VARIABLE faults   (* history: crashes and busy timeouts so far             *)

dbVars == <<db, work, writer, snap>>
vars == <<clock, dbVars, scan, todo, hold, faults>>

None == 0   (* NULL, for a row id                                          *)

Signal == [symbol: Symbols, hour: Nat, rank: 1 .. 3, watch: Nat]
Watch == [symbol: Symbols, status: {"watching", "promoted", "expired"},
          expires: Nat, signal: Nat]
Rows == [signals: Seq(Signal), watches: Seq(Watch)]

Empty == [signals |-> <<>>, watches |-> <<>>]

(* Reads see whatever is committed; reads see `rows`.                      *)
Live == [pinned |-> FALSE, rows |-> Empty]
Pinned(rows) == [pinned |-> TRUE, rows |-> rows]

Idle == [pc |-> "idle", now |-> 0, adjust |-> 0, watchlist |-> FALSE, expired |-> FALSE]
NoHold == [action |-> "none"]

-----------------------------------------------------------------------------
(* Pure policy.                                                            *)

Least(a, b) == IF a <= b THEN a ELSE b
Greatest(a, b) == IF a >= b THEN a ELSE b

EffectiveEmitFloor(adjust) ==
  Greatest(MinSignalScore + adjust, Normal + Least(adjust, 0))

(* SEVERITY_RANK of severity_for_score; 0 is "no severity".                *)
Rank(score, adjust) ==
  IF score < EffectiveEmitFloor(adjust) THEN 0
  ELSE IF score >= VeryStrong THEN 3
  ELSE IF score >= Strong THEN 2 ELSE 1

(* Variant: an unadjusted watch floor.                                     *)
DecideWatchActionUnadjusted(score, emitFloor, hasActive) ==
  CASE score < FloorScore -> IF hasActive THEN "EXPIRE" ELSE "IGNORE"
    [] score >= FloorScore /\ score >= emitFloor -> "PROMOTE"
    [] OTHER -> "WATCH"

(* decide_watch_action as the scheduler calls it: a lowered emit floor     *)
(* lowers the watch floor with it.                                         *)
DecideWatchAction(score, emitFloor, hasActive) ==
  CASE score >= emitFloor -> "PROMOTE"
    [] score < Least(FloorScore, emitFloor) ->
         IF hasActive THEN "EXPIRE" ELSE "IGNORE"
    [] OTHER -> "WATCH"

-----------------------------------------------------------------------------
(* Tables and transactions.                                                *)

(* What is committed, as scan p's reads see it.                            *)
Committed(p) == IF snap[p].pinned THEN snap[p].rows ELSE db

View(p) == IF writer = p THEN work ELSE Committed(p)

(* The lock is free or p's, and the reads of p are not out of date.        *)
CanWrite(p) == writer = p \/ (writer = NoScan /\ Committed(p) = db)

Unpin(p) == snap' = [snap EXCEPT ![p] = Live]

(* A write and its commit, with whatever was pending.                      *)
Publish(p, rows) ==
  /\ db' = rows /\ work' = rows /\ writer' = NoScan
  /\ Unpin(p)

(* A write left uncommitted: it keeps the lock.                            *)
Pend(p, rows) ==
  /\ work' = rows /\ writer' = p
  /\ Unpin(p)
  /\ UNCHANGED db

(* A failed INSERT leaves its implicit transaction, and so the lock, open. *)
FailedInsert(p) == Pend(p, work)

Fault == faults < MaxFaults /\ faults' = faults + 1

(* A write waits in vain for the lock (any process may hold it).           *)
Timeout(p) ==
  /\ writer # p
  /\ Fault
  /\ snap' = [snap EXCEPT ![p] = Pinned(Committed(p))]
  /\ UNCHANGED <<db, work, writer>>

CandleRanks(rows, symbol, hour) ==
  {rows.signals[i].rank : i \in {j \in DOMAIN rows.signals :
      rows.signals[j].symbol = symbol /\ rows.signals[j].hour = hour}}

(* _existing_max_severity: 0 when the candle has no signal.                *)
ExistingMax(rows, symbol, hour) == Max(CandleRanks(rows, symbol, hour) \cup {0})

(* get_watching: the id of the active row, or None.                        *)
Watching(rows, symbol) ==
  {w \in DOMAIN rows.watches :
     rows.watches[w].symbol = symbol /\ rows.watches[w].status = "watching"}

GetWatching(rows, symbol) == Max(Watching(rows, symbol) \cup {None})

WithSignal(rows, h, watch) ==
  [rows EXCEPT !.signals = Append(@, [symbol |-> h.symbol, hour |-> h.hour,
                                      rank |-> h.rank, watch |-> watch])]

WithWatch(rows, symbol, expires) ==
  [rows EXCEPT !.watches = Append(@, [symbol |-> symbol, status |-> "watching",
                                      expires |-> expires, signal |-> None])]

-----------------------------------------------------------------------------
TypeOK ==
  /\ clock \in 0 .. MaxClock
  /\ db \in Rows /\ work \in Rows
  /\ writer \in Scans \cup {NoScan}
  /\ snap \in [Scans -> [pinned: BOOLEAN, rows: Rows]]
  /\ scan \in [Scans -> [pc: {"idle", "expire", "score"}, now: 0 .. MaxClock,
                         adjust: Adjusts \cup {0}, watchlist: BOOLEAN, expired: BOOLEAN]]
  /\ todo \in [Scans -> SUBSET Symbols]
  /\ \A p \in Scans :
       hold[p].action \in {"none", "INSERT", "WATCH", "EXPIRE", "PROMOTE", "IGNORE"}
  /\ faults \in 0 .. MaxFaults

Init ==
  /\ clock = 0
  /\ db = Empty
  /\ work = db
  /\ writer = NoScan
  /\ snap = [p \in Scans |-> Live]
  /\ scan = [p \in Scans |-> Idle]
  /\ todo = [p \in Scans |-> {}]
  /\ hold = [p \in Scans |-> NoHold]
  /\ faults = 0

Tick ==
  /\ clock < MaxClock
  /\ clock' = clock + 1
  /\ UNCHANGED <<dbVars, scan, todo, hold, faults>>

StartScan(p) ==
  /\ scan[p].pc = "idle"
  /\ Serial => \A q \in Scans : scan[q].pc = "idle"
  /\ \E adjust \in Adjusts, enabled \in Modes :
       scan' = [scan EXCEPT ![p] =
                  [pc |-> IF enabled THEN "expire" ELSE "score", now |-> clock,
                   adjust |-> adjust, watchlist |-> enabled, expired |-> FALSE]]
  /\ todo' = [todo EXCEPT ![p] = Symbols]
  /\ UNCHANGED <<clock, dbVars, hold, faults>>

(* Variant: a row lives one hour longer.                                   *)
ExpiredRowsLate(rows, t) ==
  [rows EXCEPT !.watches =
     [w \in DOMAIN @ |-> IF @[w].status = "watching" /\ @[w].expires < t
                           THEN [@[w] EXCEPT !.status = "expired"] ELSE @[w]]]

ExpiredRows(rows, t) ==
  [rows EXCEPT !.watches =
     [w \in DOMAIN @ |-> IF @[w].status = "watching" /\ @[w].expires <= t
                           THEN [@[w] EXCEPT !.status = "expired"] ELSE @[w]]]

(* expire_stale; run_scan goes on if it cannot get the lock.               *)
ExpireStale(p) ==
  /\ scan[p].pc = "expire"
  /\ \/ /\ CanWrite(p)
        /\ Publish(p, ExpiredRows(work, scan[p].now))
        /\ scan' = [scan EXCEPT ![p].pc = "score", ![p].expired = TRUE]
        /\ UNCHANGED faults
     \/ /\ Timeout(p)
        /\ scan' = [scan EXCEPT ![p].pc = "score"]
  /\ UNCHANGED <<clock, todo, hold>>

Due(p, symbol) ==
  /\ scan[p].pc = "score" /\ hold[p] = NoHold
  /\ symbol \in todo[p] /\ \A t \in todo[p] : symbol <= t

(* No candles, not enough history, or an exception while scoring.          *)
SkipSymbol(p) ==
  /\ \E symbol \in todo[p] :
       Due(p, symbol) /\ todo' = [todo EXCEPT ![p] = @ \ {symbol}]
  /\ UNCHANGED <<clock, dbVars, scan, hold, faults>>

(* The decision for a scored symbol, with what it read to get there: the   *)
(* highest stored rank (`seen`), the active watch, and the database it     *)
(* read (`base`).  The extra read of has_active only tells EXPIRE from     *)
(* IGNORE, and neither changes anything when no watch is found.            *)
Decision(p, symbol, score) ==
  LET adjust == scan[p].adjust
      watch == GetWatching(View(p), symbol)
  IN  [action |-> IF scan[p].watchlist
                    THEN DecideWatchAction(score, EffectiveEmitFloor(adjust), watch # None)
                    ELSE IF Rank(score, adjust) = 0 THEN "IGNORE" ELSE "INSERT",
       symbol |-> symbol, hour |-> clock, rank |-> Rank(score, adjust),
       seen |-> ExistingMax(View(p), symbol, clock), watch |-> watch,
       base |-> Committed(p)]

(* Bound: a row of either table is free for every decision in flight.      *)
Room ==
  LET pending == Cardinality({p \in Scans : hold[p] # NoHold}) IN
  /\ Len(work.signals) + pending < MaxSignals
  /\ Len(work.watches) + pending < MaxWatches

Score(p) ==
  /\ Room
  /\ \E symbol \in todo[p], score \in Scores :
       /\ Due(p, symbol)
       /\ todo' = [todo EXCEPT ![p] = @ \ {symbol}]
       /\ hold' = [hold EXCEPT ![p] = Decision(p, symbol, score)]
  /\ UNCHANGED <<clock, dbVars, scan, faults>>

Acts(p, action) == scan[p].pc = "score" /\ hold[p].action = action

Done(p) ==
  /\ hold' = [hold EXCEPT ![p] = NoHold]
  /\ UNCHANGED <<clock, scan, todo>>

(* A score without a severity, or below the watch floor with no watch to   *)
(* close: nothing is written.                                              *)
Ignore(p) ==
  /\ Acts(p, "IGNORE")
  /\ Done(p)
  /\ UNCHANGED <<dbVars, faults>>

(* Variant: only an equal severity is declined.                            *)
DeclinedEqual(h) == h.seen = h.rank

(* insert_signal's dedup: duplicate or superseded.                         *)
Declined(h) == h.seen >= h.rank

(* insert_signal outside a caller's transaction.                           *)
InsertSignal(p) ==
  LET h == hold[p] IN
  /\ Acts(p, "INSERT")
  /\ \/ Declined(h) /\ UNCHANGED dbVars
     \/ /\ ~Declined(h) /\ CanWrite(p)
        /\ h.rank \in CandleRanks(View(p), h.symbol, h.hour)
        /\ FailedInsert(p)
     \/ /\ ~Declined(h) /\ CanWrite(p)
        /\ h.rank \notin CandleRanks(View(p), h.symbol, h.hour)
        /\ Publish(p, WithSignal(work, h, None))
  /\ Done(p)
  /\ UNCHANGED faults

(* upsert_watching; the partial unique index refuses a second active row.  *)
UpsertWatching(p) ==
  LET h == hold[p]
      expires == scan[p].now + MaxWatchHours
  IN
  /\ Acts(p, "WATCH") /\ CanWrite(p)
  /\ \/ /\ h.watch = None /\ Watching(View(p), h.symbol) = {}
        /\ Publish(p, WithWatch(work, h.symbol, expires))
     \/ /\ h.watch = None /\ Watching(View(p), h.symbol) # {}
        /\ FailedInsert(p)
     \/ /\ h.watch # None
        /\ Publish(p, [work EXCEPT !.watches[h.watch].expires = expires])
  /\ Done(p)
  /\ UNCHANGED faults

BelowFloor(rows, w) == [rows EXCEPT !.watches[w].status = "expired"]

(* expire_below_floor.                                                     *)
ExpireBelowFloor(p) ==
  LET h == hold[p] IN
  /\ Acts(p, "EXPIRE")
  /\ \/ h.watch = None /\ UNCHANGED dbVars
     \/ /\ h.watch # None /\ CanWrite(p)
        /\ Publish(p, BelowFloor(work, h.watch))
  /\ Done(p)
  /\ UNCHANGED faults

(* Variant: the link is not stored on the signal.                          *)
PromotedRowsUnlinked(rows, h) ==
  LET new == WithSignal(rows, h, None) IN
  IF h.watch = None THEN new
  ELSE [new EXCEPT !.watches[h.watch].status = "promoted",
                   !.watches[h.watch].signal = Len(new.signals)]

(* The signal, and both links if a watch was open.                         *)
PromotedRows(rows, h) ==
  LET new == WithSignal(rows, h, h.watch) IN
  IF h.watch = None THEN new
  ELSE [new EXCEPT !.watches[h.watch].status = "promoted",
                   !.watches[h.watch].signal = Len(new.signals)]

(* Variant: the savepoint does not pin what was read.                      *)
SnapshotHoldsNever(p) == TRUE

(* The first write of a transaction succeeds only on the version it read.  *)
SnapshotHolds(p) == writer = p \/ hold[p].base = db

(* _insert_and_promote: RELEASE commits, unless a failed INSERT or a       *)
(* timeout left a transaction open around the savepoint.                   *)
Promote(p) ==
  LET h == hold[p] IN
  /\ Acts(p, "PROMOTE")
  /\ \/ Declined(h) /\ UNCHANGED dbVars
     \/ /\ ~Declined(h) /\ CanWrite(p) /\ SnapshotHolds(p)
        /\ IF writer = p \/ snap[p].pinned
             THEN Pend(p, PromotedRows(work, h))
             ELSE Publish(p, PromotedRows(work, h))
  /\ Done(p)
  /\ UNCHANGED faults

(* "database is locked": the lock is not free in time, or what the scan    *)
(* read is out of date.  The symbol's error is reported, a savepoint is    *)
(* rolled back and released, any other transaction stays open.             *)
Abandon(p) ==
  LET h == hold[p] IN
  /\ h # NoHold /\ h.action # "IGNORE"
  /\ h.action \in {"INSERT", "PROMOTE"} => ~Declined(h)
  /\ h.action = "EXPIRE" => h.watch # None
  /\ \/ h.action # "PROMOTE" /\ Timeout(p)
     \/ h.action = "PROMOTE" /\ writer # p /\ Fault /\ UNCHANGED dbVars
     \/ /\ writer # p
        /\ Committed(p) # db \/ (h.action = "PROMOTE" /\ ~SnapshotHolds(p))
        /\ UNCHANGED <<dbVars, faults>>
  /\ Done(p)

Ends(p) == /\ scan' = [scan EXCEPT ![p] = Idle]
           /\ todo' = [todo EXCEPT ![p] = {}]
           /\ hold' = [hold EXCEPT ![p] = NoHold]

(* The passes that follow commit what is pending.                          *)
EndScan(p) ==
  /\ scan[p].pc = "score" /\ todo[p] = {} /\ hold[p] = NoHold
  /\ IF writer = p THEN Publish(p, work)
     ELSE Unpin(p) /\ UNCHANGED <<db, work, writer>>
  /\ Ends(p)
  /\ UNCHANGED <<clock, faults>>

(* The process dies: what it had pending is undone.                        *)
Crash(p) ==
  /\ scan[p].pc # "idle"
  /\ Fault
  /\ IF writer = p THEN Publish(p, db)
     ELSE Unpin(p) /\ UNCHANGED <<db, work, writer>>
  /\ Ends(p)
  /\ UNCHANGED clock

Next ==
  \/ Tick
  \/ \E p \in Scans :
       \/ StartScan(p) \/ ExpireStale(p) \/ SkipSymbol(p) \/ Score(p)
       \/ InsertSignal(p) \/ UpsertWatching(p) \/ ExpireBelowFloor(p) \/ Promote(p)
       \/ Ignore(p) \/ Abandon(p) \/ EndScan(p) \/ Crash(p)

Spec == Init /\ [][Next]_vars

-----------------------------------------------------------------------------
(***************************************************************************)
(* Properties                                                              *)
(***************************************************************************)

(* Dedup: the signals of one candle climb the severity ladder in the order *)
(* they are stored, so a lower or equal severity never follows a higher    *)
(* one (persistence.py, rules 4 and 5, which "enforces the intent" when    *)
(* "two parallel scans ever race").                                        *)
LadderClimbs ==
  \A i, j \in DOMAIN db.signals :
    /\ i < j
    /\ db.signals[i].symbol = db.signals[j].symbol
    /\ db.signals[i].hour = db.signals[j].hour
    => db.signals[i].rank < db.signals[j].rank

(* Whatever other scans commit meanwhile, a promotion stores a signal only *)
(* above every severity its candle then has: nobody gets between its dedup *)
(* check and its INSERT.                                                   *)
PromotionsClimb ==
  [][\A p \in Scans :
       /\ hold[p].action = "PROMOTE" /\ hold'[p] # hold[p]
       /\ Len(work'.signals) > Len(work.signals)
       => hold[p].rank > ExistingMax(work, hold[p].symbol, hold[p].hour)]_vars

LinksAgree(rows) ==
  /\ \A i \in DOMAIN rows.signals :
       LET w == rows.signals[i].watch IN
       w # None => w \in DOMAIN rows.watches /\ rows.watches[w].signal = i
  /\ \A w \in DOMAIN rows.watches :
       LET i == rows.watches[w].signal IN
       i # None => i \in DOMAIN rows.signals /\ rows.signals[i].watch = w

OneOpenWatch(rows) ==
  \A v, w \in DOMAIN rows.watches :
    rows.watches[v].status = "watching"
    => /\ rows.watches[v].signal = None
       /\ rows.watches[w].status = "watching" /\ rows.watches[v].symbol = rows.watches[w].symbol
            => v = w

(* A promotion links both ways: a signal names the watch it resolved       *)
(* exactly when that watch names the signal, and no watch is resolved by   *)
(* two signals; and a symbol is watched by at most one open row, which has *)
(* produced no signal.  Overlapping scans and crashes must not tear the    *)
(* pair.                                                                   *)
WatchesAgree == LinksAgree(db) /\ OneOpenWatch(db)

(* Resolved watches are an audit trail: without overlap none ever changes. *)
(* And a watch is promoted only before its deadline, by the clock of the   *)
(* scan that promotes it, if that scan's own expire_stale went through:    *)
(* every watch it can still find is one it left open or has extended.      *)
PromotedInTime ==
  [][/\ \A w \in DOMAIN db.watches :
          db.watches[w].status # "watching" => db'.watches[w] = db.watches[w]
     /\ \A p \in Scans : Promote(p) /\ scan[p].expired =>
          \A w \in DOMAIN work.watches :
            /\ work.watches[w].status = "watching"
            /\ work'.watches[w].status = "promoted"
            => scan[p].now < work.watches[w].expires]_vars

(* No accepted score is let go, whatever is decided of it, IGNORE and      *)
(* EXPIRE included: in a step that is not a fault, a scan is through with  *)
(* a score that cleared the emit floor only once the candle has a signal   *)
(* at least that severe among the rows the scan sees (committed or its own *)
(* pending ones).  decide_watch_action compares that score again, with a   *)
(* floor of its own.                                                       *)
AcceptedIsStored ==
  [][\A p \in Scans :
       /\ hold[p] # NoHold /\ hold[p].rank > 0 /\ hold'[p] = NoHold
       /\ faults' = faults
       => ExistingMax(View(p)', hold[p].symbol, hold[p].hour) >= hold[p].rank]_vars

=============================================================================
