------------------------------- MODULE SellPass -------------------------------
(***************************************************************************)
(* The sell-side pass of a scan (sell/runtime.py, process_open_positions)  *)
(* over the buys, sell_tracking and sell_signals tables, next to the user  *)
(* who records buys and sales with the CLI.                                *)
(*                                                                         *)
(* A pass loads the open buys once.  For each it reads the price and the   *)
(* high watermark, evaluates the rules, checks the cooldown, stores the    *)
(* signal, sends it, marks it alerted and raises the watermark: every read *)
(* and every write is a transaction of its own.  An exception ends the     *)
(* work on one buy, never the pass.                                        *)
(*                                                                         *)
(* A write that waits for SQLite's write lock in vain leaves a transaction *)
(* open, which pins later reads (`snap`); writes are then refused once the *)
(* database has moved on, as in AlertPipeline.                             *)
(***************************************************************************)
EXTENDS Integers, Sequences, FiniteSets

CONSTANTS
  Scans,            (* scan processes                                      *)
  Serial,           (* TRUE: two scans never overlap                       *)
  Prices,           (* closes the market may print, all positive           *)
  StopLossPct, TakeProfitPct, TrailingStopPct,   (* [sell], in percent     *)
  ContextDeterioration,         (* [sell].context_deterioration            *)
  CooldownHours,                (* [sell].cooldown_hours                   *)
  MaxClock,         (* bound: the last hour                                *)
  MaxBuys, MaxSells,            (* bounds: rows ever inserted              *)
  MaxFaults         (* bound: crashes and busy timeouts                    *)

ASSUME SellAssumption ==
  /\ IsFiniteSet(Scans)
  /\ Serial \in BOOLEAN /\ ContextDeterioration \in BOOLEAN
  /\ Prices \subseteq Nat \ {0}
  /\ {StopLossPct, TakeProfitPct, TrailingStopPct} \subseteq 0 .. 100
  /\ CooldownHours \in Int
  /\ {MaxClock, MaxBuys, MaxSells, MaxFaults} \subseteq Nat

VARIABLES
  clock,    (* wall clock in hours                                         *)
  db,       (* committed rows: last close, buys, watermarks, sell signals  *)
  snap,     (* what each scan's reads are pinned to, if a write timed out  *)
  scan,     (* each scan: pc, now and whether its regime is risk_off       *)
  todo,     (* open buys each pass has loaded and not yet dealt with       *)
  hold,     (* what each pass has read and decided for the current buy     *)
  calls,    (* history: sender calls made for each sell signal             *)
  acked,    (* history: sell signals whose delivery was acknowledged       *)
  faults    (* history: crashes and busy timeouts so far                   *)

dbVars == <<db, snap>>
vars == <<clock, dbVars, scan, todo, hold, calls, acked, faults>>

BuyIds == 1 .. MaxBuys
SellIds == 1 .. MaxSells

(* NULL, for a price, a watermark, a time and a row id.                    *)
NoPrice == 0
Untracked == 0
Open == -1
NoRow == 0

Rules == {"stop_loss", "trailing_stop", "take_profit", "context_deterioration"}

Buy == [entry: Prices, soldAt: Nat \cup {Open}]
Sell == [buy: BuyIds, rule: Rules, price: Prices, detected: Nat, alerted: BOOLEAN]
Rows == [close: Prices \cup {NoPrice}, buys: Seq(Buy),
         marks: [BuyIds -> Prices \cup {Untracked}], sells: Seq(Sell)]

Empty == [close |-> NoPrice, buys |-> <<>>,
          marks |-> [b \in BuyIds |-> Untracked], sells |-> <<>>]

Live == [pinned |-> FALSE, rows |-> Empty]
Pinned(rows) == [pinned |-> TRUE, rows |-> rows]

Idle == [pc |-> "idle", now |-> 0, riskOff |-> FALSE]
NoHold == [buy |-> 0, price |-> 0, prior |-> 0, rule |-> "none", row |-> NoRow]

-----------------------------------------------------------------------------
(* evaluate_sell: the first rule that matches, in PRIORITY_ORDER.          *)

StopLoss(entry, price) == price * 100 <= entry * (100 - StopLossPct)

TrailingStop(prior, price) ==
  prior # Untracked /\ price * 100 <= prior * (100 - TrailingStopPct)

TakeProfit(entry, price) == price * 100 >= entry * (100 + TakeProfitPct)

Deteriorated(entry, price, riskOff) ==
  ContextDeterioration /\ riskOff /\ price < entry

EvaluateSell(entry, price, prior, riskOff) ==
  CASE StopLoss(entry, price) -> "stop_loss"
    [] ~StopLoss(entry, price) /\ TrailingStop(prior, price) -> "trailing_stop"
    [] ~StopLoss(entry, price) /\ ~TrailingStop(prior, price)
         /\ TakeProfit(entry, price) -> "take_profit"
    [] OTHER -> IF Deteriorated(entry, price, riskOff)
                  THEN "context_deterioration" ELSE "none"

-----------------------------------------------------------------------------
(* The tables as one connection sees them.                                 *)

View(p) == IF snap[p].pinned THEN snap[p].rows ELSE db

CanWrite(p) == View(p) = db

(* A write and its commit.                                                 *)
Publish(p, rows) ==
  /\ CanWrite(p)
  /\ db' = rows
  /\ snap' = [snap EXCEPT ![p] = Live]

(* Variant: sold positions stay on the list.                               *)
LoadOpenBuysAll(rows) == DOMAIN rows.buys

LoadOpenBuys(rows) == {b \in DOMAIN rows.buys : rows.buys[b].soldAt = Open}

(* Variant: one watermark per symbol.                                      *)
GetHighWatermarkOfSymbol(rows, b) ==
  LET marks == {rows.marks[c] : c \in DOMAIN rows.buys} IN
  CHOOSE m \in marks : \A n \in marks : n <= m

GetHighWatermark(rows, b) == rows.marks[b]

(* Variant: only a signal that was sent starts the cooldown.               *)
LastSellSignalTimesSent(rows, b, rule) ==
  LET times == {rows.sells[i].detected : i \in {j \in DOMAIN rows.sells :
                  /\ rows.sells[j].buy = b /\ rows.sells[j].rule = rule
                  /\ rows.sells[j].alerted}}
  IN  {t \in times : \A u \in times : u <= t}

(* last_sell_signal_time for a (buy, rule), as a set of at most one time.  *)
LastSellSignalTimes(rows, b, rule) ==
  LET times == {rows.sells[i].detected : i \in {j \in DOMAIN rows.sells :
                  rows.sells[j].buy = b /\ rows.sells[j].rule = rule}}
  IN  {t \in times : \A u \in times : u <= t}

CooldownActive(p) ==
  /\ CooldownHours > 0
  /\ \E t \in LastSellSignalTimes(View(p), hold[p].buy, hold[p].rule) :
       scan[p].now - t < CooldownHours

(* insert_sell_signal.                                                     *)
WithSell(rows, h, now) ==
  [rows EXCEPT !.sells = Append(@, [buy |-> h.buy, rule |-> h.rule,
                                    price |-> h.price, detected |-> now,
                                    alerted |-> FALSE])]

(* Variant: the stored value is overwritten.                               *)
RaisedMarkOverwritten(rows, b, baseline) == [rows EXCEPT !.marks[b] = baseline]

(* upsert_high_watermark: the MAX is taken inside the statement.           *)
RaisedMark(rows, b, baseline) ==
  [rows EXCEPT !.marks[b] = IF @ >= baseline THEN @ ELSE baseline]

-----------------------------------------------------------------------------
TypeOK ==
  /\ clock \in 0 .. MaxClock
  /\ db \in Rows
  /\ snap \in [Scans -> [pinned: BOOLEAN, rows: Rows]]
  /\ scan \in [Scans -> [pc: {"idle", "ingest", "load", "next", "decide", "insert", "send",
                              "flip", "mark"},
                         now: 0 .. MaxClock, riskOff: BOOLEAN]]
  /\ todo \in [Scans -> SUBSET BuyIds]
  /\ hold \in [Scans -> [buy: 0 .. MaxBuys, price: Prices \cup {NoPrice},
                         prior: Prices \cup {Untracked}, rule: Rules \cup {"none"},
                         row: 0 .. MaxSells]]
  /\ calls \in [SellIds -> Nat] /\ acked \in [SellIds -> BOOLEAN]
  /\ faults \in 0 .. MaxFaults

Init ==
  /\ clock = 0
  /\ db = Empty
  /\ snap = [p \in Scans |-> Live]
  /\ scan = [p \in Scans |-> Idle]
  /\ todo = [p \in Scans |-> {}]
  /\ hold = [p \in Scans |-> NoHold]
  /\ calls = [i \in SellIds |-> 0]
  /\ acked = [i \in SellIds |-> FALSE]
  /\ faults = 0

Tick ==
  /\ clock < MaxClock
  /\ clock' = clock + 1
  /\ UNCHANGED <<dbVars, scan, todo, hold, calls, acked, faults>>

(* The user records a buy, or the sale of an open one.                     *)
InsertBuy ==
  /\ Len(db.buys) < MaxBuys
  /\ \E price \in Prices :
       db' = [db EXCEPT !.buys = Append(@, [entry |-> price, soldAt |-> Open])]
  /\ UNCHANGED <<clock, snap, scan, todo, hold, calls, acked, faults>>

RecordSale ==
  /\ \E b \in LoadOpenBuys(db) : db' = [db EXCEPT !.buys[b].soldAt = clock]
  /\ UNCHANGED <<clock, snap, scan, todo, hold, calls, acked, faults>>

-----------------------------------------------------------------------------
(* The pass.                                                               *)

Goes(p, pc) == scan' = [scan EXCEPT ![p].pc = pc]

StartScan(p) ==
  /\ scan[p].pc = "idle"
  /\ Serial => \A q \in Scans : scan[q].pc = "idle"
  /\ \E riskOff \in BOOLEAN :
       scan' = [scan EXCEPT ![p] = [pc |-> "ingest", now |-> clock, riskOff |-> riskOff]]
  /\ UNCHANGED <<clock, dbVars, todo, hold, calls, acked, faults>>

(* The scan's own ingestion, which commits what the market printed last.   *)
IngestClose(p) ==
  /\ scan[p].pc = "ingest"
  /\ \E price \in Prices : db' = [db EXCEPT !.close = price]
  /\ Goes(p, "load")
  /\ UNCHANGED <<clock, snap, todo, hold, calls, acked, faults>>

(* Nothing new, or nothing reached: the pass falls back on older candles.  *)
IngestNothing(p) ==
  /\ scan[p].pc = "ingest"
  /\ Goes(p, "load")
  /\ UNCHANGED <<clock, dbVars, todo, hold, calls, acked, faults>>

LoadBuys(p) ==
  /\ scan[p].pc = "load"
  /\ todo' = [todo EXCEPT ![p] = LoadOpenBuys(View(p))]
  /\ Goes(p, "next")
  /\ UNCHANGED <<clock, dbVars, hold, calls, acked, faults>>

(* The buys are taken one by one (in any order: it tells nothing apart).   *)
(* No price yet, or an exception while reading: this buy is left alone.    *)
SkipBuy(p) ==
  /\ scan[p].pc = "next"
  /\ \E b \in todo[p] : todo' = [todo EXCEPT ![p] = @ \ {b}]
  /\ UNCHANGED <<clock, dbVars, scan, hold, calls, acked, faults>>

(* Bound: every signal in flight has a free id.                            *)
Room ==
  Len(db.sells) + Cardinality({p \in Scans : hold[p] # NoHold}) < MaxSells

Evaluate(p) ==
  /\ scan[p].pc = "next" /\ Room
  /\ \E b \in todo[p] :
       LET price == View(p).close
           prior == GetHighWatermark(View(p), b)
       IN
       /\ price # NoPrice
       /\ todo' = [todo EXCEPT ![p] = @ \ {b}]
       /\ hold' = [hold EXCEPT ![p] =
            [buy |-> b, price |-> price, prior |-> prior, row |-> NoRow,
             rule |-> EvaluateSell(View(p).buys[b].entry, price, prior, scan[p].riskOff)]]
  /\ Goes(p, "decide")
  /\ UNCHANGED <<clock, dbVars, calls, acked, faults>>

Decide(p) ==
  /\ scan[p].pc = "decide"
  /\ Goes(p, IF hold[p].rule = "none" \/ CooldownActive(p) THEN "mark" ELSE "insert")
  /\ UNCHANGED <<clock, dbVars, todo, hold, calls, acked, faults>>

InsertSellSignal(p) ==
  /\ scan[p].pc = "insert"
  /\ Publish(p, WithSell(db, hold[p], scan[p].now))
  /\ hold' = [hold EXCEPT ![p].row = Len(db'.sells)]
  /\ Goes(p, "send")
  /\ UNCHANGED <<clock, todo, calls, acked, faults>>

(* Variant: any answer counts as sent.                                     *)
SendsAny(p, outcome) == TRUE

(* result.sent and result.reason == REASON_SENT.                           *)
Sends(p, outcome) == outcome = "sent"

(* One sender call; a failure, or a lost acknowledgement, is not retried.  *)
Send(p) ==
  /\ scan[p].pc = "send"
  /\ calls' = [calls EXCEPT ![hold[p].row] = @ + 1]
  /\ \E outcome \in {"sent", "failed"} :
       /\ acked' = [acked EXCEPT ![hold[p].row] = @ \/ outcome = "sent"]
       /\ Goes(p, IF Sends(p, outcome) THEN "flip" ELSE "mark")
  /\ UNCHANGED <<clock, dbVars, todo, hold, faults>>

FlipAlerted(p) ==
  /\ scan[p].pc = "flip"
  /\ Publish(p, [db EXCEPT !.sells[hold[p].row].alerted = TRUE])
  /\ Goes(p, "mark")
  /\ UNCHANGED <<clock, todo, hold, calls, acked, faults>>

Baseline(p) ==
  LET entry == View(p).buys[hold[p].buy].entry IN
  IF entry >= hold[p].price THEN entry ELSE hold[p].price

(* Variant: a signal takes the place of the update.                        *)
RaisesUnlessFired(p) ==
  /\ hold[p].row = NoRow
  /\ hold[p].prior = Untracked \/ Baseline(p) > hold[p].prior

(* The update is skipped unless it raises what was read before evaluation. *)
Raises(p) == hold[p].prior = Untracked \/ Baseline(p) > hold[p].prior

DoneWith(p) ==
  /\ hold' = [hold EXCEPT ![p] = NoHold]
  /\ Goes(p, "next")

UpdateWatermark(p) ==
  /\ scan[p].pc = "mark"
  /\ \/ Raises(p) /\ Publish(p, RaisedMark(db, hold[p].buy, Baseline(p)))
     \/ ~Raises(p) /\ UNCHANGED dbVars
  /\ DoneWith(p)
  /\ UNCHANGED <<clock, todo, calls, acked, faults>>

EndPass(p) ==
  /\ scan[p].pc = "next" /\ todo[p] = {}
  /\ scan' = [scan EXCEPT ![p] = Idle]
  /\ snap' = [snap EXCEPT ![p] = Live]
  /\ UNCHANGED <<clock, db, todo, hold, calls, acked, faults>>

-----------------------------------------------------------------------------
(* Failures.                                                               *)

Fault == faults < MaxFaults /\ faults' = faults + 1

Writes(p) == \/ scan[p].pc \in {"insert", "flip"}
             \/ scan[p].pc = "mark" /\ Raises(p)

(* "database is locked": a write waits in vain for the lock (any process   *)
(* may hold it), or what the scan reads is out of date.  The exception     *)
(* ends the work on this buy, its watermark included.                      *)
Abandon(p) ==
  /\ Writes(p)
  /\ \/ Fault /\ snap' = [snap EXCEPT ![p] = Pinned(View(p))]
     \/ ~CanWrite(p) /\ UNCHANGED <<snap, faults>>
  /\ DoneWith(p)
  /\ UNCHANGED <<clock, db, todo, calls, acked>>

(* The process dies; every write it made was committed.                    *)
Crash(p) ==
  /\ scan[p].pc # "idle"
  /\ Fault
  /\ scan' = [scan EXCEPT ![p] = Idle]
  /\ snap' = [snap EXCEPT ![p] = Live]
  /\ todo' = [todo EXCEPT ![p] = {}]
  /\ hold' = [hold EXCEPT ![p] = NoHold]
  /\ UNCHANGED <<clock, db, calls, acked>>

Pass(p) ==
  \/ StartScan(p) \/ IngestClose(p) \/ IngestNothing(p) \/ LoadBuys(p)
  \/ SkipBuy(p) \/ Evaluate(p) \/ Decide(p)
  \/ InsertSellSignal(p) \/ Send(p) \/ FlipAlerted(p) \/ UpdateWatermark(p)
  \/ EndPass(p)

Next ==
  \/ Tick \/ InsertBuy \/ RecordSale
  \/ \E p \in Scans : Pass(p) \/ Abandon(p) \/ Crash(p)

Spec == Init /\ [][Next]_vars

-----------------------------------------------------------------------------
(***************************************************************************)
(* Properties when scans do not overlap                                    *)
(***************************************************************************)

(* A flapping price does not spam: two signals of one rule on one buy are  *)
(* a cooldown apart, across passes that crash or whose send failed.        *)
CooldownHeld ==
  \A i, j \in DOMAIN db.sells :
    i < j /\ db.sells[i].buy = db.sells[j].buy /\ db.sells[i].rule = db.sells[j].rule
      => db.sells[j].detected - db.sells[i].detected >= CooldownHours

(* A pass that starts after a sale was recorded never alerts on it, though *)
(* a pass already under way may, from the list it loaded.                  *)
SilentOnceSold ==
  \A i \in DOMAIN db.sells :
    LET soldAt == db.buys[db.sells[i].buy].soldAt IN
    soldAt # Open => db.sells[i].detected <= soldAt

(* Positions on the same coin keep their own peaks: a trailing stop fires  *)
(* only as far below a peak stored for that very buy as the setting says.  *)
TrailsItsOwnPeak ==
  \A i \in DOMAIN db.sells :
    db.sells[i].rule = "trailing_stop" =>
      TrailingStop(db.marks[db.sells[i].buy], db.sells[i].price)

(* No peak is forgotten: when a pass is through with a buy, signal or no   *)
(* signal, the stored watermark covers the price it saw and the entry,     *)
(* unless its connection is stuck on a timed-out write.                    *)
PeaksRemembered ==
  [][\A p \in Scans :
       /\ hold[p] # NoHold /\ hold'[p] = NoHold
       /\ faults' = faults /\ ~snap[p].pinned
       => /\ db'.marks[hold[p].buy] >= hold[p].price
          /\ db'.marks[hold[p].buy] >= db'.buys[hold[p].buy].entry]_vars

(***************************************************************************)
(* Properties that overlapping scans must keep too                         *)
(***************************************************************************)

(* A stored peak never falls, although a pass writes a maximum it computed *)
(* from a watermark another pass may have raised since.                    *)
MarksRise == [][\A b \in BuyIds : db'.marks[b] >= db.marks[b]]_db

SentOnce ==
  \A i \in DOMAIN db.sells :
    calls[i] <= 1 /\ (db.sells[i].alerted => acked[i])

WindowBounded ==
  \A i \in DOMAIN db.sells :
    Cardinality({j \in DOMAIN db.sells :
        /\ db.sells[j].buy = db.sells[i].buy
        /\ db.sells[j].rule = db.sells[i].rule
        /\ db.sells[j].detected >= db.sells[i].detected
        /\ db.sells[j].detected - db.sells[i].detected < CooldownHours})
      <= Cardinality(Scans)

(* One sell signal makes one sender call at most, and the log is never     *)
(* ahead of the phone: alerted only after an acknowledged send.  Overlap   *)
(* costs at most one extra alert per scan: one rule on one buy fires no    *)
(* more often within a cooldown than there are scans, whoever read the log *)
(* before whoever wrote it.                                                *)
AlertsBounded == SentOnce /\ WindowBounded

(***************************************************************************)
(* What the repository says and the code does not keep                     *)
(***************************************************************************)

(* config.example.toml:185: cooldown_hours is the "Minimum hours between   *)
(* consecutive sell signals on the same buy".                              *)
CooldownPerPosition ==
  \A i, j \in DOMAIN db.sells :
    i < j /\ db.sells[i].buy = db.sells[j].buy
      => db.sells[j].detected - db.sells[i].detected >= CooldownHours

=============================================================================
