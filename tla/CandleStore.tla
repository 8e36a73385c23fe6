----------------------------- MODULE CandleStore -----------------------------
(***************************************************************************)
(* The hourly candles of one symbol: scans fetch them (ingestion/market.py *)
(* over binance/client.py), maintenance measures matured signals and buys  *)
(* on them and prunes them (run_maintenance in scheduler/entrypoints.py,   *)
(* evaluation/, database/retention.py).  The schedulers keep scans apart   *)
(* from scans but let maintenance run next to one.                         *)
(*                                                                         *)
(* A candle is the hour it opens in, and a metric is measured or NULL: its *)
(* value follows from candles that never change once closed.  A row made   *)
(* "at t" is made, and a run "at now" starts, at some moment within the    *)
(* hour.                                                                   *)
(*                                                                         *)
(* Transactions are as in SignalStore: one writer, and reads pinned to an  *)
(* old snapshot (`snap`) after a write that timed out.                     *)
(***************************************************************************)
EXTENDS Integers, Sequences, FiniteSets, FiniteSetsExt

CONSTANTS
  Scans, Maintenances,      (* processes                                   *)
  Nobody,                   (* the value of a free write lock              *)
  Signals, Buys,            (* rows that may be inserted                   *)
  BootstrapLimit,           (* [intervals].bootstrap_limit                 *)
  IncrementalLimit,         (* _INCREMENTAL_LIMIT, 1000 in the code        *)
  MaxCandles,               (* [retention].max_candles_1h                  *)
  Day, Week, Month,         (* 24 hours, 7 days and 30 days, in hours      *)
  MaxClock,                 (* bound: the last hour                        *)
  MakeHours,                (* bound: the hours a row may be made in       *)
  MaxFaults,                (* bound: crashes and busy timeouts            *)
  RunLimit                  (* bound: hours a process may last             *)

ASSUME CandleAssumption ==
  /\ Nobody \notin Scans \cup Maintenances \cup Signals \cup Buys
  /\ Scans \cap Maintenances = {} /\ Signals \cap Buys = {}
  /\ BootstrapLimit \in Nat /\ IncrementalLimit \in Nat
  /\ MaxCandles \in Nat
  /\ {Day, Week, Month} \subseteq Nat \ {0} /\ Day <= Month /\ Week <= Month
  /\ {MaxClock, MaxFaults, RunLimit} \subseteq Nat /\ MakeHours \subseteq Nat

VARIABLES
  clock,    (* wall clock in hours                                         *)
  db,       (* committed rows: candles, the ingest cursor, when each       *)
            (* signal or buy was made, and its evaluation                  *)
  work,     (* the lock holder's uncommitted rows                          *)
  writer,   (* the process that holds the write lock, or Nobody            *)
  snap,     (* what each process's reads are pinned to, if a write timed out*)
  run,      (* each process: pc, now, and whether its evaluation went well *)
  todo,     (* matured rows a maintenance pass has still to evaluate       *)
  hold      (* what a process has fetched, or measured of the current row  *)

VARIABLES
  faults,   (* history: crashes and busy timeouts so far                   *)
  listed    (* history: the candles there were when evaluation began       *)

Procs == Scans \cup Maintenances
Items == Signals \cup Buys

dbVars == <<db, work, writer, snap>>
vars == <<clock, dbVars, run, todo, hold, faults, listed>>

Hours == 0 .. MaxClock

(* NULL: no cursor row yet, a signal or buy not made yet.                  *)
Unset == -1

Metrics == {"day", "week", "month", "excursion"}

(* No row, or a row with its measured metrics and its verdict.             *)
Evaluation == [known: SUBSET Metrics, verdict: {"no_row", "pending", "given"}]

NotEvaluated == [known |-> {}, verdict |-> "no_row"]

Rows == [candles: SUBSET Hours, cursor: Hours \cup {Unset},
         made: [Items -> Hours \cup {Unset}], evals: [Items -> Evaluation]]

Empty == [candles |-> {}, cursor |-> Unset,
          made |-> [i \in Items |-> Unset],
          evals |-> [i \in Items |-> NotEvaluated]]

Live == [pinned |-> FALSE, rows |-> Empty]
Pinned(rows) == [pinned |-> TRUE, rows |-> rows]

Idle == [pc |-> "idle", now |-> 0, clean |-> TRUE]
NoHold == [item |-> Nobody, next |-> 1, got |-> {}, seen |-> NotEvaluated]

-----------------------------------------------------------------------------
(* Tables and transactions.                                                *)

Committed(p) == IF snap[p].pinned THEN snap[p].rows ELSE db
View(p) == IF writer = p THEN work ELSE Committed(p)
CanWrite(p) == writer = p \/ (writer = Nobody /\ Committed(p) = db)
Unpin(p) == snap' = [snap EXCEPT ![p] = Live]

(* A write left uncommitted, and a write with its commit.                  *)
Pend(p, rows) ==
  /\ work' = rows /\ writer' = p
  /\ Unpin(p)
  /\ UNCHANGED db

Publish(p, rows) ==
  /\ db' = rows /\ work' = rows /\ writer' = Nobody
  /\ Unpin(p)

Fault == faults < MaxFaults /\ faults' = faults + 1

(* A write waits in vain for the lock (any process may hold it).           *)
Timeout(p) ==
  /\ writer # p
  /\ Fault
  /\ snap' = [snap EXCEPT ![p] = Pinned(Committed(p))]
  /\ UNCHANGED <<db, work, writer>>

Refused(p) == ~CanWrite(p) /\ Committed(p) # db /\ UNCHANGED <<dbVars, faults>>

-----------------------------------------------------------------------------
(* What the exchange returns.                                              *)

Newest(hours, n) == {h \in hours : Cardinality({g \in hours : g > h}) < n}
Oldest(hours, n) == {h \in hours : Cardinality({g \in hours : g < h}) < n}

(* Variant: the newest candles are asked for whatever is stored.           *)
GetKlinesLatest(cursor, at, now) ==
  {h \in Newest(0 .. at, IncrementalLimit) : h < now}

(* get_klines at hour `at`: the newest candles on a cold start, else the   *)
(* oldest after the cursor; the limit counts the candle still forming, and *)
(* what had not closed at `now` is dropped.                                *)
GetKlines(cursor, at, now) ==
  LET hours == IF cursor = Unset THEN Newest(0 .. at, BootstrapLimit)
               ELSE Oldest(cursor + 1 .. at, IncrementalLimit)
  IN  {h \in hours : h < now}

(* INSERT OR IGNORE of what was fetched, and the cursor.                   *)
WithKlines(rows, klines) ==
  [rows EXCEPT !.candles = @ \cup klines, !.cursor = Max(klines)]

-----------------------------------------------------------------------------
(* What a row's metrics are measured on, for one made within hour t.       *)

(* The candle in which the horizon falls; its close is the price there.    *)
AtHorizon(t, horizon) == {t + horizon}

(* A signal's day is 24 hours on; a buy's is the whole UTC day it was      *)
(* made in.                                                                *)
Needs(i, t, metric) ==
  CASE metric = "day" ->
         IF i \in Signals THEN AtHorizon(t, Day)
         ELSE LET start == t - (t % Day) IN start .. start + Day - 1
    [] metric = "week" -> AtHorizon(t, Week)
    [] metric = "month" -> AtHorizon(t, Month)
    [] metric = "excursion" -> t + 1 .. t + Week - 1

(* The metrics in the order they are measured.                             *)
Metric == <<"day", "week", "month", "excursion">>

(* A candle missing, or not closed at `now`, leaves the metric NULL.       *)
IsMeasurable(rows, i, metric, now) ==
  Needs(i, rows.made[i], metric) \subseteq {h \in rows.candles : h < now}

(* Variant: twice as long.                                                 *)
MaturedLate(rows, now) ==
  {mature \in SUBSET {i \in Items : rows.made[i] # Unset} :
     \A i \in Items : rows.made[i] # Unset =>
       (i \in mature <=> now >= rows.made[i] + 2 * Month)}

(* The rows _is_matured may accept: those a full window old, and any made  *)
(* in the hour exactly a window ago, earlier in it or later.               *)
Matured(rows, now) ==
  {mature \in SUBSET {i \in Items : rows.made[i] # Unset} :
     \A i \in Items : rows.made[i] # Unset =>
       /\ now > rows.made[i] + Month => i \in mature
       /\ now < rows.made[i] + Month => i \notin mature}

(* No evaluation yet, or one with a metric missing.                        *)
Pending(rows, i) == rows.evals[i].known # Metrics

(* Variant: what was just measured replaces the row.                       *)
MergedOver(seen, measured) ==
  [known |-> measured,
   verdict |-> IF "week" \in measured THEN "given" ELSE "pending"]

(* save_evaluation: a metric not measured now keeps its stored value, and  *)
(* the verdict is that of the merged row.                                  *)
Merged(seen, measured) ==
  LET known == seen.known \cup measured IN
  [known |-> known, verdict |-> IF "week" \in known THEN "given" ELSE "pending"]

-----------------------------------------------------------------------------
Init ==
  /\ clock = 0
  /\ db = Empty /\ work = Empty /\ writer = Nobody
  /\ snap = [p \in Procs |-> Live]
  /\ run = [p \in Procs |-> Idle]
  /\ todo = [m \in Maintenances |-> {}]
  /\ hold = [p \in Procs |-> NoHold]
  /\ faults = 0 /\ listed = [m \in Maintenances |-> {}]

Tick ==
  /\ clock < MaxClock
  /\ \A p \in Procs : run[p].pc # "idle" => clock < run[p].now + RunLimit
  /\ clock' = clock + 1
  /\ UNCHANGED <<dbVars, run, todo, hold, faults, listed>>

(* A scan inserts a signal, or the user a buy made now.                    *)
MakeItem ==
  /\ clock \in MakeHours /\ writer = Nobody
  /\ \E i \in Items :
       /\ db.made[i] = Unset
       /\ db' = [db EXCEPT !.made[i] = clock]
  /\ work' = db'
  /\ UNCHANGED <<clock, writer, snap, run, todo, hold, faults, listed>>

Goto(p, pc) == run' = [run EXCEPT ![p].pc = pc]

(* The process ends; closing the connection undoes what it had pending.    *)
Ends(p) ==
  /\ IF writer = p THEN Publish(p, db)
     ELSE Unpin(p) /\ UNCHANGED <<db, work, writer>>
  /\ run' = [run EXCEPT ![p] = Idle]
  /\ hold' = [hold EXCEPT ![p] = NoHold]
  /\ todo' = [m \in Maintenances |-> IF m = p THEN {} ELSE todo[m]]
  /\ listed' = [m \in Maintenances |-> IF m = p THEN {} ELSE listed[m]]

Crash(p) ==
  /\ run[p].pc # "idle"
  /\ Fault
  /\ Ends(p)
  /\ UNCHANGED clock

-----------------------------------------------------------------------------
(* A scan's ingestion of the symbol.                                       *)

StartScan(s) ==
  /\ run[s].pc = "idle"
  /\ run' = [run EXCEPT ![s] = [Idle EXCEPT !.pc = "fetch", !.now = clock]]
  /\ UNCHANGED <<clock, dbVars, todo, hold, faults, listed>>

(* The exchange answers with candles to store.                             *)
Fetch(s) ==
  /\ run[s].pc = "fetch"
  /\ LET klines == GetKlines(View(s).cursor, clock, run[s].now) IN
       /\ klines # {}
       /\ hold' = [hold EXCEPT ![s].got = klines]
  /\ Goto(s, "store")
  /\ UNCHANGED <<clock, dbVars, todo, faults, listed>>

(* It has nothing new, or no answer after the retries.                     *)
FetchNothing(s) ==
  /\ run[s].pc = "fetch"
  /\ Ends(s)
  /\ UNCHANGED <<clock, faults>>

Persist(s) ==
  /\ run[s].pc = "store" /\ CanWrite(s)
  /\ Publish(s, WithKlines(View(s), hold[s].got))
  /\ run' = [run EXCEPT ![s] = Idle]
  /\ hold' = [hold EXCEPT ![s] = NoHold]
  /\ UNCHANGED <<clock, todo, faults, listed>>

(* The write is not allowed in: the pair is left for the next scan.        *)
PersistFails(s) ==
  /\ run[s].pc = "store" /\ writer # s
  /\ Fault
  /\ Ends(s)
  /\ UNCHANGED clock

-----------------------------------------------------------------------------
(* Maintenance: the signals pass, the buys pass, the prune.                *)

StartMaintenance(m) ==
  /\ run[m].pc = "idle"
  /\ run' = [run EXCEPT ![m] = [Idle EXCEPT !.pc = "signals", !.now = clock]]
  /\ UNCHANGED <<clock, dbVars, todo, hold, faults, listed>>

Pass(m) == IF run[m].pc = "signals" THEN Signals ELSE Buys

(* The pending rows of the pass that are mature.                           *)
ListPending(m) ==
  /\ run[m].pc \in {"signals", "buys"}
  /\ \E mature \in Matured(View(m), run[m].now) :
       todo' = [todo EXCEPT ![m] =
                  {i \in Pass(m) \cap mature : Pending(View(m), i)}]
  /\ Goto(m, IF run[m].pc = "signals" THEN "signal" ELSE "buy")
  /\ listed' = [listed EXCEPT ![m] = IF run[m].pc = "signals" THEN View(m).candles ELSE @]
  /\ UNCHANGED <<clock, dbVars, hold, faults>>

Evaluating(m) == run[m].pc \in {"signal", "buy"}

(* A signal is looked at again; it may have been completed meanwhile.      *)
TakeRow(m) ==
  /\ Evaluating(m) /\ hold[m] = NoHold
  /\ \E i \in todo[m] :
       /\ todo' = [todo EXCEPT ![m] = @ \ {i}]
       /\ hold' = IF i \in Signals /\ ~Pending(View(m), i) THEN hold
                  ELSE [hold EXCEPT ![m].item = i]
  /\ UNCHANGED <<clock, dbVars, run, faults, listed>>

Measure(m) ==
  /\ Evaluating(m) /\ hold[m].item # Nobody /\ hold[m].next <= Len(Metric)
  /\ LET metric == Metric[hold[m].next] IN
       hold' = [hold EXCEPT ![m].next = @ + 1,
                            ![m].got =
                               IF IsMeasurable(View(m), hold[m].item, metric, run[m].now)
                               THEN @ \cup {metric} ELSE @]
  /\ UNCHANGED <<clock, dbVars, run, todo, faults, listed>>

ReadExisting(m) ==
  /\ Evaluating(m) /\ hold[m].next = Len(Metric) + 1
  /\ hold' = [hold EXCEPT ![m].next = @ + 1, ![m].seen = View(m).evals[hold[m].item]]
  /\ UNCHANGED <<clock, dbVars, run, todo, faults, listed>>

(* An unchanged row is not written; a signal commits, a buy waits for the  *)
(* end of its pass.                                                        *)
Save(m) ==
  /\ Evaluating(m) /\ hold[m].next = Len(Metric) + 2
  /\ LET row == Merged(hold[m].seen, hold[m].got)
         rows == [View(m) EXCEPT !.evals[hold[m].item] = row]
     IN  \/ row = hold[m].seen /\ UNCHANGED dbVars
         \/ /\ row # hold[m].seen /\ CanWrite(m)
            /\ IF hold[m].item \in Signals THEN Publish(m, rows) ELSE Pend(m, rows)
  /\ hold' = [hold EXCEPT ![m] = NoHold]
  /\ UNCHANGED <<clock, run, todo, faults, listed>>

NextStage(m) == IF run[m].pc = "signal" THEN "buys" ELSE "prune"

(* The buys pass commits what it has pending.                              *)
EndPass(m) ==
  /\ Evaluating(m) /\ hold[m] = NoHold /\ todo[m] = {}
  /\ IF run[m].pc = "signal" THEN UNCHANGED dbVars
     ELSE IF writer = m THEN Publish(m, work)
     ELSE Unpin(m) /\ UNCHANGED <<db, work, writer>>
  /\ Goto(m, NextStage(m))
  /\ UNCHANGED <<clock, todo, hold, faults, listed>>

(* A write that is not allowed in ends its pass, not the run.              *)
PassFails(m) ==
  /\ Evaluating(m) /\ hold[m].next = Len(Metric) + 2
  /\ Merged(hold[m].seen, hold[m].got) # hold[m].seen
  /\ Timeout(m) \/ Refused(m)
  /\ run' = [run EXCEPT ![m].pc = NextStage(m), ![m].clean = FALSE]
  /\ hold' = [hold EXCEPT ![m] = NoHold]
  /\ todo' = [todo EXCEPT ![m] = {}]
  /\ UNCHANGED <<clock, listed>>

(* prune_old_candles: all but the newest go; no cap, no prune.             *)
Pruned(rows) ==
  [rows EXCEPT !.candles = IF MaxCandles = 0 THEN @ ELSE Newest(@, MaxCandles)]

Prune(m) ==
  /\ run[m].pc = "prune" /\ CanWrite(m)
  /\ Publish(m, Pruned(View(m)))
  /\ run' = [run EXCEPT ![m] = Idle]
  /\ listed' = [listed EXCEPT ![m] = {}]
  /\ UNCHANGED <<clock, todo, hold, faults>>

(* The DELETE is not allowed in, or the reads before it are out of date.   *)
PruneFails(m) ==
  /\ run[m].pc = "prune" /\ writer # m
  /\ \/ Fault
     \/ ~CanWrite(m) /\ Committed(m) # db /\ UNCHANGED faults
  /\ Ends(m)
  /\ UNCHANGED clock

Next ==
  \/ Tick \/ MakeItem
  \/ \E s \in Scans :
       StartScan(s) \/ Fetch(s) \/ FetchNothing(s) \/ Persist(s) \/ PersistFails(s)
  \/ \E m \in Maintenances :
       \/ StartMaintenance(m) \/ ListPending(m) \/ TakeRow(m) \/ Measure(m)
       \/ ReadExisting(m) \/ Save(m) \/ EndPass(m) \/ PassFails(m)
       \/ Prune(m) \/ PruneFails(m)
  \/ \E p \in Procs : Crash(p)

Spec == Init /\ [][Next]_vars

-----------------------------------------------------------------------------
(***************************************************************************)
(* Properties                                                              *)
(***************************************************************************)

TypeOK ==
  /\ clock \in Hours
  /\ db \in Rows /\ work \in Rows
  /\ writer \in Procs \cup {Nobody}
  /\ snap \in [Procs -> [pinned: BOOLEAN, rows: Rows]]
  /\ run \in [Procs -> [pc: {"idle", "fetch", "store", "signals", "signal",
                             "buys", "buy", "prune"},
                        now: Hours, clean: BOOLEAN]]
  /\ todo \in [Maintenances -> SUBSET Items]
  /\ \A p \in Procs :
       /\ hold[p].item \in Items \cup {Nobody}
       /\ hold[p].got \subseteq IF p \in Scans THEN Hours ELSE Metrics
       /\ hold[p].seen \in Evaluation /\ hold[p].next \in 1 .. Len(Metric) + 2
  /\ faults \in 0 .. MaxFaults
  /\ listed \in [Maintenances -> SUBSET Hours]

(* Whatever scans fetched and a prune removed, the candles stored run      *)
(* without a hole to the one the cursor names, so the next fetch goes on   *)
(* where they end; and each was stored once it had closed: INSERT OR       *)
(* IGNORE would never replace one stored while it was forming.             *)
NoHoles ==
  /\ \A h \in db.candles : h < clock
  /\ db.candles = {} <=> db.cursor = Unset
  /\ db.candles # {} => db.candles = Min(db.candles) .. db.cursor

(* Retention never runs ahead of evaluation: a prune whose passes both     *)
(* went through removes no candle that a metric still missing needs, if    *)
(* its row is waiting to mature or all it needs was there when the run     *)
(* began to evaluate.                                                      *)
MeasuredBeforePruned ==
  [][\A m \in Maintenances :
       Prune(m) /\ run[m].clean =>
         \A i \in Items, metric \in Metrics :
           LET needs == Needs(i, db.made[i], metric) IN
           /\ db.made[i] # Unset /\ metric \notin db.evals[i].known
           /\ needs \subseteq listed[m] \/ run[m].now <= db.made[i] + Month
           => needs \cap db.candles \subseteq db'.candles]_vars

(* A measured metric and a verdict stay, whatever is measured later on the *)
(* candles a prune left (save_evaluation: "preserving known values when    *)
(* candles were pruned").                                                  *)
MeasuredStays ==
  [][\A i \in Items :
       /\ db.evals[i].known \subseteq db'.evals[i].known
       /\ db.evals[i].verdict = "given" => db'.evals[i].verdict = "given"]_vars

=============================================================================
