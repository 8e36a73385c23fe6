# crypto_monitor: TLA+ models and proofs

crypto_monitor watches a list of coins. Every few minutes a *scan* process
fetches candles, scores each coin, stores buy signals, alerts a phone through
ntfy, and checks the user's open positions for sell signals. All state is one
SQLite database in WAL mode. Nothing in the code holds a lock between
processes: the Windows task scheduler, GitHub Actions and a user at a shell may
start scans, and any of them can be killed, time out on the database or lose an
HTTP answer.

The modules here model the parts where those things matter, and the pure
functions that turn candles into scores. TLC checks them on small instances, and
TLAPS proves the core results for every instance.

## 1. Inventory

Paths are under `src/crypto_monitor/` unless they say otherwise.

| Component | State | Operations | Hard part | What makes it correct |
|---|---|---|---|---|
| Alert pipeline (`notifications/service.py`, `policy.py`) | `notifications` rows; `alerted`, `alert_skipped_reason` of `signals` | `flush_queue`, `process_pending_signals` | sends before the commit, two tables, stale lists, retries, quiet hours, age and attempt limits | one fate per alert, no alert lost, bounded sends, the log never ahead of the phone |
| ntfy sender (`notifications/ntfy.py`) | none | `send_ntfy` | a lost answer looks like a failure and is posted again | a result of "sent" means an acknowledged post |
| Scan orchestration (`scheduler/entrypoints.py`) | one connection per run | `run_scan`, `run_weekly`, `run_evaluation`, `run_maintenance` | a failed stage does not stop the next, which inherits its transaction | no half-recorded row is published |
| Signal store (`signals/persistence.py`, `signals/policy.py`) | `signals` | `insert_signal` | read-then-insert dedup, a regime-dependent floor | severities of one candle climb; a score that clears the floor is not let go without a signal, whatever is decided of it |
| Watchlist (`watchlist/`) | `watchlist` | upsert, promote, expire stale, expire below floor | updates by id from an earlier read; a promotion spans two tables | one open row per symbol, links agree, no late promotion |
| Sell pass (`sell/`) | `sell_signals`, `sell_tracking`, sale columns of `buys` | `process_open_positions`, `record_sale` | check-then-insert cooldown, insert before send, mark after send, a watermark written last | cooldown per rule, one send, peaks never fall or get lost |
| Manual buys (`buys/manual.py`) | `buys` | `insert_buy`, list | runs next to a scan | a position has one entry price |
| Connections (`database/connection.py`) | locks, snapshots | `get_connection` | one writer, 5 s busy timeout, implicit transactions | |
| Schema and migrations (`database/schema.py`, `migrations.py`) | `schema_version`, the tables and columns themselves | `init_db`, `run_migrations` | every command starts with it; `init_db` sets the recorded version back; a savepoint per version; commands killed or refused half way | the version never claims what is missing; no evaluation of an earlier release is lost; a conflict leaves someone able to start |
| Ingestion (`ingestion/market.py`, `binance/client.py`) | `candles`, a cursor per pair in `processing_state` | `ingest_all_symbols` | errors half way, overlapping fetches, candles still open | only closed candles, no hole up to the cursor |
| Retention (`database/retention.py`) | `candles` | `prune_old_candles`, `vacuum` | runs next to a scan, after an evaluation that may have failed | never ahead of an evaluation that went through |
| Regime (`regime/`) | `regime_snapshots` | classify, save | needs enough daily candles, else sideways | the label follows trend and volatility; a falling market never lowers the floor |
| Evaluation (`evaluation/`) | `signal_evaluations`, `buy_evaluations` | evaluate pending | matured late, merged over pruned candles | a measured metric is never lost |
| Weekly report (`reports/weekly.py`) | `weekly_summaries` | build, persist, send, flip | persist, send and flip are separate | a summary marked sent was sent |
| Paper simulation (`paper/`) | none stored; cash, trades and marks of a replay | `build_paper_report`, `simulate` | what was known when; limits, fees, entries at an hour's open and exits at its close; missing candles | no look-ahead, cash and equity add up, a signal is refused only for a limit or an amount of cash that was really met |
| Cloud state (`src/scripts/gha_state.sh`, `.github/workflows`) | an encrypted copy of the database, one commit on a branch | pull, run a command, push with a lease | a failed command skips the push; jobs outside the concurrency group; answers lost on the way | what was pushed stays; the branch counts every copy its jobs sent, and none follows an acknowledged one |
| Scoring and indicators (`signals/engine.py`, `factors.py`, `indicators/`) | none | pure functions of candle lists | short histories, candles that arrive while an indicator looks back, tiers at their edges | points within each factor's weight; two ways to compute one reading agree, and agree with earlier scans until candles leave the 250 that are loaded; support never repaints |
| Analytics, dashboard, command line, formatting, settings, helper scripts | none of their own | read-only, or thin wrappers | | |

**How they interact.** There are no callbacks and no queues in memory: the
components meet in the database. A scan runs *flush queue, ingest, prune
stale watches, score (store and watch), alert, sell pass* on one connection.
Each stage is wrapped in an exception handler, so a stage can fail while the
next runs on the same connection, with whatever transaction the failed one left.
`src/` was read with its tests (`test_notification_service.py`,
`test_watchlist_runtime.py`, `test_signal_dedup.py`, `test_sell_runtime.py`,
`test_database_connection.py`); they run one process and one connection at a
time with a fake sender, so overlap, crashes inside a pass and lock timeouts are
what they hardly reach. `PROJECT.json` lists those hazards at their lines.

## 2. Modules

| Module | Models | Role |
|---|---|---|
| `AlertPolicy` | `is_quiet_hours`, `minutes_between`, `decide_alert` | pure decisions |
| `AlertPipeline` | flush and alert passes of concurrent scans | core state machine |
| `AlertLifecycle` | what the tables promise about one alert | abstract specification, refined by `AlertPipeline` |
| `SignalStore` | the scoring pass: dedup insert and watchlist | state machine |
| `SellPass` | the sell pass, buys and sales | state machine |
| `CandleStore` | one pair's ingestion, evaluation and retention: scans next to maintenance | state machine |
| `Migrations` | startup of concurrent commands on an old or new database | state machine |
| `CloudState` | workflow jobs around the state branch, the weekly report | state machine over `AlertLifecycle`'s alerts |
| `PaperReplay` | selection of signals and the replay | state machine |
| `Indicators` | RSI, ATR, EMA, trend, support, volume, patterns, regime | functions |
| `Scoring` | the seven factors, the score and the severity, as candles arrive | state machine, extends `Indicators` |
| `AlertPipelineProofs`, `SignalStoreProofs`, `SellPassProofs`, `CandleStoreProofs`, `CloudStateProofs`, `MigrationsProofs`, `PaperReplayProofs`, `ScoringProofs` | | theorems |
| `MC...` | | values for TLC |

Operators called *variants* in comments (`FlushedRowUncounted`,
`LoadOpenBuysAll`, ...) are plausible wrong versions of the definition that
follows them. No specification uses them; they exist so that each property can
be shown to fail when the code is wrong.

### How the state corresponds to the code

- `db` is the committed database, a record of tables; a table is a sequence
  whose index is the row id. Columns no property tells apart are left out.
- `writer` and `work` (`AlertPipeline`, `SignalStore`, `CandleStore`) are SQLite's single write
  lock and its holder's uncommitted pages. Python's `sqlite3` opens a
  transaction before the first INSERT or UPDATE; a commit publishes `work`, a
  crash drops it.
- `snap` is a snapshot a connection got stuck on. When an INSERT or UPDATE times
  out, the transaction Python began for it stays open. The next SELECT then pins
  a WAL snapshot, and each later write of that connection fails at once
  (`SQLITE_BUSY_SNAPSHOT`) if the database has moved on. The models pin the
  snapshot at the timeout itself, one step early.
- `SellPass` needs no `writer`: each of its writes commits in the same step.
- `pc`, `scan`, `batch`, `todo`, `hold`, `result` are the locals of a running
  scan: where it is, the `now` it fixed at the start, the rows it read and has
  still to deal with, and what it decided or was told by the sender about the
  row in hand. Between any two steps of one scan another process may run.
- `calls`, `copies`, `unacked`, `acked`, `faults`, `listed` are history: they describe the
  phone, the environment and what a run once saw, and no guard of the code reads them. Only the
  bound on faults does.

`AlertPipeline` has one action per statement group that another process can see
the boundary of: `ReadQueue`, then for each row `FlushDiscard`, `FlushDefer` or
`FlushSend` followed by `FlushRecord`, then `FlushCommit`; `PersistSignal`, `PendSignal`
and `StageCommit` for the stages in between; `ReadPending`, `AlertHold` or
`AlertSend` followed by `AlertRecord`, then `AlertCommit`. `FlushAborts`,
`StageTimesOut`, `AlertRefused` and `Crash` are the failures, each mapped to the
handler that catches it. `PendSignal` is a signal stored by `_insert_and_promote`
while an aborted flush or a timeout has left a transaction open: its savepoint commits
nothing, the signal waits with the other pending writes, and the alert pass may send it
and publish it together with its notification. `AlertLifecycle` has that step, from
`absent` to what a first examination leaves.

`SignalStore` splits a symbol into `Score` (all reads and the decision) and the
write that follows: `InsertSignal`, `UpsertWatching`, `ExpireBelowFloor` or
`Promote`. `Promote` is one savepoint: its reads and writes hold together only
if nobody committed between (`SnapshotHolds`). `Ignore` is a decision that writes
nothing, a step of its own so that `AcceptedIsStored` sees the score it lets go. `Abandon` is the exception handler
of one symbol. `expired` remembers whether a scan's `expire_stale` went through, because
`run_scan` goes on without it if the database stays locked.

`SellPass` follows `process_open_positions`: `LoadBuys`, and per buy `SkipBuy`
or `Evaluate`, `Decide`, `InsertSellSignal`, `Send`, `FlipAlerted`,
`UpdateWatermark`. `Abandon` is the handler around one buy. `InsertBuy` and
`RecordSale` are the user's commands.

`CandleStore` gives a scan `StartScan` (the time is fixed), `Fetch` and `Persist`,
and a maintenance run one action per read or write: `ListPending`, and per row
`TakeRow`, one `Measure` per metric, `ReadExisting`, `Save`; then `EndPass`, for
the signals and again for the buys, and `Prune`. A signal's `Save` commits; a
buy's stays pending, with the write lock held, until `EndPass`. `PassFails` and
`PruneFails` are run_maintenance's handlers: the next stage runs on the same
connection. `MakeItem` inserts the signals and buys to be measured.

`Migrations` gives a starting command `Start`, one action per statement of
`init_db`, the read of the version, and per migration the statements between
its savepoint and the release. A savepoint reads from the snapshot its first
SELECT pinned (`snap`); `behind` holds the processes another commit has
overtaken since, whose next write SQLite refuses. `View` is what a process reads
and `CanWrite` whether it may write. Version 6 archives the evaluations of earlier
releases, which is why rows are "legacy" or "new".

`CloudState` follows a job: `Trigger` (the group keeps one job running and one
waiting, so a newer trigger cancels the one that waits), `Checkout` (which fixes the
lease), `Restore`, the command, `Push`. A scan moves each alert along
`AlertLifecycle`, the module `AlertPipeline` is shown to implement; a call that
the row records as failed may have reached the phone (`lost`), and the job goes on to push
all the same. `reached` and `delivered` are history: who got a copy to the phone, and who
had it acknowledged. A weekly job persists, sends and flips in separate steps. A job may fail at any of them, and
then what it did to its copy is forgotten while what it sent is not.

`PaperReplay` fixes the selected signals and the period, then for every hour
reads the bars, enters or skips each signal in order at the open, marks the open trades,
closes what is due at the close, and marks again. `fate` says what became of each signal, with the report's
reason.

`Scoring` adds one hourly candle per step and evaluates everything the scan of
that hour would, on the last `LoadLimit` candles of each interval (`Loaded`): longer candles are those the exchange builds from the hourly
ones. `Indicators` has one operator per function of the code; averages are
exact fractions, and `None` is what the code returns on too short a list.

### Abstractions to know about

- **Time** is a small counter. In `AlertPipeline` a unit stands for some hours;
  `Day` units are the 24-hour age limit (`MAX_NOTIFICATION_AGE`) and also the
  day that quiet hours repeat over. Two rows stamped within a unit tie, and
  `PriorAlerts` then allows either as the latest; in the code `sent_at` orders them.
- **A scan lasts at most `ScanLimit` units**; without such a bound a scan that
  started before midnight could send at any later hour, which the code allows
  but no deployment does. Only properties about quiet hours and cooldown
  depend on it.
- **Scoring** is a choice from a few scores (`SignalStore`) or a candidate
  (`AlertPipeline`). `AlertPipeline` does not repeat the dedup of `SignalStore`:
  it accepts any sequence of signals, which is more than the code produces.
- **Metrics** in `CandleStore` are measured or NULL, and a candle is the hour it
  opens in: values follow from candles that never change. A row is made, and a run
  starts, somewhere within an hour, so a row exactly a window old may or may
  not have matured (`Matured`), and its last candle may still be open. Events on
  the exact hour, and buys entered with an earlier `--bought-at`, are left out.
- **The sender** is one step with the result it returns and the number of posts
  that arrived without an answer before it (`Outcomes`).
- **Other writers.** Whatever else may hold the write lock, or commit to
  unrelated tables, shows as a timeout or a refused write, and is counted as a
  fault.
- **Startup writes** are the subject of `Migrations` and are not repeated elsewhere:
  `StartScan` stands for them. The seeding of symbols is left out.
- **Buys** are taken in any order by a pass; the code's order is by `bought_at`, and
  passes over different buys do not influence one another. `RecordSale` stamps
  the current hour, the command's default; an explicit `sold_at` is left out.
- **Prices** in `SellPass` are whole numbers compared by cross-multiplication, so
  the rules' thresholds are exact where the code rounds as floats do. `PaperReplay`
  has costs that keep every division exact; `Scoring` and `Indicators` have
  fractions. Rounding is therefore not part of any result here.
- **A load of candles** is the last 250 in the code and the last `LoadLimit` in
  `Scoring`. Wilder's average has no memory limit, so once more candles are stored the RSI of
  an hour drifts as the list moves, and a scan may report a recovery from an oversold
  hour that no earlier scan called oversold (TLC reaches such a state). `ReadingsAgree` is
  about one loaded list, and about earlier scans only while the list still starts with the
  first candle.
- **A checkpoint of the WAL** before the state file is encrypted always succeeds in
  `CloudState`. `gha_state.sh:83` ignores its failure (`|| true`), and what was then still
  in the WAL would be missing from the branch.
- **Weights** lie in 0..100 each (`ScoringAssumption`). The settings loader checks only
  that they add up to 100.
- **The cloud job's database** is the rows that jobs add and the fate of each alert.
  Encryption and decryption are the steps that may fail.

## 3. Runs

| Run | Question | Properties | Bounds |
|---|---|---|---|
| `AlertSerial` | one scan at a time: do two tables agree, do sends respect every limit, is `AlertLifecycle` implemented | `TypeOK`, `OneFatePerSignal`, `DuplicatesHaveACause`, `CooldownKept`, `SendsAreDue`, `ImplementsLifecycle` | 2 signals of one symbol, clock 0..2, `Day` 2, quiet in its second half, 2 cycles, 1 HTTP retry, 1 fault |
| `AlertOverlap` | two scans at once: what still holds | `NoAlertVanishes`, `DeliveredReachedPhone`, `DeliveredForever` | 1 signal, 2 scans, 2 cycles, 1 HTTP retry, 1 fault |
| `AlertLive` | does every alert settle | `EventuallySettled` | 1 signal, clock 0..4, 1 fault |
| `StoreSerial` | dedup and watch life, hour after hour | `LadderClimbs`, `PromotedInTime`, `AcceptedIsStored` | 2 symbols, 3 scores, 2 regimes, clock 0..2, 2 signals, 3 watches, 1 fault |
| `StoreOverlap` | promotions under overlap | `WatchesAgree`, `PromotionsClimb` | 2 symbols, 2 scans, 2 signals, 3 watches, 1 fault |
| `SellSerial` | cooldown, sales, watermarks | `CooldownHeld`, `SilentOnceSold`, `TrailsItsOwnPeak`, `PeaksRemembered` | 2 buys, 2 sell signals, 2 prices, clock 0..2, 1 fault |
| `SellOverlap` | what overlap may cost | `AlertsBounded`, `MarksRise` | 1 buy, 2 scans, 3 sell signals, 1 fault |
| `CandleSerial` | candles without holes, retention and evaluation in step | `NoHoles`, `MeasuredBeforePruned`, `MeasuredStays` | 1 scan, 1 maintenance run, 1 signal, 1 buy, clock 0..6, `Month` 3, `MaxCandles` 5, 1 fault |
| `Migration` | commands that start together on any earlier release | `VersionNeverAhead`, `LegacyKept`, `ReadyMeansMigrated`, `NewStays` | 2 processes, 3 starts, an empty database or release 1, 4 or 6, 1 evaluation of each kind |
| `Cloud` | jobs, and a run by hand, around the state branch | `PushedKept`, `SendersCounted`, `FatesMoveOn` | 3 jobs, 1 of them by hand, 1 signal, 2 tries, any answer lost |
| `Paper` | does a replay trade what it could have known, and do its books add up | `UsableIsLoaded`, `BooksBalance`, `SkipsExplained`, `TradesOnTime`, `DrawdownIsWorst` | any 3 of 12 signals, 3 pairs, 4 hours, 2 candles or none |
| `Scoring` | every history of three candle shapes | `BudgetsHold`, `ReadingsAgree`, `TrendFollows`, `SwingsStay` | 12 hours, a day of 2, 5 candles loaded, the shipped tiers and weights |

**Why the bounds are enough.** A hazard here needs few actors: two scans, or one
scan and one fault; one more row than the one being written; and one time step
past each limit. Two signals of one symbol meet the cooldown and the
escalation override, two cycles put one retry before the last, one fault leaves a
transaction behind for the stage that follows. `AlertSerial` reaches age,
attempts and quiet hours on the same row; `SellOverlap` has room for one signal more
than `AlertsBounded` allows; `StoreSerial` switches the watchlist off long enough
for a watch to be overdue. `CandleSerial` shrinks a day to two hours and the
30-day window to three, so that rows mature, fetches fall behind by
more than one request, and prunes delete, within seven hours. Its
`MaxCandles` is the least that spans the window, the rest of the UTC day before it
and the length of a run (the shipped file has 2160 hours for 720): with one
candle less TLC finds `MeasuredBeforePruned` violated. The settings loader does
not compare the two. `Migration` starts one command more than run at a time, so
that one meets what two others left; releases 1, 4 and 6 have five, two and none of the
later versions ahead. `Cloud` has a job of the group running, one waiting or cancelled,
and one outside. `Paper`'s twelve signals hold, for each reason to skip a signal and
each way to be selected, one that meets it, with rivals for a pair and for the cash.
`Scoring` loads five candles, more than any look-back of its instance, and its twelve
hours, six days, outgrow them. Processes of one kind are symmetric in
`StoreOverlap`, `SellOverlap`, `Cloud` (the jobs) and `Migration`, none of which has
a liveness property. Every property has a variant of the code under
which TLC finds it violated within the same bounds.

Deadlock checking stays on wherever a scan can always be started again. It is off
in `Migration`, `Cloud`, `Paper` and `Scoring`, whose commands, jobs, replay and
hours come to an end.

**Serial and overlapping.** `Serial = TRUE` is the deployment the code expects
(one workflow at a time through the `crypto-state` concurrency group, or one task).
In `CandleSerial` too one scan and one maintenance run at a time share the
database, as the task scheduler starts them. With two scans the cursor may
fall behind the candles; with two maintenance runs one may write back NULL over
what the other has measured. The properties of the serial runs are stated for that deployment (the disagreements below
show two of them to fail without it); the overlap runs check what holds regardless.

**Fairness.** `FairSpec` assumes that the clock advances and that each scan's
steps, including its start, are not postponed for ever (`WF` on `Tick` and on
`ScanStep`): the scheduler starts a scan every few minutes, and a pass is a
loop over a finite list. Failures are never fair. The answers of the network are
chosen freely on every call, so `EventuallySettled` does not assume that a send
ever succeeds. The clock stops at `MaxClock` = 4, which with `Day` = 3 is
outside quiet hours; a clock that stopped inside them would defer for ever.

**What the documentation says and the code does not do.** Six statements, each quoted
in `PROJECT.json`. TLC shows four of them with the configurations below, which
end in a counterexample:

| Statement | Reproduced by |
|---|---|
| `service.py:14`: processing a signal again "cannot create a second queue row" | `tlc -config AlertSecondRow.cfg MCAlertPipeline` |
| `config.example.toml:102`: minutes "between alerts for the same symbol" | `tlc -config AlertCooldownDoc.cfg MCAlertPipeline` |
| `persistence.py:17`: of two racing scans one "will catch IntegrityError" | `tlc -config StoreRace.cfg MCSignalStore` |
| `config.example.toml:185`: a cooldown "on the same buy", "per-position" | `tlc -config SellCooldownDoc.cfg MCSellPass` |
| `cli/main.py:394`, `README.md:672`: an unsent weekly row is picked up later | no code reads unsent rows |
| `engine.py:6`: "every missing input is treated as a zero-point factor" | a missing daily trend scores 3 points (`factors.py:318`) |

## 4. Proofs

Each theorem holds for every value of the constants that meets the module's
assumptions (`PolicyAssumption`, `PipelineAssumption`, `StoreAssumption`,
`SellAssumption`, `CandleAssumption`, `MigrationAssumption`, `CloudAssumption`,
`PaperAssumption`, `IndicatorsAssumption`, `ScoringAssumption`), which TLC evaluates
in the module's runs. What a theorem assumes beyond them is in its statement:

- `Serial`: the scans of a model do not overlap (the constant of the serial runs);
  `OneScan` and `OneMaintenance`: there is a single process of that kind.
- `Cooldown = 0 \/ ScanLimit < Cooldown`: no scan outlasts the cooldown. Its
  decisions use the time it began, so otherwise a retry within one scan may come sooner.
- `RetentionSpans`: the cap on candles spans the window, the UTC day before it
  and the length of a run, or there is no cap. `CandleSerial` sits on that
  edge: with one candle less TLC finds a counterexample.
- `PointsAreNatural`: no setting takes points away. Like the one before, it
  is true of the shipped settings, and the loader does not check it.

| Module | Theorem | Statement |
|---|---|---|
| `AlertPipelineProofs` | `TypeCorrect` | `Spec => []TypeOK` |
| | `AlertsAreRecorded` | `Spec => []NoAlertVanishes` |
| | `DeliveriesAreReal` | `Spec => []DeliveredReachedPhone` |
| | `DeliveryIsFinal` | `Spec => DeliveredForever` |
| | `FatesAreOne` | `ASSUME Serial PROVE Spec => []OneFatePerSignal` |
| | `DuplicatesAreExplained` | `ASSUME Serial PROVE Spec => []DuplicatesHaveACause` |
| | `EveryCallIsDue` | `ASSUME Serial PROVE Spec => SendsAreDue` |
| | `RefinesLifecycle` | `ASSUME Serial PROVE Spec => ImplementsLifecycle` |
| | `LiveAlertsWait` | `ASSUME Serial, Cooldown = 0 \/ ScanLimit < Cooldown PROVE Spec => []CooldownKept` |
| `SignalStoreProofs` | `WatchesStayPaired` | `Spec => []WatchesAgree` |
| | `PromotionsAlwaysClimb` | `Spec => PromotionsClimb` |
| | `LadderIsKept` | `ASSUME OneScan PROVE Spec => []LadderClimbs` |
| | `AcceptedIsKept` | `ASSUME OneScan PROVE Spec => AcceptedIsStored` |
| | `PromotedOnTime` | `ASSUME OneScan PROVE Spec => PromotedInTime` |
| `SellPassProofs` | `RepeatsAreBounded` | `Spec => []AlertsBounded` |
| | `PeaksNeverFall` | `Spec => MarksRise` |
| | `RepeatsWait` | `ASSUME Serial PROVE Spec => []CooldownHeld` |
| | `SoldStaysSilent` | `Spec => []SilentOnceSold` |
| | `TrailingStopsAreOwn` | `Spec => []TrailsItsOwnPeak` |
| | `NoPeakForgotten` | `Spec => PeaksRemembered` |
| `CandleStoreProofs` | `TypeCorrect` | `Spec => []TypeOK` |
| | `CandlesStayWhole` | `ASSUME OneScan PROVE Spec => []NoHoles` |
| | `MeasuredIsKept` | `ASSUME OneMaintenance PROVE Spec => MeasuredStays` |
| | `RetentionWaits` | `ASSUME OneMaintenance, RetentionSpans PROVE Spec => MeasuredBeforePruned` |
| `CloudStateProofs` | `PushesAreKept` | `Spec => []PushedKept` |
| | `SendersAreCounted` | `Spec => []SendersCounted` |
| | `BranchMovesOn` | `Spec => FatesMoveOn` |
| `MigrationsProofs` | `VersionIsHonest` | `Spec => []VersionNeverAhead` |
| | `LegacyIsKept` | `Spec => []LegacyKept` |
| | `NewIsKept` | `Spec => NewStays` |
| | `StartupWorks` | `Spec => []ReadyMeansMigrated` |
| `PaperReplayProofs` | `SelectionMisses` | `Spec => []UsableIsLoaded` |
| | `BooksAreKept` | `Spec => []BooksBalance` |
| | `FirstComeFirstServed` | `Spec => []SkipsExplained` |
| | `NobodyTradesEarly` | `Spec => []TradesOnTime` |
| | `DrawdownIsDeepest` | `Spec => []DrawdownIsWorst` |
| `ScoringProofs` | `ReadingsCoincide` | `Spec => []ReadingsAgree` |
| | `SupportIsSettled` | `Spec => SwingsStay` |
| | `BudgetsAreKept` | `ASSUME PointsAreNatural PROVE Spec => []BudgetsHold` |
| | `TrendsFollow` | `Spec => []TrendFollows` |

None of these is inductive alone: a process acts on what it read earlier while
others commit, and a replay or a score depends on everything before it. Each
module's invariant says what an old reading is still worth.

**`AlertPipelineProofs`**, any number of scans, overlapping or not (`Inv`).

- `Extends(old, new)`: `new` has all rows of `old`, at the same ids, with the
  same owner and with delivered rows still delivered. Commits only
  extend the database.
- `StoreOK`: `work` extends `db`, and equals it while the lock is free, so a
  commit is an extension and a rollback changes nothing.
- `SnapOK`: a pinned snapshot is extended by `db`. This keeps a stuck
  scan's row ids meaningful after others have committed.
- `PassOK`: the ids in a pass's list exist in what the scan reads, and a
  `sent` result it has not yet recorded is for a row whose signal has an
  acknowledged copy on the phone. Without it, the record made after the send
  (several steps and perhaps other scans' commits later) could not be justified.
- `PhoneOK`: acknowledged copies never exceed the copies that arrived.
- `Recorded` and `Backed` of `db` and of `work`: the goals themselves, also for
  the rows not yet committed.

A lemma for each table write says it extends the tables and keeps `Recorded` and
`Backed`; a lemma for each of the four ways the stores change (write, commit,
rollback, pin) says `StoreOK` and `SnapOK` survive; then each action has one
lemma. `DeliveryIsFinal` follows because each step's `db'` extends `db`.

**`AlertPipelineProofs`**, serial scans (`Settling`). The one scan under way has read
nothing that is out of date. `HandOK`: the rows left in its flush are still queued with
the attempts it read, and the signals left to alert are unalerted, in the copy it
writes on; so each write is one step of one alert's life. `Sound` holds of both copies
(the tables agree on one fate), and `Advances` says the uncommitted copy is at most one
step ahead for each alert. That is the refinement: a commit, however many rows it
publishes, moves each alert along one edge of `AlertLifecycle` (for an alert whose signal
was pending in the same transaction, the edge from `absent`), and a rollback is a
stutter. `CountsOK` compares calls and copies with what the tables show: they differ by
the call in hand (`Owed`) and one per fault. `Timed` is for the cooldown: no delivery on
record is later than the clock or the send in hand, and `now` is at most `ScanLimit`
behind the clock, so a decision taken at `now` is still right at the time of the send.

**`SignalStoreProofs`**: a decision is made on rows that may since have changed. `Basis` is
what they are now: the lock holder's rows if the scan holds the lock, the database it read
if not. Nobody else changes the first, and SQLite lets a promotion write only while the
second is still the database (`SnapshotHolds`). `HoldOK` says each decision in hand is right
about its basis, so a promotion writes on exactly what it decided on. `StoreOK` keeps
every copy of the tables consistent, the uncommitted one too. For one scan at a time
`SoloInv` adds that nothing it reads is ever out of date, whichever transaction a fault left
open, and so carries the ladder through the inserts made outside a savepoint as well.
`TimeInv` adds that a scan whose `expire_stale` went through sees open rows only before
their deadline, and that pending writes leave resolved rows as they are.

**`CandleStoreProofs`**: only a scan moves the cursor and a prune never touches it, so
what one scan fetched still joins on when it is stored (`JoinsOK`), and a prune takes
candles from the old end only (`Whole`). Only maintenance writes evaluations: what a
single maintenance run read of them, even in a snapshot it is stuck on, is what is stored
(`SeenOK`), so its merge keeps every metric; a rollback only undoes what was never committed
(`EvalInv`). For retention, `Working` follows one run: while no write of it has failed it
is not stuck on a snapshot, the candles it found are still there, and each overdue row
of the passes begun waits its turn, is in hand with every owed metric measured so far, or has
them on record (`OnCourse`). Rows made meanwhile are not overdue. The rows that still wait
are safe by age: a stored candle has closed and a run is bounded (`Timely`), so what a
prune drops is more than a window and a day older than the run (`PrunedIsOld`).

**`SellPassProofs`**: how many alerts of one rule on one buy overlap can cause within a
cooldown. At most as many as there are scans, but no row says which
scan stored it. So the invariant is existential (`Owned`): there is a map
from stored signals to scans under which signals of one owner, rule and buy are a
cooldown apart. A new signal extends the map by its own scan, which sees its
own earlier rows even in a stale snapshot (`Knows`). An injection from the
signals of a window into `Scans` then gives the bound. `RoomOK` counts the
scans that may still store, `RowsOK` keeps the rows in hand apart (which gives one
send per row), and `PassesOK` says the row in hand is stored, unsent before the send,
acknowledged before it is marked. When scans do not overlap the map may be constant:
the one under way passes for the owner of every row (`Sole`), which is `CooldownHeld`.
`Facts` is about overlap again: buys and signals are only added and watermarks only
rise, so what a pass read of them (`Reads`, `Hands`) may be old but stays true, of a sale,
of the peak a trailing stop is measured from, and of the watermark it writes last.

**`CloudStateProofs`**: the lease does the work. `LeasesOK`: a job whose lease still
holds has a copy that only grew from the branch as it is, so its push keeps
everything; a push raises the revision and ends every other lease. `CommandsOK`
and `FlagsOK` say a job that reaches the push has recorded what its command says.
`DeliveriesOK` says what a job sent its own copy knows and the branch it found did not,
so each sender that pushes adds to the cycles the branch counts, and after an
acknowledged copy there is nothing left to send for a job that starts from the branch.

**`MigrationsProofs`**: `Sound` of both the committed and the uncommitted database
(the version claims nothing absent; a source with an archive holds nothing old),
`Holds` (the evaluations the first command found are in one place or the
other), `StepsOK` (a process that may still write reads the database as it is),
and `SomeoneCan`: at any time some process is not refused by SQLite on its way
to the last version, unless one was killed. The last is what `StartupWorks` needs:
conflicts alone never keep everyone out.

**`PaperReplayProofs`**: signals are answered in the order of availability, none before
its hour and none after (`Usable`, `Ordered`, `Phased`). So when a signal's turn comes,
the trades open are exactly those it `Met` (`MeetsOpen`), and no later entry or sale
changes that set (`MetStays`). The cash at that moment is what the trades before
it had left (`CashLeft`), by the same sums as the books below: a skip is explained for
good. A trade's hours follow from
its signal's (`Kept`). The books are a sum over the closed trades; the library has no
theorems on sums over sets, so the module first builds them (`Sums`, `Partial`): a sum
exists, and a disjoint union adds up. An hour's sales then move
their proceeds from one side to the other (`SalesAddUp`). `UsableIsLoaded` is a lemma
on three times and two queries.

**`ScoringProofs`**: recursive functions are unrolled once and for all (`Unrolls`,
`Smooths`); from there, smoothing only looks back: the average of a list's beginning
does not depend on its end (`SmoothingAgrees`, `SeriesGrows`), so the RSI series of a
loaded list is at each candle the RSI of the list up to there, which, while all candles
are loaded (`LoadedIs`), is the list that hour's scan had. A day's candle does not depend on later hours (`PartsStay`), so
neither do its swing lows (`LowsStay`), and of the lows of all days a scan sees those
that are in the lookback and loaded (`SupportsWithin`). The budgets are seven caps and a sum. The trend
compares two averages with different seeds and weights over lists of any length: in a
falling market each new value is below both, the faster average follows it faster, and
the slow one starts from a mean, which an average with a growing window bounds
(`BelowMean`, `FastIsLower`). A rising market is a falling one with its sign turned.
The provers know nothing of exponents, so `Ema` carries its common denominator as a
recursive function rather than as a power.

**Only model-checked.** Liveness (`EventuallySettled`) is out of the prover's reach.
Every other property of a run is a theorem. The
type invariants of `SellPass`, `CloudState` and `Migrations` are conjuncts of
the proved `Inv`s and have no run of their own, and that of `CandleStore` is the theorem
`TypeCorrect`. `SignalStore`'s documents the types; its proved `ScansOK` and
`StoreOK` say the same but for the clock's bound. That `Indicators` and
`Scoring` compute what the formulas in the code compute rests on reading them side by
side: what a recursive definition returns for every input is not stated separately.

**What proving changed.** `CooldownKept` compared rows by id and was false
of some rows sent within one clock unit, which the instance checked does not produce;
it is now stated by the times of the sends. `PaperAssumption` types the candidates
and `CandleAssumption` keeps `Nobody` apart from the rows, as the proofs had to know. `BudgetsHold` names the lowest
adjustment of any regime, where it had assumed that risk-on is the lowest.

## 5. Plan

Done, in this order: `AlertPolicy`, `AlertPipeline`, `AlertLifecycle` and their
theorems, `SignalStore`, `SellPass`, `CandleStore`, `CloudState`, `Migrations`,
`PaperReplay`, `Indicators` and `Scoring`, the theorems of `Migrations`,
`CloudState`, `SellPass`, `SignalStore` and `CandleStore`; then those of serial
scans in `AlertPipeline` (with the refinement) and `SellPass`, of `PaperReplay`, of
`Scoring`, and retention in `CandleStore`.

Next, by weight:

1. `CandleStore` with more than one pair, so that an error half way through one
   leaves its rows to the next one's commit.
2. `record_sale` as two steps, for two commands at once.
3. The paper report's totals, and the weekly report's figures, as functions of the rows.

## 6. Not modelled

Message wording, analytics, the dashboard and its web client, and the helper
scripts: they read the tables and keep no state. Of the parts that are modelled:
the parsing of the settings file and of times, the rounding of floats, the
seeding of symbols, `VACUUM`, the regime snapshots that only the dashboard
reads, and the fees, averages and text of the paper report. `PROJECT.json`
gives the reason for each.

## 7. Running

    tlc -config AlertSerial.cfg MCAlertPipeline      # any run of section 3
    tlapm SellPassProofs.tla                         # all proofs of a module
