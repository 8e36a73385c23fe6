-------------------------- MODULE CandleStoreProofs --------------------------
(***************************************************************************)
(* Theorems about CandleStore, for every schedule of its processes, every  *)
(* limit and every number of faults.                                       *)
(*                                                                         *)
(* The arguments: only a scan moves the cursor, and a prune never touches  *)
(* it, so what a scan fetched still joins on when it is stored (JoinsOK),  *)
(* if there is one scan.  Only maintenance writes evaluations, so what a   *)
(* maintenance run reads of them, even in a stale snapshot, is what is     *)
(* stored (SeenOK), if there is one maintenance run.  That run measures    *)
(* every overdue row it can before it prunes (OnCourse), and what it prunes*)
(* is too old for the rows that wait (PrunedIsOld).                        *)
(***************************************************************************)
EXTENDS CandleStore, FiniteSetTheorems, WellFoundedInduction, TLAPS

Runs == [pc : {"idle", "fetch", "store", "signals", "signal", "buys", "buy", "prune"},
         now : Hours, clean : BOOLEAN]

Holds == [item : Items \cup {Nobody}, next : 1 .. 6, got : SUBSET (Hours \cup Metrics),
          seen : Evaluation]

Snaps == [pinned : BOOLEAN, rows : Rows]

(* Scans leave nothing pending and are never stuck on a snapshot; pending  *)
(* writes are to evaluations.                                              *)
StoreOK ==
  /\ db \in Rows /\ work \in Rows
  /\ writer \in Maintenances \cup {Nobody}
  /\ snap \in [Procs -> Snaps]
  /\ \A s \in Scans : ~snap[s].pinned
  /\ writer = Nobody => work = db
  /\ work.candles = db.candles /\ work.cursor = db.cursor

LocalsOK ==
  /\ clock \in Hours /\ faults \in 0 .. MaxFaults
  /\ run \in [Procs -> Runs] /\ hold \in [Procs -> Holds]
  /\ todo \in [Maintenances -> SUBSET Items]
  /\ listed \in [Maintenances -> SUBSET Hours]

ProcOK(p) ==
  /\ run[p].now <= clock
  /\ hold[p].next > 1 => hold[p].item \in Items
  /\ hold[p].got \subseteq IF p \in Scans THEN Hours ELSE Metrics
  /\ p \in Scans /\ run[p].pc = "store" => hold[p].got # {}

Inv == StoreOK /\ LocalsOK /\ \A p \in Procs : ProcOK(p)

-----------------------------------------------------------------------------
(* Intervals of hours.                                                     *)

LEMMA HasLeast ==
  ASSUME NEW T \in SUBSET Nat, T # {} PROVE \E m \in T : \A n \in T : m <= n
  <1> DEFINE Below == OpToRel(<, Nat)
  <1>1. \E m \in T : \A n \in T : ~ (<<n, m>> \in Below)
    BY NatLessThanWellFounded, WFMin, Zenon
  <1>2. \A a, b \in Nat : a < b => <<a, b>> \in Below
    BY DEF OpToRel
  <1>3. \E m \in T : \A n \in T : ~(n < m)
    <2> HIDE DEF Below
    <2> QED BY <1>1, <1>2, T \subseteq Nat, Zenon
  <1> QED BY <1>3

LEMMA MaxIsIn ==
  ASSUME NEW n \in Nat, NEW T \in SUBSET (0 .. n), T # {} PROVE Max(T) \in T
  <1> DEFINE Gaps == {t \in Nat : t <= n /\ n - t \in T}
  <1>1. Gaps \in SUBSET Nat /\ Gaps # {}
    <2>1. PICK t \in T : TRUE
      OBVIOUS
    <2>2. n - t \in Nat /\ n - t <= n /\ n - (n - t) = t
      OBVIOUS
    <2> QED BY <2>1, <2>2
  <1>2. PICK g \in Gaps : \A c \in Gaps : g <= c
    <2> HIDE DEF Gaps
    <2> QED BY <1>1, HasLeast
  <1>3. ASSUME NEW t \in T PROVE n - g >= t
    <2>1. t \in Nat /\ n - t \in Nat /\ n - t <= n /\ n - (n - t) = t
      OBVIOUS
    <2>2. n - t \in Gaps /\ g \in Nat
      BY <2>1, <1>2
    <2>3. g <= n - t
      BY <1>2, <2>2
    <2> QED BY <2>1, <2>2, <2>3
  <1>4. n - g \in T /\ \A t \in T : n - g >= t
    BY <1>2, <1>3
  <1>5. \E x \in T : \A t \in T : x >= t
    BY <1>4
  <1> QED BY <1>5 DEF Max

LEMMA IntervalEnds ==
  ASSUME NEW a \in Int, NEW b \in Int, a <= b
  PROVE  Min(a .. b) = a /\ Max(a .. b) = b
  <1>1. a \in a .. b /\ \A y \in a .. b : a <= y
    OBVIOUS
  <1>2. \A x \in a .. b : (\A y \in a .. b : x <= y) => x = a
    OBVIOUS
  <1>3. b \in a .. b /\ \A y \in a .. b : b >= y
    OBVIOUS
  <1>4. \A x \in a .. b : (\A y \in a .. b : x >= y) => x = b
    OBVIOUS
  <1>5. Min(a .. b) = a
    BY <1>1, <1>2 DEF Min
  <1>6. Max(a .. b) = b
    BY <1>3, <1>4 DEF Max
  <1> QED BY <1>5, <1>6

LEMMA NewestOfInterval ==
  ASSUME NEW a \in Int, NEW b \in Int, NEW n \in Nat
  PROVE  Newest(a .. b, n) = {h \in a .. b : b - h < n}
  <1>1. ASSUME NEW h \in a .. b PROVE Cardinality({g \in a .. b : g > h}) = b - h
    <2>1. {g \in a .. b : g > h} = h + 1 .. b
      OBVIOUS
    <2>2. Cardinality(h + 1 .. b) = IF h + 1 > b THEN 0 ELSE b - (h + 1) + 1
      BY FS_Interval
    <2>3. Cardinality(h + 1 .. b) = b - h
      BY <2>2
    <2> QED BY <2>1, <2>3, Zenon
  <1> QED BY <1>1 DEF Newest

LEMMA OldestOfInterval ==
  ASSUME NEW a \in Int, NEW b \in Int, NEW n \in Nat
  PROVE  Oldest(a .. b, n) = {h \in a .. b : h - a < n}
  <1>1. ASSUME NEW h \in a .. b PROVE Cardinality({g \in a .. b : g < h}) = h - a
    <2>1. {g \in a .. b : g < h} = a .. h - 1
      OBVIOUS
    <2>2. Cardinality(a .. h - 1) = IF a > h - 1 THEN 0 ELSE h - 1 - a + 1
      BY FS_Interval
    <2>3. Cardinality(a .. h - 1) = h - a
      BY <2>2
    <2> QED BY <2>1, <2>3, Zenon
  <1> QED BY <1>1 DEF Oldest

LEMMA LeastIsEither ==
  ASSUME NEW a \in Int, NEW b \in Int
  PROVE  /\ \E c \in {a, b} : c <= a /\ c <= b
         /\ \E c \in {a, b} : a <= c /\ b <= c
  OBVIOUS

(* What the exchange returns is an interval of closed hours, which starts  *)
(* after the cursor if there is one.                                       *)
LEMMA KlinesJoin ==
  ASSUME NEW cursor \in Hours \cup {Unset}, NEW at \in Hours, NEW now \in Hours,
         now <= at, GetKlines(cursor, at, now) # {}
  PROVE  \E lo, hi \in Hours :
           /\ lo <= hi /\ hi < now /\ GetKlines(cursor, at, now) = lo .. hi
           /\ cursor # Unset => lo = cursor + 1
  <1> DEFINE klines == GetKlines(cursor, at, now)
  <1>1. /\ BootstrapLimit \in Nat /\ IncrementalLimit \in Nat /\ MaxClock \in Nat
        /\ at \in Nat /\ now \in Nat /\ at <= MaxClock
    BY CandleAssumption DEF Hours
  <1>2. CASE cursor = Unset
    <2>1. klines = {h \in {g \in 0 .. at : at - g < BootstrapLimit} : h < now}
      BY <1>1, <1>2, NewestOfInterval DEF GetKlines
    <2>2. PICK lo \in {0, at - BootstrapLimit + 1} : 0 <= lo /\ at - BootstrapLimit + 1 <= lo
      BY <1>1, LeastIsEither
    <2>3. lo \in Int
      BY <1>1
    <2>4. klines = lo .. now - 1
      <3>1. klines \subseteq lo .. now - 1
        BY <1>1, <2>1, <2>2
      <3>2. lo .. now - 1 \subseteq klines
        BY <1>1, <2>1, <2>2
      <3> HIDE DEF klines
      <3> QED BY <3>1, <3>2
    <2>5. lo <= now - 1
      <3> HIDE DEF klines
      <3>1. PICK h \in lo .. now - 1 : TRUE
        BY <2>4 DEF klines
      <3> QED BY <1>1, <2>3, <3>1
    <2>6. lo \in Hours /\ now - 1 \in Hours /\ now - 1 < now
      BY <1>1, <2>2, <2>3, <2>5 DEF Hours
    <2> QED BY <1>2, <2>4, <2>5, <2>6
  <1>3. CASE cursor # Unset
    <2>1. cursor \in Nat /\ cursor <= MaxClock
      BY <1>1, <1>3 DEF Hours
    <2>2. klines = {h \in {g \in cursor + 1 .. at : g - (cursor + 1) < IncrementalLimit} : h < now}
      BY <1>1, <1>3, <2>1, OldestOfInterval DEF GetKlines
    <2>3. PICK hi \in {cursor + IncrementalLimit, now - 1} :
            hi <= cursor + IncrementalLimit /\ hi <= now - 1
      BY <1>1, <2>1, LeastIsEither
    <2>4. hi \in Int
      BY <1>1, <2>1
    <2>5. klines = cursor + 1 .. hi
      <3>1. klines \subseteq cursor + 1 .. hi
        BY <1>1, <2>1, <2>2, <2>3
      <3>2. cursor + 1 .. hi \subseteq klines
        BY <1>1, <2>1, <2>2, <2>3, <2>4
      <3> HIDE DEF klines
      <3> QED BY <3>1, <3>2
    <2>6. cursor + 1 <= hi
      <3> HIDE DEF klines
      <3>1. PICK h \in cursor + 1 .. hi : TRUE
        BY <2>5 DEF klines
      <3> QED BY <2>1, <2>4, <3>1
    <2>7. cursor + 1 \in Hours /\ hi \in Hours /\ hi < now
      BY <1>1, <2>1, <2>3, <2>4, <2>6 DEF Hours
    <2> QED BY <2>5, <2>6, <2>7
  <1> QED BY <1>2, <1>3

-----------------------------------------------------------------------------
(* Rows, and the ways the stores change.                                   *)

LEMMA RowsFields ==
  ASSUME NEW rows \in Rows
  PROVE  /\ rows.candles \in SUBSET Hours /\ rows.cursor \in Hours \cup {Unset}
         /\ rows.made \in [Items -> Hours \cup {Unset}]
         /\ rows.evals \in [Items -> Evaluation]
  BY DEF Rows

LEMMA KlinesOK ==
  ASSUME NEW rows \in Rows, NEW klines \in SUBSET Hours, klines # {}
  PROVE  LET new == WithKlines(rows, klines) IN
         /\ new \in Rows /\ new.evals = rows.evals
         /\ new.candles = rows.candles \cup klines /\ new.cursor = Max(klines)
  <1>1. Max(klines) \in Hours
    BY MaxIsIn, CandleAssumption DEF Hours
  <1> QED BY <1>1 DEF WithKlines, Rows

LEMMA PrunedOK ==
  ASSUME NEW rows \in Rows
  PROVE  /\ Pruned(rows) \in Rows /\ Pruned(rows).evals = rows.evals
         /\ Pruned(rows).cursor = rows.cursor
         /\ Pruned(rows).candles = IF MaxCandles = 0 THEN rows.candles
                                   ELSE Newest(rows.candles, MaxCandles)
  <1>1. Newest(rows.candles, MaxCandles) \in SUBSET Hours
    BY RowsFields DEF Newest
  <1> QED BY <1>1 DEF Pruned, Rows

LEMMA SavedOK ==
  ASSUME NEW rows \in Rows, NEW i \in Items, NEW row \in Evaluation
  PROVE  LET new == [rows EXCEPT !.evals[i] = row] IN
         /\ new \in Rows /\ new.candles = rows.candles /\ new.cursor = rows.cursor
         /\ new.evals = [rows.evals EXCEPT ![i] = row]
  <1> DEFINE evals == [rows.evals EXCEPT ![i] = row]
  <1>1. evals \in [Items -> Evaluation]
    BY RowsFields
  <1>2. [rows EXCEPT !.evals[i] = row] = [rows EXCEPT !.evals = evals]
    BY DEF Rows
  <1> HIDE DEF evals
  <1>3. /\ [rows EXCEPT !.evals = evals] \in Rows
        /\ [rows EXCEPT !.evals = evals].candles = rows.candles
        /\ [rows EXCEPT !.evals = evals].cursor = rows.cursor
        /\ [rows EXCEPT !.evals = evals].evals = evals
    BY <1>1 DEF Rows
  <1> QED BY <1>2, <1>3 DEF evals

LEMMA EmptyOK == Empty \in Rows /\ Live \in Snaps /\ NoHold \in Holds /\ Idle \in Runs
  <1>1. NotEvaluated \in Evaluation
    BY DEF NotEvaluated, Evaluation
  <1>2. Empty \in Rows
    BY <1>1 DEF Empty, Rows
  <1>3. 0 \in Hours
    BY CandleAssumption DEF Hours
  <1> QED BY <1>1, <1>2, <1>3 DEF Live, Snaps, NoHold, Holds, Idle, Runs

LEMMA ViewIsWork ==
  ASSUME StoreOK, NEW p \in Procs, CanWrite(p)
  PROVE  View(p) = work /\ writer \in {p, Nobody}
  BY DEF StoreOK, CanWrite, View

LEMMA ViewIsRows ==
  ASSUME StoreOK, NEW p \in Procs
  PROVE  Committed(p) \in Rows /\ View(p) \in Rows
  <1>1. snap[p] \in Snaps
    BY DEF StoreOK
  <1>2. Committed(p) \in Rows
    BY <1>1 DEF StoreOK, Committed, Snaps
  <1> QED BY <1>2 DEF StoreOK, View

LEMMA UnpinOK ==
  ASSUME StoreOK, NEW p \in Procs, Unpin(p)
  PROVE  snap' \in [Procs -> Snaps] /\ \A s \in Scans : ~snap'[s].pinned
  <1>1. snap' = [snap EXCEPT ![p] = Live] /\ Live \in Snaps /\ ~Live.pinned
    BY EmptyOK DEF Unpin, Live
  <1> QED BY <1>1 DEF StoreOK, Procs

LEMMA PublishOK ==
  ASSUME StoreOK, NEW p \in Procs, NEW rows \in Rows, Publish(p, rows) PROVE StoreOK'
  <1>1. db' = rows /\ work' = rows /\ writer' = Nobody /\ Unpin(p)
    BY DEF Publish
  <1> QED BY <1>1, UnpinOK DEF StoreOK

LEMMA PendOK ==
  ASSUME StoreOK, NEW m \in Maintenances, NEW rows \in Rows,
         rows.candles = db.candles, rows.cursor = db.cursor, Pend(m, rows)
  PROVE  StoreOK'
  <1>1. db' = db /\ work' = rows /\ writer' = m /\ Unpin(m)
    BY DEF Pend
  <1>2. m \in Procs /\ m # Nobody
    BY CandleAssumption DEF Procs
  <1> QED BY <1>1, <1>2, UnpinOK DEF StoreOK

LEMMA UnchangedOK == ASSUME StoreOK, UNCHANGED dbVars PROVE StoreOK'
  BY DEF StoreOK, dbVars

LEMMA TimeoutOK ==
  ASSUME StoreOK, NEW m \in Maintenances, Timeout(m)
  PROVE  StoreOK' /\ db' = db /\ work' = work /\ writer' = writer
  <1>1. m \in Procs /\ m \notin Scans
    BY CandleAssumption DEF Procs
  <1>2. snap' = [snap EXCEPT ![m] = Pinned(Committed(m))] /\ Pinned(Committed(m)) \in Snaps
    BY <1>1, ViewIsRows DEF Timeout, Pinned, Snaps
  <1>3. snap' \in [Procs -> Snaps] /\ \A s \in Scans : ~snap'[s].pinned
    BY <1>1, <1>2 DEF StoreOK, Procs
  <1> QED BY <1>3 DEF StoreOK, Timeout

LEMMA ReleaseOK ==
  ASSUME StoreOK, NEW p \in Procs, Unpin(p), UNCHANGED <<db, work, writer>>
  PROVE  StoreOK'
  BY UnpinOK DEF StoreOK

-----------------------------------------------------------------------------
(* One lemma for each action.                                              *)

LEMMA InitInv == ASSUME Init PROVE Inv
  <1>1. Empty \in Rows /\ Live \in Snaps /\ NoHold \in Holds /\ Idle \in Runs /\ ~Live.pinned
    BY EmptyOK DEF Live
  <1>2. StoreOK
    BY <1>1 DEF Init, StoreOK, Procs
  <1>3. 0 \in Hours /\ 0 \in 0 .. MaxFaults
    BY CandleAssumption DEF Hours
  <1>4. LocalsOK
    BY <1>1, <1>3 DEF Init, LocalsOK
  <1>5. \A p \in Procs : ProcOK(p)
    BY DEF Init, ProcOK, Idle, NoHold
  <1> QED BY <1>2, <1>4, <1>5 DEF Inv

(* The processes a step leaves alone.                                      *)
LEMMA OthersOK ==
  ASSUME Inv, clock' = clock, NEW q \in Procs, run'[q] = run[q], hold'[q] = hold[q]
  PROVE  ProcOK(q)'
  BY DEF Inv, ProcOK

LEMMA StepOK ==
  ASSUME Inv, StoreOK', LocalsOK', clock' = clock, NEW p \in Procs, ProcOK(p)',
         \A q \in Procs \ {p} : run'[q] = run[q] /\ hold'[q] = hold[q]
  PROVE  Inv'
  <1>1. \A q \in Procs \ {p} : ProcOK(q)'
    BY OthersOK
  <1> QED BY <1>1 DEF Inv

LEMMA StutterInv == ASSUME Inv, UNCHANGED vars PROVE Inv'
  <1>1. StoreOK'
    BY UnchangedOK DEF Inv, vars
  <1>2. LocalsOK' /\ \A p \in Procs : ProcOK(p)'
    BY DEF Inv, vars, LocalsOK, ProcOK
  <1> QED BY <1>1, <1>2 DEF Inv

LEMMA TickInv == ASSUME Inv, Tick PROVE Inv'
  <1>1. UNCHANGED <<dbVars, run, todo, hold, faults, listed>> /\ clock' = clock + 1 /\ clock < MaxClock
    BY DEF Tick
  <1>2. StoreOK'
    BY <1>1, UnchangedOK DEF Inv
  <1>3. clock \in Hours /\ MaxClock \in Nat /\ run \in [Procs -> Runs]
    BY CandleAssumption DEF Inv, LocalsOK
  <1>4. LocalsOK'
    BY <1>1, <1>3 DEF Inv, LocalsOK, Hours
  <1>5. ASSUME NEW p \in Procs PROVE ProcOK(p)'
    <2>1. run[p].now \in Hours
      BY <1>3 DEF Runs
    <2>2. run[p].now <= clock'
      BY <1>1, <1>3, <2>1 DEF Inv, ProcOK, Hours
    <2> QED BY <1>1, <2>2 DEF Inv, ProcOK
  <1> QED BY <1>2, <1>4, <1>5 DEF Inv

LEMMA MakeItemInv == ASSUME Inv, MakeItem PROVE Inv' /\ db'.candles = db.candles /\ db'.cursor = db.cursor /\ db'.evals = db.evals
  <1>1. PICK i \in Items : db' = [db EXCEPT !.made[i] = clock]
    BY DEF MakeItem
  <1>2. /\ writer = Nobody /\ work' = db'
        /\ UNCHANGED <<clock, writer, snap, run, todo, hold, faults, listed>>
    BY DEF MakeItem
  <1>3. db \in Rows /\ clock \in Hours
    BY DEF Inv, StoreOK, LocalsOK
  <1>4. /\ db' \in Rows /\ db'.candles = db.candles /\ db'.cursor = db.cursor
        /\ db'.evals = db.evals
    <2> DEFINE made == [db.made EXCEPT ![i] = clock]
    <2>1. made \in [Items -> Hours \cup {Unset}]
      BY <1>3, RowsFields
    <2>2. db' = [db EXCEPT !.made = made]
      BY <1>1, <1>3 DEF Rows
    <2> HIDE DEF made
    <2> QED BY <1>3, <2>1, <2>2 DEF Rows
  <1>5. StoreOK'
    BY <1>2, <1>4 DEF Inv, StoreOK
  <1>6. LocalsOK' /\ \A p \in Procs : ProcOK(p)'
    BY <1>2 DEF Inv, LocalsOK, ProcOK
  <1> QED BY <1>4, <1>5, <1>6 DEF Inv

LEMMA GotoRuns ==
  ASSUME LocalsOK, NEW p \in Procs, NEW pc, Goto(p, pc),
         pc \in {"idle", "fetch", "store", "signals", "signal", "buys", "buy", "prune"}
  PROVE  /\ run' \in [Procs -> Runs] /\ run'[p].pc = pc /\ run'[p].now = run[p].now
         /\ \A q \in Procs \ {p} : run'[q] = run[q]
  BY DEF LocalsOK, Goto, Runs

LEMMA EndsOK ==
  ASSUME Inv, NEW p \in Procs, Ends(p), clock' = clock, faults' \in 0 .. MaxFaults
  PROVE  /\ Inv' /\ db' = db
         /\ \A q \in Procs \ {p} : hold'[q] = hold[q]
         /\ hold'[p] = NoHold /\ run'[p].pc = "idle"
  <1>1. /\ run' = [run EXCEPT ![p] = Idle]
        /\ hold' = [hold EXCEPT ![p] = NoHold]
        /\ todo' = [m \in Maintenances |-> IF m = p THEN {} ELSE todo[m]]
        /\ listed' = [m \in Maintenances |-> IF m = p THEN {} ELSE listed[m]]
    BY DEF Ends
  <1>2. NoHold \in Holds /\ Idle \in Runs
    BY EmptyOK
  <1>3. LocalsOK'
    BY <1>1, <1>2 DEF Inv, LocalsOK
  <1>4. /\ \A q \in Procs \ {p} : run'[q] = run[q] /\ hold'[q] = hold[q]
        /\ run'[p] = Idle /\ hold'[p] = NoHold
    BY <1>1 DEF Inv, LocalsOK
  <1>5. ProcOK(p)'
    <2>1. 0 <= clock'
      BY DEF Inv, LocalsOK, Hours
    <2> QED BY <1>4, <2>1 DEF ProcOK, Idle, NoHold
  <1>6. StoreOK' /\ db' = db
    <2>1. CASE writer = p
      <3>1. Publish(p, db) /\ db \in Rows
        BY <2>1 DEF Ends, Inv, StoreOK
      <3> QED BY <3>1, PublishOK DEF Inv, Publish
    <2>2. CASE writer # p
      BY <2>2, ReleaseOK DEF Ends, Inv
    <2> QED BY <2>1, <2>2
  <1> QED BY <1>3, <1>4, <1>5, <1>6, StepOK DEF Idle

LEMMA FaultOK == ASSUME LocalsOK, Fault PROVE faults' \in 0 .. MaxFaults
  BY CandleAssumption DEF LocalsOK, Fault

LEMMA CrashInv == ASSUME Inv, NEW p \in Procs, Crash(p) PROVE Inv'
  <1>1. Ends(p) /\ clock' = clock /\ faults' \in 0 .. MaxFaults
    BY FaultOK DEF Crash, Inv
  <1> QED BY <1>1, EndsOK

LEMMA ScansAreProcs == \A s \in Scans : s \in Procs /\ s \notin Maintenances
  BY CandleAssumption DEF Procs

LEMMA MaintenancesAreProcs == \A m \in Maintenances : m \in Procs /\ m \notin Scans
  BY CandleAssumption DEF Procs

LEMMA StartInv ==
  ASSUME Inv, NEW p \in Procs, NEW pc \in {"fetch", "signals"},
         run' = [run EXCEPT ![p] = [Idle EXCEPT !.pc = pc, !.now = clock]],
         UNCHANGED <<clock, dbVars, todo, hold, faults, listed>>
  PROVE  Inv'
  <1> DEFINE r == [Idle EXCEPT !.pc = pc, !.now = clock]
  <1>1. r \in Runs /\ r.pc = pc /\ r.now = clock
    BY DEF Idle, Runs, Inv, LocalsOK
  <1> HIDE DEF r
  <1>2. run' = [run EXCEPT ![p] = r]
    BY DEF r
  <1>3. StoreOK'
    BY UnchangedOK DEF Inv
  <1>4. LocalsOK' /\ run'[p] = r /\ \A q \in Procs \ {p} : run'[q] = run[q]
    BY <1>1, <1>2 DEF Inv, LocalsOK
  <1>5. ProcOK(p)'
    <2>1. ProcOK(p) /\ r.now <= clock'
      BY <1>1 DEF Inv, LocalsOK, Hours
    <2> QED BY <1>1, <1>4, <2>1 DEF ProcOK
  <1> QED BY <1>3, <1>4, <1>5, StepOK

LEMMA StartScanInv == ASSUME Inv, NEW s \in Scans, StartScan(s) PROVE Inv'
  BY StartInv, ScansAreProcs DEF StartScan

LEMMA StartMaintenanceInv == ASSUME Inv, NEW m \in Maintenances, StartMaintenance(m) PROVE Inv'
  BY StartInv, MaintenancesAreProcs DEF StartMaintenance

LEMMA GetKlinesHours ==
  ASSUME NEW cursor \in Hours \cup {Unset}, NEW at \in Hours, NEW now \in Hours, now <= at
  PROVE  GetKlines(cursor, at, now) \in SUBSET Hours
  <1>1. CASE GetKlines(cursor, at, now) = {}
    BY <1>1
  <1>2. CASE GetKlines(cursor, at, now) # {}
    <2>1. PICK lo, hi \in Hours :
            /\ lo <= hi /\ hi < now /\ GetKlines(cursor, at, now) = lo .. hi
            /\ cursor # Unset => lo = cursor + 1
      BY <1>2, KlinesJoin, Zenon
    <2>2. lo .. hi \subseteq Hours
      BY CandleAssumption DEF Hours
    <2> QED BY <2>1, <2>2
  <1> QED BY <1>1, <1>2

(* A scan reads the cursor as it is.                                       *)
LEMMA ScanReads == ASSUME Inv, NEW s \in Scans PROVE View(s) = db
  BY ScansAreProcs, CandleAssumption DEF Inv, StoreOK, View, Committed

LEMMA FetchInv == ASSUME Inv, NEW s \in Scans, Fetch(s) PROVE Inv'
  <1> DEFINE klines == GetKlines(View(s).cursor, clock, run[s].now)
  <1>1. /\ klines # {} /\ hold' = [hold EXCEPT ![s].got = klines]
        /\ Goto(s, "store") /\ UNCHANGED <<clock, dbVars, todo, faults, listed>>
    BY DEF Fetch
  <1>2. s \in Procs /\ View(s).cursor \in Hours \cup {Unset}
    BY ScansAreProcs, ScanReads, RowsFields DEF Inv, StoreOK
  <1>3. run[s].now \in Hours /\ clock \in Hours /\ run[s].now <= clock
    BY <1>2 DEF Inv, LocalsOK, Runs, ProcOK
  <1>4. klines \in SUBSET Hours
    BY <1>2, <1>3, GetKlinesHours
  <1> HIDE DEF klines
  <1>5. /\ hold' \in [Procs -> Holds]
        /\ hold'[s] = [hold[s] EXCEPT !.got = klines]
        /\ \A q \in Procs \ {s} : hold'[q] = hold[q]
    BY <1>1, <1>2, <1>4 DEF Inv, LocalsOK, Holds
  <1>6. /\ run' \in [Procs -> Runs] /\ run'[s].pc = "store" /\ run'[s].now = run[s].now
        /\ \A q \in Procs \ {s} : run'[q] = run[q]
    BY <1>1, <1>2, GotoRuns DEF Inv
  <1>7. StoreOK'
    BY <1>1, UnchangedOK DEF Inv
  <1>8. LocalsOK'
    BY <1>1, <1>5, <1>6 DEF Inv, LocalsOK
  <1>9. ProcOK(s)'
    <2>1. hold[s] \in Holds /\ ProcOK(s)
      BY <1>2 DEF Inv, LocalsOK
    <2>2. hold'[s].got = klines /\ hold'[s].next = hold[s].next /\ hold'[s].item = hold[s].item
      BY <1>5, <2>1 DEF Holds
    <2> QED BY <1>1, <1>4, <1>6, <2>1, <2>2 DEF ProcOK
  <1> QED BY <1>1, <1>2, <1>5, <1>6, <1>7, <1>8, <1>9, StepOK

LEMMA FetchNothingInv == ASSUME Inv, NEW s \in Scans, FetchNothing(s) PROVE Inv'
  <1>1. Ends(s) /\ clock' = clock /\ faults' \in 0 .. MaxFaults
    BY DEF FetchNothing, Inv, LocalsOK
  <1> QED BY <1>1, EndsOK, ScansAreProcs

LEMMA PersistInv ==
  ASSUME Inv, NEW s \in Scans, Persist(s)
  PROVE  /\ Inv' /\ db'.evals = db.evals /\ work' = db' /\ writer' = Nobody /\ writer = Nobody
         /\ db'.candles = db.candles \cup hold[s].got /\ db'.cursor = Max(hold[s].got)
         /\ clock' = clock /\ run'[s].pc = "idle"
         /\ \A q \in Procs \ {s} : hold'[q] = hold[q] /\ snap'[q] = snap[q]
  <1> DEFINE new == WithKlines(View(s), hold[s].got)
  <1>1. /\ run[s].pc = "store" /\ CanWrite(s) /\ Publish(s, new)
        /\ run' = [run EXCEPT ![s] = Idle] /\ hold' = [hold EXCEPT ![s] = NoHold]
        /\ UNCHANGED <<clock, todo, faults, listed>>
    BY DEF Persist
  <1>2. s \in Procs /\ View(s) = db /\ db \in Rows
    BY ScansAreProcs, ScanReads DEF Inv, StoreOK
  <1>3. hold[s].got \in SUBSET Hours /\ hold[s].got # {}
    BY <1>1, <1>2 DEF Inv, ProcOK
  <1>4. /\ new \in Rows /\ new.evals = db.evals
        /\ new.candles = db.candles \cup hold[s].got /\ new.cursor = Max(hold[s].got)
    BY <1>2, <1>3, KlinesOK
  <1>5. writer = Nobody
    BY <1>1, <1>2, ViewIsWork, ScansAreProcs DEF Inv, StoreOK
  <1> HIDE DEF new
  <1>6. db' = new /\ work' = new /\ writer' = Nobody /\ StoreOK'
    BY <1>1, <1>2, <1>4, PublishOK DEF Publish, Inv
  <1>7. NoHold \in Holds /\ Idle \in Runs
    BY EmptyOK
  <1>8. /\ LocalsOK' /\ run'[s] = Idle /\ hold'[s] = NoHold
        /\ \A q \in Procs \ {s} : run'[q] = run[q] /\ hold'[q] = hold[q]
    BY <1>1, <1>2, <1>7 DEF Inv, LocalsOK
  <1>9. ProcOK(s)'
    <2>1. 0 <= clock'
      BY <1>1 DEF Inv, LocalsOK, Hours
    <2> QED BY <1>8, <2>1 DEF ProcOK, Idle, NoHold
  <1>10. \A q \in Procs \ {s} : snap'[q] = snap[q]
    BY <1>1, <1>2 DEF Publish, Unpin, Inv, StoreOK
  <1>11. Inv'
    BY <1>1, <1>2, <1>6, <1>8, <1>9, StepOK
  <1> QED BY <1>1, <1>4, <1>5, <1>6, <1>8, <1>10, <1>11 DEF Idle

LEMMA PersistFailsInv == ASSUME Inv, NEW s \in Scans, PersistFails(s) PROVE Inv'
  <1>1. Ends(s) /\ clock' = clock /\ faults' \in 0 .. MaxFaults
    BY FaultOK DEF PersistFails, Inv
  <1> QED BY <1>1, EndsOK, ScansAreProcs

LEMMA ListPendingInv == ASSUME Inv, NEW m \in Maintenances, ListPending(m) PROVE Inv'
  <1> DEFINE pc == IF run[m].pc = "signals" THEN "signal" ELSE "buy"
             seen == IF run[m].pc = "signals" THEN View(m).candles ELSE listed[m]
  <1>1. PICK mature \in Matured(View(m), run[m].now) :
          todo' = [todo EXCEPT ![m] = {i \in Pass(m) \cap mature : Pending(View(m), i)}]
    BY DEF ListPending
  <1>2. Goto(m, pc) /\ listed' = [listed EXCEPT ![m] = seen] /\ UNCHANGED <<clock, dbVars, hold, faults>>
    BY DEF ListPending
  <1>3. m \in Procs /\ View(m).candles \in SUBSET Hours
    BY MaintenancesAreProcs, ViewIsRows, RowsFields DEF Inv
  <1>4. todo' \in [Maintenances -> SUBSET Items]
    <2> DEFINE due == {i \in Pass(m) \cap mature : Pending(View(m), i)}
    <2>1. due \in SUBSET Items
      BY DEF Pass, Items
    <2> HIDE DEF due
    <2>2. todo' = [todo EXCEPT ![m] = due]
      BY <1>1 DEF due
    <2> QED BY <2>1, <2>2 DEF Inv, LocalsOK
  <1>5. seen \in SUBSET Hours
    BY <1>3 DEF Inv, LocalsOK
  <1>6. listed' \in [Maintenances -> SUBSET Hours]
    <2> HIDE DEF seen
    <2> QED BY <1>2, <1>5 DEF Inv, LocalsOK
  <1>7. /\ run' \in [Procs -> Runs] /\ run'[m].now = run[m].now
        /\ \A q \in Procs \ {m} : run'[q] = run[q]
    BY <1>2, <1>3, GotoRuns DEF Inv
  <1>8. StoreOK'
    BY <1>2, UnchangedOK DEF Inv
  <1>9. LocalsOK'
    BY <1>2, <1>4, <1>6, <1>7 DEF Inv, LocalsOK
  <1>10. ProcOK(m)'
    BY <1>2, <1>3, <1>7, MaintenancesAreProcs DEF Inv, ProcOK
  <1> QED BY <1>2, <1>3, <1>7, <1>8, <1>9, <1>10, StepOK

(* A step that only changes what a maintenance run has in hand.            *)
LEMMA HandInv ==
  ASSUME Inv, NEW m \in Maintenances, NEW h \in Holds, hold' = [hold EXCEPT ![m] = h],
         h.next > 1 => h.item \in Items, h.got \subseteq Metrics,
         todo' \in [Maintenances -> SUBSET Items],
         UNCHANGED <<clock, dbVars, run, faults, listed>>
  PROVE  Inv'
  <1>1. m \in Procs /\ m \notin Scans
    BY MaintenancesAreProcs
  <1>2. StoreOK'
    BY UnchangedOK DEF Inv
  <1>3. LocalsOK' /\ hold'[m] = h /\ \A q \in Procs \ {m} : hold'[q] = hold[q]
    BY <1>1 DEF Inv, LocalsOK
  <1>4. ProcOK(m)'
    BY <1>1, <1>3 DEF Inv, ProcOK
  <1> QED BY <1>1, <1>2, <1>3, <1>4, StepOK

LEMMA HandFields ==
  ASSUME Inv, NEW m \in Maintenances
  PROVE  /\ hold[m] \in Holds /\ hold[m].got \subseteq Metrics
         /\ hold[m].next \in 1 .. 6 /\ hold[m].item \in Items \cup {Nobody}
         /\ hold[m].next > 1 => hold[m].item \in Items
         /\ m \in DOMAIN hold /\ m \in Procs
  BY MaintenancesAreProcs DEF Inv, LocalsOK, ProcOK, Holds

LEMMA TakeRowInv ==
  ASSUME Inv, NEW m \in Maintenances, TakeRow(m)
  PROVE  Inv' /\ hold'[m].next = 1 /\ \A q \in Procs \ {m} : hold'[q] = hold[q]
  <1>1. PICK i \in todo[m] :
          /\ todo' = [todo EXCEPT ![m] = @ \ {i}]
          /\ hold' = IF i \in Signals /\ ~Pending(View(m), i) THEN hold
                     ELSE [hold EXCEPT ![m].item = i]
    BY DEF TakeRow
  <1>2. hold[m] = NoHold /\ UNCHANGED <<clock, dbVars, run, faults, listed>>
    BY DEF TakeRow
  <1>3. i \in Items /\ todo' \in [Maintenances -> SUBSET Items]
    BY <1>1 DEF Inv, LocalsOK
  <1>4. PICK h \in {hold[m], [hold[m] EXCEPT !.item = i]} : hold' = [hold EXCEPT ![m] = h]
    <2>1. hold = [hold EXCEPT ![m] = hold[m]]
      BY MaintenancesAreProcs DEF Inv, LocalsOK
    <2> QED BY <1>1, <2>1
  <1>5. h \in Holds /\ h.next = 1 /\ h.got \subseteq Metrics
    BY <1>2, <1>3, <1>4, EmptyOK DEF NoHold, Holds
  <1>6. Inv'
    <2>1. h.next > 1 => h.item \in Items
      BY <1>5
    <2> QED BY <1>2, <1>3, <1>4, <1>5, <2>1, HandInv, Zenon
  <1>7. hold'[m] = h /\ \A q \in Procs \ {m} : hold'[q] = hold[q]
    BY <1>4, HandFields DEF Inv, LocalsOK
  <1> QED BY <1>5, <1>6, <1>7

LEMMA MeasureInv ==
  ASSUME Inv, NEW m \in Maintenances, Measure(m)
  PROVE  Inv' /\ hold'[m].next \in 2 .. 5 /\ \A q \in Procs \ {m} : hold'[q] = hold[q]
  <1> DEFINE metric == Metric[hold[m].next]
             got == IF IsMeasurable(View(m), hold[m].item, metric, run[m].now)
                      THEN hold[m].got \cup {metric} ELSE hold[m].got
             h == [hold[m] EXCEPT !.next = hold[m].next + 1, !.got = got]
  <1>1. /\ hold[m].item # Nobody /\ hold[m].next <= 4
        /\ UNCHANGED <<clock, dbVars, run, todo, faults, listed>>
    BY DEF Measure, Metric
  <1>2. hold' = [hold EXCEPT ![m].next = hold[m].next + 1, ![m].got = got]
    BY DEF Measure
  <1>3. metric \in Metrics
    BY <1>1, HandFields DEF Metric, Metrics
  <1> HIDE DEF metric
  <1>4. got \subseteq Metrics
    BY <1>3, HandFields
  <1> HIDE DEF got
  <1>5. hold' = [hold EXCEPT ![m] = h]
    BY <1>2
  <1>6. /\ h \in Holds /\ h.next = hold[m].next + 1 /\ h.item \in Items
        /\ h.got = got
    <2> DEFINE next == hold[m].next + 1
    <2>1. next \in 1 .. 6
      BY <1>1, HandFields
    <2>2. hold[m] \in Holds /\ hold[m].item \in Items
      BY <1>1, HandFields
    <2> HIDE DEF next
    <2>3. h = [hold[m] EXCEPT !.next = next, !.got = got]
      BY DEF next
    <2>4. h \in Holds /\ h.next = next /\ h.item = hold[m].item /\ h.got = got
      BY <1>4, <2>1, <2>2, <2>3 DEF Holds
    <2> QED BY <2>2, <2>4 DEF next
  <1> HIDE DEF h
  <1>7. Inv'
    BY <1>1, <1>4, <1>5, <1>6, HandInv DEF Inv, LocalsOK
  <1>8. hold'[m] = h /\ \A q \in Procs \ {m} : hold'[q] = hold[q]
    BY <1>5, HandFields DEF Inv, LocalsOK
  <1> QED BY <1>1, <1>6, <1>7, <1>8, HandFields

WithRow(h, row) == [h EXCEPT !.next = 6, !.seen = row]

LEMMA WithRowOK ==
  ASSUME NEW h \in Holds, NEW row \in Evaluation
  PROVE  /\ WithRow(h, row) \in Holds /\ WithRow(h, row).next = 6
         /\ WithRow(h, row).item = h.item /\ WithRow(h, row).got = h.got
         /\ WithRow(h, row).seen = row
  <1>1. 6 \in 1 .. 6
    OBVIOUS
  <1>2. WithRow(h, row) \in Holds
    BY <1>1, Zenon DEF Holds, WithRow
  <1>3. WithRow(h, row).next = 6 /\ WithRow(h, row).item = h.item
    BY DEF Holds, WithRow
  <1>4. WithRow(h, row).got = h.got /\ WithRow(h, row).seen = row
    BY DEF Holds, WithRow
  <1> QED BY <1>2, <1>3, <1>4

LEMMA ReadExistingInv ==
  ASSUME Inv, NEW m \in Maintenances, ReadExisting(m)
  PROVE  /\ Inv' /\ hold'[m].item = hold[m].item
         /\ hold'[m].seen = View(m).evals[hold[m].item]
         /\ \A q \in Procs \ {m} : hold'[q] = hold[q]
  <1> DEFINE seen == View(m).evals[hold[m].item]
             h == [hold[m] EXCEPT !.next = hold[m].next + 1, !.seen = seen]
  <1>1. /\ hold[m].next = 5 /\ UNCHANGED <<clock, dbVars, run, todo, faults, listed>>
    BY DEF ReadExisting, Metric
  <1>2. hold[m].item \in Items
    BY <1>1, HandFields
  <1>3. seen \in Evaluation
    BY <1>2, ViewIsRows, RowsFields, MaintenancesAreProcs DEF Inv
  <1>4. hold' = [hold EXCEPT ![m] = h]
    BY DEF ReadExisting
  <1> HIDE DEF seen
  <1>5. /\ h \in Holds /\ h.item = hold[m].item /\ h.got = hold[m].got
        /\ h.seen = seen /\ h.next = 6
    <2>1. hold[m] \in Holds /\ hold[m].next + 1 = 6
      BY <1>1, HandFields
    <2>2. h = WithRow(hold[m], seen)
      BY <2>1, Zenon DEF WithRow
    <2> HIDE DEF h
    <2> QED BY <1>3, <2>1, <2>2, WithRowOK
  <1> HIDE DEF h
  <1>6. Inv'
    BY <1>1, <1>2, <1>4, <1>5, HandInv, HandFields DEF Inv, LocalsOK
  <1>7. hold'[m] = h /\ \A q \in Procs \ {m} : hold'[q] = hold[q]
    BY <1>4, HandFields DEF Inv, LocalsOK
  <1> QED BY <1>5, <1>6, <1>7 DEF seen

(* The row a measured signal or buy gets.                                  *)
LEMMA MergedOK ==
  ASSUME NEW seen \in Evaluation, NEW got \in SUBSET Metrics
  PROVE  Merged(seen, got) \in Evaluation
  BY DEF Merged, Evaluation

SavedRows(m) ==
  [View(m) EXCEPT !.evals[hold[m].item] = Merged(hold[m].seen, hold[m].got)]

LEMMA SavedRowsOK ==
  ASSUME Inv, NEW m \in Maintenances, Save(m)
  PROVE  /\ SavedRows(m) \in Rows /\ hold[m].item \in Items /\ hold[m].next = 6
         /\ SavedRows(m).candles = View(m).candles /\ SavedRows(m).cursor = View(m).cursor
         /\ SavedRows(m).evals =
              [View(m).evals EXCEPT ![hold[m].item] = Merged(hold[m].seen, hold[m].got)]
  <1>1. hold[m].next = 6
    BY DEF Save, Metric
  <1>2. hold[m].item \in Items /\ hold[m].seen \in Evaluation /\ hold[m].got \subseteq Metrics
    BY <1>1, HandFields DEF Holds
  <1>3. View(m) \in Rows
    BY ViewIsRows, HandFields DEF Inv
  <1>4. Merged(hold[m].seen, hold[m].got) \in Evaluation
    BY <1>2, MergedOK
  <1> QED BY <1>1, <1>2, <1>3, <1>4, SavedOK DEF SavedRows

LEMMA SaveCases ==
  ASSUME NEW m \in Maintenances, Save(m)
  PROVE  /\ hold' = [hold EXCEPT ![m] = NoHold] /\ UNCHANGED <<clock, run, todo, faults, listed>>
         /\ \/ UNCHANGED dbVars
            \/ CanWrite(m) /\ Publish(m, SavedRows(m))
            \/ CanWrite(m) /\ Pend(m, SavedRows(m))
  BY DEF Save, SavedRows

LEMMA SaveInv == ASSUME Inv, NEW m \in Maintenances, Save(m) PROVE Inv'
  <1>1. /\ hold' = [hold EXCEPT ![m] = NoHold] /\ UNCHANGED <<clock, run, todo, faults, listed>>
        /\ \/ UNCHANGED dbVars
           \/ CanWrite(m) /\ Publish(m, SavedRows(m))
           \/ CanWrite(m) /\ Pend(m, SavedRows(m))
    BY SaveCases
  <1>2. m \in Procs /\ StoreOK
    BY MaintenancesAreProcs DEF Inv
  <1>3. StoreOK'
    <2>1. CASE UNCHANGED dbVars
      BY <1>2, <2>1, UnchangedOK
    <2>2. CASE Publish(m, SavedRows(m))
      BY <1>2, <2>2, SavedRowsOK, PublishOK
    <2>3. CASE CanWrite(m) /\ Pend(m, SavedRows(m))
      <3>1. SavedRows(m).candles = db.candles /\ SavedRows(m).cursor = db.cursor
        BY <1>2, <2>3, ViewIsWork, SavedRowsOK DEF StoreOK
      <3> QED BY <1>2, <2>3, <3>1, SavedRowsOK, PendOK
    <2> QED BY <1>1, <2>1, <2>2, <2>3
  <1>4. LocalsOK' /\ hold'[m] = NoHold /\ \A q \in Procs \ {m} : hold'[q] = hold[q]
    BY <1>1, <1>2, EmptyOK DEF Inv, LocalsOK
  <1>5. ProcOK(m)'
    BY <1>1, <1>2, <1>4, MaintenancesAreProcs DEF Inv, ProcOK, NoHold
  <1> QED BY <1>1, <1>2, <1>3, <1>4, <1>5, StepOK

LEMMA EndPassInv == ASSUME Inv, NEW m \in Maintenances, EndPass(m) PROVE Inv'
  <1>1. Goto(m, NextStage(m)) /\ UNCHANGED <<clock, todo, hold, faults, listed>>
    BY DEF EndPass
  <1>2. m \in Procs /\ m \notin Scans /\ StoreOK
    BY MaintenancesAreProcs DEF Inv
  <1>3. StoreOK'
    <2>1. CASE UNCHANGED dbVars
      BY <1>2, <2>1, UnchangedOK
    <2>2. CASE Publish(m, work)
      BY <1>2, <2>2, PublishOK DEF StoreOK
    <2>3. CASE Unpin(m) /\ UNCHANGED <<db, work, writer>>
      BY <1>2, <2>3, ReleaseOK
    <2> QED BY <2>1, <2>2, <2>3 DEF EndPass
  <1>4. /\ run' \in [Procs -> Runs] /\ run'[m].now = run[m].now
        /\ \A q \in Procs \ {m} : run'[q] = run[q]
    BY <1>1, <1>2, GotoRuns DEF Inv, NextStage
  <1>5. LocalsOK' /\ ProcOK(m)'
    BY <1>1, <1>2, <1>4 DEF Inv, LocalsOK, ProcOK
  <1> QED BY <1>1, <1>2, <1>3, <1>4, <1>5, StepOK

LEMMA PassFailsInv ==
  ASSUME Inv, NEW m \in Maintenances, PassFails(m)
  PROVE  /\ Inv' /\ db' = db /\ work' = work /\ writer' = writer
         /\ hold'[m].next = 1 /\ \A q \in Procs \ {m} : hold'[q] = hold[q]
         /\ Timeout(m) \/ snap' = snap
  <1>1. /\ run' = [run EXCEPT ![m].pc = NextStage(m), ![m].clean = FALSE]
        /\ hold' = [hold EXCEPT ![m] = NoHold]
        /\ todo' = [todo EXCEPT ![m] = {}]
        /\ UNCHANGED <<clock, listed>>
    BY DEF PassFails
  <1>2. m \in Procs /\ m \notin Scans /\ StoreOK /\ LocalsOK
    BY MaintenancesAreProcs DEF Inv
  <1>3. /\ StoreOK' /\ db' = db /\ work' = work /\ writer' = writer
        /\ faults' \in 0 .. MaxFaults /\ (Timeout(m) \/ snap' = snap)
    <2>1. CASE Timeout(m)
      BY <1>2, <2>1, TimeoutOK, FaultOK DEF Timeout
    <2>2. CASE Refused(m)
      BY <1>2, <2>2, UnchangedOK DEF Refused, dbVars, LocalsOK
    <2> QED BY <2>1, <2>2 DEF PassFails
  <1>4. NextStage(m) \in {"buys", "prune"}
    BY DEF NextStage
  <1>5. /\ run' \in [Procs -> Runs] /\ run'[m].now = run[m].now
        /\ \A q \in Procs \ {m} : run'[q] = run[q]
    BY <1>1, <1>2, <1>4 DEF LocalsOK, Runs
  <1>6. /\ hold' \in [Procs -> Holds] /\ hold'[m] = NoHold
        /\ \A q \in Procs \ {m} : hold'[q] = hold[q]
    BY <1>1, <1>2, EmptyOK DEF LocalsOK
  <1>7. LocalsOK'
    BY <1>1, <1>2, <1>3, <1>5, <1>6 DEF LocalsOK
  <1>8. ProcOK(m)'
    BY <1>1, <1>2, <1>5, <1>6 DEF Inv, ProcOK, NoHold
  <1>9. Inv'
    BY <1>1, <1>2, <1>3, <1>5, <1>6, <1>7, <1>8, StepOK
  <1> QED BY <1>3, <1>6, <1>9 DEF NoHold

LEMMA PruneInv ==
  ASSUME Inv, NEW m \in Maintenances, Prune(m)
  PROVE  /\ Inv' /\ db' = Pruned(work) /\ work' = db' /\ writer' = Nobody
         /\ writer \in {m, Nobody} /\ UNCHANGED <<clock, hold>>
         /\ \A q \in Procs \ {m} : run'[q] = run[q] /\ snap'[q] = snap[q]
  <1>1. /\ CanWrite(m) /\ Publish(m, Pruned(View(m)))
        /\ run' = [run EXCEPT ![m] = Idle]
        /\ listed' = [listed EXCEPT ![m] = {}]
        /\ UNCHANGED <<clock, todo, hold, faults>>
    BY DEF Prune
  <1>2. m \in Procs /\ m \notin Scans /\ StoreOK /\ LocalsOK
    BY MaintenancesAreProcs DEF Inv
  <1>3. View(m) = work /\ work \in Rows /\ writer \in {m, Nobody}
    BY <1>1, <1>2, ViewIsWork DEF StoreOK
  <1>4. /\ StoreOK' /\ db' = Pruned(work) /\ work' = db' /\ writer' = Nobody
        /\ \A q \in Procs \ {m} : snap'[q] = snap[q]
    BY <1>1, <1>2, <1>3, PrunedOK, PublishOK DEF Publish, Unpin, StoreOK
  <1>5. Idle \in Runs
    BY EmptyOK
  <1>6. LocalsOK' /\ run'[m] = Idle /\ \A q \in Procs \ {m} : run'[q] = run[q]
    BY <1>1, <1>2, <1>5 DEF LocalsOK
  <1>7. ProcOK(m)'
    <2>1. 0 <= clock'
      BY <1>1, <1>2 DEF LocalsOK, Hours
    <2> QED BY <1>1, <1>2, <1>6, <2>1 DEF Inv, ProcOK, Idle
  <1>8. Inv'
    BY <1>1, <1>2, <1>4, <1>6, <1>7, StepOK
  <1> QED BY <1>1, <1>3, <1>4, <1>6, <1>8

LEMMA PruneFailsInv == ASSUME Inv, NEW m \in Maintenances, PruneFails(m) PROVE Inv'
  <1>1. Ends(m) /\ clock' = clock /\ faults' \in 0 .. MaxFaults
    BY FaultOK DEF PruneFails, Inv, LocalsOK
  <1> QED BY <1>1, EndsOK, MaintenancesAreProcs

LEMMA NextInv == ASSUME Inv, [Next]_vars PROVE Inv'
  <1>1. CASE UNCHANGED vars
    BY <1>1, StutterInv
  <1>2. CASE Tick \/ MakeItem
    BY <1>2, TickInv, MakeItemInv
  <1>3. ASSUME NEW s \in Scans,
               StartScan(s) \/ Fetch(s) \/ FetchNothing(s) \/ Persist(s) \/ PersistFails(s)
        PROVE  Inv'
    BY <1>3, StartScanInv, FetchInv, FetchNothingInv, PersistInv, PersistFailsInv
  <1>4. ASSUME NEW m \in Maintenances,
               \/ StartMaintenance(m) \/ ListPending(m) \/ TakeRow(m) \/ Measure(m)
               \/ ReadExisting(m) \/ Save(m) \/ EndPass(m) \/ PassFails(m)
               \/ Prune(m) \/ PruneFails(m)
        PROVE  Inv'
    BY <1>4, StartMaintenanceInv, ListPendingInv, TakeRowInv, MeasureInv, ReadExistingInv,
       SaveInv, EndPassInv, PassFailsInv, PruneInv, PruneFailsInv
  <1>5. ASSUME NEW p \in Procs, Crash(p) PROVE Inv'
    BY <1>5, CrashInv
  <1> QED BY <1>1, <1>2, <1>3, <1>4, <1>5 DEF Next

(* Every step keeps the types, and a scan never leaves a write pending.    *)
THEOREM Invariance == Spec => []Inv
  <1>1. Init => Inv
    BY InitInv
  <1>2. Inv /\ [Next]_vars => Inv'
    BY NextInv
  <1> QED BY <1>1, <1>2, PTL DEF Spec

LEMMA InvTypes == ASSUME Inv PROVE TypeOK
  <1>1. clock \in Hours /\ db \in Rows /\ work \in Rows /\ writer \in Procs \cup {Nobody}
    BY MaintenancesAreProcs DEF Inv, StoreOK, LocalsOK
  <1>2. /\ snap \in [Procs -> Snaps] /\ run \in [Procs -> Runs]
        /\ todo \in [Maintenances -> SUBSET Items] /\ faults \in 0 .. MaxFaults
        /\ listed \in [Maintenances -> SUBSET Hours]
    BY DEF Inv, StoreOK, LocalsOK
  <1>3. ASSUME NEW p \in Procs
        PROVE  /\ hold[p].item \in Items \cup {Nobody}
               /\ hold[p].got \subseteq IF p \in Scans THEN Hours ELSE Metrics
               /\ hold[p].seen \in Evaluation /\ hold[p].next \in 1 .. 6
    BY DEF Inv, LocalsOK, ProcOK, Holds
  <1>4. Len(Metric) + 2 = 6
    BY DEF Metric
  <1> QED BY <1>1, <1>2, <1>3, <1>4, Zenon DEF TypeOK, Snaps, Runs

(* Every value of CandleStore stays in its type, for all parameters.       *)
THEOREM TypeCorrect == Spec => []TypeOK
  BY Invariance, InvTypes, PTL

-----------------------------------------------------------------------------
(* What is left alone, and by whom.                                        *)

LEMMA MaintenanceLeavesScans ==
  ASSUME Inv, NEW m \in Maintenances, NEW s \in Scans,
         \/ StartMaintenance(m) \/ ListPending(m) \/ TakeRow(m) \/ Measure(m)
         \/ ReadExisting(m) \/ Save(m) \/ EndPass(m) \/ PassFails(m)
         \/ Prune(m) \/ PruneFails(m) \/ Crash(m)
  PROVE  run'[s] = run[s] /\ hold'[s] = hold[s] /\ clock' = clock
  <1>1. s # m /\ s \in Procs /\ m \in Procs
    BY ScansAreProcs, MaintenancesAreProcs
  <1>2. run \in [Procs -> Runs] /\ hold \in [Procs -> Holds]
    BY DEF Inv, LocalsOK
  <1>3. CASE StartMaintenance(m) \/ ListPending(m) \/ EndPass(m)
    BY <1>1, <1>2, <1>3 DEF StartMaintenance, ListPending, EndPass, Goto
  <1>4. CASE TakeRow(m) \/ Measure(m) \/ ReadExisting(m) \/ Save(m)
    BY <1>1, <1>2, <1>4, TakeRowInv, MeasureInv, ReadExistingInv, SaveCases
       DEF TakeRow, Measure, ReadExisting
  <1>5. CASE PassFails(m) \/ Prune(m)
    BY <1>1, <1>2, <1>5 DEF PassFails, Prune
  <1>6. CASE PruneFails(m) \/ Crash(m)
    BY <1>1, <1>2, <1>6 DEF PruneFails, Crash, Ends
  <1> QED BY <1>3, <1>4, <1>5, <1>6

(* Only a scan's Persist and a Prune change the candles or the cursor.     *)
SameCandles == db'.candles = db.candles /\ db'.cursor = db.cursor

LEMMA EndsSameCandles == ASSUME Inv, NEW p \in Procs, Ends(p) PROVE SameCandles
  BY DEF Ends, Publish, SameCandles

LEMMA MaintenanceSameCandles ==
  ASSUME Inv, NEW m \in Maintenances,
         \/ StartMaintenance(m) \/ ListPending(m) \/ TakeRow(m) \/ Measure(m)
         \/ ReadExisting(m) \/ Save(m) \/ EndPass(m) \/ PassFails(m)
         \/ PruneFails(m) \/ Crash(m)
  PROVE  SameCandles
  <1>1. m \in Procs /\ StoreOK
    BY MaintenancesAreProcs DEF Inv
  <1>2. CASE StartMaintenance(m) \/ ListPending(m) \/ TakeRow(m) \/ Measure(m) \/ ReadExisting(m)
    BY <1>2 DEF StartMaintenance, ListPending, TakeRow, Measure, ReadExisting, dbVars, SameCandles
  <1>3. CASE Save(m)
    <2>1. \/ UNCHANGED dbVars
          \/ CanWrite(m) /\ Publish(m, SavedRows(m))
          \/ CanWrite(m) /\ Pend(m, SavedRows(m))
      BY <1>3, SaveCases
    <2>2. CASE CanWrite(m) /\ Publish(m, SavedRows(m))
      <3>1. SavedRows(m).candles = work.candles /\ SavedRows(m).cursor = work.cursor
        BY <1>1, <1>3, <2>2, SavedRowsOK, ViewIsWork
      <3> QED BY <1>1, <2>2, <3>1 DEF Publish, StoreOK, SameCandles
    <2> QED BY <2>1, <2>2 DEF dbVars, Pend, SameCandles
  <1>4. CASE EndPass(m)
    BY <1>1, <1>4 DEF EndPass, Publish, dbVars, StoreOK, SameCandles
  <1>5. CASE PassFails(m)
    BY <1>5, PassFailsInv DEF SameCandles
  <1>6. CASE PruneFails(m) \/ Crash(m)
    BY <1>1, <1>6, EndsSameCandles DEF PruneFails, Crash
  <1> QED BY <1>2, <1>3, <1>4, <1>5, <1>6

-----------------------------------------------------------------------------
(* Candles without a hole.                                                 *)

OneScan == \A s, t \in Scans : s = t

Whole(rows) ==
  IF rows.cursor = Unset THEN rows.candles = {}
  ELSE \E a \in Hours : a <= rows.cursor /\ rows.candles = a .. rows.cursor

Joins(s) == \E lo, hi \in Hours :
  /\ lo <= hi /\ hi < clock /\ hold[s].got = lo .. hi
  /\ db.cursor # Unset => lo = db.cursor + 1

JoinsOK == \A s \in Scans : run[s].pc = "store" => Joins(s)

HoleInv == Whole(db) /\ (db.cursor # Unset => db.cursor < clock) /\ JoinsOK

LEMMA HoursAreNats == MaxClock \in Nat /\ Unset \notin Hours /\ \A h \in Hours : h \in Nat /\ h <= MaxClock
  BY CandleAssumption DEF Hours, Unset

LEMMA HoleInvInit == ASSUME Init PROVE HoleInv
  BY DEF Init, HoleInv, Whole, Empty, JoinsOK, Idle, ScansAreProcs, Procs

LEMMA HoleInvHolds == ASSUME Inv, HoleInv PROVE NoHoles
  <1>1. db.cursor \in Hours \cup {Unset} /\ clock \in Nat
    BY RowsFields, HoursAreNats DEF Inv, StoreOK, LocalsOK
  <1>2. CASE db.cursor = Unset
    BY <1>2 DEF HoleInv, Whole, NoHoles
  <1>3. CASE db.cursor # Unset
    <2>1. PICK a \in Hours : a <= db.cursor /\ db.candles = a .. db.cursor
      BY <1>3 DEF HoleInv, Whole
    <2>2. a \in Int /\ db.cursor \in Int /\ db.cursor < clock
      BY <1>1, <1>3, HoursAreNats DEF HoleInv
    <2>3. Min(a .. db.cursor) = a
      BY <2>1, <2>2, IntervalEnds
    <2>4. \A h \in db.candles : h < clock
      BY <1>1, <2>1, <2>2
    <2>5. a \in db.candles
      BY <2>1, <2>2
    <2> QED BY <1>3, <2>1, <2>3, <2>4, <2>5 DEF NoHoles
  <1> QED BY <1>2, <1>3

(* Steps that fetch, store and prune nothing.                              *)
LEMMA HoleInvKept ==
  ASSUME Inv, Inv', HoleInv, SameCandles, clock' \in {clock, clock + 1},
         \A s \in Scans : run'[s].pc = "store" => run[s].pc = "store" /\ hold'[s] = hold[s]
  PROVE  HoleInv'
  <1>1. clock \in Nat /\ (db.cursor # Unset => db.cursor \in Nat)
    BY RowsFields, HoursAreNats DEF Inv, StoreOK, LocalsOK
  <1>2. Whole(db)' /\ (db'.cursor # Unset => db'.cursor < clock')
    BY <1>1 DEF HoleInv, Whole, SameCandles
  <1>3. ASSUME NEW s \in Scans, run'[s].pc = "store" PROVE Joins(s)'
    <2>1. PICK lo, hi \in Hours :
            /\ lo <= hi /\ hi < clock /\ hold[s].got = lo .. hi
            /\ db.cursor # Unset => lo = db.cursor + 1
      BY <1>3 DEF HoleInv, JoinsOK, Joins
    <2>2. hi < clock'
      BY <1>1, <2>1, HoursAreNats
    <2>3. hold'[s] = hold[s]
      BY <1>3
    <2> QED BY <2>1, <2>2, <2>3 DEF Joins, SameCandles
  <1> QED BY <1>2, <1>3 DEF HoleInv, JoinsOK

LEMMA FetchJoins == ASSUME Inv, HoleInv, NEW s \in Scans, Fetch(s) PROVE HoleInv'
  <1> DEFINE klines == GetKlines(db.cursor, clock, run[s].now)
  <1>1. s \in Procs /\ View(s) = db
    BY ScansAreProcs, ScanReads
  <1>2. /\ klines # {} /\ hold' = [hold EXCEPT ![s].got = klines]
        /\ Goto(s, "store") /\ UNCHANGED <<clock, dbVars>>
    BY <1>1 DEF Fetch
  <1>3. /\ db.cursor \in Hours \cup {Unset} /\ clock \in Hours
        /\ run[s].now \in Hours /\ run[s].now <= clock
    BY <1>1, RowsFields DEF Inv, StoreOK, LocalsOK, ProcOK, Runs
  <1>4. PICK lo, hi \in Hours :
          /\ lo <= hi /\ hi < run[s].now /\ klines = lo .. hi
          /\ db.cursor # Unset => lo = db.cursor + 1
    BY <1>2, <1>3, KlinesJoin
  <1> HIDE DEF klines
  <1>5. hold'[s].got = klines /\ \A t \in Scans \ {s} : hold'[t] = hold[t]
    BY <1>1, <1>2, ScansAreProcs DEF Inv, LocalsOK, Holds
  <1>6. \A t \in Scans \ {s} : run'[t] = run[t]
    BY <1>1, <1>2, ScansAreProcs DEF Inv, LocalsOK, Goto
  <1>7. hi < clock
    BY <1>3, <1>4, HoursAreNats
  <1>8. db' = db /\ clock' = clock
    BY <1>2 DEF dbVars
  <1>9. Joins(s)'
    BY <1>4, <1>5, <1>7, <1>8 DEF Joins
  <1>10. ASSUME NEW t \in Scans \ {s}, run'[t].pc = "store" PROVE Joins(t)'
    BY <1>5, <1>6, <1>8, <1>10 DEF HoleInv, JoinsOK, Joins
  <1> QED BY <1>8, <1>9, <1>10 DEF HoleInv, Whole, JoinsOK

LEMMA PersistJoins == ASSUME OneScan, Inv, HoleInv, NEW s \in Scans, Persist(s) PROVE HoleInv'
  <1>1. /\ db'.candles = db.candles \cup hold[s].got /\ db'.cursor = Max(hold[s].got)
        /\ clock' = clock /\ run'[s].pc = "idle"
    BY PersistInv
  <1>2. PICK lo, hi \in Hours :
          /\ lo <= hi /\ hi < clock /\ hold[s].got = lo .. hi
          /\ db.cursor # Unset => lo = db.cursor + 1
    BY DEF Persist, HoleInv, JoinsOK, Joins
  <1>3. lo \in Nat /\ hi \in Nat /\ Max(lo .. hi) = hi
    BY <1>2, HoursAreNats, IntervalEnds
  <1>4. db'.cursor = hi /\ hi # Unset
    BY <1>1, <1>2, <1>3, HoursAreNats
  <1>5. \E a \in Hours : a <= hi /\ db'.candles = a .. hi
    <2>1. CASE db.cursor = Unset
      BY <1>1, <1>2, <2>1 DEF HoleInv, Whole
    <2>2. CASE db.cursor # Unset
      <3>1. PICK a \in Hours : a <= db.cursor /\ db.candles = a .. db.cursor
        BY <2>2 DEF HoleInv, Whole
      <3>2. db.cursor \in Nat /\ a \in Nat
        BY <2>2, <3>1, RowsFields, HoursAreNats DEF Inv, StoreOK
      <3>3. (a .. db.cursor) \cup (db.cursor + 1 .. hi) = a .. hi /\ a <= hi
        BY <1>2, <1>3, <2>2, <3>1, <3>2
      <3> QED BY <1>1, <1>2, <2>2, <3>1, <3>3
    <2> QED BY <2>1, <2>2
  <1>6. JoinsOK'
    BY <1>1 DEF JoinsOK, OneScan
  <1> QED BY <1>1, <1>2, <1>4, <1>5, <1>6 DEF HoleInv, Whole

LEMMA PruneJoins == ASSUME Inv, HoleInv, NEW m \in Maintenances, Prune(m) PROVE HoleInv'
  <1>1. db' = Pruned(work) /\ work \in Rows /\ work.candles = db.candles /\ work.cursor = db.cursor
    BY PruneInv DEF Inv, StoreOK
  <1>2. /\ db'.cursor = db.cursor
        /\ db'.candles = IF MaxCandles = 0 THEN db.candles ELSE Newest(db.candles, MaxCandles)
    BY <1>1, PrunedOK
  <1>3. /\ clock' = clock
        /\ \A s \in Scans : run'[s] = run[s] /\ hold'[s] = hold[s]
    BY MaintenanceLeavesScans, PruneInv
  <1>4. Whole(db)'
    <2>1. CASE db.cursor = Unset
      <3>1. db.candles = {}
        BY <2>1 DEF HoleInv, Whole
      <3>2. Newest({}, MaxCandles) = {}
        BY DEF Newest
      <3> QED BY <1>2, <2>1, <3>1, <3>2 DEF Whole
    <2>2. CASE db.cursor # Unset
      <3>1. PICK a \in Hours : a <= db.cursor /\ db.candles = a .. db.cursor
        BY <2>2 DEF HoleInv, Whole
      <3>2. db.cursor \in Nat /\ a \in Nat /\ db.cursor <= MaxClock /\ MaxCandles \in Nat
        BY <2>2, <3>1, RowsFields, HoursAreNats, CandleAssumption DEF Inv, StoreOK
      <3>3. CASE MaxCandles = 0
        BY <1>2, <2>2, <3>1, <3>3 DEF Whole
      <3>4. CASE MaxCandles # 0
        <4> DEFINE c == db.cursor
        <4>1. Newest(a .. c, MaxCandles) = {h \in a .. c : c - h < MaxCandles}
          BY <3>2, NewestOfInterval
        <4>2. PICK lo \in {a, c - MaxCandles + 1} : a <= lo /\ c - MaxCandles + 1 <= lo
          BY <3>2, LeastIsEither
        <4>3. lo \in Nat /\ lo <= c
          BY <3>1, <3>2, <3>4, <4>2
        <4>4. {h \in a .. c : c - h < MaxCandles} = lo .. c
          BY <3>1, <3>2, <4>2, <4>3
        <4>5. lo \in Hours
          BY <3>2, <4>3, HoursAreNats DEF Hours
        <4> QED BY <1>2, <2>2, <3>1, <3>4, <4>1, <4>3, <4>4, <4>5 DEF Whole
      <3> QED BY <3>3, <3>4
    <2> QED BY <2>1, <2>2
  <1>5. JoinsOK'
    BY <1>2, <1>3 DEF HoleInv, JoinsOK, Joins
  <1> QED BY <1>2, <1>3, <1>4, <1>5 DEF HoleInv

LEMMA ScanEndsKeeps ==
  ASSUME Inv, Inv', HoleInv, NEW s \in Scans, Ends(s), clock' = clock PROVE HoleInv'
  <1>1. SameCandles
    BY EndsSameCandles, ScansAreProcs
  <1>2. \A t \in Scans : run'[t].pc = "store" => run[t].pc = "store" /\ hold'[t] = hold[t]
    BY ScansAreProcs DEF Ends, Inv, LocalsOK, Idle
  <1> QED BY <1>1, <1>2, HoleInvKept

LEMMA HoleInvNext == ASSUME OneScan, Inv, HoleInv, [Next]_vars PROVE HoleInv'
  <1>1. Inv'
    BY NextInv
  <1>2. CASE UNCHANGED vars \/ Tick
    BY <1>1, <1>2, HoleInvKept DEF vars, dbVars, Tick, SameCandles
  <1>3. CASE MakeItem
    BY <1>1, <1>3, MakeItemInv, HoleInvKept DEF MakeItem, SameCandles
  <1>4. ASSUME NEW s \in Scans,
               \/ StartScan(s) \/ Fetch(s) \/ FetchNothing(s) \/ Persist(s)
               \/ PersistFails(s) \/ Crash(s)
        PROVE  HoleInv'
    <2>1. CASE StartScan(s)
      <3>1. SameCandles /\ clock' = clock /\ hold' = hold
        BY <2>1 DEF StartScan, dbVars, SameCandles
      <3>2. \A t \in Scans : run'[t].pc = "store" => run[t].pc = "store"
        BY <2>1, ScansAreProcs DEF StartScan, Inv, LocalsOK, Idle
      <3> QED BY <1>1, <3>1, <3>2, HoleInvKept
    <2>2. CASE Fetch(s)
      BY <2>2, FetchJoins
    <2>3. CASE Persist(s)
      BY <2>3, PersistJoins
    <2>4. CASE FetchNothing(s) \/ PersistFails(s) \/ Crash(s)
      BY <1>1, <2>4, ScanEndsKeeps DEF FetchNothing, PersistFails, Crash
    <2> QED BY <1>4, <2>1, <2>2, <2>3, <2>4
  <1>5. ASSUME NEW m \in Maintenances,
               \/ StartMaintenance(m) \/ ListPending(m) \/ TakeRow(m) \/ Measure(m)
               \/ ReadExisting(m) \/ Save(m) \/ EndPass(m) \/ PassFails(m)
               \/ Prune(m) \/ PruneFails(m) \/ Crash(m)
        PROVE  HoleInv'
    <2>1. CASE Prune(m)
      BY <2>1, PruneJoins
    <2>2. CASE ~Prune(m)
      <3>1. SameCandles
        BY <1>5, <2>2, MaintenanceSameCandles
      <3>2. \A s \in Scans : run'[s] = run[s] /\ hold'[s] = hold[s]
        BY <1>5, MaintenanceLeavesScans
      <3>3. clock' = clock
        BY <1>5 DEF StartMaintenance, ListPending, TakeRow, Measure, ReadExisting, Save,
           EndPass, PassFails, Prune, PruneFails, Crash
      <3> QED BY <1>1, <3>1, <3>2, <3>3, HoleInvKept
    <2> QED BY <2>1, <2>2
  <1> QED BY <1>2, <1>3, <1>4, <1>5 DEF Next, Procs

(* With one scan at a time, whatever a maintenance run does next to it,    *)
(* the stored candles are closed and run without a hole to the cursor      *)
(* (ingestion/market.py), for every limit of a request and of retention.   *)
THEOREM CandlesStayWhole == ASSUME OneScan PROVE Spec => []NoHoles
  <1>1. Init => HoleInv
    BY HoleInvInit
  <1>2. Inv /\ HoleInv /\ [Next]_vars => HoleInv'
    BY HoleInvNext
  <1>3. Inv /\ HoleInv => NoHoles
    BY HoleInvHolds
  <1> QED BY <1>1, <1>2, <1>3, Invariance, PTL DEF Spec

-----------------------------------------------------------------------------
(* Measured metrics.                                                       *)

OneMaintenance == \A m, n \in Maintenances : m = n

Later(old, new) ==
  \A i \in Items : /\ old[i].known \subseteq new[i].known
                   /\ old[i].verdict = "given" => new[i].verdict = "given"

Judged(evals) == \A i \in Items : evals[i].verdict = "given" => "week" \in evals[i].known

(* What a maintenance run reads of the evaluations is what is stored.      *)
Seen(m) ==
  /\ Committed(m).evals = db.evals
  /\ hold[m].next = 6 => hold[m].seen = View(m).evals[hold[m].item]

SeenOK == \A m \in Maintenances : Seen(m)

EvalInv ==
  /\ Later(db.evals, work.evals) /\ Judged(db.evals) /\ Judged(work.evals)
  /\ SeenOK

LEMMA LaterSteps ==
  /\ \A e : Later(e, e)
  /\ \A e, f, g : Later(e, f) /\ Later(f, g) => Later(e, g)
  BY DEF Later

LEMMA EvalInvInit == ASSUME Init PROVE EvalInv
  <1>1. db.evals = [i \in Items |-> NotEvaluated] /\ work.evals = db.evals
    BY DEF Init, Empty
  <1>2. Judged(db.evals) /\ Later(db.evals, work.evals)
    BY <1>1, LaterSteps DEF Judged, NotEvaluated
  <1>3. ASSUME NEW m \in Maintenances PROVE Seen(m)
    BY <1>3, MaintenancesAreProcs DEF Init, Seen, Committed, Live, NoHold
  <1> QED BY <1>1, <1>2, <1>3 DEF EvalInv, SeenOK

(* Merging what was measured into the stored row loses nothing.            *)
LEMMA MergedLater ==
  ASSUME NEW evals \in [Items -> Evaluation], Judged(evals), NEW i \in Items,
         NEW got \in SUBSET Metrics, NEW new,
         new = [evals EXCEPT ![i] = Merged(evals[i], got)]
  PROVE  Later(evals, new) /\ Judged(new)
  <1>1. /\ new[i] = Merged(evals[i], got)
        /\ \A j \in Items : j # i => new[j] = evals[j]
    BY DEF Merged
  <1>2. new[i].known = evals[i].known \cup got
    BY <1>1 DEF Merged
  <1>3. new[i].verdict = IF "week" \in evals[i].known \cup got THEN "given" ELSE "pending"
    BY <1>1 DEF Merged
  <1>4. evals[i].verdict = "given" => new[i].verdict = "given"
    BY <1>3 DEF Judged
  <1>5. new[i].verdict = "given" => "week" \in new[i].known
    BY <1>2, <1>3
  <1> QED BY <1>1, <1>2, <1>4, <1>5 DEF Later, Judged

(* Steps that write no evaluation and leave maintenance its rows.          *)
LEMMA EvalsUntouched ==
  ASSUME EvalInv, db'.evals = db.evals, work'.evals = work.evals,
         \A m \in Maintenances :
           /\ hold'[m] = hold[m]
           /\ Committed(m)'.evals = Committed(m).evals /\ View(m)'.evals = View(m).evals
  PROVE  EvalInv' /\ Later(db.evals, db'.evals)
  <1>1. SeenOK'
    BY DEF EvalInv, SeenOK, Seen
  <1> QED BY <1>1, LaterSteps DEF EvalInv, Judged, Later

LEMMA StoreUntouched ==
  ASSUME EvalInv, UNCHANGED <<dbVars, hold>>
  PROVE  EvalInv' /\ Later(db.evals, db'.evals)
  BY EvalsUntouched DEF dbVars, Committed, View

LEMMA MakeItemKeeps ==
  ASSUME Inv, EvalInv, MakeItem PROVE EvalInv' /\ Later(db.evals, db'.evals)
  <1>1. writer = Nobody /\ work' = db' /\ UNCHANGED <<writer, snap, hold>> /\ db'.evals = db.evals
    BY MakeItemInv DEF MakeItem
  <1>2. work.evals = db.evals
    BY <1>1 DEF Inv, StoreOK
  <1>3. ASSUME NEW m \in Maintenances
        PROVE  Committed(m)'.evals = Committed(m).evals /\ View(m)'.evals = View(m).evals
    BY <1>1, <1>2 DEF Committed, View
  <1> QED BY <1>1, <1>2, <1>3, EvalsUntouched

LEMMA ScanKeeps ==
  ASSUME Inv, EvalInv, NEW s \in Scans,
         \/ StartScan(s) \/ Fetch(s) \/ FetchNothing(s) \/ Persist(s)
         \/ PersistFails(s) \/ Crash(s)
  PROVE  EvalInv' /\ Later(db.evals, db'.evals)
  <1>1. s \in Procs /\ s \notin Maintenances /\ writer # s /\ StoreOK
    BY ScansAreProcs, CandleAssumption DEF Inv, StoreOK
  <1>2. \A m \in Maintenances : m \in Procs \ {s} /\ m # Nobody
    BY <1>1, MaintenancesAreProcs, CandleAssumption
  <1>3. CASE StartScan(s)
    BY <1>3, StoreUntouched DEF StartScan
  <1>4. CASE Fetch(s)
    <2>1. UNCHANGED dbVars /\ \A m \in Maintenances : hold'[m] = hold[m]
      BY <1>2, <1>4 DEF Fetch, Inv, LocalsOK
    <2> QED BY <2>1, EvalsUntouched DEF dbVars, Committed, View
  <1>5. CASE Persist(s)
    <2>1. /\ db'.evals = db.evals /\ work' = db' /\ writer' = Nobody /\ writer = Nobody
          /\ \A m \in Maintenances : hold'[m] = hold[m] /\ snap'[m] = snap[m]
      BY <1>2, <1>5, PersistInv
    <2>2. work = db
      BY <1>1, <2>1 DEF StoreOK
    <2>3. ASSUME NEW m \in Maintenances
          PROVE  Committed(m)'.evals = Committed(m).evals /\ View(m)'.evals = View(m).evals
      BY <1>2, <2>1, <2>2 DEF Committed, View
    <2> QED BY <2>1, <2>2, <2>3, EvalsUntouched
  <1>6. CASE FetchNothing(s) \/ PersistFails(s) \/ Crash(s)
    <2>1. Ends(s)
      BY <1>6 DEF FetchNothing, PersistFails, Crash
    <2>2. /\ UNCHANGED <<db, work, writer>>
          /\ \A m \in Maintenances : hold'[m] = hold[m] /\ snap'[m] = snap[m]
      BY <1>1, <1>2, <2>1 DEF Ends, Unpin, Inv, LocalsOK, StoreOK
    <2> QED BY <2>2, EvalsUntouched DEF Committed, View
  <1> QED BY <1>3, <1>4, <1>5, <1>6

(* With one maintenance run, what it reads is all there is to show.        *)
LEMMA OneReads ==
  ASSUME OneMaintenance, NEW m \in Maintenances,
         Later(db.evals, db'.evals), Later(db'.evals, work'.evals),
         Judged(db.evals)', Judged(work.evals)', Seen(m)'
  PROVE  EvalInv' /\ Later(db.evals, db'.evals)
  <1>1. ASSUME NEW n \in Maintenances PROVE Seen(n)'
    BY <1>1 DEF OneMaintenance
  <1> QED BY <1>1 DEF EvalInv, SeenOK

(* A write, committed or left pending.                                     *)
LEMMA WroteRows ==
  ASSUME OneMaintenance, Inv, EvalInv, NEW m \in Maintenances,
         db' \in {db, work'}, writer' = m \/ db' = work', Unpin(m),
         Later(work.evals, work'.evals), Judged(work'.evals),
         hold'[m].next # 6 \/ (hold'[m] = hold[m] /\ work'.evals = View(m).evals)
  PROVE  EvalInv' /\ Later(db.evals, db'.evals)
  <1>1. ~snap'[m].pinned
    BY MaintenancesAreProcs DEF Unpin, Live, Inv, StoreOK
  <1>2. Committed(m)' = db' /\ View(m)' = work'
    BY <1>1 DEF Committed, View
  <1>3. Later(db.evals, work'.evals) /\ Judged(db.evals)
    BY LaterSteps DEF EvalInv
  <1>4. Later(db.evals, db'.evals) /\ Later(db'.evals, work'.evals)
    BY <1>3, LaterSteps
  <1>5. Judged(db.evals)' /\ Judged(work.evals)'
    BY <1>3 DEF Judged
  <1>6. hold'[m].next = 6 => hold'[m].seen = work'.evals[hold'[m].item]
    BY DEF EvalInv, SeenOK, Seen
  <1>7. Seen(m)'
    BY <1>2, <1>6 DEF Seen
  <1> QED BY <1>4, <1>5, <1>7, OneReads

(* A step that writes nothing.                                             *)
LEMMA WroteNothing ==
  ASSUME OneMaintenance, EvalInv, NEW m \in Maintenances,
         UNCHANGED <<db, work, writer>>, Committed(m)'.evals = db.evals,
         hold'[m].next = 6 => hold'[m].seen = View(m)'.evals[hold'[m].item]
  PROVE  EvalInv' /\ Later(db.evals, db'.evals)
  <1>1. Later(db.evals, db'.evals) /\ Later(db'.evals, work'.evals)
    BY LaterSteps DEF EvalInv
  <1>2. Judged(db.evals)' /\ Judged(work.evals)'
    BY DEF EvalInv, Judged
  <1>3. Seen(m)'
    BY DEF Seen
  <1> QED BY <1>1, <1>2, <1>3, OneReads

LEMMA SaveKeeps ==
  ASSUME OneMaintenance, Inv, EvalInv, NEW m \in Maintenances, Save(m)
  PROVE  EvalInv' /\ Later(db.evals, db'.evals)
  <1>1. m \in Procs /\ StoreOK /\ hold' = [hold EXCEPT ![m] = NoHold]
    BY MaintenancesAreProcs, SaveCases DEF Inv
  <1>2. hold'[m].next # 6
    BY <1>1 DEF Inv, LocalsOK, NoHold
  <1>3. CASE UNCHANGED dbVars
    <2>1. UNCHANGED <<db, work, writer>> /\ Committed(m)' = Committed(m)
      BY <1>3 DEF dbVars, Committed
    <2> QED BY <1>2, <2>1, WroteNothing DEF EvalInv, SeenOK, Seen
  <1>4. CASE CanWrite(m) /\ (Publish(m, SavedRows(m)) \/ Pend(m, SavedRows(m)))
    <2>1. View(m) = work
      BY <1>1, <1>4, ViewIsWork
    <2>2. hold[m].next = 6 /\ hold[m].item \in Items /\ hold[m].got \in SUBSET Metrics
      BY SavedRowsOK, HandFields
    <2>3. hold[m].seen = work.evals[hold[m].item]
      BY <2>1, <2>2 DEF EvalInv, SeenOK, Seen
    <2>4. SavedRows(m).evals =
            [work.evals EXCEPT ![hold[m].item] = Merged(work.evals[hold[m].item], hold[m].got)]
      BY <2>1, <2>3, SavedRowsOK, Zenon
    <2>5. PICK evals : evals = work.evals
      OBVIOUS
    <2>6. evals \in [Items -> Evaluation] /\ Judged(evals)
      BY <1>1, <2>5, RowsFields DEF StoreOK, EvalInv
    <2>7. PICK i, got : i = hold[m].item /\ got = hold[m].got
      OBVIOUS
    <2>8. PICK new : new = SavedRows(m).evals
      OBVIOUS
    <2>9. new = [evals EXCEPT ![i] = Merged(evals[i], got)]
      BY <2>4, <2>5, <2>7, <2>8, Zenon
    <2>10. i \in Items /\ got \in SUBSET Metrics
      BY <2>2, <2>7
    <2>11. Later(evals, new) /\ Judged(new)
      BY <2>6, <2>9, <2>10, MergedLater
    <2>12. Later(work.evals, SavedRows(m).evals) /\ Judged(SavedRows(m).evals)
      BY <2>5, <2>8, <2>11, Zenon
    <2>13. /\ work' = SavedRows(m) /\ db' \in {db, work'}
           /\ (writer' = m \/ db' = work') /\ Unpin(m)
      BY <1>4 DEF Publish, Pend
    <2> QED BY <1>2, <2>12, <2>13, WroteRows
  <1> QED BY <1>3, <1>4, SaveCases

LEMMA EndsKeeps ==
  ASSUME OneMaintenance, Inv, EvalInv, NEW m \in Maintenances, Ends(m)
  PROVE  EvalInv' /\ Later(db.evals, db'.evals)
  <1>1. m \in Procs /\ hold'[m].next # 6
    BY MaintenancesAreProcs DEF Ends, NoHold, Inv, LocalsOK
  <1>2. CASE writer = m
    <2>1. /\ db' = db /\ work' = db /\ writer' = Nobody /\ ~snap'[m].pinned
      BY <1>1, <1>2 DEF Ends, Publish, Unpin, Live, Inv, StoreOK
    <2>2. Judged(db.evals)' /\ Judged(work.evals)'
      BY <2>1 DEF EvalInv, Judged
    <2>3. Seen(m)'
      BY <1>1, <2>1 DEF Seen, Committed
    <2> QED BY <2>1, <2>2, <2>3, LaterSteps, OneReads
  <1>3. CASE writer # m
    <2>1. UNCHANGED <<db, work, writer>> /\ ~snap'[m].pinned
      BY <1>1, <1>3 DEF Ends, Unpin, Live, Inv, StoreOK
    <2>2. Committed(m)' = db
      BY <2>1 DEF Committed
    <2> QED BY <1>1, <2>1, <2>2, WroteNothing
  <1> QED BY <1>2, <1>3

LEMMA HandKeeps ==
  ASSUME OneMaintenance, Inv, EvalInv, NEW m \in Maintenances,
         TakeRow(m) \/ Measure(m) \/ ReadExisting(m)
  PROVE  EvalInv' /\ Later(db.evals, db'.evals)
  <1>1. UNCHANGED dbVars
    BY DEF TakeRow, Measure, ReadExisting
  <1>2. /\ UNCHANGED <<db, work, writer>>
        /\ Committed(m)' = Committed(m) /\ View(m)' = View(m)
    BY <1>1 DEF dbVars, Committed, View
  <1>3. hold'[m].next = 6 => hold'[m].seen = View(m).evals[hold'[m].item]
    BY TakeRowInv, MeasureInv, ReadExistingInv
  <1>4. Committed(m).evals = db.evals
    BY DEF EvalInv, SeenOK, Seen
  <1> QED BY <1>2, <1>3, <1>4, WroteNothing

LEMMA EndPassKeeps ==
  ASSUME OneMaintenance, Inv, EvalInv, NEW m \in Maintenances, EndPass(m)
  PROVE  EvalInv' /\ Later(db.evals, db'.evals)
  <1>1. m \in Procs /\ hold' = hold /\ hold[m].next # 6
    BY MaintenancesAreProcs DEF EndPass, NoHold
  <1>2. CASE UNCHANGED dbVars
    BY <1>1, <1>2, StoreUntouched
  <1>3. CASE Publish(m, work)
    <2>1. hold'[m].next # 6 /\ Later(work.evals, work.evals) /\ Judged(work.evals)
      BY <1>1, LaterSteps DEF EvalInv
    <2>2. work' = work /\ db' = work' /\ Unpin(m)
      BY <1>3 DEF Publish
    <2> QED BY <2>1, <2>2, WroteRows
  <1>4. CASE Unpin(m) /\ UNCHANGED <<db, work, writer>>
    <2>1. ~snap'[m].pinned
      BY <1>1, <1>4 DEF Unpin, Live, Inv, StoreOK
    <2>2. Committed(m)' = db
      BY <1>4, <2>1 DEF Committed
    <2> QED BY <1>1, <1>4, <2>2, WroteNothing
  <1> QED BY <1>2, <1>3, <1>4 DEF EndPass

LEMMA PassFailsKeeps ==
  ASSUME OneMaintenance, Inv, EvalInv, NEW m \in Maintenances, PassFails(m)
  PROVE  EvalInv' /\ Later(db.evals, db'.evals)
  <1>1. /\ UNCHANGED <<db, work, writer>> /\ hold'[m].next = 1
        /\ Timeout(m) \/ snap' = snap
    BY PassFailsInv
  <1>2. m \in Procs /\ Committed(m).evals = db.evals
    BY MaintenancesAreProcs DEF EvalInv, SeenOK, Seen
  <1>3. Committed(m)'.evals = db.evals
    <2>1. CASE Timeout(m)
      <3>1. snap'[m] = Pinned(Committed(m))
        BY <1>2, <2>1 DEF Timeout, Inv, StoreOK
      <3> QED BY <1>2, <3>1 DEF Committed, Pinned
    <2>2. CASE snap' = snap
      BY <1>1, <1>2, <2>2 DEF Committed
    <2> QED BY <1>1, <2>1, <2>2
  <1> QED BY <1>1, <1>3, WroteNothing

LEMMA PruneKeeps ==
  ASSUME OneMaintenance, Inv, EvalInv, NEW m \in Maintenances, Prune(m)
  PROVE  EvalInv' /\ Later(db.evals, db'.evals)
  <1>1. /\ m \in Procs /\ CanWrite(m) /\ Publish(m, Pruned(View(m))) /\ hold' = hold
        /\ work \in Rows
    BY MaintenancesAreProcs DEF Prune, Inv, StoreOK
  <1>2. View(m) = work
    BY <1>1, ViewIsWork DEF Inv
  <1>3. Pruned(View(m)).evals = work.evals
    BY <1>1, <1>2, PrunedOK
  <1>4. work' = Pruned(View(m)) /\ db' = work' /\ Unpin(m)
    BY <1>1 DEF Publish
  <1>5. Later(work.evals, work'.evals) /\ Judged(work'.evals)
    BY <1>3, <1>4, LaterSteps DEF EvalInv
  <1> QED BY <1>1, <1>2, <1>3, <1>4, <1>5, WroteRows

LEMMA EvalInvNext ==
  ASSUME OneMaintenance, Inv, EvalInv, [Next]_vars
  PROVE  EvalInv' /\ Later(db.evals, db'.evals)
  <1>1. CASE UNCHANGED vars \/ Tick
    BY <1>1, StoreUntouched DEF vars, Tick
  <1>2. CASE MakeItem
    BY <1>2, MakeItemKeeps
  <1>3. ASSUME NEW s \in Scans,
               \/ StartScan(s) \/ Fetch(s) \/ FetchNothing(s) \/ Persist(s)
               \/ PersistFails(s) \/ Crash(s)
        PROVE  EvalInv' /\ Later(db.evals, db'.evals)
    BY <1>3, ScanKeeps
  <1>4. ASSUME NEW m \in Maintenances,
               \/ StartMaintenance(m) \/ ListPending(m) \/ TakeRow(m) \/ Measure(m)
               \/ ReadExisting(m) \/ Save(m) \/ EndPass(m) \/ PassFails(m)
               \/ Prune(m) \/ PruneFails(m) \/ Crash(m)
        PROVE  EvalInv' /\ Later(db.evals, db'.evals)
    <2>1. CASE StartMaintenance(m) \/ ListPending(m)
      BY <2>1, StoreUntouched DEF StartMaintenance, ListPending
    <2>2. CASE TakeRow(m) \/ Measure(m) \/ ReadExisting(m)
      BY <2>2, HandKeeps
    <2>3. CASE Save(m) \/ EndPass(m) \/ PassFails(m) \/ Prune(m)
      BY <2>3, SaveKeeps, EndPassKeeps, PassFailsKeeps, PruneKeeps
    <2>4. CASE PruneFails(m) \/ Crash(m)
      BY <2>4, EndsKeeps DEF PruneFails, Crash
    <2> QED BY <1>4, <2>1, <2>2, <2>3, <2>4
  <1> QED BY <1>1, <1>2, <1>3, <1>4 DEF Next, Procs

(* With one maintenance run at a time, whatever scans, timeouts and        *)
(* crashes come between its reads and its writes, no step unsets a         *)
(* measured metric or a verdict (evaluation/persistence.py).               *)
THEOREM MeasuredIsKept == ASSUME OneMaintenance PROVE Spec => MeasuredStays
  <1>1. Init => EvalInv
    BY EvalInvInit
  <1>2. Inv /\ EvalInv /\ [Next]_vars => EvalInv'
    BY EvalInvNext
  <1>3. Inv /\ EvalInv /\ [Next]_vars =>
          [\A i \in Items :
             /\ db.evals[i].known \subseteq db'.evals[i].known
             /\ db.evals[i].verdict = "given" => db'.evals[i].verdict = "given"]_vars
    BY EvalInvNext DEF Later
  <1> QED BY <1>1, <1>2, <1>3, Invariance, PTL DEF Spec, MeasuredStays

-----------------------------------------------------------------------------
(* Retention waits for evaluation.                                         *)

(* A maintenance run has rows in hand only while a pass is under way.      *)
Rested(m) ==
  /\ ~Evaluating(m) => todo[m] = {} /\ hold[m] = NoHold
  /\ run[m].pc = "signal" => todo[m] \subseteq Signals /\ hold[m].item \notin Buys
  /\ run[m].pc = "idle" => ~snap[m].pinned
  /\ writer = m => run[m].pc = "buy"

(* The rows whose pass has begun, and of these the ones still to be saved. *)
Begun(m) ==
  CASE run[m].pc \in {"signal", "buys"} -> Signals
    [] run[m].pc \in {"buy", "prune"} -> Items
    [] OTHER -> {}
Queued(m, i) == i \in todo[m] \/ hold[m].item = i

(* Rows past their window, and the metrics that can be measured when the   *)
(* run begins to evaluate.                                                 *)
Overdue(m, i) == db.made[i] # Unset /\ db.made[i] + Month < run[m].now
Owed(m, i) == {metric \in Metrics : Needs(i, db.made[i], metric) \subseteq listed[m]}

(* A run without a failed write keeps up: each overdue row of the passes   *)
(* begun waits its turn, is in hand with what was measured so far, or has  *)
(* all it was owed on record.                                              *)
OnCourse(m) ==
  /\ ~snap[m].pinned
  /\ run[m].pc \in {"signal", "buys", "buy", "prune"} => listed[m] \subseteq db.candles
  /\ \A i \in Begun(m) : Overdue(m, i) =>
       IF hold[m].item = i
       THEN \A k \in 1 .. 4 : k < hold[m].next /\ Metric[k] \in Owed(m, i) => Metric[k] \in hold[m].got
       ELSE i \in todo[m] \/ Owed(m, i) \subseteq View(m).evals[i].known

Working(m) == Rested(m) /\ (run[m].clean => OnCourse(m))

(* Only closed candles are stored, and no process outlasts its limit.      *)
Timely ==
  /\ work.made = db.made
  /\ \A h \in db.candles : h < clock
  /\ \A s \in Scans : run[s].pc = "store" => \A h \in hold[s].got : h < clock
  /\ \A p \in Procs : run[p].pc # "idle" => clock <= run[p].now + RunLimit

WaitInv == Timely /\ \A m \in Maintenances : Working(m)

LEMMA NobodyIsNoRow == Nobody \notin Items
  BY CandleAssumption DEF Items

(* What a metric is measured on lies within a window of the row's hour.    *)
LEMMA NeedsAreNear ==
  ASSUME NEW i \in Items, NEW t \in Nat, NEW metric \in Metrics, NEW h \in Needs(i, t, metric)
  PROVE  h \in Int /\ t - Day < h /\ h <= t + Month
  <1>1. /\ Day \in Nat /\ Week \in Nat /\ Month \in Nat /\ Day > 0 /\ Week > 0 /\ Month > 0
        /\ Day <= Month /\ Week <= Month
    BY CandleAssumption
  <1>2. t % Day \in 0 .. Day - 1
    BY <1>1
  <1>3. CASE metric = "day"
    <2>1. CASE i \in Signals
      BY <1>1, <1>3, <2>1 DEF Needs, AtHorizon
    <2>2. CASE i \notin Signals
      <3> DEFINE start == t - (t % Day)
      <3>1. h \in start .. start + Day - 1
        BY <1>3, <2>2 DEF Needs
      <3>2. start \in Int /\ t - Day < start /\ start <= t
        BY <1>1, <1>2
      <3> HIDE DEF start
      <3> QED BY <1>1, <3>1, <3>2
    <2> QED BY <2>1, <2>2
  <1>4. CASE metric = "week"
    BY <1>1, <1>4 DEF Needs, AtHorizon
  <1>5. CASE metric = "month"
    BY <1>1, <1>5 DEF Needs, AtHorizon
  <1>6. CASE metric = "excursion"
    BY <1>1, <1>6 DEF Needs
  <1> QED BY <1>3, <1>4, <1>5, <1>6 DEF Metrics

(* What a run that is on course and not stuck on a snapshot reads.         *)
LEMMA Sees ==
  ASSUME Inv, Timely, NEW m \in Maintenances, ~snap[m].pinned
  PROVE  /\ View(m) = IF writer = m THEN work ELSE db
         /\ View(m).made = db.made /\ View(m).candles = db.candles
         /\ View(m).evals \in [Items -> Evaluation]
         /\ db.made \in [Items -> Hours \cup {Unset}]
  <1>1. View(m) = IF writer = m THEN work ELSE db
    BY DEF View, Committed
  <1>2. View(m).evals \in [Items -> Evaluation]
    BY MaintenancesAreProcs, ViewIsRows, RowsFields DEF Inv
  <1>3. db.made \in [Items -> Hours \cup {Unset}]
    BY RowsFields DEF Inv, StoreOK
  <1> QED BY <1>1, <1>2, <1>3 DEF Inv, StoreOK, Timely

(* A maintenance run stays on course while others add candles and rows.    *)
LEMMA OthersWork ==
  ASSUME Inv, Timely, NEW m \in Maintenances, Working(m),
         run'[m] = run[m], todo'[m] = todo[m], hold'[m] = hold[m], listed'[m] = listed[m],
         snap'[m] = snap[m], writer' = m <=> writer = m,
         ~snap[m].pinned => View(m)'.evals = View(m).evals,
         db.candles \subseteq db'.candles,
         \A i \in Items : \/ db'.made[i] = db.made[i]
                          \/ db'.made[i] \in Nat /\ run[m].now <= db'.made[i]
  PROVE  Working(m)'
  <1>1. Rested(m)'
    BY DEF Working, Rested, Evaluating
  <1>2. Begun(m)' = Begun(m) /\ Begun(m) \subseteq Items
    BY DEF Begun, Items
  <1>3. run[m].now \in Nat /\ Month \in Nat /\ Month > 0
    BY MaintenancesAreProcs, CandleAssumption DEF Inv, LocalsOK, Runs, Hours
  <1>4. ASSUME NEW i \in Items, Overdue(m, i)'
        PROVE  Overdue(m, i) /\ Owed(m, i)' = Owed(m, i)
    <2>1. db'.made[i] = db.made[i]
      <3>1. CASE db'.made[i] \in Nat /\ run[m].now <= db'.made[i]
        BY <1>3, <1>4, <3>1 DEF Overdue
      <3> QED BY <3>1
    <2> QED BY <1>4, <2>1 DEF Overdue, Owed
  <1>5. ASSUME run'[m].clean PROVE OnCourse(m)'
    <2>1. OnCourse(m)
      BY <1>5 DEF Working
    <2>2. ~snap'[m].pinned /\ View(m)'.evals = View(m).evals
      BY <2>1 DEF OnCourse
    <2>3. run'[m].pc \in {"signal", "buys", "buy", "prune"} => listed'[m] \subseteq db'.candles
      BY <2>1 DEF OnCourse
    <2>4. ASSUME NEW i \in Begun(m)', Overdue(m, i)'
          PROVE  IF hold'[m].item = i
                 THEN \A k \in 1 .. 4 : k < hold'[m].next /\ Metric[k] \in Owed(m, i)' => Metric[k] \in hold'[m].got
                 ELSE i \in todo'[m] \/ Owed(m, i)' \subseteq View(m)'.evals[i].known
      <3>1. i \in Begun(m) /\ Overdue(m, i) /\ Owed(m, i)' = Owed(m, i)
        BY <1>2, <1>4, <2>4
      <3> QED BY <2>1, <2>2, <3>1 DEF OnCourse
    <2> QED BY <2>2, <2>3, <2>4 DEF OnCourse
  <1> QED BY <1>1, <1>5 DEF Working

LEMMA StartWorks ==
  ASSUME Inv, NEW m \in Maintenances, Working(m), StartMaintenance(m) PROVE Working(m)'
  <1>1. run' = [run EXCEPT ![m] = [Idle EXCEPT !.pc = "signals", !.now = clock]]
        /\ run[m].pc = "idle" /\ UNCHANGED <<dbVars, todo, hold, listed>>
    BY DEF StartMaintenance
  <1>2. run'[m].pc = "signals"
    BY <1>1, MaintenancesAreProcs DEF Inv, LocalsOK, Idle
  <1>3. Rested(m)'
    BY <1>1, <1>2 DEF Working, Rested, Evaluating, dbVars
  <1>4. Begun(m)' = {}
    BY <1>2 DEF Begun
  <1>5. OnCourse(m)'
    BY <1>1, <1>2, <1>4 DEF Working, Rested, OnCourse, dbVars
  <1> QED BY <1>3, <1>5 DEF Working

LEMMA EndsWorks ==
  ASSUME Inv, NEW m \in Maintenances, Ends(m) PROVE Working(m)'
  <1>1. /\ run' = [run EXCEPT ![m] = Idle]
        /\ hold' = [hold EXCEPT ![m] = NoHold]
        /\ todo' = [n \in Maintenances |-> IF n = m THEN {} ELSE todo[n]]
        /\ Unpin(m) /\ writer' # m
    BY CandleAssumption DEF Ends, Publish
  <1>2. run'[m].pc = "idle" /\ hold'[m] = NoHold /\ todo'[m] = {} /\ ~snap'[m].pinned
    BY <1>1, MaintenancesAreProcs DEF Inv, LocalsOK, StoreOK, Idle, Unpin, Live
  <1>3. Rested(m)'
    BY <1>1, <1>2 DEF Rested, Evaluating
  <1>4. Begun(m)' = {}
    BY <1>2 DEF Begun
  <1> QED BY <1>2, <1>3, <1>4 DEF Working, OnCourse

LEMMA PruneWorks ==
  ASSUME Inv, NEW m \in Maintenances, Working(m), Prune(m) PROVE Working(m)'
  <1>1. /\ run' = [run EXCEPT ![m] = Idle] /\ run[m].pc = "prune"
        /\ UNCHANGED <<todo, hold>> /\ Unpin(m) /\ writer' = Nobody
    BY DEF Prune, Publish
  <1>2. run'[m].pc = "idle" /\ ~snap'[m].pinned /\ writer' # m
    BY <1>1, MaintenancesAreProcs, CandleAssumption DEF Inv, LocalsOK, StoreOK, Idle, Unpin, Live
  <1>3. Rested(m)'
    BY <1>1, <1>2 DEF Working, Rested, Evaluating
  <1>4. Begun(m)' = {}
    BY <1>2 DEF Begun
  <1> QED BY <1>2, <1>3, <1>4 DEF Working, OnCourse

LEMMA PassFailsWorks ==
  ASSUME Inv, NEW m \in Maintenances, Working(m), PassFails(m) PROVE Working(m)'
  <1>1. /\ run' = [run EXCEPT ![m].pc = NextStage(m), ![m].clean = FALSE]
        /\ hold' = [hold EXCEPT ![m] = NoHold]
        /\ todo' = [todo EXCEPT ![m] = {}]
    BY DEF PassFails
  <1>2. NextStage(m) \in {"buys", "prune"}
    BY DEF NextStage
  <1>3. /\ run'[m].pc \in {"buys", "prune"} /\ ~run'[m].clean
        /\ hold'[m] = NoHold /\ todo'[m] = {}
    BY <1>1, <1>2, MaintenancesAreProcs DEF Inv, LocalsOK, Runs
  <1>4. writer' # m
    BY PassFailsInv DEF PassFails, Timeout, Refused, CanWrite
  <1>5. Rested(m)'
    BY <1>3, <1>4 DEF Rested, Evaluating
  <1> QED BY <1>3, <1>5 DEF Working

(* A row is listed unless it has all its metrics, and then it owes none.   *)
LEMMA ListPendingWorks ==
  ASSUME Inv, Timely, NEW m \in Maintenances, Working(m), ListPending(m) PROVE Working(m)'
  <1> DEFINE pc == IF run[m].pc = "signals" THEN "signal" ELSE "buy"
  <1>1. PICK mature \in Matured(View(m), run[m].now) :
          todo' = [todo EXCEPT ![m] = {i \in Pass(m) \cap mature : Pending(View(m), i)}]
    BY DEF ListPending
  <1>2. /\ run[m].pc \in {"signals", "buys"} /\ Goto(m, pc)
        /\ listed' = [listed EXCEPT ![m] = IF run[m].pc = "signals" THEN View(m).candles ELSE @]
        /\ UNCHANGED <<dbVars, hold>>
    BY DEF ListPending
  <1>3. /\ run'[m].pc = pc /\ run'[m].now = run[m].now /\ run'[m].clean = run[m].clean
        /\ todo'[m] = {i \in Pass(m) \cap mature : Pending(View(m), i)}
        /\ listed'[m] = IF run[m].pc = "signals" THEN View(m).candles ELSE listed[m]
        /\ hold[m] = NoHold /\ writer # m
    BY <1>1, <1>2, MaintenancesAreProcs DEF Inv, LocalsOK, Runs, Goto, Working, Rested, Evaluating
  <1>4. Rested(m)'
    BY <1>2, <1>3, NobodyIsNoRow DEF Rested, Evaluating, NoHold, Pass, Items, dbVars
  <1>5. ASSUME run'[m].clean PROVE OnCourse(m)'
    <2>1. OnCourse(m) /\ ~snap[m].pinned /\ run[m].clean
      BY <1>3, <1>5 DEF Working, OnCourse
    <2>2. /\ View(m).made = db.made /\ View(m).candles = db.candles
          /\ View(m).evals \in [Items -> Evaluation]
          /\ db.made \in [Items -> Hours \cup {Unset}]
      BY <2>1, Sees
    <2>3. View(m)' = View(m) /\ UNCHANGED dbVars
      BY <1>2 DEF View, Committed, dbVars
    <2>4. listed'[m] \subseteq db'.candles /\ ~snap'[m].pinned
      BY <1>2, <1>3, <2>1, <2>2, <2>3 DEF OnCourse, dbVars
    <2>5. ASSUME NEW i \in Begun(m)', Overdue(m, i)'
          PROVE  i \in todo'[m] \/ Owed(m, i)' \subseteq View(m)'.evals[i].known
      <3>1. i \in Items /\ Overdue(m, i)
        BY <1>3, <2>3, <2>5 DEF Begun, Items, Overdue, dbVars
      <3>2. CASE i \in Pass(m)
        <4>1. i \in mature
          <5>1. db.made[i] # Unset /\ db.made[i] + Month < run[m].now
            BY <3>1 DEF Overdue
          <5>2. /\ db.made[i] \in Int /\ Month \in Int /\ run[m].now \in Int
            BY <2>2, <3>1, <5>1, MaintenancesAreProcs, CandleAssumption DEF Inv, LocalsOK, Runs, Hours
          <5>3. run[m].now > db.made[i] + Month
            BY <5>1, <5>2
          <5> QED BY <2>2, <3>1, <5>1, <5>3 DEF Matured
        <4>2. CASE Pending(View(m), i)
          BY <1>3, <3>2, <4>1, <4>2
        <4>3. CASE ~Pending(View(m), i)
          <5>1. View(m).evals[i].known = Metrics
            BY <4>3 DEF Pending
          <5> QED BY <2>3, <5>1 DEF Owed
        <4> QED BY <4>2, <4>3
      <3>3. CASE i \notin Pass(m)
        <4>1. run[m].pc = "buys" /\ i \in Begun(m)
          BY <1>2, <1>3, <2>5, <3>3 DEF Begun, Pass, Items
        <4>2. hold[m].item # i /\ i \notin todo[m]
          BY <1>2, <1>3, <3>1, <4>1, NobodyIsNoRow DEF Working, Rested, Evaluating, NoHold
        <4>3. Owed(m, i) \subseteq View(m).evals[i].known
          BY <2>1, <3>1, <4>1, <4>2 DEF OnCourse
        <4>4. Owed(m, i)' = Owed(m, i)
          BY <1>3, <2>3, <4>1 DEF Owed, dbVars
        <4> QED BY <2>3, <4>3, <4>4
      <3> QED BY <3>2, <3>3
    <2>6. \A i \in Begun(m)' : hold'[m].item # i
      BY <1>2, <1>3, NobodyIsNoRow DEF NoHold, Begun, Items
    <2> QED BY <2>4, <2>5, <2>6 DEF OnCourse
  <1> QED BY <1>4, <1>5 DEF Working

LEMMA TakeRowWorks ==
  ASSUME Inv, Timely, NEW m \in Maintenances, Working(m), TakeRow(m) PROVE Working(m)'
  <1>1. PICK i \in todo[m] :
          /\ todo' = [todo EXCEPT ![m] = @ \ {i}]
          /\ hold' = IF i \in Signals /\ ~Pending(View(m), i) THEN hold
                     ELSE [hold EXCEPT ![m].item = i]
    BY DEF TakeRow
  <1>2. /\ hold[m] = NoHold /\ run[m].pc \in {"signal", "buy"}
        /\ UNCHANGED <<dbVars, run, listed>>
    BY DEF TakeRow, Evaluating
  <1>3. todo'[m] = todo[m] \ {i} /\ i \in Items
    BY <1>1 DEF Inv, LocalsOK
  <1>4. hold'[m].next = 1 /\ (hold'[m] = NoHold \/ hold'[m].item = i)
    BY <1>1, <1>2, MaintenancesAreProcs DEF Inv, LocalsOK, Holds, NoHold
  <1>5. Rested(m)'
    <2>1. run[m].pc = "signal" => todo'[m] \subseteq Signals /\ hold'[m].item \notin Buys
      BY <1>2, <1>3, <1>4, CandleAssumption DEF Working, Rested, NoHold
    <2> QED BY <1>2, <2>1 DEF Working, Rested, Evaluating, dbVars
  <1>6. ASSUME run'[m].clean PROVE OnCourse(m)'
    <2>1. OnCourse(m) /\ View(m)' = View(m) /\ UNCHANGED dbVars
      BY <1>2, <1>6 DEF Working, View, Committed, dbVars
    <2>2. ASSUME NEW j \in Begun(m)', Overdue(m, j)', hold'[m].item # j
          PROVE  j \in todo'[m] \/ Owed(m, j)' \subseteq View(m)'.evals[j].known
      <3>1. j \in Begun(m) /\ j \in Items /\ Overdue(m, j) /\ Owed(m, j)' = Owed(m, j)
        BY <1>2, <2>1, <2>2 DEF Begun, Items, Overdue, Owed, dbVars
      <3>2. hold[m].item # j
        BY <1>2, <3>1, NobodyIsNoRow DEF NoHold
      <3>3. j \in todo[m] \/ Owed(m, j) \subseteq View(m).evals[j].known
        BY <2>1, <3>1, <3>2 DEF OnCourse
      <3>4. CASE j = i
        <4>1. ~Pending(View(m), i)
          <5>1. hold'[m].item # i
            BY <2>2, <3>4
          <5>2. [hold EXCEPT ![m].item = i][m].item = i
            BY MaintenancesAreProcs DEF Inv, LocalsOK, Holds
          <5> QED BY <1>1, <5>1, <5>2
        <4>2. View(m).evals[j].known = Metrics
          BY <3>4, <4>1 DEF Pending
        <4> QED BY <2>1, <4>2 DEF Owed
      <3> QED BY <1>3, <2>1, <3>1, <3>3, <3>4
    <2>3. \A k \in 1 .. 4 : ~(k < hold'[m].next)
      BY <1>4
    <2>4. ~snap'[m].pinned /\ (run'[m].pc \in {"signal", "buys", "buy", "prune"} => listed'[m] \subseteq db'.candles)
      BY <1>2, <2>1 DEF OnCourse, dbVars
    <2> QED BY <2>2, <2>3, <2>4 DEF OnCourse
  <1> QED BY <1>5, <1>6 DEF Working

(* What is owed of an overdue row can be measured: its candles have closed *)
(* and none of them was pruned.                                            *)
LEMMA OwedIsMeasurable ==
  ASSUME Inv, Timely, NEW m \in Maintenances, OnCourse(m), Evaluating(m),
         NEW i \in Items, Overdue(m, i), NEW metric \in Owed(m, i)
  PROVE  IsMeasurable(View(m), i, metric, run[m].now)
  <1>1. /\ View(m).made = db.made /\ View(m).candles = db.candles
        /\ db.made \in [Items -> Hours \cup {Unset}]
    BY Sees DEF OnCourse
  <1>2. Needs(i, db.made[i], metric) \subseteq db.candles
    BY DEF OnCourse, Owed, Evaluating
  <1>3. db.made[i] \in Nat /\ db.made[i] + Month < run[m].now
    BY <1>1 DEF Overdue, Hours
  <1>4. run[m].now \in Nat /\ Month \in Nat
    BY MaintenancesAreProcs, CandleAssumption DEF Inv, LocalsOK, Runs, Hours
  <1>5. metric \in Metrics
    BY DEF Owed
  <1>6. ASSUME NEW h \in Needs(i, db.made[i], metric) PROVE h < run[m].now
    <2>1. h \in Int /\ h <= db.made[i] + Month
      BY <1>3, <1>5, NeedsAreNear
    <2> QED BY <1>3, <1>4, <2>1
  <1> QED BY <1>1, <1>2, <1>6 DEF IsMeasurable

LEMMA MeasureWorks ==
  ASSUME Inv, Timely, NEW m \in Maintenances, Working(m), Measure(m) PROVE Working(m)'
  <1> DEFINE metric == Metric[hold[m].next]
             ok == IsMeasurable(View(m), hold[m].item, metric, run[m].now)
             got == IF ok THEN hold[m].got \cup {metric} ELSE hold[m].got
  <1>1. /\ hold[m].item # Nobody /\ hold[m].next <= 4 /\ Evaluating(m)
        /\ UNCHANGED <<dbVars, run, todo, listed>>
        /\ hold' = [hold EXCEPT ![m].next = hold[m].next + 1, ![m].got = got]
    BY DEF Measure, Metric
  <1>2. /\ hold[m].item \in Items /\ hold[m].next \in 1 .. 4
        /\ hold'[m].item = hold[m].item /\ hold'[m].next = hold[m].next + 1
        /\ hold'[m].got = got
    <2> HIDE DEF got
    <2> QED BY <1>1, HandFields DEF Inv, LocalsOK, Holds
  <1>3. Rested(m)'
    BY <1>1, <1>2 DEF Working, Rested, Evaluating, dbVars
  <1>4. ASSUME run'[m].clean PROVE OnCourse(m)'
    <2>1. OnCourse(m) /\ View(m)' = View(m) /\ UNCHANGED dbVars
      BY <1>1, <1>4 DEF Working, View, Committed, dbVars
    <2>2. ASSUME NEW i \in Begun(m)', Overdue(m, i)'
          PROVE  /\ i \in Begun(m) /\ i \in Items /\ Overdue(m, i) /\ Owed(m, i)' = Owed(m, i)
      BY <1>1, <2>1, <2>2 DEF Begun, Items, Overdue, Owed, dbVars
    <2>3. ASSUME NEW i \in Begun(m)', Overdue(m, i)', hold'[m].item = i,
                 NEW k \in 1 .. 4, k < hold'[m].next, Metric[k] \in Owed(m, i)'
          PROVE  Metric[k] \in hold'[m].got
      <3>1. hold[m].item = i /\ Metric[k] \in Owed(m, i)
        BY <1>2, <2>2, <2>3
      <3>2. CASE k < hold[m].next
        <4>1. Metric[k] \in hold[m].got
          BY <2>1, <2>2, <2>3, <3>1, <3>2 DEF OnCourse
        <4> QED BY <1>2, <4>1
      <3>3. CASE k = hold[m].next
        <4>1. ok
          BY <1>1, <2>1, <2>2, <2>3, <3>1, <3>3, OwedIsMeasurable
        <4> QED BY <1>2, <3>3, <4>1
      <3> QED BY <1>2, <2>3, <3>2, <3>3
    <2>4. ASSUME NEW i \in Begun(m)', Overdue(m, i)', hold'[m].item # i
          PROVE  i \in todo'[m] \/ Owed(m, i)' \subseteq View(m)'.evals[i].known
      BY <1>1, <1>2, <2>1, <2>2, <2>4 DEF OnCourse
    <2>5. ~snap'[m].pinned /\ (run'[m].pc \in {"signal", "buys", "buy", "prune"} => listed'[m] \subseteq db'.candles)
      BY <1>1, <2>1 DEF OnCourse, dbVars
    <2> QED BY <2>3, <2>4, <2>5 DEF OnCourse
  <1> QED BY <1>3, <1>4 DEF Working

LEMMA ReadExistingWorks ==
  ASSUME Inv, Timely, NEW m \in Maintenances, Working(m), ReadExisting(m) PROVE Working(m)'
  <1> DEFINE row == View(m).evals[hold[m].item]
  <1>1. /\ hold[m].next = 5 /\ UNCHANGED <<dbVars, run, todo, listed>>
        /\ hold' = [hold EXCEPT ![m].next = 6, ![m].seen = row] /\ Evaluating(m)
    BY DEF ReadExisting, Metric
  <1>2. hold'[m].item = hold[m].item /\ hold'[m].next = 6 /\ hold'[m].got = hold[m].got
    <2> HIDE DEF row
    <2> QED BY <1>1, HandFields DEF Inv, LocalsOK, Holds
  <1>3. Rested(m)'
    BY <1>1, <1>2 DEF Working, Rested, Evaluating, dbVars
  <1>4. ASSUME run'[m].clean PROVE OnCourse(m)'
    <2>1. OnCourse(m) /\ View(m)' = View(m) /\ UNCHANGED dbVars
      BY <1>1, <1>4 DEF Working, View, Committed, dbVars
    <2>2. ASSUME NEW i \in Begun(m)', Overdue(m, i)'
          PROVE  IF hold'[m].item = i
                 THEN \A k \in 1 .. 4 : k < hold'[m].next /\ Metric[k] \in Owed(m, i)' => Metric[k] \in hold'[m].got
                 ELSE i \in todo'[m] \/ Owed(m, i)' \subseteq View(m)'.evals[i].known
      <3>1. i \in Begun(m) /\ i \in Items /\ Overdue(m, i) /\ Owed(m, i)' = Owed(m, i)
        BY <1>1, <2>1, <2>2 DEF Begun, Items, Overdue, Owed, dbVars
      <3>2. \A k \in 1 .. 4 : k < hold[m].next
        BY <1>1
      <3> QED BY <1>1, <1>2, <2>1, <3>1, <3>2 DEF OnCourse
    <2>3. ~snap'[m].pinned /\ (run'[m].pc \in {"signal", "buys", "buy", "prune"} => listed'[m] \subseteq db'.candles)
      BY <1>1, <2>1 DEF OnCourse, dbVars
    <2> QED BY <2>2, <2>3 DEF OnCourse
  <1> QED BY <1>3, <1>4 DEF Working

(* The row a pass saves has what it measured.                              *)
LEMMA SaveWorks ==
  ASSUME Inv, EvalInv, Timely, NEW m \in Maintenances, Working(m), Save(m)
  PROVE  Working(m)' /\ work'.made = db'.made /\ db'.candles = db.candles
  <1> DEFINE i == hold[m].item
             row == Merged(hold[m].seen, hold[m].got)
  <1>1. /\ Evaluating(m) /\ UNCHANGED <<run, todo, listed>> /\ hold'[m] = NoHold
        /\ hold[m].next = 6 /\ i \in Items
    BY SaveCases, SavedRowsOK, MaintenancesAreProcs DEF Save, Inv, LocalsOK
  <1>2. \/ row = hold[m].seen /\ UNCHANGED dbVars
        \/ /\ CanWrite(m)
           /\ IF i \in Signals THEN Publish(m, SavedRows(m)) ELSE Pend(m, SavedRows(m))
    BY DEF Save, SavedRows
  <1>3. ASSUME CanWrite(m)
        PROVE  /\ SavedRows(m).made = db.made /\ SavedRows(m).candles = db.candles
               /\ SavedRows(m).evals = [work.evals EXCEPT ![i] = row] /\ View(m) = work
    <2>1. View(m) = work /\ work \in Rows /\ work.candles = db.candles /\ work.made = db.made
      BY <1>3, ViewIsWork, MaintenancesAreProcs DEF Inv, StoreOK, Timely
    <2>2. SavedRows(m).made = work.made
      BY <2>1 DEF SavedRows, Rows
    <2> QED BY <2>1, <2>2, SavedRowsOK
  <1>4. work'.made = db'.made /\ db'.made = db.made /\ db'.candles = db.candles
    BY <1>2, <1>3 DEF Publish, Pend, dbVars, Timely
  <1>5. i \notin Signals => run[m].pc = "buy"
    BY <1>1 DEF Working, Rested, Evaluating, Items
  <1>6. writer' = m => run[m].pc = "buy"
    BY <1>2, <1>5, CandleAssumption DEF Publish, Pend, dbVars, Working, Rested
  <1>7. Rested(m)'
    BY <1>1, <1>6, NobodyIsNoRow DEF Working, Rested, Evaluating, NoHold, Items
  <1>8. ASSUME run'[m].clean PROVE OnCourse(m)'
    <2>1. OnCourse(m)
      BY <1>1, <1>8 DEF Working
    <2>2. ~snap'[m].pinned
      BY <1>2, <2>1, MaintenancesAreProcs
         DEF OnCourse, dbVars, Publish, Pend, Unpin, Live, Inv, StoreOK
    <2>3. /\ View(m).evals \in [Items -> Evaluation]
          /\ hold[m].seen = View(m).evals[i]
      BY <1>1, <2>1, Sees DEF OnCourse, EvalInv, SeenOK, Seen
    <2>4. View(m)'.evals = [View(m).evals EXCEPT ![i] = row]
      <3>1. CASE row = hold[m].seen /\ UNCHANGED dbVars
        <4>1. View(m)' = View(m)
          BY <3>1 DEF View, Committed, dbVars
        <4> HIDE DEF row, i
        <4> QED BY <1>1, <2>3, <3>1, <4>1
      <3>2. CASE CanWrite(m) /\ Publish(m, SavedRows(m))
        <4>1. View(m)' = SavedRows(m)
          BY <2>2, <3>2 DEF View, Committed, Publish
        <4> QED BY <1>3, <3>2, <4>1
      <3>3. CASE CanWrite(m) /\ Pend(m, SavedRows(m))
        <4>1. View(m)' = SavedRows(m)
          BY <3>3 DEF View, Pend
        <4> QED BY <1>3, <3>3, <4>1
      <3> QED BY <1>2, <3>1, <3>2, <3>3
    <2>5. row.known = hold[m].seen.known \cup hold[m].got
      BY DEF Merged
    <2>6. ASSUME NEW j \in Begun(m)', Overdue(m, j)'
          PROVE  j \in todo'[m] \/ Owed(m, j)' \subseteq View(m)'.evals[j].known
      <3>1. j \in Begun(m) /\ j \in Items /\ Overdue(m, j) /\ Owed(m, j)' = Owed(m, j)
        BY <1>1, <1>4, <2>6 DEF Begun, Items, Overdue, Owed
      <3>2. CASE j = i
        <4>1. \A k \in 1 .. 4 : Metric[k] \in Owed(m, j) => Metric[k] \in hold[m].got
          BY <1>1, <2>1, <3>1, <3>2 DEF OnCourse
        <4>2. \A metric \in Metrics : \E k \in 1 .. 4 : metric = Metric[k]
          BY DEF Metrics, Metric
        <4>3. Owed(m, j) \subseteq hold[m].got
          BY <4>1, <4>2 DEF Owed
        <4>4. View(m)'.evals[j] = row
          <5> HIDE DEF row, i
          <5> QED BY <2>3, <2>4, <3>1, <3>2
        <4> QED BY <2>5, <3>1, <4>3, <4>4
      <3>3. CASE j # i
        <4>1. View(m)'.evals[j] = View(m).evals[j]
          <5> HIDE DEF row, i
          <5> QED BY <2>3, <2>4, <3>1, <3>3
        <4>2. j \in todo[m] \/ Owed(m, j) \subseteq View(m).evals[j].known
          BY <2>1, <3>1, <3>3 DEF OnCourse
        <4> QED BY <1>1, <3>1, <4>1, <4>2
      <3> QED BY <3>2, <3>3
    <2>7. \A j \in Begun(m)' : hold'[m].item # j
      BY <1>1, NobodyIsNoRow DEF NoHold, Begun, Items
    <2>8. run'[m].pc \in {"signal", "buys", "buy", "prune"} => listed'[m] \subseteq db'.candles
      BY <1>1, <1>4, <2>1 DEF OnCourse
    <2> QED BY <2>2, <2>6, <2>7, <2>8 DEF OnCourse
  <1> QED BY <1>4, <1>7, <1>8 DEF Working

LEMMA EndPassWorks ==
  ASSUME Inv, Timely, NEW m \in Maintenances, Working(m), EndPass(m)
  PROVE  Working(m)' /\ work'.made = db'.made /\ db'.candles = db.candles
  <1>1. /\ run[m].pc \in {"signal", "buy"} /\ hold[m] = NoHold /\ todo[m] = {}
        /\ Goto(m, NextStage(m)) /\ UNCHANGED <<todo, hold, listed>>
    BY DEF EndPass, Evaluating
  <1>2. /\ run'[m].pc = IF run[m].pc = "signal" THEN "buys" ELSE "prune"
        /\ run'[m].now = run[m].now /\ run'[m].clean = run[m].clean
    BY <1>1, MaintenancesAreProcs DEF Inv, LocalsOK, Runs, Goto, NextStage
  <1>3. \/ UNCHANGED dbVars /\ writer # m
        \/ writer = m /\ Publish(m, work)
        \/ writer # m /\ Unpin(m) /\ UNCHANGED <<db, work, writer>>
    BY DEF EndPass, Working, Rested
  <1>4. work'.made = db'.made /\ db'.made = db.made /\ db'.candles = db.candles
    BY <1>3 DEF Publish, dbVars, Timely, Inv, StoreOK
  <1>5. writer' # m
    BY <1>3, CandleAssumption DEF Publish, dbVars
  <1>6. Rested(m)'
    BY <1>1, <1>2, <1>5 DEF Rested, Evaluating
  <1>7. ASSUME run'[m].clean PROVE OnCourse(m)'
    <2>1. OnCourse(m)
      BY <1>2, <1>7 DEF Working
    <2>2. ~snap'[m].pinned
      BY <1>3, <2>1, MaintenancesAreProcs
         DEF OnCourse, dbVars, Publish, Unpin, Live, Inv, StoreOK
    <2>3. View(m)' = View(m)
      BY <1>3, <1>5, <2>1, <2>2 DEF View, Committed, Publish, dbVars, OnCourse
    <2>4. ASSUME NEW i \in Begun(m)', Overdue(m, i)'
          PROVE  hold'[m].item # i /\ Owed(m, i)' \subseteq View(m)'.evals[i].known
      <3>1. i \in Begun(m) /\ i \in Items
        BY <1>1, <1>2, <2>4 DEF Begun, Items
      <3>2. Overdue(m, i) /\ Owed(m, i)' = Owed(m, i)
        BY <1>1, <1>2, <1>4, <2>4 DEF Overdue, Owed
      <3>3. hold[m].item # i
        BY <1>1, <3>1, NobodyIsNoRow DEF NoHold
      <3> QED BY <1>1, <2>1, <2>3, <3>1, <3>2, <3>3 DEF OnCourse
    <2>5. run'[m].pc \in {"signal", "buys", "buy", "prune"} => listed'[m] \subseteq db'.candles
      BY <1>1, <1>2, <1>4, <2>1 DEF OnCourse
    <2> QED BY <2>2, <2>4, <2>5 DEF OnCourse
  <1> QED BY <1>4, <1>6, <1>7 DEF Working

(* Steps that do not move the clock and store no candle.                   *)
LEMMA TimelyKept ==
  ASSUME Inv, Timely, clock' = clock, work'.made = db'.made, db'.candles \subseteq db.candles,
         \A s \in Scans : run'[s].pc = "store" => run[s].pc = "store" /\ hold'[s] = hold[s],
         \A p \in Procs : \/ run'[p].pc = "idle" \/ run'[p].now = clock
                          \/ run[p].pc # "idle" /\ run'[p].now = run[p].now
  PROVE  Timely'
  <1>1. clock \in Nat /\ RunLimit \in Nat
    BY CandleAssumption DEF Inv, LocalsOK, Hours
  <1>2. ASSUME NEW p \in Procs, run'[p].pc # "idle" PROVE clock' <= run'[p].now + RunLimit
    <2>1. CASE run'[p].now = clock
      BY <1>1, <2>1
    <2>2. CASE run[p].pc # "idle" /\ run'[p].now = run[p].now
      BY <2>2 DEF Timely
    <2> QED BY <1>2, <2>1, <2>2
  <1> QED BY <1>2 DEF Timely

LEMMA TickWaits ==
  ASSUME Inv, Timely, Tick PROVE Timely' /\ \A m \in Maintenances : Working(m) => Working(m)'
  <1>1. /\ clock' = clock + 1 /\ UNCHANGED <<dbVars, run, todo, hold, listed>>
        /\ \A p \in Procs : run[p].pc # "idle" => clock < run[p].now + RunLimit
    BY DEF Tick
  <1>2. /\ clock \in Nat /\ RunLimit \in Nat /\ db.candles \subseteq Hours
        /\ \A p \in Procs : run[p].now \in Nat
        /\ \A s \in Scans : run[s].pc = "store" => hold[s].got \subseteq Hours
    BY CandleAssumption, RowsFields, ScansAreProcs
       DEF Inv, LocalsOK, StoreOK, ProcOK, Hours, Runs
  <1>3. Timely'
    <2>1. \A h \in db'.candles : h < clock'
      BY <1>1, <1>2 DEF Timely, dbVars, Hours
    <2>2. \A s \in Scans : run'[s].pc = "store" => \A h \in hold'[s].got : h < clock'
      BY <1>1, <1>2 DEF Timely, Hours
    <2>3. \A p \in Procs : run'[p].pc # "idle" => clock' <= run'[p].now + RunLimit
      BY <1>1, <1>2
    <2> QED BY <1>1, <2>1, <2>2, <2>3 DEF Timely, dbVars
  <1>4. ASSUME NEW m \in Maintenances, Working(m) PROVE Working(m)'
    <2>1. View(m)' = View(m)
      BY <1>1 DEF View, Committed, dbVars
    <2> QED BY <1>1, <1>4, <2>1, OthersWork DEF dbVars
  <1> QED BY <1>3, <1>4

LEMMA StutterWaits ==
  ASSUME Inv, Timely, UNCHANGED vars
  PROVE  Timely' /\ \A m \in Maintenances : Working(m) => Working(m)'
  <1>1. Timely'
    BY DEF Timely, vars, dbVars
  <1>2. ASSUME NEW m \in Maintenances, Working(m) PROVE Working(m)'
    <2>1. View(m)' = View(m)
      BY DEF View, Committed, vars, dbVars
    <2> QED BY <1>2, <2>1, OthersWork DEF vars, dbVars
  <1> QED BY <1>1, <1>2

(* A row made while a run is under way is not overdue to that run.         *)
LEMMA MakeItemWaits ==
  ASSUME Inv, Timely, MakeItem PROVE Timely' /\ \A m \in Maintenances : Working(m) => Working(m)'
  <1>1. PICK i \in Items : db' = [db EXCEPT !.made[i] = clock]
    BY DEF MakeItem
  <1>2. /\ writer = Nobody /\ work' = db' /\ UNCHANGED <<clock, writer, snap, run, todo, hold, listed>>
        /\ db'.candles = db.candles /\ db'.evals = db.evals
    BY MakeItemInv DEF MakeItem
  <1>3. db.made \in [Items -> Hours \cup {Unset}] /\ db \in Rows
    BY RowsFields DEF Inv, StoreOK
  <1>4. db'.made = [db.made EXCEPT ![i] = clock]
    BY <1>1, <1>3 DEF Rows
  <1>5. Timely'
    BY <1>2 DEF Timely
  <1>6. ASSUME NEW m \in Maintenances, Working(m) PROVE Working(m)'
    <2>1. writer # m
      BY <1>2, CandleAssumption
    <2>2. ~snap[m].pinned => View(m)'.evals = View(m).evals
      BY <1>2, <2>1 DEF View, Committed
    <2>3. clock \in Nat /\ run[m].now <= clock
      BY MaintenancesAreProcs DEF Inv, LocalsOK, ProcOK, Hours
    <2>4. \A j \in Items : \/ db'.made[j] = db.made[j]
                           \/ db'.made[j] \in Nat /\ run[m].now <= db'.made[j]
      BY <1>3, <1>4, <2>3
    <2> QED BY <1>2, <1>6, <2>1, <2>2, <2>4, OthersWork
  <1> QED BY <1>5, <1>6

LEMMA ScanWaits ==
  ASSUME Inv, Timely, NEW s \in Scans,
         \/ StartScan(s) \/ Fetch(s) \/ FetchNothing(s) \/ Persist(s)
         \/ PersistFails(s) \/ Crash(s)
  PROVE  Timely' /\ \A m \in Maintenances : Working(m) => Working(m)'
  <1>1. s \in Procs /\ s \notin Maintenances /\ writer # s /\ StoreOK /\ LocalsOK
    BY ScansAreProcs, CandleAssumption DEF Inv, StoreOK
  <1>2. \A m \in Maintenances : m \in Procs \ {s} /\ m # Nobody
    BY <1>1, MaintenancesAreProcs, CandleAssumption
  <1>3. CASE StartScan(s)
    <2>1. /\ run' = [run EXCEPT ![s] = [Idle EXCEPT !.pc = "fetch", !.now = clock]]
          /\ UNCHANGED <<clock, dbVars, todo, hold, listed>>
      BY <1>3 DEF StartScan
    <2>2. /\ run'[s].pc = "fetch" /\ run'[s].now = clock
          /\ \A q \in Procs \ {s} : run'[q] = run[q]
      BY <1>1, <2>1 DEF LocalsOK, Idle
    <2>3. Timely'
      <3>1. \A t \in Scans : run'[t].pc = "store" => run[t].pc = "store" /\ hold'[t] = hold[t]
        BY <2>1, <2>2, ScansAreProcs
      <3>2. \A p \in Procs : \/ run'[p].pc = "idle" \/ run'[p].now = clock
                             \/ run[p].pc # "idle" /\ run'[p].now = run[p].now
        BY <2>2
      <3>3. work'.made = db'.made /\ db'.candles \subseteq db.candles
        BY <2>1 DEF dbVars, Timely
      <3> QED BY <2>1, <3>1, <3>2, <3>3, TimelyKept
    <2>4. ASSUME NEW m \in Maintenances, Working(m) PROVE Working(m)'
      <3>1. View(m)' = View(m)
        BY <2>1 DEF View, Committed, dbVars
      <3> QED BY <1>2, <2>1, <2>2, <2>4, <3>1, OthersWork DEF dbVars
    <2> QED BY <2>3, <2>4
  <1>4. CASE Fetch(s)
    <2> DEFINE klines == GetKlines(View(s).cursor, clock, run[s].now)
    <2>1. /\ hold' = [hold EXCEPT ![s].got = klines] /\ Goto(s, "store") /\ run[s].pc = "fetch"
          /\ UNCHANGED <<clock, dbVars, todo, listed>>
      BY <1>4 DEF Fetch
    <2>2. \A h \in klines : h < clock
      <3>1. \A h \in klines : h < run[s].now
        BY DEF GetKlines
      <3>2. /\ run[s].now \in Nat /\ clock \in Nat /\ run[s].now <= clock /\ klines \subseteq Nat
        <4>1. run[s].now \in Hours /\ clock \in Hours /\ run[s].now <= clock
          BY <1>1 DEF Inv, LocalsOK, Runs, ProcOK
        <4>2. klines \in SUBSET Hours
          BY <1>1, <4>1, ScanReads, RowsFields, GetKlinesHours DEF StoreOK
        <4> HIDE DEF klines
        <4> QED BY <4>1, <4>2 DEF Hours
      <3> HIDE DEF klines
      <3> QED BY <3>1, <3>2
    <2> HIDE DEF klines
    <2>3. /\ hold'[s].got = klines /\ \A q \in Procs \ {s} : hold'[q] = hold[q]
          /\ run'[s].now = run[s].now /\ \A q \in Procs \ {s} : run'[q] = run[q]
      BY <1>1, <2>1 DEF LocalsOK, Holds, Goto, Runs
    <2>4. Timely'
      <3>1. \A t \in Scans : run'[t].pc = "store" => \A h \in hold'[t].got : h < clock'
        BY <2>1, <2>2, <2>3, ScansAreProcs DEF Timely
      <3>2. \A p \in Procs : run'[p].pc # "idle" => clock' <= run'[p].now + RunLimit
        BY <1>1, <2>1, <2>3 DEF Timely
      <3> QED BY <2>1, <3>1, <3>2 DEF Timely, dbVars
    <2>5. ASSUME NEW m \in Maintenances, Working(m) PROVE Working(m)'
      <3>1. View(m)' = View(m)
        BY <2>1 DEF View, Committed, dbVars
      <3> QED BY <1>2, <2>1, <2>3, <2>5, <3>1, OthersWork DEF dbVars
    <2> QED BY <2>4, <2>5
  <1>5. CASE Persist(s)
    <2>1. /\ db'.evals = db.evals /\ work' = db' /\ writer' = Nobody /\ writer = Nobody
          /\ db'.candles = db.candles \cup hold[s].got /\ clock' = clock
          /\ \A q \in Procs \ {s} : hold'[q] = hold[q] /\ snap'[q] = snap[q]
      BY <1>5, PersistInv
    <2>2. /\ run[s].pc = "store" /\ run' = [run EXCEPT ![s] = Idle]
          /\ db' = WithKlines(db, hold[s].got) /\ UNCHANGED <<todo, listed>>
      BY <1>5, ScanReads DEF Persist, Publish
    <2>3. run'[s].pc = "idle" /\ \A q \in Procs \ {s} : run'[q] = run[q]
      BY <1>1, <2>2 DEF LocalsOK, Idle
    <2>4. db'.made = db.made
      BY <1>1, <2>2 DEF WithKlines, StoreOK, Rows
    <2>5. Timely'
      <3>1. \A h \in db'.candles : h < clock'
        BY <2>1, <2>2 DEF Timely
      <3>2. \A t \in Scans : run'[t].pc = "store" => \A h \in hold'[t].got : h < clock'
        BY <2>1, <2>3, ScansAreProcs DEF Timely
      <3>3. \A p \in Procs : run'[p].pc # "idle" => clock' <= run'[p].now + RunLimit
        BY <2>1, <2>3 DEF Timely
      <3> QED BY <2>1, <3>1, <3>2, <3>3 DEF Timely
    <2>6. ASSUME NEW m \in Maintenances, Working(m) PROVE Working(m)'
      <3>1. snap'[m] = snap[m] /\ hold'[m] = hold[m] /\ run'[m] = run[m] /\ m # Nobody
        BY <1>2, <2>1, <2>3
      <3>2. ~snap[m].pinned => View(m)'.evals = View(m).evals
        BY <2>1, <3>1 DEF View, Committed
      <3> QED BY <2>1, <2>2, <2>4, <2>6, <3>1, <3>2, OthersWork
    <2> QED BY <2>5, <2>6
  <1>6. CASE FetchNothing(s) \/ PersistFails(s) \/ Crash(s)
    <2>1. Ends(s) /\ clock' = clock
      BY <1>6 DEF FetchNothing, PersistFails, Crash
    <2>2. /\ UNCHANGED <<db, work, writer>> /\ Unpin(s)
          /\ run' = [run EXCEPT ![s] = Idle] /\ hold' = [hold EXCEPT ![s] = NoHold]
          /\ todo' = [m \in Maintenances |-> IF m = s THEN {} ELSE todo[m]]
          /\ listed' = [m \in Maintenances |-> IF m = s THEN {} ELSE listed[m]]
      BY <1>1, <2>1 DEF Ends
    <2>3. /\ run'[s].pc = "idle"
          /\ \A q \in Procs \ {s} : run'[q] = run[q] /\ hold'[q] = hold[q] /\ snap'[q] = snap[q]
      BY <1>1, <2>2 DEF LocalsOK, StoreOK, Unpin, Idle
    <2>4. Timely'
      <3>1. \A t \in Scans : run'[t].pc = "store" => run[t].pc = "store" /\ hold'[t] = hold[t]
        BY <2>3, ScansAreProcs
      <3>2. \A p \in Procs : \/ run'[p].pc = "idle" \/ run'[p].now = clock
                             \/ run[p].pc # "idle" /\ run'[p].now = run[p].now
        BY <2>3
      <3>3. work'.made = db'.made /\ db'.candles \subseteq db.candles
        BY <2>2 DEF Timely
      <3> QED BY <2>1, <3>1, <3>2, <3>3, TimelyKept
    <2>5. ASSUME NEW m \in Maintenances, Working(m) PROVE Working(m)'
      <3>1. /\ snap'[m] = snap[m] /\ hold'[m] = hold[m] /\ run'[m] = run[m]
            /\ todo'[m] = todo[m] /\ listed'[m] = listed[m]
        BY <1>2, <2>2, <2>3
      <3>2. View(m)' = View(m)
        BY <2>2, <3>1 DEF View, Committed
      <3> QED BY <2>2, <2>5, <3>1, <3>2, OthersWork
    <2> QED BY <2>4, <2>5
  <1> QED BY <1>3, <1>4, <1>5, <1>6

LEMMA MaintenanceTimely ==
  ASSUME Inv, Timely, NEW m \in Maintenances,
         \/ StartMaintenance(m) \/ ListPending(m) \/ TakeRow(m) \/ Measure(m)
         \/ ReadExisting(m) \/ Save(m) \/ EndPass(m) \/ PassFails(m)
         \/ Prune(m) \/ PruneFails(m) \/ Crash(m),
         work'.made = db'.made, db'.candles \subseteq db.candles
  PROVE  Timely'
  <1>1. m \in Procs /\ LocalsOK
    BY MaintenancesAreProcs DEF Inv
  <1>2. clock' = clock /\ \A s \in Scans : run'[s] = run[s] /\ hold'[s] = hold[s]
    <2>1. clock' = clock
      BY DEF StartMaintenance, ListPending, TakeRow, Measure, ReadExisting, Save, EndPass,
             PassFails, Prune, PruneFails, Crash
    <2> QED BY <2>1, MaintenanceLeavesScans
  <1>3. \A p \in Procs \ {m} : run'[p] = run[p]
    <2>1. CASE StartMaintenance(m) \/ ListPending(m) \/ EndPass(m)
      BY <1>1, <2>1 DEF StartMaintenance, ListPending, EndPass, Goto, LocalsOK
    <2>2. CASE TakeRow(m) \/ Measure(m) \/ ReadExisting(m) \/ Save(m)
      BY <2>2 DEF TakeRow, Measure, ReadExisting, Save
    <2>3. CASE PassFails(m) \/ Prune(m) \/ PruneFails(m) \/ Crash(m)
      BY <1>1, <2>3 DEF PassFails, Prune, PruneFails, Crash, Ends, LocalsOK
    <2> QED BY <2>1, <2>2, <2>3
  <1>4. \/ run'[m].pc = "idle" \/ run'[m].now = clock
        \/ run[m].pc # "idle" /\ run'[m].now = run[m].now
    <2>1. CASE StartMaintenance(m)
      BY <1>1, <2>1 DEF StartMaintenance, LocalsOK, Idle
    <2>2. CASE ListPending(m) \/ EndPass(m)
      BY <1>1, <2>2 DEF ListPending, EndPass, Evaluating, Goto, LocalsOK, Runs
    <2>3. CASE TakeRow(m) \/ Measure(m) \/ ReadExisting(m) \/ Save(m)
      BY <2>3 DEF TakeRow, Measure, ReadExisting, Save, Evaluating
    <2>4. CASE PassFails(m)
      BY <1>1, <2>4 DEF PassFails, Evaluating, LocalsOK, Runs
    <2>5. CASE Prune(m) \/ PruneFails(m) \/ Crash(m)
      BY <1>1, <2>5 DEF Prune, PruneFails, Crash, Ends, LocalsOK, Idle
    <2> QED BY <2>1, <2>2, <2>3, <2>4, <2>5
  <1> QED BY <1>2, <1>3, <1>4, TimelyKept

LEMMA MaintenanceWaits ==
  ASSUME Inv, EvalInv, Timely, NEW m \in Maintenances, Working(m),
         \/ StartMaintenance(m) \/ ListPending(m) \/ TakeRow(m) \/ Measure(m)
         \/ ReadExisting(m) \/ Save(m) \/ EndPass(m) \/ PassFails(m)
         \/ Prune(m) \/ PruneFails(m) \/ Crash(m)
  PROVE  Timely' /\ Working(m)'
  <1>1. m \in Procs /\ StoreOK
    BY MaintenancesAreProcs DEF Inv
  <1>2. CASE StartMaintenance(m) \/ ListPending(m) \/ TakeRow(m) \/ Measure(m) \/ ReadExisting(m)
    <2>1. Working(m)'
      BY <1>2, StartWorks, ListPendingWorks, TakeRowWorks, MeasureWorks, ReadExistingWorks
    <2>2. UNCHANGED dbVars
      BY <1>2 DEF StartMaintenance, ListPending, TakeRow, Measure, ReadExisting
    <2>3. work'.made = db'.made /\ db'.candles \subseteq db.candles
      BY <2>2 DEF dbVars, Timely
    <2> QED BY <1>2, <2>1, <2>3, MaintenanceTimely
  <1>3. CASE Save(m) \/ EndPass(m)
    BY <1>3, SaveWorks, EndPassWorks, MaintenanceTimely
  <1>4. CASE PassFails(m)
    BY <1>4, PassFailsWorks, PassFailsInv, MaintenanceTimely DEF Timely
  <1>5. CASE Prune(m)
    <2>1. db' = Pruned(work) /\ work' = db' /\ work \in Rows /\ work.candles = db.candles
      BY <1>1, <1>5, PruneInv DEF StoreOK
    <2>2. db'.candles \subseteq db.candles
      BY <2>1, PrunedOK DEF Newest
    <2> QED BY <1>5, <2>1, <2>2, PruneWorks, MaintenanceTimely
  <1>6. CASE PruneFails(m) \/ Crash(m)
    <2>1. Ends(m)
      BY <1>6 DEF PruneFails, Crash
    <2>2. db' = db /\ work'.made = db'.made
      BY <2>1 DEF Ends, Publish, Timely
    <2> QED BY <1>6, <2>1, <2>2, EndsWorks, MaintenanceTimely
  <1> QED BY <1>2, <1>3, <1>4, <1>5, <1>6

LEMMA WaitInvInit == ASSUME Init PROVE WaitInv
  <1>1. Timely
    BY ScansAreProcs DEF Init, Timely, Empty, Idle
  <1>2. ASSUME NEW m \in Maintenances PROVE Working(m)
    <2>1. /\ run[m] = Idle /\ hold[m] = NoHold /\ todo[m] = {} /\ ~snap[m].pinned /\ writer # m
      BY MaintenancesAreProcs, CandleAssumption DEF Init, Live
    <2>2. Begun(m) = {}
      BY <2>1 DEF Begun, Idle
    <2> QED BY <2>1, <2>2 DEF Working, Rested, OnCourse, Evaluating, Idle
  <1> QED BY <1>1, <1>2 DEF WaitInv

LEMMA WaitInvNext ==
  ASSUME OneMaintenance, Inv, EvalInv, WaitInv, [Next]_vars PROVE WaitInv'
  <1>1. Timely /\ \A m \in Maintenances : Working(m)
    BY DEF WaitInv
  <1>2. CASE UNCHANGED vars
    BY <1>1, <1>2, StutterWaits DEF WaitInv
  <1>3. CASE Tick \/ MakeItem
    BY <1>1, <1>3, TickWaits, MakeItemWaits DEF WaitInv
  <1>4. ASSUME NEW s \in Scans,
               \/ StartScan(s) \/ Fetch(s) \/ FetchNothing(s) \/ Persist(s)
               \/ PersistFails(s) \/ Crash(s)
        PROVE  WaitInv'
    BY <1>1, <1>4, ScanWaits DEF WaitInv
  <1>5. ASSUME NEW m \in Maintenances,
               \/ StartMaintenance(m) \/ ListPending(m) \/ TakeRow(m) \/ Measure(m)
               \/ ReadExisting(m) \/ Save(m) \/ EndPass(m) \/ PassFails(m)
               \/ Prune(m) \/ PruneFails(m) \/ Crash(m)
        PROVE  WaitInv'
    <2>1. Timely' /\ Working(m)'
      BY <1>1, <1>5, MaintenanceWaits
    <2>2. \A n \in Maintenances : n = m
      BY DEF OneMaintenance
    <2> QED BY <2>1, <2>2 DEF WaitInv
  <1> QED BY <1>2, <1>3, <1>4, <1>5 DEF Next, Procs

(* The cap on candles spans the window of an evaluation, the UTC day       *)
(* before it and the length of a run, or there is none.  load_settings     *)
(* does not compare them; config.example.toml has 2160 hours for 720.      *)
RetentionSpans == MaxCandles = 0 \/ MaxCandles >= Month + Day + RunLimit - 1

(* What a prune takes is older than anything a waiting row needs.          *)
LEMMA PrunedIsOld ==
  ASSUME RetentionSpans, Inv, Timely, NEW m \in Maintenances, Prune(m),
         NEW h \in db.candles \ db'.candles
  PROVE  h \in Nat /\ h <= run[m].now - Month - Day
  <1>1. /\ db' = Pruned(work) /\ work \in Rows /\ work.candles = db.candles
        /\ db.candles \in SUBSET Hours
    BY PruneInv, RowsFields DEF Inv, StoreOK
  <1>2. MaxCandles # 0 /\ h \notin Newest(db.candles, MaxCandles)
    BY <1>1, PrunedOK
  <1>3. /\ clock \in Nat /\ run[m].now \in Nat /\ h \in Nat
        /\ {MaxCandles, Month, Day, RunLimit} \subseteq Nat
    BY <1>1, MaintenancesAreProcs, CandleAssumption DEF Inv, LocalsOK, Runs, Hours
  <1> DEFINE later == {g \in db.candles : g > h}
             span == h + 1 .. clock - 1
  <1>4. later \subseteq span
    BY <1>1, <1>3 DEF Timely, Hours
  <1>5. IsFiniteSet(span) /\ Cardinality(span) = IF h + 1 > clock - 1 THEN 0 ELSE clock - 1 - h
    <2>1. h + 1 \in Int /\ clock - 1 \in Int
      BY <1>3
    <2>2. /\ IsFiniteSet(span)
          /\ Cardinality(span) = IF h + 1 > clock - 1 THEN 0 ELSE clock - 1 - (h + 1) + 1
      BY <2>1, FS_Interval
    <2>3. clock - 1 - (h + 1) + 1 = clock - 1 - h
      BY <1>3
    <2> QED BY <2>2, <2>3
  <1>6. Cardinality(later) \in Nat /\ Cardinality(later) <= Cardinality(span)
    <2>1. IsFiniteSet(later) /\ Cardinality(later) <= Cardinality(span)
      BY <1>4, <1>5, FS_Subset
    <2> QED BY <2>1, FS_CardinalityType
  <1>7. ~(Cardinality(later) < MaxCandles)
    BY <1>2 DEF Newest
  <1>8. MaxCandles <= clock - 1 - h
    <2> HIDE DEF later, span
    <2> QED BY <1>2, <1>3, <1>5, <1>6, <1>7
  <1>9. clock <= run[m].now + RunLimit
    BY MaintenancesAreProcs DEF Timely, Prune
  <1> QED BY <1>2, <1>3, <1>8, <1>9 DEF RetentionSpans

LEMMA PruneWaits ==
  ASSUME RetentionSpans, Inv, WaitInv, NEW m \in Maintenances, Prune(m), run[m].clean,
         NEW i \in Items, NEW metric \in Metrics,
         db.made[i] # Unset, metric \notin db.evals[i].known,
         Needs(i, db.made[i], metric) \subseteq listed[m] \/ run[m].now <= db.made[i] + Month
  PROVE  Needs(i, db.made[i], metric) \cap db.candles \subseteq db'.candles
  <1>1. Timely /\ Rested(m) /\ OnCourse(m) /\ run[m].pc = "prune"
    BY DEF WaitInv, Working, Prune
  <1>2. db.made[i] \in Nat /\ run[m].now \in Nat /\ Month \in Nat /\ Day \in Nat
    BY RowsFields, MaintenancesAreProcs, CandleAssumption
       DEF Inv, StoreOK, LocalsOK, Runs, Hours
  <1>3. CASE run[m].now <= db.made[i] + Month
    <2>1. SUFFICES ASSUME NEW h \in Needs(i, db.made[i], metric), h \in db.candles, h \notin db'.candles
                   PROVE  FALSE
      OBVIOUS
    <2>2. h \in Nat /\ h <= run[m].now - Month - Day
      BY <1>1, <2>1, PrunedIsOld
    <2>3. db.made[i] - Day < h
      BY <1>2, NeedsAreNear
    <2> QED BY <1>2, <1>3, <2>2, <2>3
  <1>4. CASE ~(run[m].now <= db.made[i] + Month)
    <2>1. Overdue(m, i) /\ metric \in Owed(m, i)
      BY <1>2, <1>4 DEF Overdue, Owed
    <2>2. i \in Begun(m) /\ hold[m].item # i /\ i \notin todo[m]
      BY <1>1, NobodyIsNoRow DEF Begun, Rested, Evaluating, NoHold
    <2>3. View(m) = db
      BY <1>1 DEF View, Committed, OnCourse, Rested
    <2>4. Owed(m, i) \subseteq db.evals[i].known
      BY <1>1, <2>1, <2>2, <2>3 DEF OnCourse
    <2> QED BY <2>1, <2>4
  <1> QED BY <1>3, <1>4

(* With one maintenance run at a time, next to any scans, retention never  *)
(* runs ahead of evaluation: whatever a clean run prunes has been measured *)
(* or could not be (run_maintenance prunes after both passes).             *)
THEOREM RetentionWaits ==
  ASSUME OneMaintenance, RetentionSpans PROVE Spec => MeasuredBeforePruned
  <1>1. Init => EvalInv /\ WaitInv
    BY EvalInvInit, WaitInvInit
  <1>2. Inv /\ EvalInv /\ WaitInv /\ [Next]_vars => EvalInv' /\ WaitInv'
    BY EvalInvNext, WaitInvNext
  <1>3. Inv /\ WaitInv /\ [Next]_vars =>
          [\A m \in Maintenances :
             Prune(m) /\ run[m].clean =>
               \A i \in Items, metric \in Metrics :
                 LET needs == Needs(i, db.made[i], metric) IN
                 /\ db.made[i] # Unset /\ metric \notin db.evals[i].known
                 /\ needs \subseteq listed[m] \/ run[m].now <= db.made[i] + Month
                 => needs \cap db.candles \subseteq db'.candles]_vars
    BY PruneWaits
  <1> QED BY <1>1, <1>2, <1>3, Invariance, PTL DEF Spec, MeasuredBeforePruned

=============================================================================
