------------------------------ MODULE Migrations ------------------------------
(***************************************************************************)
(* How a command starts up: init_db (database/schema.py), which sets the   *)
(* recorded schema version back to the baseline on every start, then       *)
(* run_migrations (database/migrations.py), one savepoint per version, on  *)
(* a database some earlier release may have left.  Several commands may    *)
(* start together, and any of them may be killed.                          *)
(*                                                                         *)
(* The last migration moves the evaluations of earlier releases into       *)
(* archive tables.  The commands that got through startup write new ones   *)
(* while others are still starting.                                        *)
(*                                                                         *)
(* A savepoint is a deferred transaction: its first read pins a snapshot,  *)
(* and a write is refused if another process has committed since.          *)
(***************************************************************************)
EXTENDS Integers, Sequences

CONSTANTS
  Procs,            (* commands that may run at the same time              *)
  NoOne,            (* the value of a free write lock                      *)
  Ids,              (* signals or buys that may have an evaluation         *)
  Releases,         (* versions an earlier release may have left           *)
  MaxStarts         (* bound: commands ever started                        *)

ASSUME MigrationAssumption ==
  /\ NoOne \notin Procs
  /\ Releases \subseteq 1 .. 6
  /\ MaxStarts \in Nat

VARIABLES
  db,       (* the committed database                                      *)
  work,     (* the lock holder's uncommitted database; db if there is none *)
  writer,   (* the process that holds the write lock, or NoOne             *)
  snap,     (* the snapshot each process's savepoint reads from            *)
  behind,   (* processes whose snapshot a commit has overtaken             *)
  pc,       (* where each process is                                       *)
  cmd,      (* "init": init_db alone; "full": init_db and run_migrations   *)
  at,       (* `current` of run_migrations                                 *)
  k,        (* the statement a migration has got to                        *)
  first,    (* history: the database the first command found               *)
  starts,   (* history: commands started so far                            *)
  killed    (* history: whether anything but a conflict ended a startup    *)

store == <<db, work, writer, behind>>
vars == <<store, snap, pc, cmd, at, k, first, starts, killed>>

Sources == {"signal_evaluations", "buy_evaluations"}
Archives == {"signal_evaluations_legacy_v1", "buy_evaluations_legacy_v1"}

SourceOf(archive) == IF archive = "signal_evaluations_legacy_v1"
                       THEN "signal_evaluations" ELSE "buy_evaluations"

(* What each registered migration creates, in order: tables, columns, and  *)
(* the archives.  Version 1 is the baseline.                               *)
PartsOf == <<
  <<>>,
  <<"regime_snapshots", "signals.regime_at_signal">>,
  <<"sell_tracking", "sell_signals", "buys.sold_at">>,
  <<"watchlist", "signals.watchlist_id">>,
  <<"signal_evaluations.time_to_mfe_hours", "buy_evaluations.max_gain_pct">>,
  <<"signal_evaluations_legacy_v1", "buy_evaluations_legacy_v1">> >>

BASELINE_VERSION == 1
Latest == 6
Versions == 0 .. Latest

PartSet(t) == {PartsOf[t][j] : j \in 1 .. Len(PartsOf[t])}
PartsUpTo(v) == UNION {PartSet(t) : t \in 1 .. v}
Parts == PartsUpTo(Latest)

BaseTables == <<"schema_meta", "tables">>

(* An evaluation row: missing, made by an earlier release, made by this    *)
(* one, or merged from both.                                               *)
Eval == {"none", "legacy", "new", "mixed"}
Rows == [Sources -> [Ids -> Eval]]
NoRows == [i \in Ids |-> "none"]

Database == [base : 0 .. Len(BaseTables), version : Versions,
             parts : SUBSET Parts, rows : Rows, archive : Rows]

(* What an installation at version v left, with the evaluations old.       *)
Installed(v, old) ==
  [base |-> IF v = 0 THEN 0 ELSE Len(BaseTables), version |-> v,
   parts |-> PartsUpTo(v),
   rows |-> IF v = Latest THEN [s \in Sources |-> NoRows] ELSE old,
   archive |-> IF v = Latest THEN old ELSE [s \in Sources |-> NoRows]]

Fresh == Installed(0, [s \in Sources |-> NoRows])

Left == {Installed(v, old) : v \in Releases, old \in [Sources -> [Ids -> {"none", "legacy"}]]}
          \cup {Fresh}

Init ==
  /\ db \in Left /\ work = db /\ writer = NoOne /\ behind = {}
  /\ snap = [p \in Procs |-> Fresh]
  /\ pc = [p \in Procs |-> "idle"] /\ cmd = [p \in Procs |-> "full"]
  /\ at = [p \in Procs |-> 0] /\ k = [p \in Procs |-> 1]
  /\ first = db /\ starts = 0 /\ killed = FALSE

-----------------------------------------------------------------------------
(* Transactions.                                                           *)

(* Every other open savepoint reads from before this commit.               *)
Overtake(p) == behind' = (behind \cup {q \in Procs : pc[q] = "step"}) \ {p}

(* A statement outside a savepoint waits for the lock and reads afresh.    *)
Commit(p, d) ==
  /\ writer = NoOne
  /\ db' = d /\ work' = d
  /\ Overtake(p) /\ UNCHANGED writer

(* A savepoint writes from the snapshot it has read.                       *)
View(p) == IF writer = p THEN work ELSE snap[p]
CanWrite(p) == writer = p \/ (writer = NoOne /\ p \notin behind)

Write(p, d) ==
  /\ CanWrite(p)
  /\ work' = d /\ writer' = p
  /\ UNCHANGED <<db, behind>>

Release(p, d) ==
  /\ CanWrite(p)
  /\ db' = d /\ work' = d /\ writer' = NoOne
  /\ Overtake(p)

RollBack(p) ==
  /\ work' = IF writer = p THEN db ELSE work
  /\ writer' = IF writer = p THEN NoOne ELSE writer
  /\ behind' = behind \ {p}
  /\ UNCHANGED db

-----------------------------------------------------------------------------
(* The statements.                                                         *)

(* Variant: the version of this release is stamped on every start.         *)
StampedLatest(d) == [d EXCEPT !.version = Latest]

(* _upsert_schema_meta.                                                    *)
Stamped(d) == [d EXCEPT !.version = BASELINE_VERSION]

(* Variant: a repeated migration refreshes the archive.                    *)
ArchivedAgain(d, archive) ==
  LET s == SourceOf(archive) IN
  [d EXCEPT !.parts = @ \cup {archive}, !.archive[s] = d.rows[s], !.rows[s] = NoRows]

(* Variant: only the copy is guarded, not the DELETE.                      *)
ArchivedUnguarded(d, archive) ==
  LET s == SourceOf(archive) IN
  [d EXCEPT !.parts = @ \cup {archive},
            !.archive[s] = IF archive \in d.parts THEN @ ELSE d.rows[s],
            !.rows[s] = NoRows]

(* _migrate_006: an archive that exists shows that its source was moved.   *)
Archived(d, archive) ==
  LET s == SourceOf(archive) IN
  IF archive \in d.parts THEN d
  ELSE [d EXCEPT !.parts = @ \cup {archive}, !.archive[s] = d.rows[s], !.rows[s] = NoRows]

(* A guarded CREATE TABLE or ALTER TABLE, or an archive.                   *)
Executed(d, part) ==
  IF part \in Archives THEN Archived(d, part)
  ELSE [d EXCEPT !.parts = @ \cup {part}]

(* Variant: the loop stops before the latest version.                      *)
HasNextShort(v) == v + 1 < Latest

HasNext(v) == v < Latest

(* save_evaluation keeps what an earlier row had measured.                 *)
Merged(old) == IF old = "none" THEN "new" ELSE "mixed"

-----------------------------------------------------------------------------
(* A command.                                                              *)

Goto(p, label) == pc' = [pc EXCEPT ![p] = label]

Start(p, c) ==
  /\ pc[p] = "idle" /\ starts < MaxStarts
  /\ Goto(p, "create")
  /\ cmd' = [cmd EXCEPT ![p] = c]
  /\ starts' = starts + 1
  /\ UNCHANGED <<store, snap, at, k, first, killed>>

(* One CREATE TABLE IF NOT EXISTS of init_db, committed on its own.        *)
CreateTable(p) ==
  /\ pc[p] = "create" /\ db.base < Len(BaseTables)
  /\ Commit(p, [db EXCEPT !.base = @ + 1])
  /\ UNCHANGED <<snap, pc, cmd, at, k, first, starts, killed>>

(* The upsert that ends init_db.                                           *)
Stamp(p) ==
  /\ pc[p] = "create" /\ db.base = Len(BaseTables)
  /\ Commit(p, Stamped(db))
  /\ Goto(p, IF cmd[p] = "full" THEN "read" ELSE "idle")
  /\ UNCHANGED <<snap, cmd, at, k, first, starts, killed>>

(* _read_version, before the loop.                                         *)
ReadVersion(p) ==
  /\ pc[p] = "read"
  /\ at' = [at EXCEPT ![p] = db.version]
  /\ Goto(p, "loop")
  /\ UNCHANGED <<store, snap, cmd, k, first, starts, killed>>

(* SAVEPOINT, and the first read in it.                                    *)
OpenStep(p) ==
  /\ pc[p] = "loop" /\ HasNext(at[p])
  /\ snap' = [snap EXCEPT ![p] = db]
  /\ Goto(p, "step")
  /\ UNCHANGED <<store, cmd, at, k, first, starts, killed>>

(* The next statement of the migration; one whose object exists writes     *)
(* nothing.                                                                *)
Statement(p) ==
  LET parts == PartsOf[at[p] + 1]
      d == Executed(View(p), parts[k[p]])
  IN  /\ pc[p] = "step" /\ k[p] <= Len(parts)
      /\ IF d = View(p) THEN UNCHANGED store ELSE Write(p, d)
      /\ k' = [k EXCEPT ![p] = @ + 1]
      /\ UNCHANGED <<snap, pc, cmd, at, first, starts, killed>>

(* _write_version and RELEASE.                                             *)
FinishStep(p) ==
  /\ pc[p] = "step" /\ k[p] > Len(PartsOf[at[p] + 1])
  /\ Release(p, [View(p) EXCEPT !.version = at[p] + 1])
  /\ at' = [at EXCEPT ![p] = @ + 1]
  /\ snap' = [snap EXCEPT ![p] = Fresh] /\ k' = [k EXCEPT ![p] = 1]
  /\ Goto(p, "loop")
  /\ UNCHANGED <<cmd, first, starts, killed>>

(* The process's locals are gone, and with them its savepoint.             *)
Quit(p) ==
  /\ Goto(p, "idle")
  /\ snap' = [snap EXCEPT ![p] = Fresh]
  /\ at' = [at EXCEPT ![p] = 0] /\ k' = [k EXCEPT ![p] = 1]

(* The write lock is taken, or the snapshot is behind: ROLLBACK TO,        *)
(* RELEASE, and MigrationError ends the command.                           *)
StepFails(p) ==
  /\ pc[p] = "step" /\ ~CanWrite(p)
  /\ RollBack(p) /\ Quit(p)
  /\ UNCHANGED <<cmd, first, starts, killed>>

Migrated(p) ==
  /\ pc[p] = "loop" /\ ~HasNext(at[p])
  /\ Goto(p, "run")
  /\ UNCHANGED <<store, snap, cmd, at, k, first, starts, killed>>

(* The command evaluates a signal or a buy: read, merge, save.             *)
Evaluate(p, s, i) ==
  /\ pc[p] = "run" /\ db.rows[s][i] # "new"
  /\ Commit(p, [db EXCEPT !.rows[s][i] = Merged(@)])
  /\ UNCHANGED <<snap, pc, cmd, at, k, first, starts, killed>>

Finish(p) ==
  /\ pc[p] = "run" /\ Quit(p)
  /\ UNCHANGED <<store, cmd, first, starts, killed>>

(* The process dies, or waits five seconds for the lock in vain.           *)
Crash(p) ==
  /\ pc[p] # "idle" /\ RollBack(p) /\ Quit(p)
  /\ killed' = TRUE
  /\ UNCHANGED <<cmd, first, starts>>

Startup(p) ==
  CreateTable(p) \/ Stamp(p) \/ ReadVersion(p) \/ OpenStep(p)
    \/ Statement(p) \/ FinishStep(p) \/ StepFails(p) \/ Migrated(p)

Next == \E p \in Procs :
  \/ \E c \in {"init", "full"} : Start(p, c)
  \/ Startup(p) \/ Finish(p) \/ Crash(p)
  \/ \E s \in Sources, i \in Ids : Evaluate(p, s, i)

Spec == Init /\ [][Next]_vars

-----------------------------------------------------------------------------
TypeOK ==
  /\ db \in Database /\ work \in Database
  /\ writer \in Procs \cup {NoOne} /\ behind \subseteq Procs
  /\ snap \in [Procs -> Database]
  /\ pc \in [Procs -> {"idle", "create", "read", "loop", "step", "run"}]
  /\ cmd \in [Procs -> {"init", "full"}]
  /\ at \in [Procs -> Versions] /\ k \in [Procs -> Nat \ {0}]
  /\ first \in Database /\ starts \in Nat /\ killed \in BOOLEAN

(* The recorded version never claims a migration whose tables, columns and *)
(* archives are not all there: it may be set back by init_db, by a crash   *)
(* between two savepoints, or by a command that started meanwhile, but     *)
(* never runs ahead of the schema.                                         *)
VersionNeverAhead == PartsUpTo(db.version) \subseteq db.parts

(* No startup, repeated, interrupted or overlapping, loses an evaluation   *)
(* an earlier release made: it is in its table or in the archive, and once *)
(* in the archive stays as it was.                                         *)
LegacyKept == \A s \in Sources, i \in Ids :
  (first.rows[s][i] = "legacy" \/ first.archive[s][i] = "legacy")
    => (db.rows[s][i] = "legacy" \/ db.archive[s][i] = "legacy")

(* What this release has evaluated is cleared by no later startup, although *)
(* each one finds the version set back and runs every migration again.     *)
NewStays == [][\A s \in Sources, i \in Ids :
                 db.rows[s][i] = "new" => db'.rows[s][i] = "new"]_vars

OneGetsThrough ==
  (starts > 0 /\ ~killed /\ \A p \in Procs : pc[p] = "idle")
    => (db.parts = Parts \/ \E p \in Procs : cmd[p] = "init")

(* A command past startup works on the complete schema, and on tables free *)
(* of the old outcomes, so none is ever merged into a current row.         *)
(* Commands that start together fail each other with stale snapshots, but  *)
(* never all of them: when only full commands ran, none was killed, and    *)
(* all have come to rest, the schema is complete.                          *)
ReadyMeansMigrated ==
  /\ OneGetsThrough
  /\ \A p \in Procs : pc[p] = "run" =>
       /\ db.parts = Parts
       /\ \A s \in Sources, i \in Ids : db.rows[s][i] # "legacy"
  /\ \A s \in Sources, i \in Ids : db.rows[s][i] # "mixed"

=============================================================================
