-------------------------- MODULE MigrationsProofs --------------------------
(***************************************************************************)
(* Theorems about Migrations, for every number of commands that start, are *)
(* killed or fail each other, and every set of evaluations.                *)
(*                                                                         *)
(* The argument: parts are only ever added, a migrated source is marked by *)
(* its archive in the same savepoint (Sound), and a process that may still *)
(* write reads the database as it is (StepsOK).  At any time after the     *)
(* first start someone is still able to get through (SomeoneCan).          *)
(***************************************************************************)
EXTENDS Migrations, TLAPS

(* One copy of the database: the version claims nothing that is not there, *)
(* a source with an archive holds nothing old, one without nothing new.    *)
Sound(d) ==
  /\ d \in Database
  /\ PartsUpTo(d.version) \subseteq d.parts
  /\ \A a \in Archives, i \in Ids :
       IF a \in d.parts THEN d.rows[SourceOf(a)][i] \in {"none", "new"}
       ELSE /\ d.rows[SourceOf(a)][i] \in {"none", "legacy"}
            /\ d.archive[SourceOf(a)][i] = "none"

(* It holds every evaluation the first command found.                      *)
Holds(d) == \A s \in Sources, i \in Ids :
  (first.rows[s][i] = "legacy" \/ first.archive[s][i] = "legacy")
    => (d.rows[s][i] = "legacy" \/ d.archive[s][i] = "legacy")

(* It has all of another copy but the old rows.                            *)
Grown(old, new) ==
  /\ old.parts \subseteq new.parts
  /\ \A s \in Sources, i \in Ids : old.rows[s][i] = "new" => new.rows[s][i] = "new"

StoreOK ==
  /\ Sound(db) /\ Holds(db) /\ Sound(work) /\ Holds(work) /\ Grown(db, work)
  /\ writer = NoOne => work = db
  /\ writer # NoOne => pc[writer] = "step" /\ writer \notin behind
  /\ \A p \in behind : pc[p] = "step"

(* What each process has done is in the database it sees.                  *)
StepsOK == \A p \in Procs :
  /\ pc[p] = "step" =>
       /\ p \notin behind => snap[p] = db
       /\ Sound(snap[p]) /\ HasNext(at[p])
       /\ PartsUpTo(at[p]) \subseteq View(p).parts
       /\ \A j \in 1 .. Len(PartsOf[at[p] + 1]) :
            j < k[p] => PartsOf[at[p] + 1][j] \in View(p).parts
  /\ pc[p] # "step" => k[p] = 1
  /\ pc[p] \in {"loop", "run"} => PartsUpTo(at[p]) \subseteq db.parts
  /\ pc[p] = "run" => ~HasNext(at[p])

(* A process that nothing keeps from reaching the latest version.          *)
Can(p) ==
  /\ pc[p] \in {"create", "read", "loop", "step"}
  /\ pc[p] = "step" => CanWrite(p)

SomeoneCan == starts > 0 /\ ~killed =>
  db.parts = Parts \/ (\E p \in Procs : cmd[p] = "init") \/ (\E p \in Procs : Can(p))

Inv == TypeOK /\ StoreOK /\ StepsOK /\ SomeoneCan

-----------------------------------------------------------------------------
(* The registered migrations.                                              *)

LEMMA ArchivesAreLast ==
  /\ Archives \subseteq PartSet(6)
  /\ \A t \in 1 .. 5 : Archives \cap PartSet(t) = {}
  <1>1. PartSet(6) = {PartsOf[6][1], PartsOf[6][2]}
    BY DEF PartSet, PartsOf
  <1>2. ASSUME NEW t \in 1 .. 5 PROVE Archives \cap PartSet(t) = {}
    <2>1. CASE t = 1
      BY <2>1 DEF PartSet, PartsOf, Archives
    <2>2. CASE t = 2
      BY <2>2 DEF PartSet, PartsOf, Archives
    <2>3. CASE t = 3
      BY <2>3 DEF PartSet, PartsOf, Archives
    <2>4. CASE t = 4
      BY <2>4 DEF PartSet, PartsOf, Archives
    <2>5. CASE t = 5
      BY <2>5 DEF PartSet, PartsOf, Archives
    <2> QED BY <2>1, <2>2, <2>3, <2>4, <2>5
  <1> QED BY <1>1, <1>2 DEF PartsOf, Archives

LEMMA PartsStep ==
  ASSUME NEW v \in 0 .. 5
  PROVE  PartsUpTo(v + 1) = PartsUpTo(v) \cup PartSet(v + 1)
  BY DEF PartsUpTo

LEMMA PartsMonotonic ==
  ASSUME NEW v \in Versions PROVE PartsUpTo(v) \subseteq Parts
  BY DEF PartsUpTo, Parts, Versions, Latest

LEMMA ArchivesInParts ==
  /\ Archives \subseteq Parts
  /\ \A v \in 0 .. 5 : Archives \cap PartsUpTo(v) = {}
  BY ArchivesAreLast DEF PartsUpTo, Parts, Latest

LEMMA EverySourceHasItsArchive ==
  /\ \A s \in Sources : \E a \in Archives : SourceOf(a) = s
  /\ \A a \in Archives : SourceOf(a) \in Sources
  /\ \A a, b \in Archives : SourceOf(a) = SourceOf(b) => a = b
  BY DEF Sources, Archives, SourceOf

LEMMA PartsAreParts ==
  ASSUME NEW v \in 0 .. 5, NEW j \in 1 .. Len(PartsOf[v + 1])
  PROVE  PartsOf[v + 1][j] \in PartSet(v + 1) /\ PartsOf[v + 1][j] \in Parts
  BY DEF PartSet, PartsUpTo, Parts, Latest

LEMMA LengthsAreNumbers == \A t \in 1 .. 6 : Len(PartsOf[t]) \in Nat
  BY DEF PartsOf

LEMMA GrownTransitive ==
  ASSUME NEW a, NEW b, NEW c, Grown(a, b), Grown(b, c) PROVE Grown(a, c)
  BY DEF Grown

-----------------------------------------------------------------------------
(* What the statements do to one copy.                                     *)

LEMMA InstalledSound ==
  ASSUME NEW v \in Versions, NEW old \in [Sources -> [Ids -> {"none", "legacy"}]]
  PROVE  Sound(Installed(v, old))
  <1> DEFINE d == Installed(v, old)
  <1>1. d \in Database
    BY PartsMonotonic DEF Installed, Database, Rows, Eval, NoRows, BaseTables, Versions, Latest
  <1>2. PartsUpTo(d.version) \subseteq d.parts
    BY DEF Installed
  <1>3. CASE v = Latest
    <2>1. Archives \subseteq d.parts
      BY <1>3, ArchivesInParts DEF Installed, Parts
    <2> QED BY <1>1, <1>2, <1>3, <2>1, EverySourceHasItsArchive DEF Sound, Installed, NoRows
  <1>4. CASE v # Latest
    <2>1. Archives \cap d.parts = {}
      BY <1>4, ArchivesInParts DEF Installed, Versions, Latest
    <2> QED BY <1>1, <1>2, <1>4, <2>1, EverySourceHasItsArchive DEF Sound, Installed, NoRows
  <1> QED BY <1>3, <1>4

LEMMA FreshSound == Sound(Fresh)
  BY InstalledSound DEF Fresh, NoRows, Versions, Latest

LEMMA ArchivedOK ==
  ASSUME NEW d, Sound(d), NEW a \in Archives
  PROVE  LET e == Archived(d, a) IN
         /\ Sound(e) /\ (Holds(d) => Holds(e)) /\ Grown(d, e)
         /\ a \in e.parts /\ e.version = d.version
  <1> DEFINE e == Archived(d, a)
             s == SourceOf(a)
  <1>1. CASE a \in d.parts
    BY <1>1 DEF Archived, Grown
  <1>2. CASE a \notin d.parts
    <2>1. /\ e = [d EXCEPT !.parts = d.parts \cup {a},
                           !.archive = [d.archive EXCEPT ![s] = d.rows[s]],
                           !.rows = [d.rows EXCEPT ![s] = NoRows]]
          /\ d \in Database /\ s \in Sources
      BY <1>2, EverySourceHasItsArchive DEF Archived, Sound, Database, Rows
    <2>2. /\ e.parts = d.parts \cup {a} /\ e.version = d.version /\ e.base = d.base
          /\ e.rows = [d.rows EXCEPT ![s] = NoRows]
          /\ e.archive = [d.archive EXCEPT ![s] = d.rows[s]]
          /\ d.rows \in Rows /\ d.archive \in Rows
      BY <2>1 DEF Database
    <2>3. e \in Database
      <3>1. NoRows \in [Ids -> Eval] /\ d.rows[s] \in [Ids -> Eval]
        BY <2>1, <2>2 DEF NoRows, Eval, Rows
      <3>2. e.rows \in Rows /\ e.archive \in Rows
        BY <2>1, <2>2, <3>1 DEF Rows
      <3>3. e.parts \subseteq Parts
        BY <2>1, <2>2, ArchivesInParts DEF Database
      <3> QED BY <2>1, <2>2, <3>2, <3>3 DEF Database
    <2>4. /\ e.rows[s] = NoRows /\ e.archive[s] = d.rows[s]
          /\ \A x \in Sources : x # s => e.rows[x] = d.rows[x] /\ e.archive[x] = d.archive[x]
      BY <2>1, <2>2 DEF Rows
    <2>5. \A i \in Ids : d.rows[s][i] \in {"none", "legacy"} /\ d.archive[s][i] = "none"
      BY <1>2 DEF Sound
    <2>6. Sound(e)
      BY <2>2, <2>3, <2>4, EverySourceHasItsArchive DEF Sound, NoRows
    <2>7. Holds(d) => Holds(e)
      BY <2>4, <2>5 DEF Holds
    <2>8. Grown(d, e)
      BY <2>2, <2>4, <2>5 DEF Grown
    <2> QED BY <2>2, <2>6, <2>7, <2>8
  <1> QED BY <1>1, <1>2

LEMMA ExecutedOK ==
  ASSUME NEW d, Sound(d), NEW part \in Parts
  PROVE  LET e == Executed(d, part) IN
         /\ Sound(e) /\ (Holds(d) => Holds(e)) /\ Grown(d, e)
         /\ part \in e.parts /\ e.version = d.version
  <1> DEFINE e == Executed(d, part)
  <1>1. CASE part \in Archives
    BY <1>1, ArchivedOK DEF Executed
  <1>2. CASE part \notin Archives
    <2>1. /\ e = [d EXCEPT !.parts = d.parts \cup {part}] /\ d \in Database
      BY <1>2 DEF Executed, Sound
    <2>2. /\ e \in Database /\ e.parts = d.parts \cup {part} /\ e.version = d.version
          /\ e.rows = d.rows /\ e.archive = d.archive
      BY <2>1 DEF Database
    <2> QED BY <1>2, <2>2 DEF Sound, Holds, Grown
  <1> QED BY <1>1, <1>2

LEMMA NextPartOK ==
  ASSUME NEW p \in Procs, StepsOK, TypeOK, pc[p] = "step"
  PROVE  /\ at[p] \in 0 .. 5 /\ Len(PartsOf[at[p] + 1]) \in Nat
         /\ \A j \in 1 .. Len(PartsOf[at[p] + 1]) : PartsOf[at[p] + 1][j] \in Parts
  <1>1. at[p] \in 0 .. 6 /\ at[p] < 6
    BY DEF StepsOK, TypeOK, HasNext, Versions, Latest
  <1>2. at[p] \in 0 .. 5 /\ at[p] + 1 \in 1 .. 6
    BY <1>1
  <1> QED BY <1>2, PartsAreParts, LengthsAreNumbers

(* Evaluating leaves nothing mixed once every source has been moved.       *)
LEMMA EvaluatedOK ==
  ASSUME NEW d, Sound(d), Parts \subseteq d.parts, NEW s \in Sources, NEW i \in Ids,
         d.rows[s][i] # "new"
  PROVE  LET e == [d EXCEPT !.rows[s][i] = Merged(@)] IN
         /\ Sound(e) /\ (Holds(d) => Holds(e)) /\ Grown(d, e)
  <1> DEFINE e == [d EXCEPT !.rows[s][i] = Merged(@)]
  <1>1. \A x \in Sources, y \in Ids : d.rows[x][y] \in {"none", "new"}
    BY ArchivesInParts, EverySourceHasItsArchive DEF Sound
  <1>2. /\ d \in Database /\ d.rows \in Rows
        /\ e = [d EXCEPT !.rows = [d.rows EXCEPT ![s] = [d.rows[s] EXCEPT ![i] = "new"]]]
    BY <1>1 DEF Merged, Sound, Database
  <1>3. /\ e \in Database /\ e.parts = d.parts /\ e.version = d.version
        /\ e.archive = d.archive
        /\ \A x \in Sources, y \in Ids :
             e.rows[x][y] = IF x = s /\ y = i THEN "new" ELSE d.rows[x][y]
    <2>1. d.rows[s] \in [Ids -> Eval]
      BY <1>2 DEF Rows
    <2>2. [d.rows[s] EXCEPT ![i] = "new"] \in [Ids -> Eval]
      BY <2>1 DEF Eval
    <2>3. [d.rows EXCEPT ![s] = [d.rows[s] EXCEPT ![i] = "new"]] \in Rows
      BY <1>2, <2>2 DEF Rows
    <2>4. /\ e.parts = d.parts /\ e.version = d.version /\ e.archive = d.archive
          /\ e.rows = [d.rows EXCEPT ![s] = [d.rows[s] EXCEPT ![i] = "new"]]
          /\ e \in Database
      BY <1>2, <2>3 DEF Database
    <2> QED BY <1>2, <2>1, <2>4 DEF Rows
  <1> HIDE DEF e
  <1>4. \A a \in Archives : a \in d.parts
    BY ArchivesInParts
  <1>5. Sound(e)
    BY <1>1, <1>3, <1>4, EverySourceHasItsArchive DEF Sound
  <1>6. (Holds(d) => Holds(e)) /\ Grown(d, e)
    BY <1>1, <1>3 DEF Holds, Grown
  <1> QED BY <1>5, <1>6 DEF e

-----------------------------------------------------------------------------
LEMMA InitInv == Init => Inv
  <1> SUFFICES ASSUME Init PROVE Inv
    OBVIOUS
  <1>1. Sound(db)
    <2>1. CASE db = Fresh
      BY <2>1, FreshSound
    <2>2. CASE \E v \in Releases, old \in [Sources -> [Ids -> {"none", "legacy"}]] :
                 db = Installed(v, old)
      BY <2>2, InstalledSound, MigrationAssumption DEF Versions, Latest
    <2> QED BY <2>1, <2>2 DEF Init, Left
  <1>2. Fresh \in Database
    BY FreshSound DEF Sound
  <1>3. TypeOK
    <2>1. 0 \in Versions /\ 1 \in Nat \ {0} /\ 0 \in Nat
      BY DEF Versions, Latest
    <2> QED BY <1>1, <1>2, <2>1 DEF Init, TypeOK, Sound
  <1>4. StoreOK
    BY <1>1 DEF Init, StoreOK, Holds, Grown
  <1>5. StepsOK /\ SomeoneCan
    BY DEF Init, StepsOK, SomeoneCan
  <1> QED BY <1>3, <1>4, <1>5 DEF Inv

-----------------------------------------------------------------------------
(* A commit outside a savepoint: of the base schema, the baseline version  *)
(* or an evaluation.                                                       *)
LEMMA CommitOK ==
  ASSUME Inv, NEW p \in Procs, pc[p] # "step", NEW d, Commit(p, d),
         Sound(d), Holds(d), Grown(db, d),
         \A q \in Procs : q # p => pc'[q] = pc[q],
         pc'[p] # "step", pc' \in [Procs -> {"idle", "create", "read", "loop", "step", "run"}],
         UNCHANGED <<snap, at, k, first>>,
         pc'[p] \in {"loop", "run"} => pc'[p] = pc[p]
  PROVE  StoreOK' /\ StepsOK' /\ db' \in Database /\ work' \in Database /\ behind' \subseteq Procs
  <1>1. /\ db' = d /\ work' = d /\ writer = NoOne /\ writer' = NoOne
        /\ behind' = (behind \cup {q \in Procs : pc[q] = "step"}) \ {p}
    BY DEF Commit, Overtake
  <1>2. behind \subseteq Procs
    BY DEF Inv, TypeOK
  <1>3. StoreOK'
    BY <1>1, <1>2 DEF Inv, StoreOK, Holds, Grown
  <1>4. StepsOK'
    <2> SUFFICES ASSUME NEW q \in Procs
                 PROVE  /\ pc'[q] = "step" =>
                             /\ q \notin behind' => snap'[q] = db'
                             /\ Sound(snap'[q]) /\ HasNext(at'[q])
                             /\ PartsUpTo(at'[q]) \subseteq View(q)'.parts
                             /\ \A j \in 1 .. Len(PartsOf[at'[q] + 1]) :
                                  j < k'[q] => PartsOf[at'[q] + 1][j] \in View(q)'.parts
                        /\ pc'[q] # "step" => k'[q] = 1
                        /\ pc'[q] \in {"loop", "run"} => PartsUpTo(at'[q]) \subseteq db'.parts
                        /\ pc'[q] = "run" => ~HasNext(at'[q])
      BY DEF StepsOK
    <2>1. q \in Procs /\ NoOne \notin Procs
      BY MigrationAssumption
    <2>2. View(q)' = snap[q] /\ View(q) = snap[q]
      BY <1>1, <2>1 DEF View
    <2>3. pc'[q] = "step" => q # p /\ pc[q] = "step" /\ q \in behind'
      BY <1>1
    <2>4. pc'[q] \in {"loop", "run"} => pc[q] = pc'[q]
      OBVIOUS
    <2> QED BY <1>1, <2>2, <2>3, <2>4 DEF Inv, StepsOK, Grown
  <1> QED BY <1>1, <1>2, <1>3, <1>4 DEF Sound

LEMMA FinishedMeansAll ==
  ASSUME Inv, NEW p \in Procs, pc[p] \in {"loop", "run"}, ~HasNext(at[p])
  PROVE  db.parts = Parts
  <1>1. at[p] = 6
    BY DEF Inv, TypeOK, Versions, Latest, HasNext
  <1>2. Parts \subseteq db.parts
    BY <1>1 DEF Inv, StepsOK, Parts, Latest
  <1> QED BY <1>2 DEF Inv, TypeOK, Database

(* Steps outside a savepoint that commit.                                  *)
LEMMA CommittingInv ==
  ASSUME Inv, NEW p \in Procs,
         \/ CreateTable(p) \/ Stamp(p)
         \/ \E s \in Sources, i \in Ids : Evaluate(p, s, i)
  PROVE  Inv' /\ Grown(db, db')
  <1>1. Sound(db) /\ Holds(db) /\ db \in Database
    BY DEF Inv, StoreOK, Sound
  <1>2. CASE CreateTable(p)
    <2> DEFINE d == [db EXCEPT !.base = @ + 1]
    <2>1. db.base + 1 \in 0 .. Len(BaseTables)
      BY <1>1, <1>2 DEF CreateTable, Database, BaseTables
    <2>2. /\ d \in Database /\ d.parts = db.parts /\ d.rows = db.rows
          /\ d.archive = db.archive /\ d.version = db.version
      BY <1>1, <2>1 DEF Database
    <2>3. Sound(d) /\ Holds(d) /\ Grown(db, d) /\ Commit(p, d) /\ pc[p] = "create"
      BY <1>1, <1>2, <2>2 DEF Sound, Holds, Grown, CreateTable
    <2> HIDE DEF d
    <2>4. UNCHANGED <<snap, pc, cmd, at, k, first, starts, killed>>
      BY <1>2 DEF CreateTable
    <2>5. StoreOK' /\ StepsOK' /\ db' \in Database /\ work' \in Database /\ behind' \subseteq Procs
      BY <2>3, <2>4, CommitOK DEF Inv, TypeOK
    <2>6. SomeoneCan'
      BY <2>3, <2>4 DEF SomeoneCan, Can
    <2> QED BY <2>3, <2>4, <2>5, <2>6 DEF Inv, TypeOK, Commit
  <1>3. CASE Stamp(p)
    <2> DEFINE d == Stamped(db)
    <2>1. /\ d \in Database /\ d.parts = db.parts /\ d.rows = db.rows
          /\ d.archive = db.archive /\ d.version = 1
      BY <1>1 DEF Stamped, Database, BASELINE_VERSION, Versions, Latest
    <2>2. PartsUpTo(1) \subseteq d.parts
      BY DEF PartsUpTo, PartSet, PartsOf
    <2>3. Sound(d) /\ Holds(d) /\ Grown(db, d) /\ Commit(p, d) /\ pc[p] = "create"
      BY <1>1, <1>3, <2>1, <2>2 DEF Sound, Holds, Grown, Stamp
    <2> HIDE DEF d
    <2>4. UNCHANGED <<snap, cmd, at, k, first, starts, killed>>
      BY <1>3 DEF Stamp
    <2>5. /\ pc' = [pc EXCEPT ![p] = IF cmd[p] = "full" THEN "read" ELSE "idle"]
          /\ pc' \in [Procs -> {"idle", "create", "read", "loop", "step", "run"}]
          /\ pc'[p] \in {"read", "idle"} /\ cmd[p] \in {"init", "full"}
      BY <1>3 DEF Stamp, Goto, Inv, TypeOK
    <2>6. StoreOK' /\ StepsOK' /\ db' \in Database /\ work' \in Database /\ behind' \subseteq Procs
      BY <2>3, <2>4, <2>5, CommitOK DEF Inv, TypeOK
    <2>7. SomeoneCan'
      BY <2>4, <2>5 DEF SomeoneCan, Can, Inv, TypeOK
    <2> QED BY <2>3, <2>4, <2>5, <2>6, <2>7 DEF Inv, TypeOK, Commit
  <1>4. CASE \E s \in Sources, i \in Ids : Evaluate(p, s, i)
    <2> PICK s \in Sources, i \in Ids : Evaluate(p, s, i)
      BY <1>4
    <2> DEFINE d == [db EXCEPT !.rows[s][i] = Merged(@)]
    <2>1. /\ pc[p] = "run" /\ db.rows[s][i] # "new" /\ Commit(p, d)
          /\ UNCHANGED <<snap, pc, cmd, at, k, first, starts, killed>>
      BY DEF Evaluate
    <2>2. db.parts = Parts
      BY <2>1, FinishedMeansAll DEF Inv, StepsOK
    <2>3. Sound(d) /\ Holds(d) /\ Grown(db, d) /\ d \in Database
      BY <1>1, <2>1, <2>2, EvaluatedOK DEF Sound
    <2> HIDE DEF d
    <2>4. StoreOK' /\ StepsOK' /\ db' \in Database /\ work' \in Database /\ behind' \subseteq Procs
      BY <2>1, <2>3, CommitOK DEF Inv, TypeOK
    <2>5. db'.parts = Parts /\ db' = d
      BY <2>1, <2>2, <2>3, <2>4 DEF Commit, Grown, Database
    <2> QED BY <2>1, <2>3, <2>4, <2>5 DEF Inv, TypeOK, SomeoneCan, Commit
  <1> QED BY <1>2, <1>3, <1>4

(* Steps of a process that touch no table.                                 *)
LEMMA LocalInv ==
  ASSUME Inv, NEW p \in Procs,
         \/ \E c \in {"init", "full"} : Start(p, c)
         \/ ReadVersion(p) \/ OpenStep(p) \/ Migrated(p) \/ Finish(p)
  PROVE  Inv' /\ Grown(db, db')
  <1>1. /\ UNCHANGED <<db, work, writer, behind, first, killed>>
        /\ p \notin behind /\ pc[p] # "step" /\ k[p] = 1
        /\ \A q \in Procs : q # p =>
             /\ pc'[q] = pc[q] /\ at'[q] = at[q] /\ k'[q] = k[q] /\ snap'[q] = snap[q]
             /\ cmd'[q] = cmd[q]
        /\ \/ pc[p] = "idle" /\ pc'[p] = "create"
           \/ pc[p] = "run" /\ pc'[p] = "idle" /\ UNCHANGED <<starts, cmd>>
           \/ /\ pc[p] = "read" /\ pc'[p] = "loop" /\ at'[p] = db.version
              /\ UNCHANGED <<starts, cmd>>
           \/ /\ pc[p] = "loop" /\ pc'[p] = "step" /\ HasNext(at[p]) /\ snap'[p] = db
              /\ at'[p] = at[p] /\ UNCHANGED <<starts, cmd>>
           \/ /\ pc[p] = "loop" /\ pc'[p] = "run" /\ ~HasNext(at[p])
              /\ at'[p] = at[p] /\ UNCHANGED <<starts, cmd>>
        /\ k'[p] = 1 /\ TypeOK'
    <2>1. p \notin behind /\ pc[p] # "step" /\ k[p] = 1 /\ Fresh \in Database /\ 0 \in Versions
      BY FreshSound DEF Inv, StoreOK, StepsOK, Start, ReadVersion, OpenStep, Migrated, Finish,
                        Sound, Versions, Latest
    <2>2. CASE \E c \in {"init", "full"} : Start(p, c)
      BY <2>1, <2>2 DEF Start, Goto, Inv, TypeOK, store
    <2>3. CASE ReadVersion(p)
      BY <2>1, <2>3 DEF ReadVersion, Goto, Inv, TypeOK, store, Database
    <2>4. CASE OpenStep(p)
      BY <2>1, <2>4 DEF OpenStep, Goto, Inv, TypeOK, store
    <2>5. CASE Migrated(p)
      BY <2>1, <2>5 DEF Migrated, Goto, Inv, TypeOK, store
    <2>6. CASE Finish(p)
      BY <2>1, <2>6 DEF Finish, Quit, Goto, Inv, TypeOK, store
    <2> QED BY <2>2, <2>3, <2>4, <2>5, <2>6
  <1>2. StoreOK'
    BY <1>1 DEF Inv, StoreOK, TypeOK, Holds, Grown
  <1>3. StepsOK'
    <2> SUFFICES ASSUME NEW q \in Procs
                 PROVE  /\ pc'[q] = "step" =>
                             /\ q \notin behind' => snap'[q] = db'
                             /\ Sound(snap'[q]) /\ HasNext(at'[q])
                             /\ PartsUpTo(at'[q]) \subseteq View(q)'.parts
                             /\ \A j \in 1 .. Len(PartsOf[at'[q] + 1]) :
                                  j < k'[q] => PartsOf[at'[q] + 1][j] \in View(q)'.parts
                        /\ pc'[q] # "step" => k'[q] = 1
                        /\ pc'[q] \in {"loop", "run"} => PartsUpTo(at'[q]) \subseteq db'.parts
                        /\ pc'[q] = "run" => ~HasNext(at'[q])
      BY DEF StepsOK
    <2>1. CASE q # p
      <3>1. View(q)' = View(q)
        BY <1>1, <2>1 DEF View
      <3> QED BY <1>1, <2>1, <3>1 DEF Inv, StepsOK
    <2>2. CASE q = p
      <3>1. pc'[p] = "step" => View(p)' = db
        BY <1>1, MigrationAssumption DEF View, Inv, StoreOK
      <3>2. Sound(db) /\ PartsUpTo(db.version) \subseteq db.parts
        BY DEF Inv, StoreOK, Sound
      <3>3. pc[p] = "loop" => PartsUpTo(at[p]) \subseteq db.parts
        BY DEF Inv, StepsOK
      <3>4. \A j : ~(j \in 1 .. Len(PartsOf[at'[p] + 1]) /\ j < 1)
        OBVIOUS
      <3> QED BY <1>1, <2>2, <3>1, <3>2, <3>3, <3>4
    <2> QED BY <2>1, <2>2
  <1>4. SomeoneCan'
    <2> SUFFICES ASSUME db.parts # Parts, ~killed, starts' > 0,
                        \A q \in Procs : cmd'[q] # "init"
                 PROVE  \E q \in Procs : Can(q)'
      BY <1>1 DEF SomeoneCan
    <2>1. CASE pc'[p] \in {"create", "loop"}
      BY <1>1, <2>1 DEF Can
    <2>2. CASE pc'[p] = "step"
      <3>1. CASE writer = NoOne
        BY <1>1, <2>2, <3>1 DEF Can, CanWrite
      <3>2. CASE writer # NoOne
        <4>1. writer \in Procs /\ pc[writer] = "step" /\ writer # p
          BY <1>1, <3>2 DEF Inv, StoreOK, TypeOK
        <4> QED BY <1>1, <4>1 DEF Can, CanWrite
      <3> QED BY <3>1, <3>2
    <2>3. CASE pc'[p] \in {"run", "idle"}
      <3>1. pc[p] \in {"loop", "run"} /\ ~HasNext(at[p])
        BY <1>1, <2>3 DEF Inv, StepsOK
      <3> QED BY <3>1, FinishedMeansAll
    <2> QED BY <1>1, <2>1, <2>2, <2>3
  <1> QED BY <1>1, <1>2, <1>3, <1>4 DEF Inv, Grown

(* A statement of a migration.                                             *)
LEMMA StatementInv ==
  ASSUME Inv, NEW p \in Procs, Statement(p)
  PROVE  Inv' /\ Grown(db, db')
  <1> DEFINE parts == PartsOf[at[p] + 1]
             d == Executed(View(p), parts[k[p]])
  <1>1. /\ pc[p] = "step" /\ k[p] \in 1 .. Len(parts) /\ Len(parts) \in Nat
        /\ k' = [k EXCEPT ![p] = k[p] + 1] /\ k[p] \in Nat /\ k[p] + 1 \in Nat \ {0}
        /\ UNCHANGED <<snap, pc, cmd, at, first, starts, killed, db, behind>>
        /\ parts[k[p]] \in Parts
        /\ NoOne \notin Procs
    <2>1. pc[p] = "step" /\ k[p] \in Nat \ {0} /\ k[p] <= Len(parts)
      BY DEF Statement, Inv, TypeOK
    <2>2. Len(parts) \in Nat /\ \A j \in 1 .. Len(parts) : parts[j] \in Parts
      BY <2>1, NextPartOK DEF Inv
    <2>3. UNCHANGED <<db, behind>>
      BY DEF Statement, Write, store
    <2> QED BY <2>1, <2>2, <2>3, MigrationAssumption DEF Statement
  <1>2. Sound(View(p))
    BY <1>1 DEF Inv, StoreOK, StepsOK, View
  <1>3. Sound(d) /\ (Holds(View(p)) => Holds(d)) /\ Grown(View(p), d) /\ parts[k[p]] \in d.parts
    BY <1>1, <1>2, ExecutedOK
  <1> HIDE DEF d, parts
  <1>4. View(p)' = d
    <2>1. CASE d = View(p)
      <3>1. UNCHANGED store
        BY <2>1 DEF Statement, d, parts
      <3> QED BY <1>1, <2>1, <3>1 DEF store, View
    <2>2. CASE d # View(p)
      <3>1. Write(p, d)
        BY <2>2 DEF Statement, d, parts
      <3> QED BY <3>1 DEF Write, View
    <2> QED BY <2>1, <2>2
  <1>5. \/ work' = work /\ writer' = writer
        \/ /\ work' = d /\ writer' = p /\ CanWrite(p) /\ p \notin behind
           /\ \A q \in Procs : q # p => writer # q
           /\ Holds(d) /\ Grown(db, d)
    <2>1. CASE d = View(p)
      BY <2>1 DEF Statement, store, d, parts
    <2>2. CASE d # View(p)
      <3>1. Write(p, d)
        BY <2>2 DEF Statement, d, parts
      <3>2. p \notin behind /\ \A q \in Procs : q # p => writer # q
        BY <3>1, <1>1 DEF Write, CanWrite, Inv, StoreOK
      <3>3. Holds(View(p)) /\ Grown(db, View(p))
        BY <1>1, <3>2 DEF View, Inv, StoreOK, StepsOK, Grown
      <3> QED BY <1>3, <3>1, <3>2, <3>3, GrownTransitive DEF Write
    <2> QED BY <2>1, <2>2
  <1>6. StoreOK'
    BY <1>1, <1>3, <1>5 DEF Inv, StoreOK, Holds
  <1>7. StepsOK'
    <2>1. ASSUME NEW q \in Procs, q # p PROVE View(q)' = View(q)
      BY <1>1, <1>5, <2>1 DEF View
    <2>2. \A j \in 1 .. Len(parts) : j < k'[p] => parts[j] \in d.parts
      <3>1. \A j \in 1 .. Len(parts) : j < k[p] => parts[j] \in View(p).parts
        BY <1>1 DEF Inv, StepsOK, parts
      <3>2. k'[p] = k[p] + 1
        BY <1>1 DEF Inv, TypeOK
      <3> QED BY <1>1, <1>3, <3>1, <3>2 DEF Grown
    <2>3. PartsUpTo(at[p]) \subseteq d.parts
      BY <1>1, <1>3 DEF Inv, StepsOK, Grown
    <2>4. \A q \in Procs : q # p => k'[q] = k[q]
      BY <1>1 DEF Inv, TypeOK
    <2> QED BY <1>1, <1>4, <2>1, <2>2, <2>3, <2>4 DEF Inv, StepsOK, parts
  <1>8. TypeOK'
    BY <1>1, <1>3, <1>5 DEF Inv, TypeOK, Sound
  <1>9. SomeoneCan'
    <2>1. CASE work' = work /\ writer' = writer
      BY <1>1, <2>1 DEF Inv, SomeoneCan, Can, CanWrite
    <2>2. CASE writer' = p
      BY <1>1, <2>2 DEF SomeoneCan, Can, CanWrite
    <2> QED BY <1>5, <2>1, <2>2
  <1> QED BY <1>1, <1>6, <1>7, <1>8, <1>9 DEF Inv, Grown

(* The version is written, and the savepoint released.                     *)
LEMMA FinishStepInv ==
  ASSUME Inv, NEW p \in Procs, FinishStep(p)
  PROVE  Inv' /\ Grown(db, db')
  <1> DEFINE d == [View(p) EXCEPT !.version = at[p] + 1]
  <1>1. /\ pc[p] = "step" /\ CanWrite(p) /\ NoOne \notin Procs
        /\ db' = d /\ work' = d /\ writer' = NoOne
        /\ behind' = (behind \cup {q \in Procs : pc[q] = "step"}) \ {p}
        /\ at' = [at EXCEPT ![p] = at[p] + 1] /\ at[p] \in 0 .. 5 /\ at[p] + 1 \in Versions
        /\ snap' = [snap EXCEPT ![p] = Fresh] /\ k' = [k EXCEPT ![p] = 1]
        /\ pc' = [pc EXCEPT ![p] = "loop"]
        /\ UNCHANGED <<cmd, first, starts, killed>>
    <2>1. pc[p] = "step"
      BY DEF FinishStep
    <2>2. at[p] \in 0 .. 5
      BY <2>1, NextPartOK DEF Inv
    <2> QED BY <2>1, <2>2, MigrationAssumption
            DEF FinishStep, Release, Overtake, Goto, Versions, Latest
  <1>2. p \notin behind /\ \A q \in Procs : q # p => writer # q
    BY <1>1 DEF CanWrite, Inv, StoreOK
  <1>3. Sound(View(p)) /\ Holds(View(p)) /\ Grown(db, View(p))
    BY <1>1, <1>2 DEF View, Inv, StoreOK, StepsOK, Grown
  <1>4. PartsUpTo(at[p] + 1) \subseteq View(p).parts
    <2>1. PartSet(at[p] + 1) \subseteq View(p).parts
      <3>1. k[p] > Len(PartsOf[at[p] + 1]) /\ k[p] \in Nat
        BY DEF FinishStep, Inv, TypeOK
      <3>2. Len(PartsOf[at[p] + 1]) \in Nat
        BY <1>1, NextPartOK DEF Inv
      <3>3. \A j \in 1 .. Len(PartsOf[at[p] + 1]) : PartsOf[at[p] + 1][j] \in View(p).parts
        BY <1>1, <3>1, <3>2 DEF Inv, StepsOK
      <3> QED BY <3>3 DEF PartSet
    <2> QED BY <1>1, <2>1, PartsStep DEF Inv, StepsOK
  <1>5. /\ d \in Database /\ d.parts = View(p).parts /\ d.rows = View(p).rows
        /\ d.archive = View(p).archive /\ d.version = at[p] + 1
    BY <1>1, <1>3 DEF Sound, Database
  <1>6. Sound(d) /\ Holds(d) /\ Grown(db, d)
    BY <1>3, <1>4, <1>5 DEF Sound, Holds, Grown
  <1> HIDE DEF d
  <1>7. /\ \A q \in Procs : q # p => /\ pc'[q] = pc[q] /\ at'[q] = at[q] /\ k'[q] = k[q]
                                     /\ snap'[q] = snap[q]
        /\ pc'[p] = "loop" /\ at'[p] = at[p] + 1 /\ k'[p] = 1 /\ snap'[p] = Fresh
        /\ Fresh \in Database
    BY <1>1, FreshSound DEF Inv, TypeOK, Sound
  <1>8. TypeOK'
    BY <1>1, <1>5, <1>7 DEF Inv, TypeOK
  <1>9. StoreOK'
    <2>1. behind \subseteq Procs
      BY DEF Inv, TypeOK
    <2> QED BY <1>1, <1>6, <1>7, <2>1 DEF Inv, StoreOK, Holds, Grown
  <1>10. StepsOK'
    <2> SUFFICES ASSUME NEW q \in Procs
                 PROVE  /\ pc'[q] = "step" =>
                             /\ q \notin behind' => snap'[q] = db'
                             /\ Sound(snap'[q]) /\ HasNext(at'[q])
                             /\ PartsUpTo(at'[q]) \subseteq View(q)'.parts
                             /\ \A j \in 1 .. Len(PartsOf[at'[q] + 1]) :
                                  j < k'[q] => PartsOf[at'[q] + 1][j] \in View(q)'.parts
                        /\ pc'[q] # "step" => k'[q] = 1
                        /\ pc'[q] \in {"loop", "run"} => PartsUpTo(at'[q]) \subseteq db'.parts
                        /\ pc'[q] = "run" => ~HasNext(at'[q])
      BY DEF StepsOK
    <2>1. CASE q # p
      <3>1. View(q)' = snap[q] /\ View(q) = snap[q]
        BY <1>1, <1>2, <1>7, <2>1 DEF View
      <3>2. pc[q] = "step" => q \in behind'
        BY <1>1, <2>1
      <3> QED BY <1>1, <1>6, <1>7, <2>1, <3>1, <3>2 DEF Inv, StepsOK, Grown
    <2>2. CASE q = p
      BY <1>1, <1>4, <1>5, <1>7, <2>2
    <2> QED BY <2>1, <2>2
  <1>11. SomeoneCan'
    BY <1>7 DEF SomeoneCan, Can
  <1> QED BY <1>1, <1>6, <1>8, <1>9, <1>10, <1>11 DEF Inv

(* A startup fails or its process ends: only a process that could not have *)
(* got further fails by itself.                                            *)
LEMMA EndingInv ==
  ASSUME Inv, NEW p \in Procs, StepFails(p) \/ Crash(p)
  PROVE  Inv' /\ Grown(db, db')
  <1>1. /\ work' = IF writer = p THEN db ELSE work
        /\ writer' = IF writer = p THEN NoOne ELSE writer
        /\ behind' = behind \ {p}
        /\ pc' = [pc EXCEPT ![p] = "idle"] /\ snap' = [snap EXCEPT ![p] = Fresh]
        /\ at' = [at EXCEPT ![p] = 0] /\ k' = [k EXCEPT ![p] = 1]
        /\ UNCHANGED <<db, cmd, first, starts>>
        /\ killed' \in BOOLEAN /\ (~killed' => ~killed /\ StepFails(p))
        /\ NoOne \notin Procs
    BY MigrationAssumption DEF StepFails, Crash, RollBack, Quit, Goto, Inv, TypeOK
  <1>2. /\ \A q \in Procs : q # p => /\ pc'[q] = pc[q] /\ at'[q] = at[q] /\ k'[q] = k[q]
                                     /\ snap'[q] = snap[q]
        /\ pc'[p] = "idle" /\ k'[p] = 1 /\ Fresh \in Database /\ 0 \in Versions
    BY <1>1, FreshSound DEF Inv, TypeOK, Sound, Versions, Latest
  <1>3. TypeOK'
    BY <1>1, <1>2 DEF Inv, TypeOK
  <1>4. StoreOK'
    BY <1>1, <1>2 DEF Inv, StoreOK, TypeOK, Holds, Grown
  <1>5. StepsOK'
    <2>1. ASSUME NEW q \in Procs, q # p PROVE View(q)' = View(q)
      BY <1>1, <1>2, <2>1 DEF View
    <2> QED BY <1>1, <1>2, <2>1 DEF Inv, StepsOK
  <1>6. SomeoneCan'
    <2> SUFFICES ASSUME ~killed, StepFails(p), db.parts # Parts, starts > 0,
                        \A q \in Procs : cmd[q] # "init"
                 PROVE  \E q \in Procs : Can(q)'
      BY <1>1 DEF SomeoneCan
    <2>1. PICK q \in Procs : Can(q)
      BY DEF Inv, SomeoneCan
    <2>2. q # p
      BY <2>1 DEF StepFails, Can
    <2> QED BY <1>1, <1>2, <2>1, <2>2 DEF Can, CanWrite
  <1> QED BY <1>1, <1>3, <1>4, <1>5, <1>6 DEF Inv, Grown

-----------------------------------------------------------------------------
LEMMA NextInv == ASSUME Inv, Next PROVE Inv' /\ Grown(db, db')
  BY CommittingInv, LocalInv, StatementInv, FinishStepInv, EndingInv DEF Next, Startup

LEMMA StutterInv == ASSUME Inv, UNCHANGED vars PROVE Inv' /\ Grown(db, db')
  BY DEF vars, store, Inv, TypeOK, StoreOK, StepsOK, SomeoneCan, Can, CanWrite, View, Holds, Grown

THEOREM Invariance == Spec => []Inv
  <1>1. Inv /\ [Next]_vars => Inv'
    BY NextInv, StutterInv
  <1> QED BY InitInv, <1>1, PTL DEF Spec

(* The recorded schema version never runs ahead of the schema              *)
(* (init_db, run_migrations).                                              *)
THEOREM VersionIsHonest == Spec => []VersionNeverAhead
  <1>1. Inv => VersionNeverAhead
    BY DEF Inv, StoreOK, Sound, VersionNeverAhead
  <1> QED BY Invariance, <1>1, PTL

(* No startup loses an evaluation of an earlier release                    *)
(* (_migrate_006_archive_legacy_evaluations).                              *)
THEOREM LegacyIsKept == Spec => []LegacyKept
  <1>1. Inv => LegacyKept
    BY DEF Inv, StoreOK, Holds, LegacyKept
  <1> QED BY Invariance, <1>1, PTL

(* Nor one of this release, although every start migrates again.           *)
THEOREM NewIsKept == Spec => NewStays
  <1>1. Inv /\ [Next]_vars =>
          [\A s \in Sources, i \in Ids : db.rows[s][i] = "new" => db'.rows[s][i] = "new"]_vars
    BY NextInv DEF Grown
  <1> QED BY Invariance, <1>1, PTL DEF Spec, NewStays

(* A command that has started up works on the complete schema and on no    *)
(* old row, and commands that start together never all fail.               *)
THEOREM StartupWorks == Spec => []ReadyMeansMigrated
  <1>1. ASSUME Inv PROVE ReadyMeansMigrated
    <2>1. OneGetsThrough
      BY <1>1 DEF Inv, SomeoneCan, Can, OneGetsThrough
    <2>2. ASSUME NEW p \in Procs, pc[p] = "run"
          PROVE  /\ db.parts = Parts
                 /\ \A s \in Sources, i \in Ids : db.rows[s][i] # "legacy"
      <3>1. db.parts = Parts
        BY <1>1, <2>2, FinishedMeansAll DEF Inv, StepsOK
      <3> QED BY <1>1, <3>1, ArchivesInParts, EverySourceHasItsArchive DEF Inv, StoreOK, Sound
    <2>3. \A s \in Sources, i \in Ids : db.rows[s][i] # "mixed"
      BY <1>1, EverySourceHasItsArchive DEF Inv, StoreOK, Sound
    <2> QED BY <2>1, <2>2, <2>3 DEF ReadyMeansMigrated
  <1> QED BY Invariance, <1>1, PTL

==============================================================================
