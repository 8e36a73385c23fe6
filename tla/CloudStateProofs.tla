-------------------------- MODULE CloudStateProofs --------------------------
(***************************************************************************)
(* Theorems about CloudState, for every number of jobs, in the group or    *)
(* by hand, of signals and of delivery attempts.                           *)
(*                                                                         *)
(* The argument: a job whose lease still holds has a database that started *)
(* as the branch's and was only added to (Grown), so what it pushes keeps  *)
(* what was there, and counts a delivery cycle more for every alert the    *)
(* job sent; and a push ends the lease of every other job.                 *)
(***************************************************************************)
EXTENDS CloudState, FiniteSetTheorems, TLAPS

(* A job that has a copy of the branch and has not ended.                  *)
Working(j) == job[j].pc \in {"restore", "command", "send", "flip", "push"}

(* The database new keeps what old holds.                                  *)
Grown(old, new) ==
  /\ old.records \subseteq new.records
  /\ \A i \in Jobs : old.weeks[i] # "none" => new.weeks[i] # "none"
  /\ \A s \in Signals : new.fate[s] \in Onward(old.fate[s])

(* No lease is ahead of the branch, and one that holds is of a job whose   *)
(* copy has grown from the branch as it is.                                *)
LeasesOK == \A j \in Jobs :
  /\ job[j].base <= remote.rev
  /\ Working(j) /\ LeaseHolds(j) => Grown(remote.db, job[j].db)

(* A job has recorded what its command says before it reaches the push.    *)
CommandsOK == \A j \in Jobs :
  /\ job[j].pc \in {"send", "flip"} => job[j].cmd = "weekly" /\ job[j].db.weeks[j] # "none"
  /\ job[j].pc = "push" =>
       /\ job[j].cmd \in {"buy", "evaluate"} => j \in job[j].db.records
       /\ job[j].cmd = "weekly" => job[j].db.weeks[j] # "none"

(* A summary called sent, on the branch or in a job's copy, was sent.      *)
FlagsOK ==
  /\ WeeklyFlagHonest
  /\ \A i, j \in Jobs : job[i].db.weeks[j] = "sent" => j \in reported
  /\ \A j \in Jobs : job[j].pc = "flip" => j \in reported

(* A job that got a copy to the phone has counted it in its own copy of    *)
(* the database, until it ends, over what the branch counted as the job    *)
(* found it; and what was acknowledged that copy calls delivered.          *)
DeliveriesOK == \A j \in Jobs, s \in Signals : <<j, s>> \in reached =>
  /\ job[j].pc \notin {"none", "pending", "checkout", "restore", "cancelled"}
  /\ Working(j) /\ LeaseHolds(j) => remote.db.fate[s].tries < job[j].db.fate[s].tries
  /\ Working(j) /\ <<j, s>> \in delivered => job[j].db.fate[s].stage = "delivered"

PushesOK ==
  /\ IsFiniteSet(pushed)
  /\ \A j \in pushed : job[j].pc \in {"done", "failed"} /\ job[j].base < remote.rev

Senders(s) == {j \in pushed : <<j, s>> \in reached}

Inv ==
  /\ TypeOK /\ LeasesOK /\ CommandsOK /\ FlagsOK /\ DeliveriesOK /\ PushesOK
  /\ PushedKept /\ SendersCounted

-----------------------------------------------------------------------------
(* Onward is a preorder that contains the steps of the lifecycle.          *)

LEMMA OnwardReflexive == \A f \in Life!Fates : f \in Onward(f)
  BY DEF Onward, Life!Fates

LEMMA SuccessorCases ==
  ASSUME NEW f \in Life!Fates, NEW h \in Life!Successors(f)
  PROVE  /\ f.stage \in {"absent", "pending", "queued"}
         /\ f.tries \in Nat /\ h.tries \in {f.tries, f.tries + 1}
         /\ h.stage = "delivered" => h.tries = f.tries + 1
  <1>1. f.tries \in Nat /\ (f.stage \in {"absent", "pending"} => f.tries = 0)
    BY CloudAssumption DEF Life!Fates
  <1>2. ASSUME h \in Life!AfterPending
        PROVE  h.tries \in {0, 1} /\ (h.stage = "delivered" => h.tries = 1)
    BY <1>2 DEF Life!AfterPending, Life!Fate
  <1>3. CASE f.stage \in {"absent", "pending"}
    <2>1. h = Life!Fate("pending", 0) \/ h \in Life!AfterPending
      BY <1>3 DEF Life!Successors
    <2>2. h.tries \in {0, 1} /\ (h.stage = "delivered" => h.tries = 1)
      BY <1>2, <2>1 DEF Life!Fate
    <2> QED BY <1>1, <1>3, <2>2
  <1>4. CASE f.stage = "queued"
    BY <1>1, <1>4 DEF Life!Successors, Life!Fate, Life!AfterQueued
  <1>5. CASE f.stage \notin {"absent", "pending", "queued"}
    BY <1>5 DEF Life!Successors
  <1> QED BY <1>1, <1>3, <1>4, <1>5

LEMMA OnwardStep ==
  ASSUME NEW f \in Life!Fates, NEW g \in Onward(f), NEW h \in Life!Fates,
         h \in Life!Successors(g)
  PROVE  h \in Onward(f)
  BY CloudAssumption
     DEF Onward, Life!Fates, Life!Successors, Life!AfterPending, Life!AfterQueued, Life!Fate

LEMMA GrownReflexive == \A d \in Database : Grown(d, d)
  BY OnwardReflexive DEF Grown, Database

(* What is delivered stays delivered, and takes no further step.           *)
LEMMA DeliveredIsFinal ==
  ASSUME NEW f \in Life!Fates, f.stage = "delivered"
  PROVE  /\ \A g \in Onward(f) : g = f
         /\ \A g : g \notin Life!Successors(f)
  BY DEF Onward, Life!Fates, Life!Successors

(* On the way onward tries are only added.                                 *)
LEMMA TriesGrow ==
  ASSUME NEW f \in Life!Fates, NEW g \in Onward(f)
  PROVE  f.tries \in Nat /\ g.tries \in Nat /\ f.tries <= g.tries
  <1>1. /\ f.tries \in Nat /\ g.tries \in Nat
        /\ f.stage \in {"absent", "pending"} => f.tries = 0
    BY CloudAssumption DEF Onward, Life!Fates
  <1> QED BY <1>1 DEF Onward

LEMMA OnwardTransitive ==
  ASSUME NEW f \in Life!Fates, NEW g \in Onward(f), NEW h \in Onward(g)
  PROVE  h \in Onward(f)
  BY DEF Onward, Life!Fates

LEMMA GrownTransitive ==
  ASSUME NEW a \in Database, NEW b \in Database, NEW c \in Database,
         Grown(a, b), Grown(b, c)
  PROVE  Grown(a, c)
  <1>1. \A s \in Signals : a.fate[s] \in Life!Fates
    BY DEF Database
  <1>2. \A s \in Signals : c.fate[s] \in Onward(a.fate[s])
    BY <1>1, OnwardTransitive DEF Grown
  <1> QED BY <1>2 DEF Grown, Database

LEMMA InitInv == Init => Inv
  BY CloudAssumption, GrownReflexive, FS_EmptySet
     DEF Init, Inv, TypeOK, LeasesOK, CommandsOK, FlagsOK, DeliveriesOK, PushesOK, PushedKept,
         SendersCounted, WeeklyFlagHonest, Working, Empty, Database, Commands,
         Life!Fates, Life!Fate, Active, Job

(* A step that neither pushes nor sends on behalf of a pushed job.         *)
LEMMA SendersKept ==
  ASSUME SendersCounted, UNCHANGED <<remote, pushed>>,
         \A i \in pushed : job'[i].base = job[i].base,
         \A i \in pushed, s \in Signals :
           /\ <<i, s>> \in reached' <=> <<i, s>> \in reached
           /\ <<i, s>> \in delivered' <=> <<i, s>> \in delivered
  PROVE  SendersCounted'
  <1>1. \A s \in Signals : Senders(s)' = Senders(s)
    BY DEF Senders
  <1>2. \A s \in Signals : \A i \in Senders(s) : i \in pushed
    BY DEF Senders
  <1> QED BY <1>1, <1>2 DEF SendersCounted, Senders

-----------------------------------------------------------------------------
(* Steps that leave every copy and the history alone: a job goes on, waits *)
(* or ends.                                                                *)
LEMMA ControlInv ==
  ASSUME Inv, NEW j \in Jobs,
         \/ \E cmd \in Commands : Trigger(j, cmd)
         \/ LeaveQueue(j) \/ Restore(j) \/ RestoreFails(j) \/ ScanEnds(j)
         \/ CommandFails(j) \/ PushFails(j)
  PROVE  Inv'
  <1> DEFINE quiet == {"none", "pending", "checkout", "cancelled"}
  <1>1. /\ UNCHANGED <<remote, pushed, reached, delivered, reported>>
        /\ job' \in [Jobs -> Job]
        /\ \A i \in Jobs :
             /\ job'[i].base = job[i].base /\ job'[i].db = job[i].db
             /\ \/ job'[i].pc = job[i].pc /\ job'[i].cmd = job[i].cmd
                \/ job[i].pc \in quiet /\ job'[i].pc \in quiet
                \/ /\ job'[i].cmd = job[i].cmd
                   /\ \/ job[i].pc = "restore" /\ job'[i].pc = "command"
                      \/ job[i].pc = "command" /\ job[i].cmd = "scan" /\ job'[i].pc = "push"
                      \/ Working(i) /\ job'[i].pc = "failed"
    <2>1. CASE \E cmd \in Commands : Trigger(j, cmd)
      <3> PICK cmd \in Commands : Trigger(j, cmd)
        BY <2>1
      <3>1. PICK label \in {"pending", "checkout"} :
              job' = [i \in Jobs |->
                IF i = j THEN [job[j] EXCEPT !.cmd = cmd, !.pc = label]
                ELSE IF InGroup(j) /\ job[i].pc = "pending"
                  THEN [job[i] EXCEPT !.pc = "cancelled"] ELSE job[i]]
        BY DEF Trigger
      <3>2. job \in [Jobs -> Job] /\ job[j].pc = "none"
        BY DEF Inv, TypeOK, Trigger
      <3>3. job' \in [Jobs -> Job]
        BY <3>1, <3>2 DEF Job, Active
      <3>4. UNCHANGED <<remote, pushed, reached, delivered, reported>>
        BY DEF Trigger
      <3> QED BY <3>1, <3>2, <3>3, <3>4 DEF Job
    <2>2. CASE LeaveQueue(j)
      BY <2>2 DEF Inv, TypeOK, Job, LeaveQueue, Goto, Active
    <2>3. CASE Restore(j) \/ RestoreFails(j)
      BY <2>3 DEF Inv, TypeOK, Job, Restore, RestoreFails, AfterBadRestore, Goto, Active, Working
    <2>4. CASE ScanEnds(j)
      BY <2>4 DEF Inv, TypeOK, Job, ScanEnds, Runs, Goto, Active
    <2>5. CASE CommandFails(j) \/ PushFails(j)
      BY <2>5 DEF Inv, TypeOK, Job, CommandFails, PushFails, AfterFailure, Goto, Active, Working
    <2> QED BY <2>1, <2>2, <2>3, <2>4, <2>5
  <1>2. TypeOK' /\ PushesOK' /\ FlagsOK' /\ CommandsOK'
    BY <1>1 DEF Inv, TypeOK, PushesOK, FlagsOK, WeeklyFlagHonest, CommandsOK, Working
  <1>3. LeasesOK' /\ DeliveriesOK'
    BY <1>1 DEF Inv, LeasesOK, DeliveriesOK, Working, LeaseHolds
  <1>4. PushedKept' /\ SendersCounted'
    <2>1. \A i \in pushed : i \in Jobs /\ job'[i].cmd = job[i].cmd
      BY <1>1 DEF Inv, TypeOK, PushesOK, Working
    <2> QED BY <1>1, <2>1, SendersKept DEF Inv, PushedKept, WeeklyFlagHonest
  <1> QED BY <1>2, <1>3, <1>4 DEF Inv

(* The checkout copies the branch, and the lease holds.                    *)
LEMMA CheckoutInv ==
  ASSUME Inv, NEW j \in Jobs, Checkout(j)
  PROVE  Inv'
  <1>1. /\ job[j].pc = "checkout"
        /\ job' = [job EXCEPT ![j] = [job[j] EXCEPT
                     !.pc = "restore", !.base = remote.rev, !.db = remote.db]]
        /\ UNCHANGED <<remote, pushed, reached, delivered, reported>>
    BY DEF Checkout, Inv, TypeOK, Job
  <1>2. job \in [Jobs -> Job] /\ remote.rev \in Nat /\ remote.db \in Database
    BY DEF Inv, TypeOK
  <1>3. TypeOK'
    BY <1>1, <1>2 DEF Inv, TypeOK, Job, Active
  <1>4. LeasesOK'
    BY <1>1, <1>2, GrownReflexive DEF Inv, LeasesOK, Working, LeaseHolds, Job
  <1>5. CommandsOK' /\ FlagsOK' /\ PushesOK'
    BY <1>1, <1>2 DEF Inv, CommandsOK, FlagsOK, WeeklyFlagHonest, PushesOK, TypeOK, Job
  <1>6. DeliveriesOK'
    BY <1>1, <1>2 DEF Inv, DeliveriesOK, Working, LeaseHolds, Job
  <1>7. PushedKept' /\ SendersCounted'
    <2>1. \A i \in pushed : job'[i] = job[i]
      BY <1>1, <1>2 DEF Inv, PushesOK, TypeOK
    <2> QED BY <1>1, <2>1, SendersKept DEF Inv, PushedKept, WeeklyFlagHonest
  <1> QED BY <1>3, <1>4, <1>5, <1>6, <1>7 DEF Inv

(* A job changes its copy: what only depends on the copy having grown.     *)
LEMMA CopyGrows ==
  ASSUME Inv, NEW j \in Jobs, job[j].pc \in {"command", "flip"},
         NEW label \in {"command", "send", "push"},
         NEW d \in Database, Grown(job[j].db, d),
         job' = [job EXCEPT ![j] = [job[j] EXCEPT !.pc = label, !.db = d]],
         UNCHANGED <<remote, pushed>>
  PROVE  job' \in [Jobs -> Job] /\ LeasesOK' /\ PushesOK' /\ j \notin pushed
  <1>1. job \in [Jobs -> Job] /\ remote.db \in Database /\ pushed \subseteq Jobs
    BY DEF Inv, TypeOK
  <1>2. job' \in [Jobs -> Job]
    BY <1>1 DEF Job, Active
  <1>3. LeasesOK'
    <2>1. Working(j) /\ LeaseHolds(j) => Grown(remote.db, job[j].db)
      BY DEF Inv, LeasesOK
    <2>2. Working(j) /\ LeaseHolds(j) => Grown(remote.db, d)
      BY <1>1, <2>1, GrownTransitive DEF Job
    <2> QED BY <1>1, <2>2 DEF Inv, LeasesOK, Working, LeaseHolds, Job
  <1>4. j \notin pushed
    BY DEF Inv, PushesOK
  <1>5. PushesOK'
    BY <1>1, <1>4 DEF Inv, PushesOK, Job
  <1> QED BY <1>2, <1>3, <1>4, <1>5

LEMMA ScanCommitInv ==
  ASSUME Inv, NEW j \in Jobs, NEW s \in Signals, NEW f \in Life!Fates, NEW lost \in BOOLEAN,
         ScanCommit(j, s, f, lost)
  PROVE  Inv'
  <1> DEFINE d == [job[j].db EXCEPT !.fate = [job[j].db.fate EXCEPT ![s] = f]]
  <1>1. /\ job[j].pc = "command" /\ job[j].cmd = "scan"
        /\ job[j] \in Job /\ job[j].db \in Database
        /\ f \in Life!Successors(job[j].db.fate[s])
        /\ UNCHANGED <<remote, pushed, reported>>
    BY DEF ScanCommit, Runs, Inv, TypeOK, Job
  <1>2. d \in Database
    BY <1>1 DEF Database
  <1>3. job' = [job EXCEPT ![j] = [job[j] EXCEPT !.pc = "command", !.db = d]]
    <2>1. job \in [Jobs -> Job] /\ job' = [job EXCEPT ![j].db.fate[s] = f]
      BY DEF ScanCommit, Inv, TypeOK
    <2>2. job' = [job EXCEPT ![j] = [job[j] EXCEPT !.db = d]]
      BY <2>1, Zenon
    <2> HIDE DEF d
    <2>3. [job[j] EXCEPT !.db = d] = [job[j] EXCEPT !.pc = "command", !.db = d]
      BY <1>1 DEF Job
    <2> QED BY <2>2, <2>3, Zenon
  <1>4. Grown(job[j].db, d)
    BY <1>1, OnwardReflexive, OnwardStep DEF Grown, Database
  <1> HIDE DEF d
  <1>5. job' \in [Jobs -> Job] /\ LeasesOK' /\ PushesOK' /\ j \notin pushed
    BY <1>1, <1>2, <1>3, <1>4, CopyGrows
  <1>6. /\ \A i \in Jobs : job'[i].cmd = job[i].cmd /\ job'[i].pc = job[i].pc
        /\ \A i \in Jobs : job'[i].base = job[i].base /\ (i # j => job'[i].db = job[i].db)
        /\ job'[j].db = [job[j].db EXCEPT !.fate = [job[j].db.fate EXCEPT ![s] = f]]
    BY <1>1, <1>3 DEF d, Inv, TypeOK, Job
  <1>7. /\ delivered' = IF f.stage = "delivered" THEN delivered \cup {<<j, s>>} ELSE delivered
        /\ reached' = IF f.stage = "delivered" \/ lost THEN reached \cup {<<j, s>>} ELSE reached
        /\ reached' \subseteq Jobs \X Signals /\ delivered' \subseteq reached'
    BY DEF ScanCommit, Inv, TypeOK
  <1>8. TypeOK'
    BY <1>1, <1>5, <1>7 DEF Inv, TypeOK
  <1>9. CommandsOK' /\ FlagsOK'
    BY <1>1, <1>6 DEF Inv, CommandsOK, FlagsOK, WeeklyFlagHonest, Database
  <1>10. DeliveriesOK'
    <2> DEFINE old == job[j].db.fate[s]
    <2>1. old \in Life!Fates /\ remote.db.fate[s] \in Life!Fates
      BY <1>1 DEF Inv, TypeOK, Database
    <2>2. /\ old.stage # "delivered" /\ old.tries \in Nat
          /\ f.tries \in {old.tries, old.tries + 1}
          /\ f.stage = "delivered" \/ lost => f.tries > old.tries
      BY <1>1, <2>1, SuccessorCases DEF ScanCommit, Unanswered
    <2>3. LeaseHolds(j) => remote.db.fate[s].tries \in Nat /\ remote.db.fate[s].tries <= old.tries
      <3>1. LeaseHolds(j) => old \in Onward(remote.db.fate[s])
        BY <1>1 DEF Inv, LeasesOK, Grown, Working
      <3> HIDE DEF old
      <3> QED BY <2>1, <3>1, TriesGrow
    <2>4. /\ job'[j].db.fate[s] = f
          /\ \A x \in Signals : x # s => job'[j].db.fate[x] = job[j].db.fate[x]
      BY <1>1, <1>6 DEF Database
    <2>5. /\ \A i \in Jobs : (Working(i)' <=> Working(i)) /\ (LeaseHolds(i)' <=> LeaseHolds(i))
          /\ remote' = remote
      BY <1>1, <1>6 DEF Working, LeaseHolds
    <2> SUFFICES ASSUME NEW i \in Jobs, NEW x \in Signals, <<i, x>> \in reached'
                 PROVE  /\ job[i].pc \notin {"none", "pending", "checkout", "restore", "cancelled"}
                        /\ Working(i) /\ LeaseHolds(i) =>
                             remote.db.fate[x].tries < job'[i].db.fate[x].tries
                        /\ Working(i) /\ <<i, x>> \in delivered' =>
                             job'[i].db.fate[x].stage = "delivered"
      BY <1>6, <2>5 DEF DeliveriesOK
    <2>6. CASE i = j /\ x = s
      <3>1. LeaseHolds(j) => remote.db.fate[s].tries < f.tries
        <4>1. CASE <<j, s>> \in reached
          <5>1. LeaseHolds(j) => remote.db.fate[s].tries < old.tries
            BY <1>1, <4>1 DEF Inv, DeliveriesOK, Working
          <5> HIDE DEF old
          <5> QED BY <2>2, <2>3, <5>1
        <4>2. CASE <<j, s>> \notin reached
          <5>1. f.tries > old.tries
            BY <1>7, <2>2, <2>6, <4>2
          <5> HIDE DEF old
          <5> QED BY <2>2, <2>3, <5>1
        <4> QED BY <4>1, <4>2
      <3>2. <<j, s>> \in delivered' => f.stage = "delivered"
        <4>1. <<j, s>> \notin delivered
          BY <1>1, <2>2 DEF Inv, DeliveriesOK, TypeOK, Working
        <4> QED BY <1>7, <4>1
      <3> QED BY <1>1, <2>4, <2>6, <3>1, <3>2
    <2>7. CASE ~(i = j /\ x = s)
      <3>1. <<i, x>> \in reached /\ (<<i, x>> \in delivered' => <<i, x>> \in delivered)
        BY <1>7, <2>7
      <3>2. /\ job[i].pc \notin {"none", "pending", "checkout", "restore", "cancelled"}
            /\ Working(i) /\ LeaseHolds(i) => remote.db.fate[x].tries < job[i].db.fate[x].tries
            /\ Working(i) /\ <<i, x>> \in delivered => job[i].db.fate[x].stage = "delivered"
        BY <3>1 DEF Inv, DeliveriesOK
      <3>3. job'[i].db.fate[x] = job[i].db.fate[x]
        BY <1>6, <2>4, <2>7
      <3> QED BY <3>1, <3>2, <3>3
    <2> QED BY <2>6, <2>7
  <1>11. PushedKept'
    BY <1>1, <1>5, <1>6 DEF Inv, TypeOK, PushedKept, WeeklyFlagHonest
  <1>12. SendersCounted'
    <2>1. \A i \in pushed : i # j /\ i \in Jobs
      BY <1>5 DEF Inv, TypeOK
    <2> QED BY <1>1, <1>6, <1>7, <2>1, SendersKept DEF Inv
  <1> QED BY <1>5, <1>8, <1>9, <1>10, <1>11, <1>12 DEF Inv

(* A send that is lost with its job: the job's copy does not get further.  *)
LEMMA ScanLosesSendInv ==
  ASSUME Inv, NEW j \in Jobs, NEW s \in Signals, ScanLosesSend(j, s)
  PROVE  Inv'
  <1>1. /\ job[j].pc = "command" /\ job[j].cmd = "scan"
        /\ job' = [job EXCEPT ![j].pc = "failed"]
        /\ reached' = reached \cup {<<j, s>>}
        /\ UNCHANGED <<remote, pushed, delivered, reported>>
        /\ job \in [Jobs -> Job] /\ pushed \subseteq Jobs
    BY DEF ScanLosesSend, Runs, Goto, AfterFailure, Inv, TypeOK
  <1>2. TypeOK'
    <2>1. job' \in [Jobs -> Job]
      BY <1>1 DEF Job
    <2> QED BY <1>1, <2>1 DEF Inv, TypeOK
  <1>3. j \notin pushed /\ \A i \in Jobs : job'[i].cmd = job[i].cmd
    BY <1>1 DEF Inv, PushesOK, Job
  <1>4. LeasesOK' /\ CommandsOK' /\ FlagsOK' /\ PushesOK'
    BY <1>1, <1>3 DEF Inv, LeasesOK, CommandsOK, FlagsOK, WeeklyFlagHonest, PushesOK,
                      Working, LeaseHolds, Job
  <1>5. DeliveriesOK'
    BY <1>1 DEF Inv, DeliveriesOK, Working, LeaseHolds, Job
  <1>6. PushedKept'
    BY <1>1, <1>3 DEF Inv, PushedKept, WeeklyFlagHonest
  <1>7. SendersCounted'
    <2>1. \A i \in pushed : i # j /\ job'[i] = job[i]
      BY <1>1, <1>3
    <2> QED BY <1>1, <2>1, SendersKept DEF Inv
  <1> QED BY <1>2, <1>4, <1>5, <1>6, <1>7 DEF Inv

(* Rows a job adds to its copy, a buy or evaluation or a weekly summary.   *)
LEMMA RowsInv ==
  ASSUME Inv, NEW j \in Jobs, Record(j) \/ PersistWeekly(j) \/ FlipWeekly(j)
  PROVE  Inv'
  <1>1. /\ job[j].pc \in {"command", "flip"}
        /\ job[j] \in Job /\ job[j].db \in Database
        /\ UNCHANGED <<remote, pushed, reached, delivered, reported>>
    BY DEF Record, PersistWeekly, FlipWeekly, Runs, Inv, TypeOK, Job
  <1>2. PICK label \in {"send", "push"}, r \in SUBSET Jobs,
             w \in [Jobs -> {"none", "unsent", "sent"}] :
          /\ job' = [job EXCEPT ![j] = [job[j] EXCEPT
                       !.pc = label, !.db = [job[j].db EXCEPT !.records = r, !.weeks = w]]]
          /\ job[j].db.records \subseteq r
          /\ \A i \in Jobs : i # j => w[i] = job[j].db.weeks[i]
          /\ job[j].cmd \in {"buy", "evaluate"} => j \in r
          /\ w[j] = "sent" => job[j].db.weeks[j] = "sent" \/ j \in reported
          /\ job[j].cmd = "weekly" => w[j] # "none"
          /\ job[j].db.weeks[j] # "none" => w[j] # "none"
          /\ label = "send" => job[j].cmd = "weekly"
    <2> DEFINE Weeks == [Jobs -> {"none", "unsent", "sent"}]
               r0 == job[j].db.records
               w0 == job[j].db.weeks
    <2>0. r0 \in SUBSET Jobs /\ w0 \in Weeks /\ job \in [Jobs -> Job]
      BY <1>1 DEF Database, Inv, TypeOK
    <2>1. CASE Record(j)
      <3> /\ r0 \cup {j} \in SUBSET Jobs /\ w0 \in Weeks
        BY <2>0
      <3> WITNESS "push" \in {"send", "push"}, r0 \cup {j} \in SUBSET Jobs, w0 \in Weeks
      <3>1. job' = [job EXCEPT ![j] = [job[j] EXCEPT !.pc = "push",
                      !.db = [job[j].db EXCEPT !.records = r0 \cup {j}, !.weeks = w0]]]
        BY <1>1, <2>1 DEF Record, Inv, TypeOK, Job, Database
      <3> QED BY <2>1, <3>1 DEF Record, Runs
    <2>2. CASE PersistWeekly(j)
      <3>0. PICK w1 \in Weeks : w1 = [w0 EXCEPT ![j] = "unsent"]
        BY <2>0
      <3> r0 \in SUBSET Jobs
        BY <2>0
      <3> WITNESS "send" \in {"send", "push"}, r0 \in SUBSET Jobs, w1 \in Weeks
      <3>1. job' = [job EXCEPT ![j] = [job[j] EXCEPT !.pc = "send",
                      !.db = [job[j].db EXCEPT !.records = r0, !.weeks = w1]]]
        <4>1. job' = [job EXCEPT ![j] = [job[j] EXCEPT
                        !.pc = "send", !.db = [job[j].db EXCEPT !.weeks = w1]]]
          <5>1. job' = [job EXCEPT ![j].pc = "send", ![j].db.weeks[j] = "unsent"]
            BY <2>2 DEF PersistWeekly
          <5> QED BY <1>1, <2>0, <3>0, <5>1 DEF Job, Database
        <4>2. [job[j].db EXCEPT !.weeks = w1] = [job[j].db EXCEPT !.records = r0, !.weeks = w1]
          BY <1>1 DEF Database
        <4> QED BY <4>1, <4>2
      <3> QED BY <2>0, <2>2, <3>0, <3>1 DEF PersistWeekly, Runs
    <2>3. CASE FlipWeekly(j)
      <3>0. PICK w1 \in Weeks : w1 = [w0 EXCEPT ![j] = "sent"]
        BY <2>0
      <3> r0 \in SUBSET Jobs
        BY <2>0
      <3> WITNESS "push" \in {"send", "push"}, r0 \in SUBSET Jobs, w1 \in Weeks
      <3>1. job' = [job EXCEPT ![j] = [job[j] EXCEPT !.pc = "push",
                      !.db = [job[j].db EXCEPT !.records = r0, !.weeks = w1]]]
        <4>1. job' = [job EXCEPT ![j] = [job[j] EXCEPT
                        !.pc = "push", !.db = [job[j].db EXCEPT !.weeks = w1]]]
          BY <2>0, <2>3, <3>0, ZenonT(60) DEF FlipWeekly, Job
        <4>2. [job[j].db EXCEPT !.weeks = w1] = [job[j].db EXCEPT !.records = r0, !.weeks = w1]
          BY <1>1 DEF Database
        <4> QED BY <4>1, <4>2
      <3>2. j \in reported /\ job[j].cmd = "weekly"
        BY <2>3 DEF FlipWeekly, Inv, FlagsOK, CommandsOK
      <3> QED BY <2>0, <3>0, <3>1, <3>2
    <2> QED BY <2>1, <2>2, <2>3
  <1> DEFINE d == [job[j].db EXCEPT !.records = r, !.weeks = w]
  <1>3. /\ d \in Database /\ d.records = r /\ d.weeks = w /\ d.fate = job[j].db.fate
        /\ job' = [job EXCEPT ![j] = [job[j] EXCEPT !.pc = label, !.db = d]]
    BY <1>1, <1>2 DEF Database
  <1> HIDE DEF d
  <1>4. Grown(job[j].db, d)
    BY <1>1, <1>2, <1>3, OnwardReflexive DEF Grown, Database
  <1>5. job' \in [Jobs -> Job] /\ LeasesOK' /\ PushesOK' /\ j \notin pushed
    BY <1>1, <1>3, <1>4, CopyGrows
  <1>6. /\ \A i \in Jobs : job'[i].cmd = job[i].cmd /\ job'[i].base = job[i].base
        /\ \A i \in Jobs : i # j => job'[i] = job[i]
        /\ job'[j].pc = label /\ job'[j].db = d
    BY <1>1, <1>3 DEF Inv, TypeOK, Job
  <1>7. TypeOK'
    BY <1>1, <1>5 DEF Inv, TypeOK
  <1>8. CommandsOK' /\ FlagsOK'
    BY <1>1, <1>2, <1>3, <1>6 DEF Inv, CommandsOK, FlagsOK, WeeklyFlagHonest
  <1>9. DeliveriesOK'
    BY <1>1, <1>3, <1>6 DEF Inv, DeliveriesOK, Working, LeaseHolds
  <1>10. PushedKept' /\ SendersCounted'
    BY <1>1, <1>6, SendersKept DEF Inv, TypeOK, PushedKept, WeeklyFlagHonest
  <1> QED BY <1>5, <1>7, <1>8, <1>9, <1>10 DEF Inv

LEMMA SendWeeklyInv ==
  ASSUME Inv, NEW j \in Jobs, NEW sent \in BOOLEAN, SendWeekly(j, sent)
  PROVE  Inv'
  <1>1. PICK label \in {"flip", "push"} :
          /\ job[j].pc = "send" /\ job' = [job EXCEPT ![j].pc = label]
          /\ reported \subseteq reported' /\ reported' \subseteq Jobs
          /\ label = "flip" => j \in reported'
          /\ UNCHANGED <<remote, pushed, reached, delivered>>
          /\ job \in [Jobs -> Job]
    BY DEF SendWeekly, Goto, Inv, TypeOK
  <1>2. /\ job' \in [Jobs -> Job] /\ job'[j].pc = label
        /\ \A i \in Jobs : /\ job'[i].cmd = job[i].cmd /\ job'[i].base = job[i].base
                           /\ job'[i].db = job[i].db /\ (i # j => job'[i].pc = job[i].pc)
    BY <1>1 DEF Job, Active
  <1>3. TypeOK' /\ PushesOK'
    BY <1>1, <1>2 DEF Inv, TypeOK, PushesOK
  <1>4. CommandsOK' /\ FlagsOK'
    BY <1>1, <1>2 DEF Inv, CommandsOK, FlagsOK, WeeklyFlagHonest
  <1>5. LeasesOK' /\ DeliveriesOK'
    BY <1>1, <1>2 DEF Inv, LeasesOK, DeliveriesOK, Working, LeaseHolds
  <1>6. PushedKept' /\ SendersCounted'
    BY <1>1, <1>2, SendersKept DEF Inv, TypeOK, PushedKept, WeeklyFlagHonest
  <1> QED BY <1>3, <1>4, <1>5, <1>6 DEF Inv

(* The branch becomes a copy that has grown from it, and every other lease *)
(* is stale from now on.                                                   *)
LEMMA PushInv ==
  ASSUME Inv, NEW j \in Jobs, NEW answered \in BOOLEAN, Push(j, answered)
  PROVE  Inv' /\ Grown(remote.db, remote'.db)
  <1>1. PICK label \in {"done", "failed"} :
          /\ job[j].pc = "push" /\ LeaseHolds(j)
          /\ remote' = [rev |-> remote.rev + 1, db |-> job[j].db]
          /\ pushed' = pushed \cup {j} /\ job' = [job EXCEPT ![j].pc = label]
          /\ UNCHANGED <<reached, delivered, reported>>
    BY DEF Push, Goto
  <1>2. /\ job \in [Jobs -> Job] /\ remote.rev \in Nat /\ remote.db \in Database
        /\ pushed \subseteq Jobs /\ reached \subseteq Jobs \X Signals
        /\ delivered \subseteq reached
    BY DEF Inv, TypeOK
  <1>3. /\ job' \in [Jobs -> Job] /\ job'[j].pc = label
        /\ \A i \in Jobs : /\ job'[i].cmd = job[i].cmd /\ job'[i].base = job[i].base
                           /\ job'[i].db = job[i].db /\ (i # j => job'[i].pc = job[i].pc)
    BY <1>1, <1>2 DEF Job
  <1>4. TypeOK'
    BY <1>1, <1>2, <1>3 DEF Inv, TypeOK, Job
  <1>5. Grown(remote.db, job[j].db)
    BY <1>1 DEF Inv, LeasesOK, Working
  <1>6. \A i \in Jobs : job'[i].base < remote'.rev
    BY <1>1, <1>2, <1>3 DEF Inv, LeasesOK, Job
  <1>7. LeasesOK'
    BY <1>4, <1>6 DEF LeasesOK, LeaseHolds, TypeOK, Job
  <1>8. CommandsOK' /\ FlagsOK' /\ PushesOK'
    <2>1. CommandsOK' /\ FlagsOK'
      BY <1>1, <1>2, <1>3 DEF Inv, CommandsOK, FlagsOK, WeeklyFlagHonest
    <2>2. IsFiniteSet(pushed')
      BY <1>1, FS_AddElement DEF Inv, PushesOK
    <2> QED BY <1>1, <1>2, <1>3, <1>6, <2>1, <2>2 DEF Inv, PushesOK
  <1>9. DeliveriesOK'
    <2>1. \A i \in Jobs : ~LeaseHolds(i)'
      BY <1>4, <1>6 DEF LeaseHolds, TypeOK, Job
    <2> QED BY <1>1, <1>3, <2>1 DEF Inv, DeliveriesOK, Working
  <1>10. PushedKept'
    <2>1. ASSUME NEW i \in pushed
          PROVE  /\ job[i].cmd \in {"buy", "evaluate"} => i \in job[j].db.records
                 /\ job[i].cmd = "weekly" => job[j].db.weeks[i] # "none"
      BY <1>2, <1>5 DEF Inv, PushedKept, Grown
    <2>2. /\ job[j].cmd \in {"buy", "evaluate"} => j \in job[j].db.records
          /\ job[j].cmd = "weekly" => job[j].db.weeks[j] # "none"
      BY <1>1 DEF Inv, CommandsOK
    <2> QED BY <1>1, <1>2, <1>3, <1>8, <2>1, <2>2 DEF PushedKept, FlagsOK
  <1>11. SendersCounted'
    <2> SUFFICES ASSUME NEW s \in Signals
                 PROVE  /\ Cardinality(Senders(s)') <= job[j].db.fate[s].tries
                        /\ \A i \in Senders(s)' : <<i, s>> \in delivered =>
                             /\ job[j].db.fate[s].stage = "delivered"
                             /\ \A k \in Senders(s)' \ {i} : job'[k].base < job'[i].base
      BY <1>1 DEF SendersCounted, Senders
    <2> DEFINE old == remote.db.fate[s]
               new == job[j].db.fate[s]
    <2>1. old \in Life!Fates /\ new \in Onward(old)
      BY <1>2, <1>5 DEF Database, Grown
    <2>2. /\ Cardinality(Senders(s)) <= old.tries
          /\ \A i \in Senders(s) : <<i, s>> \in delivered =>
               /\ old.stage = "delivered"
               /\ \A k \in Senders(s) \ {i} : job[k].base < job[i].base
      BY DEF Inv, SendersCounted, Senders
    <2>3. <<j, s>> \in reached =>
            /\ old.tries < new.tries
            /\ <<j, s>> \in delivered => new.stage = "delivered"
      BY <1>1 DEF Inv, DeliveriesOK, Working
    <2>4. Senders(s)' = IF <<j, s>> \in reached THEN Senders(s) \cup {j} ELSE Senders(s)
      BY <1>1 DEF Senders
    <2>5. IsFiniteSet(Senders(s)) /\ j \notin Senders(s)
      <3>1. Senders(s) \subseteq pushed /\ IsFiniteSet(pushed) /\ j \notin pushed
        BY <1>1 DEF Senders, Inv, PushesOK
      <3> QED BY <3>1, FS_Subset
    <2>6. \A i \in Senders(s) : job[i].base < job[j].base /\ job'[i].base = job[i].base
      BY <1>1, <1>2, <1>3 DEF Inv, PushesOK, Senders, LeaseHolds
    <2>7. job'[j].base = job[j].base
      BY <1>3
    <2> HIDE DEF old, new
    <2>8. old.tries \in Nat /\ new.tries \in Nat /\ old.tries <= new.tries
      BY <2>1, TriesGrow
    <2>9. old.stage = "delivered" => new = old
      BY <2>1, DeliveredIsFinal
    <2>10. Cardinality(Senders(s)') <= new.tries
      <3>1. Cardinality(Senders(s)) \in Nat
        BY <2>5, FS_CardinalityType
      <3>2. CASE <<j, s>> \in reached
        <4>1. Cardinality(Senders(s)') = Cardinality(Senders(s)) + 1
          BY <2>4, <2>5, <3>2, FS_AddElement
        <4> QED BY <2>2, <2>3, <2>8, <3>1, <3>2, <4>1
      <3>3. CASE <<j, s>> \notin reached
        BY <2>2, <2>4, <2>8, <3>1, <3>3
      <3> QED BY <3>2, <3>3
    <2>11. ASSUME NEW i \in Senders(s)', <<i, s>> \in delivered
           PROVE  /\ new.stage = "delivered"
                  /\ \A k \in Senders(s)' \ {i} : job'[k].base < job'[i].base
      <3>1. CASE i = j
        <4>1. \A k \in Senders(s)' \ {j} : k \in Senders(s)
          BY <2>4
        <4> QED BY <1>2, <2>3, <2>6, <2>7, <2>11, <3>1, <4>1
      <3>2. CASE i # j
        <4>1. i \in Senders(s) /\ old.stage = "delivered" /\ new = old
          BY <2>2, <2>4, <2>9, <2>11, <3>2
        <4>2. Senders(s)' = Senders(s)
          BY <2>3, <2>4, <2>8, <4>1
        <4> QED BY <2>2, <2>6, <2>11, <4>1, <4>2
      <3> QED BY <3>1, <3>2
    <2> QED BY <2>10, <2>11 DEF new
  <1> QED BY <1>1, <1>4, <1>5, <1>7, <1>8, <1>9, <1>10, <1>11 DEF Inv

-----------------------------------------------------------------------------
(* No step sets the branch back.                                           *)
MovesOn == \A s \in Signals : remote'.db.fate[s] \in Onward(remote.db.fate[s])

LEMMA StillMovesOn == ASSUME Inv, UNCHANGED remote PROVE MovesOn
  BY OnwardReflexive DEF MovesOn, Inv, TypeOK, Database

LEMMA NextInv == ASSUME Inv, Next PROVE Inv' /\ MovesOn
  <1> PICK j \in Jobs :
        \/ \E cmd \in Commands : Trigger(j, cmd)
        \/ LeaveQueue(j) \/ Checkout(j) \/ Restore(j) \/ RestoreFails(j)
        \/ Command(j)
        \/ \E answered \in BOOLEAN : Push(j, answered)
        \/ PushFails(j)
    BY DEF Next
  <1>1. CASE \/ \E cmd \in Commands : Trigger(j, cmd)
             \/ LeaveQueue(j) \/ Restore(j) \/ RestoreFails(j) \/ ScanEnds(j)
             \/ CommandFails(j) \/ PushFails(j)
    BY <1>1, ControlInv, StillMovesOn
       DEF Trigger, LeaveQueue, Restore, RestoreFails, ScanEnds, CommandFails, PushFails
  <1>2. CASE Checkout(j)
    BY <1>2, CheckoutInv, StillMovesOn DEF Checkout
  <1>3. CASE \E s \in Signals, f \in Life!Fates, lost \in BOOLEAN : ScanCommit(j, s, f, lost)
    BY <1>3, ScanCommitInv, StillMovesOn DEF ScanCommit
  <1>4. CASE \E s \in Signals : ScanLosesSend(j, s)
    BY <1>4, ScanLosesSendInv, StillMovesOn DEF ScanLosesSend
  <1>5. CASE Record(j) \/ PersistWeekly(j) \/ FlipWeekly(j)
    BY <1>5, RowsInv, StillMovesOn DEF Record, PersistWeekly, FlipWeekly
  <1>6. CASE \E sent \in BOOLEAN : SendWeekly(j, sent)
    BY <1>6, SendWeeklyInv, StillMovesOn DEF SendWeekly
  <1>7. CASE \E answered \in BOOLEAN : Push(j, answered)
    BY <1>7, PushInv DEF MovesOn, Grown
  <1> QED BY <1>1, <1>2, <1>3, <1>4, <1>5, <1>6, <1>7 DEF Command

LEMMA StutterInv == ASSUME Inv, UNCHANGED vars PROVE Inv'
  BY DEF vars, Inv, TypeOK, LeasesOK, CommandsOK, FlagsOK, DeliveriesOK, PushesOK, PushedKept,
         SendersCounted, WeeklyFlagHonest, Working, LeaseHolds

THEOREM Invariance == Spec => []Inv
  <1>1. Inv /\ [Next]_vars => Inv'
    BY NextInv, StutterInv
  <1> QED BY InitInv, <1>1, PTL DEF Spec

(* What a job recorded and pushed stays on the branch, whatever ran next   *)
(* to it or failed (gha_state.sh, the workflows' push steps).              *)
THEOREM PushesAreKept == Spec => []PushedKept
  <1>1. Inv => PushedKept
    BY DEF Inv
  <1> QED BY Invariance, <1>1, PTL

(* The pushed jobs that got a signal's alert to the phone are no more than *)
(* the delivery cycles the branch counts, and the one the server answered  *)
(* is the last: another copy comes of a lost answer, or of a job whose     *)
(* push never arrived.                                                     *)
THEOREM SendersAreCounted == Spec => []SendersCounted
  <1>1. Inv => SendersCounted
    BY DEF Inv
  <1> QED BY Invariance, <1>1, PTL

(* The branch never goes back on an alert.                                 *)
THEOREM BranchMovesOn == Spec => FatesMoveOn
  <1>1. Inv /\ [Next]_vars => [MovesOn]_vars
    BY NextInv
  <1> QED BY Invariance, <1>1, PTL DEF Spec, FatesMoveOn, MovesOn

==============================================================================
