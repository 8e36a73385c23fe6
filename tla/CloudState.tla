------------------------------ MODULE CloudState ------------------------------
(***************************************************************************)
(* The database between workflow runs (.github/workflows, gha_state.sh):   *)
(* a job checks out the state branch, decrypts the database, runs one      *)
(* command of the CLI on it and, if the command exits 0, pushes the result *)
(* as the branch's only commit, with a lease on the commit it checked out. *)
(*                                                                         *)
(* A command acts on the world before its database is safe: a scan has     *)
(* sent alerts, a weekly report its summary.  What a job that fails did to *)
(* its copy is forgotten.  Each scan moves alerts as AlertLifecycle says.  *)
(*                                                                         *)
(* Jobs of the workflows share a concurrency group; the script can also be *)
(* run by hand, outside it.                                                *)
(***************************************************************************)
EXTENDS Integers, FiniteSets

CONSTANTS
  Jobs,         (* runs of a workflow, or of the script                    *)
  ByHand,       (* those outside the concurrency group                     *)
  Signals,      (* signals scans may detect                                *)
  MaxTries      (* MAX_DELIVERY_ATTEMPTS                                   *)

ASSUME CloudAssumption ==
  /\ ByHand \subseteq Jobs
  /\ MaxTries \in Nat \ {0}

VARIABLES
  remote,       (* the state branch: how often it was pushed, the database *)
  job,          (* each job: pc, command, the commit it checked out, its   *)
                (* database                                                *)
  pushed,       (* history: jobs whose push the branch accepted            *)
  reached,      (* history: <<job, signal>>, the job's scan sent the alert *)
                (* and a copy reached the phone                            *)
  delivered,    (* history: those of them the server acknowledged          *)
  reported      (* history: weekly jobs whose summary reached it           *)

vars == <<remote, job, pushed, reached, delivered, reported>>

Life == INSTANCE AlertLifecycle WITH Ids <- Signals, fate <- remote.db.fate

Commands == {"scan", "weekly", "buy", "evaluate"}

(* The rows that jobs add: by buy and evaluate, weekly summaries, and the  *)
(* alert of each signal.                                                   *)
Database == [records : SUBSET Jobs,
             weeks : [Jobs -> {"none", "unsent", "sent"}],
             fate : [Signals -> Life!Fates]]

Empty == [records |-> {}, weeks |-> [j \in Jobs |-> "none"],
          fate |-> [s \in Signals |-> Life!Fate("absent", 0)]]

Active == {"checkout", "restore", "command", "send", "flip", "push"}

Init ==
  /\ remote = [rev |-> 0, db |-> Empty]
  /\ job = [j \in Jobs |-> [pc |-> "none", cmd |-> "scan", base |-> 0, db |-> Empty]]
  /\ pushed = {} /\ reached = {} /\ delivered = {} /\ reported = {}

-----------------------------------------------------------------------------
(* Helpers, with variants for the mutants.                                 *)

(* Variant: git push --force.                                              *)
LeaseHoldsForced(j) == TRUE

(* --force-with-lease: nobody has pushed since this job's checkout.        *)
LeaseHolds(j) == remote.rev = job[j].base

(* Variant: the push step runs always().                                   *)
AfterFailureAlways(j) == IF job[j].pc = "command" THEN "push" ELSE "failed"

(* A step that fails skips the steps after it.                             *)
AfterFailure(j) == "failed"

(* Variant: a failed decryption is taken for a cold start.                 *)
AfterBadRestoreCold(j) == [job[j] EXCEPT !.pc = "command", !.db = Empty]

AfterBadRestore(j) == [job[j] EXCEPT !.pc = "failed"]

Goto(j, label) == job' = [job EXCEPT ![j].pc = label]

InGroup(j) == j \notin ByHand

-----------------------------------------------------------------------------
(* The concurrency group runs one job and keeps one waiting: a new job     *)
(* takes the place of the one that waits, which is cancelled.              *)

GroupBusy == \E j \in Jobs : InGroup(j) /\ job[j].pc \in Active

Trigger(j, cmd) ==
  LET started == [job[j] EXCEPT !.cmd = cmd,
                    !.pc = IF InGroup(j) /\ GroupBusy THEN "pending" ELSE "checkout"]
  IN  /\ job[j].pc = "none"
      /\ job' = [i \in Jobs |->
                   IF i = j THEN started
                   ELSE IF InGroup(j) /\ job[i].pc = "pending"
                     THEN [job[i] EXCEPT !.pc = "cancelled"] ELSE job[i]]
      /\ UNCHANGED <<remote, pushed, reached, delivered, reported>>

LeaveQueue(j) ==
  /\ job[j].pc = "pending" /\ ~GroupBusy
  /\ Goto(j, "checkout")
  /\ UNCHANGED <<remote, pushed, reached, delivered, reported>>

(* Checkout state branch.                                                  *)
Checkout(j) ==
  /\ job[j].pc = "checkout"
  /\ job' = [job EXCEPT ![j].pc = "restore",
                        ![j].base = remote.rev, ![j].db = remote.db]
  /\ UNCHANGED <<remote, pushed, reached, delivered, reported>>

(* do_pull; on a branch without a database a cold start.                   *)
Restore(j) ==
  /\ job[j].pc = "restore" /\ Goto(j, "command")
  /\ UNCHANGED <<remote, pushed, reached, delivered, reported>>

(* The decryption or the integrity check fails.                            *)
RestoreFails(j) ==
  /\ job[j].pc = "restore"
  /\ job' = [job EXCEPT ![j] = AfterBadRestore(j)]
  /\ UNCHANGED <<remote, pushed, reached, delivered, reported>>

Runs(j, cmd) == job[j].pc = "command" /\ job[j].cmd = cmd

(* f is what a call leaves behind whose answer never came: it counts, and  *)
(* the row is queued again or has used its last attempt.                   *)
Unanswered(f, tries) ==
  /\ f.tries > tries
  /\ f.stage = "queued" \/ (f.stage = "dropped" /\ f.tries = MaxTries)

(* One commit of a scan moves the alert of a signal by one step.  A copy   *)
(* may have reached the phone though the row says the call failed (lost);  *)
(* that is no error of the scan.                                           *)
ScanCommit(j, s, f, lost) ==
  /\ Runs(j, "scan")
  /\ f \in Life!Successors(job[j].db.fate[s])
  /\ lost => Unanswered(f, job[j].db.fate[s].tries)
  /\ job' = [job EXCEPT ![j].db.fate[s] = f]
  /\ delivered' = IF f.stage = "delivered" THEN delivered \cup {<<j, s>>} ELSE delivered
  /\ reached' = IF f.stage = "delivered" \/ lost THEN reached \cup {<<j, s>>} ELSE reached
  /\ UNCHANGED <<remote, pushed, reported>>

ScanEnds(j) ==
  /\ Runs(j, "scan") /\ Goto(j, "push")
  /\ UNCHANGED <<remote, pushed, reached, delivered, reported>>

(* A scan that dies or times out between a send and its commit: the stage  *)
(* reports an error, or the process is gone.  The alert may be of a signal *)
(* that was not committed either.                                          *)
ScanLosesSend(j, s) ==
  /\ Runs(j, "scan") /\ job[j].db.fate[s].stage \in {"absent", "pending", "queued"}
  /\ reached' = reached \cup {<<j, s>>}
  /\ Goto(j, AfterFailure(j))
  /\ UNCHANGED <<remote, pushed, delivered, reported>>

(* buy add, and evaluate.                                                  *)
Record(j) ==
  /\ Runs(j, "buy") \/ Runs(j, "evaluate")
  /\ job' = [job EXCEPT ![j].pc = "push", ![j].db.records = @ \cup {j}]
  /\ UNCHANGED <<remote, pushed, reached, delivered, reported>>

(* persist_weekly_summary.                                                 *)
PersistWeekly(j) ==
  /\ Runs(j, "weekly")
  /\ job' = [job EXCEPT ![j].pc = "send", ![j].db.weeks[j] = "unsent"]
  /\ UNCHANGED <<remote, pushed, reached, delivered, reported>>

(* send_weekly_summary flips the flag only after an acknowledged send;     *)
(* without one the row stays as it is and the command still exits 0.       *)
SendWeekly(j, sent) ==
  /\ job[j].pc = "send"
  /\ Goto(j, IF sent THEN "flip" ELSE "push")
  /\ reported' = IF sent THEN reported \cup {j} ELSE reported
  /\ UNCHANGED <<remote, pushed, reached, delivered>>

FlipWeekly(j) ==
  /\ job[j].pc = "flip"
  /\ job' = [job EXCEPT ![j].pc = "push", ![j].db.weeks[j] = "sent"]
  /\ UNCHANGED <<remote, pushed, reached, delivered, reported>>

(* The command reports an error or is killed.                              *)
CommandFails(j) ==
  /\ job[j].pc \in {"command", "send", "flip"}
  /\ Goto(j, AfterFailure(j))
  /\ UNCHANGED <<remote, pushed, reached, delivered, reported>>

(* do_push; the answer may be lost after the branch has moved.             *)
Push(j, answered) ==
  /\ job[j].pc = "push" /\ LeaseHolds(j)
  /\ remote' = [rev |-> remote.rev + 1, db |-> job[j].db]
  /\ pushed' = pushed \cup {j}
  /\ Goto(j, IF answered THEN "done" ELSE "failed")
  /\ UNCHANGED <<reached, delivered, reported>>

(* The lease is stale, or the encrypted file fails its check, or the       *)
(* runner is lost.                                                         *)
PushFails(j) ==
  /\ job[j].pc = "push" /\ Goto(j, "failed")
  /\ UNCHANGED <<remote, pushed, reached, delivered, reported>>

Command(j) ==
  \/ \E s \in Signals, f \in Life!Fates, lost \in BOOLEAN : ScanCommit(j, s, f, lost)
  \/ \E s \in Signals : ScanLosesSend(j, s)
  \/ ScanEnds(j) \/ Record(j) \/ PersistWeekly(j)
  \/ \E sent \in BOOLEAN : SendWeekly(j, sent)
  \/ FlipWeekly(j) \/ CommandFails(j)

Next == \E j \in Jobs :
  \/ \E cmd \in Commands : Trigger(j, cmd)
  \/ LeaveQueue(j) \/ Checkout(j) \/ Restore(j) \/ RestoreFails(j)
  \/ Command(j)
  \/ \E answered \in BOOLEAN : Push(j, answered)
  \/ PushFails(j)

Spec == Init /\ [][Next]_vars

-----------------------------------------------------------------------------
Job == [pc : Active \cup {"none", "pending", "done", "failed", "cancelled"},
        cmd : Commands, base : Nat, db : Database]

TypeOK ==
  /\ remote \in [rev : Nat, db : Database]
  /\ job \in [Jobs -> Job]
  /\ pushed \subseteq Jobs
  /\ reached \subseteq Jobs \X Signals /\ delivered \subseteq reached
  /\ reported \subseteq Jobs

WeeklyFlagHonest == \A j \in Jobs : remote.db.weeks[j] = "sent" => j \in reported

(* What a job recorded (a buy, an evaluation, a weekly summary) and pushed *)
(* stays in every later state of the branch, whatever jobs started from an *)
(* older one, were killed, or ran outside the group; and a summary the     *)
(* branch calls sent has reached the phone.                                *)
PushedKept ==
  /\ WeeklyFlagHonest
  /\ \A j \in pushed :
       /\ job[j].cmd \in {"buy", "evaluate"} => j \in remote.db.records
       /\ job[j].cmd = "weekly" => remote.db.weeks[j] # "none"

(* The branch accounts for every alert its jobs sent: each pushed job that *)
(* got a copy to the phone used up a delivery cycle the branch counts, so  *)
(* there are no more of them than MaxTries; and once the server has        *)
(* acknowledged a copy, the branch says so and no job that started from it *)
(* sends another.  So a phone gets an alert again only because an answer   *)
(* was lost, or from a job whose push never arrived.                       *)
SendersCounted == \A s \in Signals :
  LET senders == {j \in pushed : <<j, s>> \in reached} IN
  /\ Cardinality(senders) <= remote.db.fate[s].tries
  /\ \A i \in senders : <<i, s>> \in delivered =>
       /\ remote.db.fate[s].stage = "delivered"
       /\ \A j \in senders \ {i} : job[j].base < job[i].base

(* Where a chain of commits can take an alert.                             *)
Onward(f) == {g \in Life!Fates :
  \/ g = f \/ f.stage = "absent"
  \/ f.stage = "pending" /\ g.stage \notin {"absent", "pending"}
  \/ /\ f.stage = "queued" /\ g.stage \in {"queued", "delivered", "dropped"}
     /\ g.tries >= f.tries}

(* A push moves every alert on, by whole runs of the abstract lifecycle:   *)
(* the branch is never set back to where an alert already settled could be *)
(* examined, counted or sent again.                                        *)
FatesMoveOn == [][\A s \in Signals : remote'.db.fate[s] \in Onward(remote.db.fate[s])]_vars

=============================================================================
