---------------------------- MODULE AlertLifecycle ----------------------------
(***************************************************************************)
(* What the alert tables promise about one buy signal, with no processes,  *)
(* passes or transactions: a signal waits to be examined, is silenced by   *)
(* the cooldown or becomes a notification, and a notification is retried a *)
(* bounded number of times until it is delivered or dropped.  One commit   *)
(* may move any number of signals, each by one step, except that a new     *)
(* signal and its first examination may share a commit.                    *)
(***************************************************************************)
EXTENDS Integers

CONSTANTS
  Ids,          (* signal ids                                              *)
  MaxTries      (* delivery cycles a notification may use                  *)

VARIABLE fate   (* stage of each signal, and delivery cycles used so far   *)

Fates ==
  [stage: {"absent", "pending", "skipped"}, tries: {0}]
    \cup [stage: {"queued", "delivered", "dropped"}, tries: 0 .. MaxTries]

Fate(stage, tries) == [stage |-> stage, tries |-> tries]

Init == fate = [s \in Ids |-> Fate("absent", 0)]

(* The first pass over a new signal: silenced, queued unsent for quiet     *)
(* hours, or tried once.                                                   *)
AfterPending ==
  {Fate("skipped", 0), Fate("queued", 0)}
    \cup {Fate(stage, 1) : stage \in {"queued", "delivered", "dropped"}}

(* A delivery cycle uses one try and waits again only with tries left;     *)
(* expiry drops a notification without using one.                          *)
AfterQueued(tries) ==
  {Fate("delivered", tries + 1), Fate("dropped", tries + 1), Fate("dropped", tries)}
    \cup {f \in {Fate("queued", tries + 1)} : tries + 1 < MaxTries}

Successors(f) ==
  IF f.stage = "absent" THEN {Fate("pending", 0)} \cup AfterPending
  ELSE IF f.stage = "pending" THEN AfterPending
  ELSE IF f.stage = "queued" THEN AfterQueued(f.tries)
  ELSE {}

Next ==
  /\ fate' \in [Ids -> Fates]
  /\ \A s \in Ids : fate'[s] = fate[s] \/ fate'[s] \in Successors(fate[s])

Spec == Init /\ [][Next]_fate

=============================================================================
