----------------------------- MODULE AlertPolicy -----------------------------
(***************************************************************************)
(* The pure decision functions behind a buy alert: is_quiet_hours and      *)
(* minutes_between (crypto_monitor/utils/time_utils.py) and decide_alert   *)
(* (crypto_monitor/notifications/policy.py).                               *)
(*                                                                         *)
(* A time is a natural number of clock units since some local midnight;    *)
(* Day units make 24 hours.  The window and the cooldown are in the same   *)
(* units.                                                                  *)
(***************************************************************************)
EXTENDS Integers

CONSTANTS
  Day,              (* clock units in 24 hours                             *)
  QuietStart,       (* [alerts].quiet_hours_start, as a unit of the day    *)
  QuietEnd,         (* [alerts].quiet_hours_end                            *)
  Cooldown,         (* [alerts].cooldown_minutes                           *)
  EscalationJump    (* [alerts].escalation_jump, in score points           *)

ASSUME PolicyAssumption ==
  /\ Day \in Nat \ {0}
  /\ QuietStart \in 0 .. Day - 1 /\ QuietEnd \in 0 .. Day - 1
  /\ Cooldown \in Nat
  /\ EscalationJump \in Nat

Severities == {"normal", "strong", "very_strong"}

(* sent_at of a notification that was never delivered (NULL).              *)
Never == -1

(* No delivered alert for the symbol: decide_alert's prior is None.        *)
NoPrior == [sentAt |-> Never, score |-> 0]

(* The window wraps across midnight when it starts later than it ends, and *)
(* an empty window disables quiet hours.                                   *)
IsQuietHours(now) ==
  LET local == now % Day IN
  /\ QuietStart # QuietEnd
  /\ IF QuietStart < QuietEnd
       THEN QuietStart <= local /\ local < QuietEnd
       ELSE local >= QuietStart \/ local < QuietEnd

(* minutes_between: an absolute difference, whichever time comes first.    *)
Elapsed(a, b) == IF a >= b THEN a - b ELSE b - a

(* Variant: a very-strong signal escalates whatever its score.             *)
InCooldownBySeverity(signal, prior, now) ==
  /\ prior # NoPrior
  /\ Elapsed(now, prior.sentAt) < Cooldown
  /\ signal.severity # "very_strong"

(* The cooldown gate: a recent delivered alert silences the symbol unless  *)
(* the new score is an escalation over the score of that alert.            *)
InCooldown(signal, prior, now) ==
  /\ prior # NoPrior
  /\ Elapsed(now, prior.sentAt) < Cooldown
  /\ signal.score - prior.score < EscalationJump

DecideAlert(signal, prior, now) ==
  CASE InCooldown(signal, prior, now) -> "skip_cooldown"
    [] ~InCooldown(signal, prior, now)
         /\ IsQuietHours(now) /\ signal.severity # "very_strong" -> "queue"
    [] OTHER -> "send_now"

=============================================================================
