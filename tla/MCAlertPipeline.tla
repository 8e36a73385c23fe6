--------------------------- MODULE MCAlertPipeline ---------------------------
(***************************************************************************)
(* Small instances of AlertPipeline for TLC.                               *)
(***************************************************************************)
EXTENDS AlertPipeline

(* One symbol with an ordinary and a very-strong signal, far enough apart  *)
(* to escalate.                                                            *)
MCSymbols == {"BTC"}

MCCandidates ==
  {[symbol |-> "BTC", severity |-> "normal", score |-> 50],
   [symbol |-> "BTC", severity |-> "very_strong", score |-> 80]}

=============================================================================
