---------------------------- MODULE MCSignalStore ----------------------------
(***************************************************************************)
(* Small instances of SignalStore for TLC, with the shipped thresholds     *)
(* (min_signal_score 50, tiers 50, 65 and 80, watch floor 35) and a        *)
(* risk-on adjustment that takes the emit floor below the watch floor.     *)
(***************************************************************************)
EXTENDS SignalStore, TLC

(* Accepted in risk-on only; borderline or accepted in risk-on; the top    *)
(* tier always.                                                            *)
MCScores == {32, 40, 80}

MCAdjusts == {-20, 0}

(* Overlapping scans are interchangeable.                                  *)
ScanSymmetry == Permutations(Scans)

=============================================================================
