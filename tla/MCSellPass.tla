------------------------------ MODULE MCSellPass ------------------------------
(***************************************************************************)
(* Small instances of SellPass for TLC.                                    *)
(***************************************************************************)
EXTENDS SellPass, TLC

(* With a target of 30 percent an entry of 10 meets it at 13; with a       *)
(* trailing stop of 20 percent, 10 trails a peak of 13.  An entry of 13    *)
(* meets its stop at 10 if that is 20 percent, not if it is 25, and is     *)
(* then only at a loss.                                                    *)
MCPrices == {10, 13}

(* Overlapping scans are interchangeable.                                  *)
ScanSymmetry == Permutations(Scans)

=============================================================================
