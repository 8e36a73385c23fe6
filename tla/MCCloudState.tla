----------------------------- MODULE MCCloudState -----------------------------
(***************************************************************************)
(* A small instance of CloudState for TLC.                                 *)
(***************************************************************************)
EXTENDS CloudState, TLC

(* Jobs of the group are interchangeable.                                  *)
JobSymmetry == Permutations(Jobs \ ByHand)

=============================================================================
