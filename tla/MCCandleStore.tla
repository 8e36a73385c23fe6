---------------------------- MODULE MCCandleStore ----------------------------
(***************************************************************************)
(* A small instance of CandleStore for TLC: a two-hour day, a window of    *)
(* three hours, and a retention that spans it (shipped: 720 hours within   *)
(* 2160).                                                                  *)
(***************************************************************************)
EXTENDS CandleStore, TLC
=============================================================================
