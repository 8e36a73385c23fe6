----------------------------- MODULE MCMigrations -----------------------------
(***************************************************************************)
(* A small instance of Migrations for TLC.                                 *)
(***************************************************************************)
EXTENDS Migrations, TLC

(* Commands that start together are interchangeable.                       *)
ProcSymmetry == Permutations(Procs)

=============================================================================
