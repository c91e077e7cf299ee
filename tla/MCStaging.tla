------------------------------- MODULE MCStaging -------------------------------
(***************************************************************************)
(* Three runs, one after the other in any order, of snapshots of two files:    *)
(* enough for a run that replaces what another left behind when it failed.     *)
(***************************************************************************)
EXTENDS Staging, TLC

RunSymmetry == Permutations(Runs)
================================================================================
