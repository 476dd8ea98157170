----------------------------- MODULE MCDunning ------------------------------
(* Small instances of Dunning for TLC: see README, "Runs and bounds".      *)
EXTENDS Dunning
=============================================================================
