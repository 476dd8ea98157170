------------------------------ MODULE MCRunner ------------------------------
(* Small instances of Runner for TLC: see README, "Runs and bounds".       *)
EXTENDS Runner
=============================================================================
