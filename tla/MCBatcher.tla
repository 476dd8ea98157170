----------------------------- MODULE MCBatcher ------------------------------
(* A small instance of Batcher for TLC: see README, "Runs and bounds".      *)
EXTENDS Batcher
=============================================================================
