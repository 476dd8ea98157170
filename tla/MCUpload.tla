------------------------------ MODULE MCUpload ------------------------------
(* A small instance of Upload for TLC: see README, "Runs and bounds".      *)
EXTENDS Upload
=============================================================================
