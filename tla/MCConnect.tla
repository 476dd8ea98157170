----------------------------- MODULE MCConnect ------------------------------
(* A small instance of Connect for TLC: see README, "Runs and bounds".     *)
EXTENDS Connect, TLC

Symmetric == Permutations(Keys) \cup Permutations(Forms)
=============================================================================
