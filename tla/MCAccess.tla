------------------------------ MODULE MCAccess ------------------------------
(* A small instance of Access for TLC: see README, "Runs and bounds".    *)
EXTENDS Access, TLC

\* No handler is told from another by its place.
Symmetry == Permutations(Requests)
=============================================================================
