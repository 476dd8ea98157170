----------------------------- MODULE MCSchedule -----------------------------
(* Small instances of Schedule for TLC: see README, "Runs and bounds".     *)
EXTENDS Schedule
=============================================================================
