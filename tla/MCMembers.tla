----------------------------- MODULE MCMembers ------------------------------
(* A small instance of Members for TLC: see README, "Runs and bounds".     *)
EXTENDS Members, TLC

CONSTANTS o, a, b
Row(plan, status) == [plan |-> plan, status |-> status, currency |-> "USD"]
Subscriptions == (o :> Row("team", "past_due")) @@ (a :> Row("pro", "cancelled")) @@ (b :> Row("free", "past_due"))
=============================================================================
