---------------------------- MODULE MCStatements ----------------------------
EXTENDS Statements, TLC

ModelNames == "d2" :> "gpt" @@ "d4" :> None
Log(n, cost, found) == [observed |-> n, cost |-> cost, found |-> found]
Row(n, r, usd) == [row |-> n, route |-> r, usd |-> usd]
Calls(D, m, usd) == [b \in D \X {m} |-> usd]
Seen == {Log(7, Calls({1}, "gpt", 3), <<Row(1, "d2", 3), Row(2, "d2", 1), Row(3, "d4", 2)>>),
         Log(7, Calls({1, 2}, "gpt", 2), <<Row(1, "d4", 1)>>),
         Log(7, Calls({2}, "mini", 1), <<>>),
         Log(1, Calls({1}, "gpt", 1), <<Row(2, "d2", 2), Row(1, "d2", 1)>>)}
=============================================================================
