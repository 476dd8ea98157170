----------------------------- MODULE CreditOnce -----------------------------
(***************************************************************************)
(* What the payment webhooks promise a customer: a completed payment is    *)
(* one audit credit (services/payments/base.py).  No provider, no webhook  *)
(* and no clock: a purchase is paid, and then credited in one step, once.  *)
(* Checkout.tla shows the webhook handlers to implement this.              *)
(***************************************************************************)
EXTENDS Naturals

CONSTANT Purchases

VARIABLES
    paid,         \* the purchases whose money arrived
    credits       \* purchase -> rows of payments that stand for it

vars == <<paid, credits>>

Init ==
    /\ paid = {}
    /\ credits = [p \in Purchases |-> 0]

Pay(p) ==
    /\ p \notin paid
    /\ paid' = paid \cup {p}
    /\ UNCHANGED credits

Credit(p) ==
    /\ p \in paid
    /\ credits[p] = 0
    /\ credits' = [credits EXCEPT ![p] = 1]
    /\ UNCHANGED paid

Next == \E p \in Purchases : Pay(p) \/ Credit(p)

Spec == Init /\ [][Next]_vars
=============================================================================
