------------------------------ MODULE Checkout ------------------------------
(***************************************************************************)
(* How money becomes credits and plans.  web/routes_billing.py shows       *)
(* prices and opens a purchase at a provider; the provider reports what    *)
(* becomes of it in webhooks (api/routes_webhooks.py), each delivered any  *)
(* number of times, late and in any order; the adapters of                 *)
(* services/payments/ read a webhook, and the handler records its event    *)
(* id, credits a one-time audit or moves the subscription, and commits.    *)
(*                                                                         *)
(* The billing page only shows prices; a purchase is opened beside it.     *)
(* The handlers are coroutines that do not await between reading the body  *)
(* and the commit, in the one worker the server runs, so a webhook is one  *)
(* step; a crash before the commit leaves the webhook unacknowledged.      *)
(* Signatures, layouts and the signed callback of the checkout modal       *)
(* (which changes nothing) are left out.  Failed charges are Dunning's.    *)
(***************************************************************************)
EXTENDS Naturals, FiniteSets

CONSTANTS
    Users,
    MaxPurchases,   \* bound: purchases are numbered 1 .. MaxPurchases
    Offers,         \* bound: what is bought together, sequences of kind and plan
    Owners,         \* the users who own the workspace they act in
    CohortSize,     \* settings.launch_cohort_size
    MaxByHand,      \* bound on the operator's grants
    MaxTries,       \* bound on the attempts to pay one purchase
    None

Purchases == 1 .. MaxPurchases
Plans == {"pro", "team"}
Currencies == {"USD", "INR"}
Providers == {"stripe", "razorpay"}

OneShots == {"link", "order", "session"}
Kinds == OneShots \cup {"rsub", "ssub"}

\* stages of a purchase at the provider, in order
Stages == {"open", "paid", "renewed", "ended"}
Rows == [user : Users, kind : Kinds, plan : Plans \cup {None}, stage : Stages,
         try : 1 .. MaxTries, ids : BOOLEAN, named : BOOLEAN]

ASSUME CheckoutAssumption ==
    /\ Owners \subseteq Users
    /\ Offers \subseteq [Purchases -> Kinds \X (Plans \cup {None})]
    /\ {CohortSize, MaxByHand, MaxPurchases} \subseteq Nat
    /\ MaxTries \in Nat \ {0}
    /\ None \notin Users /\ None \notin Plans /\ None \notin Purchases /\ None \notin Rows

VARIABLES
    purchase,     \* purchase -> what the provider holds of it
    post,         \* webhooks the provider has not had acknowledged
    recorded,     \* webhook_events: provider and event id
    payments,     \* purchase -> the rows of payments with its reference
    linkOrders,   \* purchase by link -> the rows with the order its payment names
    subs,         \* user -> the row of subscriptions, or None
    log,          \* audit_log: who activated a subscription, by provider
    byHand,       \* users and plans the operator granted (observation)
    late          \* one-time events that arrived too late (observation)

vars == <<purchase, post, recorded, payments, linkOrders, subs, log, byHand, late>>

Provider(kind) == IF kind \in {"session", "ssub"} THEN "stripe" ELSE "razorpay"
Currency(kind) == IF Provider(kind) = "stripe" THEN "USD" ELSE "INR"
CurrencyProvider(ccy) == IF ccy = "INR" THEN "razorpay" ELSE "stripe"

Paid(p) == purchase[p] # None /\ purchase[p].stage # "open"

\* What a purchase may make its provider send, and what the adapters make of
\* it: RAZORPAY_ORDER_EVENTS, RAZORPAY_SUB_EVENTS, STRIPE_SUB_EVENTS and the
\* two names _parse compares with.
Completed == "checkout.session.completed"
PaidEvents(kind) ==
    [link    |-> {"payment_link.paid", "payment.captured"},
     order   |-> {"order.paid", "payment.captured"},
     session |-> {Completed},
     rsub    |-> {"subscription.activated"},
     ssub    |-> {"customer.subscription.created", Completed}][kind]
RenewedEvent(kind) ==
    IF kind = "rsub" THEN "subscription.charged" ELSE "invoice.payment_succeeded"
EndedEvent(kind) ==
    IF kind = "rsub" THEN "subscription.cancelled" ELSE "customer.subscription.deleted"
Meaning(name) ==
    IF name \in {"subscription.activated", "customer.subscription.created"} THEN "activated"
    ELSE IF name \in {"subscription.charged", "invoice.payment_succeeded"} THEN "renewed"
    ELSE "cancelled"

Event(p, name) == [name |-> name, of |-> p, try |-> purchase[p].try]

Init ==
    /\ purchase = [p \in Purchases |-> None]
    /\ post = {}
    /\ recorded = {}
    /\ payments = [p \in Purchases |-> 0]
    /\ linkOrders = [p \in Purchases |-> 0]
    /\ subs = [u \in Users |-> None]
    /\ log = {}
    /\ byHand = {}
    /\ late = {}

-----------------------------------------------------------------------------
(* The launch cohort, and the purchase at the provider *)

\* Mutant of CohortUsed: counts the subscriptions that are alive now.
CohortUsedNow(ccy) ==
    Cardinality({u \in Users : subs[u] # None /\ subs[u].provider = CurrencyProvider(ccy)
                                              /\ subs[u].status = "active"})

\* cohort_used counts whoever ever activated with this market's provider
CohortUsed(ccy) == Cardinality({u \in Users : <<u, CurrencyProvider(ccy)>> \in log})
LaunchOpen(ccy) == CohortUsed(ccy) < CohortSize

\* The provider opens a purchase and answers with its id or page.  Whether
\* Razorpay's webhooks of it will carry an event id, and whether the payments
\* of a link will name an order, is not known.
Open(u, p, kind, plan) ==
    /\ purchase[p] = None
    /\ \E o \in Offers :
          /\ o[p] = <<kind, plan>>
          /\ \A q \in Purchases : q < p =>
                purchase[q] # None /\ <<purchase[q].kind, purchase[q].plan>> = o[q]
    /\ \E ids, named \in BOOLEAN :
          /\ Provider(kind) = "stripe" => ids
          /\ named => kind = "link"
          /\ purchase' = [purchase EXCEPT ![p] =
                [user |-> u, kind |-> kind, plan |-> plan, stage |-> "open",
                 try |-> 1, ids |-> ids, named |-> named]]
    /\ UNCHANGED <<post, recorded, payments, linkOrders, subs, log, byHand, late>>

\* create_razorpay_order and create_stripe_checkout: one audit
BuyOnce(u, p, kind) ==
    /\ u \in Owners
    /\ Open(u, p, kind, None)

\* create_razorpay_subscription and create_stripe_subscription: neither asks
\* which currency the page showed, nor whether there is a subscription.
Subscribe(u, p, kind, plan) ==
    /\ u \in Owners
    /\ Open(u, p, kind, plan)

\* The static link of the 402 answer leads past this server.
FollowLink(u, p) == Open(u, p, "link", None)

-----------------------------------------------------------------------------
(* The provider *)

Moves(p, stage, names) ==
    /\ purchase' = [purchase EXCEPT ![p].stage = stage]
    /\ post' = post \cup {Event(p, name) : name \in names}
    /\ UNCHANGED <<recorded, payments, linkOrders, subs, log, byHand, late>>

Pays(p) ==
    /\ purchase[p] # None
    /\ purchase[p].stage = "open"
    /\ Moves(p, "paid", PaidEvents(purchase[p].kind))

\* A payment fails; the shopper may try again.
PaymentFails(p) ==
    /\ purchase[p] # None
    /\ purchase[p].stage = "open"
    /\ purchase[p].kind \in {"link", "order"}
    /\ purchase[p].try < MaxTries
    /\ purchase' = [purchase EXCEPT ![p].try = @ + 1]
    /\ post' = post \cup {Event(p, "payment.failed")}
    /\ UNCHANGED <<recorded, payments, linkOrders, subs, log, byHand, late>>

Renews(p) ==
    /\ purchase[p] # None
    /\ purchase[p].kind \notin OneShots
    /\ purchase[p].stage = "paid"
    /\ Moves(p, "renewed", {RenewedEvent(purchase[p].kind)})

Ends(p) ==
    /\ purchase[p] # None
    /\ purchase[p].kind \notin OneShots
    /\ purchase[p].stage \in {"paid", "renewed"}
    /\ Moves(p, "ended", {EndedEvent(purchase[p].kind)})

-----------------------------------------------------------------------------
(* The webhooks *)

Bought(e) == purchase[e.of]

\* parse_order_event reads what is captured or fails for an order, of whatever
\* purchase; a payment of a link that names no order is read by nothing.
OfLinkOrder(e) == Bought(e).kind = "link" /\ e.name # "payment_link.paid"
Unread(e) == OfLinkOrder(e) /\ ~Bought(e).named

\* Mutant of Distinct: falls back to the order's id before the payment's.
DistinctByOrder(e) ==
    IF Bought(e).ids
    THEN <<"event", e.name, e.of, e.try>>
    ELSE <<"order", e.of>>

\* The event id of a body that carries one, or the id of the subscription or
\* the payment: `or` in Razorpay's adapter.
Distinct(e) ==
    IF Bought(e).ids THEN <<"event", e.name, e.of, e.try>>
    ELSE IF Bought(e).kind = "rsub" THEN <<"subscription", e.of>>
    ELSE <<"payment", e.of, e.try>>

EventId(e) == <<Provider(Bought(e).kind), Distinct(e)>>

\* The provider stops sending what was answered with 200, and may send again
\* what it lost the answer of.
Answered(e, heard) == post' = IF heard THEN post \ {e} ELSE post

\* Every parse answers None: "ignored"
Ignore(e) ==
    /\ Unread(e)
    /\ Answered(e, TRUE)
    /\ UNCHANGED <<purchase, recorded, payments, linkOrders, subs, log, byHand, late>>

\* FR-27: a Razorpay event that arrives more than TOLERANCE_S after it was
\* dated is ignored as well, and not sent again.  A Stripe signature is dated
\* by the delivery: refused when late, it is sent again with a new date.
TooLate(e) ==
    /\ ~Unread(e)
    /\ Provider(Bought(e).kind) = "razorpay"
    /\ Answered(e, TRUE)
    /\ late' = IF Bought(e).kind \in OneShots THEN late \cup {e} ELSE late
    /\ UNCHANGED <<purchase, recorded, payments, linkOrders, subs, log, byHand>>

\* _record_once finds the event id: "duplicate"
Duplicate(e) ==
    /\ ~Unread(e)
    /\ EventId(e) \in recorded
    /\ Answered(e, TRUE)
    /\ UNCHANGED <<purchase, recorded, payments, linkOrders, subs, log, byHand, late>>

New(e, heard) ==
    /\ ~Unread(e)
    /\ EventId(e) \notin recorded
    /\ recorded' = recorded \cup {EventId(e)}
    /\ Answered(e, heard)

\* grant_payment inserts a row with a reference: the payment's, the session's
\* or, for an order, the order's.
Grant(ref) == payments' = [payments EXCEPT ![ref] = @ + 1] /\ UNCHANGED linkOrders

\* _credit: a paid link or a completed session, of whatever mode
Credit(e, heard) ==
    /\ e.name \in {"payment_link.paid", Completed}
    /\ New(e, heard)
    /\ Grant(e.of)
    /\ UNCHANGED <<purchase, subs, log, byHand, late>>

\* Mutant of CreditOrder: only the event id keeps an order from two credits.
CreditOrderAgain(e, heard) ==
    /\ Bought(e).kind = "order"
    /\ e.name # "payment.failed"
    /\ New(e, heard)
    /\ Grant(e.of)
    /\ UNCHANGED <<purchase, subs, log, byHand, late>>

\* _credit_order: order.paid and payment.captured, whichever comes first; for the
\* order of a link, whether or not the link was credited
CreditOrder(e, heard) ==
    /\ Bought(e).kind = "order" \/ OfLinkOrder(e)
    /\ e.name # "payment.failed"
    /\ New(e, heard)
    /\ \/ Bought(e).kind = "order" /\ payments[e.of] = 0 /\ Grant(e.of)
       \/ /\ Bought(e).kind = "link" /\ linkOrders[e.of] = 0
          /\ linkOrders' = [linkOrders EXCEPT ![e.of] = 1]
          /\ UNCHANGED payments
       \/ /\ (IF Bought(e).kind = "order" THEN payments ELSE linkOrders)[e.of] > 0
          /\ UNCHANGED <<payments, linkOrders>>
    /\ UNCHANGED <<purchase, subs, log, byHand, late>>

\* _handle_order_event of a failed payment: a line in the audit log
NoCredit(e, heard) ==
    /\ Bought(e).kind = "order" \/ OfLinkOrder(e)
    /\ e.name = "payment.failed"
    /\ New(e, heard)
    /\ UNCHANGED <<purchase, payments, linkOrders, subs, log, byHand, late>>

\* Mutant of PlansOf: the metadata is looked for in the wrong place.
PlansOfNothing(e) == {"pro"}

\* The plan an event names, "pro" if its metadata names none (`or "pro"`).  The
\* server puts the plan into a subscription's metadata; an invoice may have none.
PlansOf(e) ==
    {Bought(e).plan} \cup (IF e.name = "invoice.payment_succeeded" THEN {"pro"} ELSE {})

\* _handle_subscription and apply_event; failed charges are Dunning's.
MoveSubscription(e, heard) ==
    LET b == Bought(e)
        kind == Meaning(e.name)
        over == kind = "cancelled"
    IN  /\ b.kind \notin OneShots
        /\ e.name # Completed
        /\ New(e, heard)
        /\ \E plan \in IF over THEN {"free"} ELSE PlansOf(e) :
              subs' = [subs EXCEPT ![b.user] =
                  [provider |-> Provider(b.kind), currency |-> Currency(b.kind),
                   plan |-> plan, status |-> IF over THEN "cancelled" ELSE "active"]]
        /\ log' = IF kind = "activated" THEN log \cup {<<b.user, Provider(b.kind)>>} ELSE log
        /\ UNCHANGED <<purchase, payments, linkOrders, byHand, late>>

Handle(e, heard) ==
    \/ Credit(e, heard)
    \/ CreditOrder(e, heard)
    \/ NoCredit(e, heard)
    \/ MoveSubscription(e, heard)

-----------------------------------------------------------------------------
(* The operator (web/routes_admin.py) *)

\* grant_plan refuses whoever has a provider's subscription.
GrantPlan(u, plan) ==
    /\ subs[u] # None => subs[u].provider = "manual"
    /\ Cardinality(byHand) < MaxByHand
    /\ byHand' = byHand \cup {<<u, plan>>}
    /\ subs' = [subs EXCEPT ![u] =
          [provider |-> "manual", currency |-> "USD", plan |-> plan, status |-> "active"]]
    /\ UNCHANGED <<purchase, post, recorded, payments, linkOrders, log, late>>

\* grant_plan with "free" deletes a granted subscription.
WithdrawPlan(u) ==
    /\ subs[u] # None
    /\ subs[u].provider = "manual"
    /\ subs' = [subs EXCEPT ![u] = None]
    /\ UNCHANGED <<purchase, post, recorded, payments, linkOrders, log, byHand, late>>

-----------------------------------------------------------------------------
Shop(u) ==
    \E p \in Purchases :
        \/ FollowLink(u, p)
        \/ \E kind \in {"order", "session"} : BuyOnce(u, p, kind)
        \/ \E kind \in {"rsub", "ssub"}, plan \in Plans : Subscribe(u, p, kind, plan)

ByHand(u) ==
    \/ WithdrawPlan(u)
    \/ \E plan \in Plans : GrantPlan(u, plan)

AtProvider(p) == Pays(p) \/ PaymentFails(p) \/ Renews(p) \/ Ends(p)

\* A webhook is read; what is new may have its answer lost.
Receive(e) ==
    \/ Ignore(e)
    \/ TooLate(e)
    \/ Duplicate(e)
    \/ \E heard \in BOOLEAN : Handle(e, heard)

Next ==
    \/ \E u \in Users : Shop(u) \/ ByHand(u)
    \/ \E p \in Purchases : AtProvider(p)
    \/ \E e \in post : Receive(e)

\* A provider repeats a webhook until it hears a 200.
EventsOf(p) == {e \in post : e.of = p}
HearsOf(p) == \E e \in EventsOf(p) : Ignore(e) \/ TooLate(e) \/ Duplicate(e) \/ Handle(e, TRUE)
Spec == Init /\ [][Next]_vars /\ \A p \in Purchases : WF_vars(HearsOf(p))

-----------------------------------------------------------------------------
(* Properties *)

Missed(p) ==
    \A name \in PaidEvents(purchase[p].kind) :
        Event(p, name) \in late \/ Unread(Event(p, name))
OneShot(p) == purchase[p] # None /\ purchase[p].kind \in OneShots

SubRows == [provider : Providers \cup {"manual"}, currency : Currencies,
            plan : Plans \cup {"free"}, status : {"active", "cancelled"}]
TypeOK ==
    /\ purchase \in [Purchases -> Rows \cup {None}]
    /\ \A p \in Purchases :
          purchase[p] # None /\ purchase[p].kind \notin OneShots => purchase[p].plan \in Plans
    /\ \A e \in post :
          e.of \in Purchases /\ purchase[e.of] # None /\ e.try \in 1 .. purchase[e.of].try
    /\ \A id \in recorded : id[1] \in Providers
    /\ {payments, linkOrders} \subseteq [Purchases -> Nat]
    /\ subs \in [Users -> SubRows \cup {None}]
    /\ log \subseteq Users \X Providers
    /\ byHand \subseteq Users \X Plans

\* However often and in whatever order the webhooks of a purchase arrive, as
\* order.paid and payment.captured both, after failed attempts, with an event
\* id or without: the handlers grant nothing before the money is there and one
\* credit for it after (_record_once, _credit, _credit_order).  A subscription
\* bought at Stripe earns one as well: its session is completed like any other,
\* and the adapter does not look at the session's mode.  A link whose payments
\* name an order is known to the handlers by two references, and earns one
\* credit, and no more than one, for each.
Earning(p) == purchase[p] # None /\ purchase[p].kind # "rsub"
Ledger == INSTANCE CreditOnce WITH
    paid <- {p \in Purchases : Earning(p) /\ Paid(p)},
    credits <- payments
Ordered(p) == purchase[p] # None /\ purchase[p].named
OrderLedger == INSTANCE CreditOnce WITH
    paid <- {p \in Purchases : Ordered(p) /\ Paid(p)},
    credits <- linkOrders
CreditsArePaidFor == Ledger!Spec /\ OrderLedger!Spec

\* A paid plan in force is one the customer paid for at a provider, through
\* the notes or metadata its events carry, or one the operator granted; it is
\* never a tier that nobody bought (create_subscription, _safe_plan).  One case
\* is left: a renewal of Team at Stripe whose invoice names no plan makes it Pro.
\* So nobody has Team who did not buy it.
PlanWasBought ==
    \A u \in Users : subs[u] # None /\ subs[u].plan # "free" =>
        \/ <<u, subs[u].plan>> \in byHand
        \/ \E p \in Purchases :
              /\ Paid(p)
              /\ purchase[p].user = u
              /\ \/ purchase[p].plan = subs[u].plan
                 \/ /\ purchase[p].kind = "ssub" /\ purchase[p].stage \in {"renewed", "ended"}
                    /\ subs[u].plan = "pro"

\* The launch price is for the first subscribers of a market: whoever cancels,
\* or moves to the other market, does not reopen it (cohort_used).
LaunchStaysClosed == [][\A ccy \in Currencies : LaunchOpen(ccy)' => LaunchOpen(ccy)]_vars

\* Money that arrived becomes a credit, whatever answers are lost: Stripe's
\* always, Razorpay's if one of its reports came within the tolerance.
PaidIsCredited ==
    \A p \in Purchases :
        OneShot(p) /\ Paid(p) ~> payments[p] + linkOrders[p] > 0 \/ (OneShot(p) /\ Missed(p))
=============================================================================
