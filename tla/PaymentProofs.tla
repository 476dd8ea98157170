--------------------------- MODULE PaymentProofs ----------------------------
(***************************************************************************)
(* Proofs about payments.  Of Checkout: that the webhook handlers          *)
(* implement CreditOnce, that no plan is in force that nobody bought, and  *)
(* that a market whose launch price has ended does not reopen it.  Of      *)
(* Dunning: that a customer is dunned exactly while a charge is failing,   *)
(* and hears of a rung once.                                               *)
(***************************************************************************)
EXTENDS Checkout, Dunning, FiniteSetTheorems, TLAPS

\* What a provider may send of a purchase once the money is there
Later(kind) == IF kind \in OneShots THEN {} ELSE {RenewedEvent(kind), EndedEvent(kind)}
Sent(kind) == PaidEvents(kind) \cup Later(kind)

\* An event is of a purchase: of a failed attempt to pay it, or it is sent
\* once it is paid and says of it what the provider holds: that it was renewed
\* or has ended, only when it was or has.
Billed(stage) == stage \in {"renewed", "ended"}
Truthful(e) ==
    \/ e.name = "payment.failed" /\ Bought(e).kind \in {"link", "order"}
    \/ /\ e = Event(e.of, e.name) /\ Paid(e.of) /\ e.name \in Sent(Bought(e).kind)
       /\ (e.name \in Later(Bought(e).kind) => Billed(Bought(e).stage))
PostInv == \A e \in post : Truthful(e)

\* A credit stands for money that is there.  Except for an order, which is
\* looked up, the event that brought it is recorded.
Crediting(kind) == IF kind = "link" THEN "payment_link.paid" ELSE Completed
CreditInv ==
    \A p \in Purchases :
        /\ payments[p] \in {0, 1}
        /\ payments[p] = 1 =>
              /\ Earning(p) /\ Paid(p)
              /\ purchase[p].kind # "order" =>
                    EventId(Event(p, Crediting(purchase[p].kind))) \in recorded

\* And so does a credit for the order of a link, which is looked up as well.
LinkInv ==
    \A p \in Purchases :
        linkOrders[p] \in {0, 1} /\ (linkOrders[p] = 1 => Ordered(p) /\ Paid(p))

\* A market counts finitely many subscribers.
Counted(provider) == {u \in Users : <<u, provider>> \in log}
LogInv == \A provider \in Providers : IsFiniteSet(Counted(provider))

LEMMA Names ==
    ASSUME NEW kind \in Kinds
    PROVE  /\ "payment.failed" \notin Sent(kind)
           /\ "payment_link.paid" \in Sent(kind) => kind = "link"
           /\ Completed \in Sent(kind) => kind \in {"session", "ssub"}
           /\ "invoice.payment_succeeded" \in Sent(kind) =>
                 kind = "ssub" /\ "invoice.payment_succeeded" \in Later(kind)
           /\ PaidEvents(kind) \cap Later(kind) = {}
  <1> USE DEF OneShots, PaidEvents, Sent, Later, RenewedEvent, EndedEvent, Completed
  <1>1. CASE kind = "link"
    BY <1>1
  <1>2. CASE kind = "order"
    BY <1>2
  <1>3. CASE kind = "session"
    BY <1>3
  <1>4. CASE kind = "rsub"
    BY <1>4
  <1>5. CASE kind = "ssub"
    BY <1>5
  <1> QED BY <1>1, <1>2, <1>3, <1>4, <1>5 DEF Kinds

-----------------------------------------------------------------------------
(* What the steps do *)

\* A purchase is opened: a row of its own, and nothing else.
LEMMA Opened ==
    ASSUME TypeOK, NEW u \in Users, NEW p \in Purchases, NEW kind \in Kinds,
           NEW tier \in Plans \cup {None}, Open(u, p, kind, tier)
    PROVE  /\ \E row \in Rows :
                 /\ row.user = u /\ row.kind = kind /\ row.plan = tier /\ row.stage = "open"
                 /\ purchase' = [purchase EXCEPT ![p] = row]
           /\ purchase[p] = None
           /\ UNCHANGED <<post, recorded, payments, linkOrders, subs, log, byHand, late>>
  <1>1. PICK ids \in BOOLEAN, named \in BOOLEAN :
          purchase' = [purchase EXCEPT ![p] =
              [user |-> u, kind |-> kind, plan |-> tier, stage |-> "open",
               try |-> 1, ids |-> ids, named |-> named]]
    BY DEF Open
  <1>2. [user |-> u, kind |-> kind, plan |-> tier, stage |-> "open",
         try |-> 1, ids |-> ids, named |-> named] \in Rows
    BY CheckoutAssumption DEF Rows, Stages
  <1> QED BY <1>1, <1>2 DEF Open

LEMMA Shopped ==
    ASSUME TypeOK, NEW u \in Users, Shop(u)
    PROVE  /\ \E p \in Purchases, row \in Rows :
                 /\ row.user = u /\ row.stage = "open"
                 /\ row.kind \notin OneShots => row.plan \in Plans
                 /\ purchase' = [purchase EXCEPT ![p] = row]
                 /\ purchase[p] = None
           /\ UNCHANGED <<post, recorded, payments, linkOrders, subs, log, byHand, late>>
  <1>1. PICK p \in Purchases, kind \in Kinds, tier \in Plans \cup {None} :
          Open(u, p, kind, tier) /\ (kind \notin OneShots => tier \in Plans)
    BY DEF Shop, FollowLink, BuyOnce, Subscribe, Kinds, OneShots
  <1> QED BY <1>1, Opened

\* What becomes of a purchase at the provider: who bought what stays, once
\* it is paid nothing of it but the stage moves, and what is sent is true.
Says(p, row, e) ==
    /\ e.of = p /\ e.try \in 1 .. row.try
    /\ \/ e.name = "payment.failed" /\ row.kind \in {"link", "order"}
       \/ /\ row.stage # "open" /\ e.name \in Sent(row.kind)
          /\ e = [name |-> e.name, of |-> p, try |-> row.try]
          /\ e.name \in Later(row.kind) => Billed(row.stage)
Becomes(p, row) ==
    /\ purchase' = [purchase EXCEPT ![p] = row]
    /\ row.user = purchase[p].user /\ row.kind = purchase[p].kind
    /\ row.plan = purchase[p].plan /\ row.ids = purchase[p].ids /\ row.named = purchase[p].named
    /\ row.try >= purchase[p].try
    /\ Paid(p) => row.try = purchase[p].try /\ row.stage # "open"
    /\ Billed(purchase[p].stage) => Billed(row.stage)
    /\ post \subseteq post'
    /\ \A e \in post' \ post : Says(p, row, e)

LEMMA Moved ==
    ASSUME TypeOK, NEW p \in Purchases, AtProvider(p)
    PROVE  /\ purchase[p] \in Rows
           /\ \E row \in Rows : Becomes(p, row)
           /\ UNCHANGED <<recorded, payments, linkOrders, subs, log, byHand, late>>
  <1>0. purchase[p] \in Rows
    BY DEF TypeOK, AtProvider, Pays, PaymentFails, Renews, Ends
  <1>1. ASSUME NEW stage \in Stages \ {"open"}, NEW names, names \subseteq Sent(purchase[p].kind),
               Billed(purchase[p].stage) => Billed(stage),
               names \cap Later(purchase[p].kind) # {} => Billed(stage), Moves(p, stage, names)
        PROVE  \E row \in Rows : Becomes(p, row)
    <2> DEFINE row == [purchase[p] EXCEPT !.stage = stage]
    <2>1. /\ row \in Rows
          /\ row.user = purchase[p].user /\ row.kind = purchase[p].kind
          /\ row.plan = purchase[p].plan /\ row.ids = purchase[p].ids
          /\ row.named = purchase[p].named
          /\ row.try = purchase[p].try /\ row.try \in 1 .. MaxTries /\ row.stage = stage
      BY <1>0 DEF Rows
    <2>2. purchase' = [purchase EXCEPT ![p] = row] /\ post' = post \cup {Event(p, name) : name \in names}
      BY <1>1 DEF Moves
    <2> HIDE DEF row
    <2>3. ASSUME NEW e \in post' \ post PROVE Says(p, row, e)
      <3>1. PICK name \in names : e = Event(p, name)
        BY <2>2
      <3>2. e.name = name /\ e.of = p /\ e.try = row.try /\ e = [name |-> e.name, of |-> p, try |-> row.try]
        BY <2>1, <3>1 DEF Event
      <3>3. name \in Sent(row.kind) /\ row.stage # "open"
        BY <1>1, <2>1, <3>1
      <3>4. e.name \in Later(row.kind) => Billed(row.stage)
        BY <1>1, <2>1, <3>1, <3>2
      <3>5. e.try \in 1 .. row.try
        BY <2>1, <3>2, CheckoutAssumption
      <3> QED BY <3>2, <3>3, <3>4, <3>5 DEF Says
    <2>4. row.try >= purchase[p].try
      BY <2>1, CheckoutAssumption
    <2>5. post \subseteq post'
      BY <2>2
    <2>6. Billed(purchase[p].stage) => Billed(row.stage)
      BY <1>1, <2>1
    <2>7. Becomes(p, row)
      BY <2>1, <2>2, <2>3, <2>4, <2>5, <2>6 DEF Becomes
    <2> QED BY <2>1, <2>7
  <1>2. ASSUME Pays(p) PROVE \E row \in Rows : Becomes(p, row)
    <2>1. Moves(p, "paid", PaidEvents(purchase[p].kind)) /\ ~Billed(purchase[p].stage)
      BY <1>2 DEF Pays, Billed
    <2>2. /\ PaidEvents(purchase[p].kind) \cap Later(purchase[p].kind) = {}
          /\ PaidEvents(purchase[p].kind) \subseteq Sent(purchase[p].kind)
      BY <1>0, Names DEF Rows, Sent
    <2>3. "paid" \in Stages \ {"open"}
      BY DEF Stages
    <2> QED BY <1>1, <2>1, <2>2, <2>3
  <1>3. ASSUME Renews(p) PROVE \E row \in Rows : Becomes(p, row)
    <2>1. Moves(p, "renewed", {RenewedEvent(purchase[p].kind)}) /\ purchase[p].kind \notin OneShots
      BY <1>3 DEF Renews
    <2>2. {RenewedEvent(purchase[p].kind)} \subseteq Sent(purchase[p].kind)
      BY <2>1 DEF Sent, Later
    <2>3. "renewed" \in Stages \ {"open"} /\ Billed("renewed")
      BY DEF Stages, Billed
    <2> QED BY <1>1, <2>1, <2>2, <2>3
  <1>4. ASSUME Ends(p) PROVE \E row \in Rows : Becomes(p, row)
    <2>1. Moves(p, "ended", {EndedEvent(purchase[p].kind)}) /\ purchase[p].kind \notin OneShots
      BY <1>4 DEF Ends
    <2>2. {EndedEvent(purchase[p].kind)} \subseteq Sent(purchase[p].kind)
      BY <2>1 DEF Sent, Later
    <2>3. "ended" \in Stages \ {"open"} /\ Billed("ended")
      BY DEF Stages, Billed
    <2> QED BY <1>1, <2>1, <2>2, <2>3
  <1>5. ASSUME PaymentFails(p) PROVE \E row \in Rows : Becomes(p, row)
    <2> DEFINE row == [purchase[p] EXCEPT !.try = @ + 1]
    <2>1. purchase[p].try \in 1 .. MaxTries /\ purchase[p].try + 1 \in 1 .. MaxTries
      BY <1>0, <1>5, CheckoutAssumption DEF Rows, PaymentFails
    <2>2. /\ row \in Rows
          /\ row.user = purchase[p].user /\ row.kind = purchase[p].kind
          /\ row.plan = purchase[p].plan /\ row.ids = purchase[p].ids
          /\ row.named = purchase[p].named /\ row.stage = purchase[p].stage
          /\ row.try = purchase[p].try + 1
      BY <1>0, <2>1 DEF Rows
    <2>3. /\ purchase' = [purchase EXCEPT ![p] = row] /\ post' = post \cup {Event(p, "payment.failed")}
          /\ ~Paid(p) /\ purchase[p].kind \in {"link", "order"}
      BY <1>5 DEF PaymentFails, Paid
    <2> HIDE DEF row
    <2>4. Says(p, row, Event(p, "payment.failed"))
      BY <2>1, <2>2, <2>3, CheckoutAssumption DEF Event, Says
    <2>5. row.try >= purchase[p].try
      BY <2>1, <2>2, CheckoutAssumption
    <2>6. post \subseteq post' /\ \A e \in post' \ post : Says(p, row, e)
      BY <2>3, <2>4
    <2>7. Becomes(p, row)
      BY <2>2, <2>3, <2>5, <2>6 DEF Becomes
    <2> QED BY <2>2, <2>7
  <1>6. UNCHANGED <<recorded, payments, linkOrders, subs, log, byHand, late>>
    BY DEF AtProvider, Pays, PaymentFails, Renews, Ends, Moves
  <1> QED BY <1>0, <1>2, <1>3, <1>4, <1>5, <1>6 DEF AtProvider

\* A webhook that is read, and the operator, leave the purchases alone and put
\* nothing in the post.
LEMMA Received ==
    ASSUME NEW e \in post, Receive(e)
    PROVE  UNCHANGED <<purchase, byHand>> /\ post' \subseteq post
  BY DEF Receive, Ignore, TooLate, Duplicate, Handle, Credit, CreditOrder, NoCredit,
         MoveSubscription, New, Answered, Grant

LEMMA Granted ==
    ASSUME NEW u \in Users, ByHand(u)
    PROVE  UNCHANGED <<purchase, post, recorded, payments, linkOrders, log, late>>
  BY DEF ByHand, WithdrawPlan, GrantPlan

-----------------------------------------------------------------------------
(* Types *)

LEMMA InitTyped == Init => TypeOK
  BY CheckoutAssumption DEF Init, TypeOK, Providers

LEMMA PlanTyped ==
    ASSUME TypeOK, NEW e \in post
    PROVE  /\ Bought(e) \in Rows
           /\ Bought(e).kind \notin OneShots => PlansOf(e) \subseteq Plans
  BY DEF TypeOK, PlansOf, Bought, Rows, Plans

\* A subscription moves: its owner has what the event names, or nothing.
LEMMA Subscribed ==
    ASSUME TypeOK, NEW e \in post, NEW heard \in BOOLEAN, MoveSubscription(e, heard)
    PROVE  /\ \E sub \in SubRows :
                 /\ sub.plan \in PlansOf(e) \cup {"free"}
                 /\ subs' = [subs EXCEPT ![Bought(e).user] = sub]
           /\ log' = log \/ log' = log \cup {<<Bought(e).user, Provider(Bought(e).kind)>>}
           /\ UNCHANGED <<payments, linkOrders>>
           /\ Bought(e).kind \notin OneShots /\ Bought(e).user \in Users
           /\ Provider(Bought(e).kind) \in Providers
  <1> DEFINE over == Meaning(e.name) = "cancelled"
             sub(tier) == [provider |-> Provider(Bought(e).kind), currency |-> Currency(Bought(e).kind),
                           plan |-> tier, status |-> IF over THEN "cancelled" ELSE "active"]
  <1>1. PICK tier \in IF over THEN {"free"} ELSE PlansOf(e) :
          subs' = [subs EXCEPT ![Bought(e).user] = sub(tier)]
    BY DEF MoveSubscription
  <1> HIDE DEF over
  <1>2. sub(tier) \in SubRows /\ sub(tier).plan \in PlansOf(e) \cup {"free"}
    BY PlanTyped DEF SubRows, Provider, Providers, Currency, Currencies, MoveSubscription
  <1> HIDE DEF sub
  <1>3. log' = log \/ log' = log \cup {<<Bought(e).user, Provider(Bought(e).kind)>>}
    BY DEF MoveSubscription
  <1>4. UNCHANGED <<payments, linkOrders>> /\ Bought(e).kind \notin OneShots
    BY DEF MoveSubscription
  <1>5. Bought(e).user \in Users /\ Provider(Bought(e).kind) \in Providers
    BY PlanTyped DEF Rows, Provider, Providers
  <1> QED BY <1>1, <1>2, <1>3, <1>4, <1>5

LEMMA TypeKept == TypeOK /\ [Next]_vars => TypeOK'
  <1> SUFFICES ASSUME TypeOK, [Next]_vars PROVE TypeOK'
    OBVIOUS
  <1>0. /\ purchase \in [Purchases -> Rows \cup {None}]
        /\ \A e \in post : e.of \in Purchases /\ purchase[e.of] # None /\ e.try \in 1 .. purchase[e.of].try
        /\ \A row \in Rows : row.try \in Nat
    BY CheckoutAssumption DEF TypeOK, Rows
  <1> DEFINE Tiers(held) == \A p \in Purchases :
               held[p] # None /\ held[p].kind \notin OneShots => held[p].plan \in Plans
  <1>a. Tiers(purchase)
    BY DEF TypeOK
  <1>1. ASSUME NEW u \in Users, Shop(u) PROVE TypeOK'
    <2>1. PICK p \in Purchases, row \in Rows :
            /\ purchase' = [purchase EXCEPT ![p] = row] /\ purchase[p] = None
            /\ row.kind \notin OneShots => row.plan \in Plans
      BY <1>1, Shopped
    <2>2. UNCHANGED <<post, recorded, payments, linkOrders, subs, log, byHand, late>>
      BY <1>1, Shopped
    <2>3. \A e \in post : purchase'[e.of] = purchase[e.of]
      BY <1>0, <2>1
    <2>4. Tiers(purchase')
      BY <1>0, <1>a, <2>1
    <2> QED BY <2>1, <2>2, <2>3, <2>4 DEF TypeOK
  <1>2. ASSUME NEW p \in Purchases, AtProvider(p) PROVE TypeOK'
    <2>1. PICK row \in Rows : Becomes(p, row)
      BY <1>2, Moved
    <2>2. UNCHANGED <<recorded, payments, linkOrders, subs, log, byHand, late>> /\ purchase[p] \in Rows
      BY <1>2, Moved
    <2>3. purchase' \in [Purchases -> Rows \cup {None}]
      BY <1>0, <2>1 DEF Becomes
    <2>4. ASSUME NEW e \in post'
          PROVE  e.of \in Purchases /\ purchase'[e.of] # None /\ e.try \in 1 .. purchase'[e.of].try
      <3>1. CASE e \notin post
        BY <1>0, <2>1, <3>1, CheckoutAssumption DEF Becomes, Says
      <3>2. CASE e \in post /\ e.of # p
        BY <1>0, <2>1, <3>2 DEF Becomes
      <3>3. CASE e \in post /\ e.of = p
        <4>1. purchase'[e.of] = row /\ row.try >= purchase[p].try /\ row # None
          BY <1>0, <2>1, <3>3, CheckoutAssumption DEF Becomes
        <4>2. e.try \in 1 .. purchase[p].try /\ purchase[p].try \in Nat /\ row.try \in Nat
          BY <1>0, <2>2, <3>3
        <4>3. e.try \in 1 .. row.try
          BY <4>1, <4>2
        <4> QED BY <3>3, <4>1, <4>3
      <3> QED BY <3>1, <3>2, <3>3
    <2>5. Tiers(purchase')
      BY <1>0, <1>a, <2>1, <2>2, CheckoutAssumption DEF Becomes
    <2> QED BY <2>2, <2>3, <2>4, <2>5 DEF TypeOK
  <1>3. ASSUME NEW e \in post, Receive(e) PROVE TypeOK'
    <2>1. UNCHANGED <<purchase, byHand>> /\ post' \subseteq post
      BY <1>3, Received
    <2>2. \A f \in post' : f.of \in Purchases /\ purchase'[f.of] # None /\ f.try \in 1 .. purchase'[f.of].try
      BY <1>0, <2>1
    <2>3. ASSUME {payments', linkOrders'} \subseteq [Purchases -> Nat], UNCHANGED <<subs, log>>,
                 \A id \in recorded' : id[1] \in Providers
          PROVE  TypeOK'
      BY <2>1, <2>2, <2>3 DEF TypeOK
    <2>4. \A id \in recorded' : id[1] \in Providers
      <3>1. EventId(e)[1] \in Providers
        BY DEF EventId, Provider, Providers
      <3> QED BY <1>3, <3>1 DEF TypeOK, Receive, Ignore, TooLate, Duplicate, Handle, Credit,
                                CreditOrder, NoCredit, MoveSubscription, New
    <2>5. ASSUME NEW heard \in BOOLEAN, MoveSubscription(e, heard) PROVE TypeOK'
      <3>1. subs' \in [Users -> SubRows \cup {None}]
        BY <2>5, Subscribed DEF TypeOK
      <3>2. UNCHANGED <<payments, linkOrders>> /\ log' \subseteq Users \X Providers
        BY <2>5, Subscribed DEF TypeOK
      <3> QED BY <2>1, <2>2, <2>4, <3>1, <3>2 DEF TypeOK
    <2>6. CASE \E heard \in BOOLEAN : Credit(e, heard) \/ CreditOrder(e, heard)
      <3>1. {payments', linkOrders'} \subseteq [Purchases -> Nat] /\ UNCHANGED <<subs, log>>
        BY <1>0, <2>6 DEF Credit, CreditOrder, Grant, TypeOK
      <3> QED BY <2>3, <2>4, <3>1
    <2>7. CASE Ignore(e) \/ TooLate(e) \/ Duplicate(e) \/ \E heard \in BOOLEAN : NoCredit(e, heard)
      BY <2>3, <2>4, <2>7 DEF Ignore, TooLate, Duplicate, NoCredit, TypeOK
    <2> QED BY <1>3, <2>5, <2>6, <2>7 DEF Receive, Handle
  <1>4. ASSUME NEW u \in Users, ByHand(u) PROVE TypeOK'
    <2>1. UNCHANGED <<purchase, post, recorded, payments, linkOrders, log, late>>
      BY <1>4, Granted
    <2>2. byHand' \subseteq Users \X Plans
      BY <1>4 DEF ByHand, WithdrawPlan, GrantPlan, TypeOK
    <2>3. subs' \in [Users -> SubRows \cup {None}]
      BY <1>4 DEF ByHand, WithdrawPlan, GrantPlan, TypeOK, SubRows, Currencies
    <2> QED BY <2>1, <2>2, <2>3 DEF TypeOK
  <1>5. CASE UNCHANGED vars
    BY <1>5 DEF vars, TypeOK
  <1> QED BY <1>1, <1>2, <1>3, <1>4, <1>5 DEF Next

\* Every purchase, webhook, credit and subscription has the fields its kind
\* has, and a webhook is of a purchase that was opened.
THEOREM TypeCorrect == Spec => []TypeOK
  BY InitTyped, TypeKept, PTL DEF Spec

-----------------------------------------------------------------------------
(* Credits *)

LEMMA PostKept == TypeOK /\ PostInv /\ [Next]_vars => PostInv'
  <1> SUFFICES ASSUME TypeOK, PostInv, [Next]_vars, NEW e \in post' PROVE Truthful(e)'
    BY DEF PostInv
  <1>0. /\ purchase \in [Purchases -> Rows \cup {None}]
        /\ e \in post => e.of \in Purchases /\ purchase[e.of] # None /\ Truthful(e)
    BY DEF TypeOK, PostInv
  <1>1. CASE e \in post /\ purchase'[e.of] = purchase[e.of]
    BY <1>0, <1>1 DEF Truthful, Bought, Event, Paid
  <1>2. ASSUME NEW u \in Users, Shop(u) PROVE Truthful(e)'
    <2>1. PICK p \in Purchases, row \in Rows :
            purchase' = [purchase EXCEPT ![p] = row] /\ purchase[p] = None
      BY <1>2, Shopped
    <2>2. e \in post
      BY <1>2, Shopped
    <2> QED BY <1>0, <1>1, <2>1, <2>2
  <1>3. ASSUME NEW p \in Purchases, AtProvider(p) PROVE Truthful(e)'
    <2>1. PICK row \in Rows : Becomes(p, row)
      BY <1>3, Moved
    <2>2. purchase' = [purchase EXCEPT ![p] = row] /\ purchase'[p] = row /\ row # None
      BY <1>0, <2>1, CheckoutAssumption DEF Becomes
    <2>3. CASE e \notin post
      <3>1. Says(p, row, e)
        BY <2>1, <2>3 DEF Becomes
      <3> QED BY <2>2, <3>1 DEF Says, Truthful, Bought, Event, Paid
    <2>4. CASE e \in post /\ e.of = p
      <3>1. /\ row.kind = purchase[p].kind
            /\ Paid(p) => row.try = purchase[p].try /\ row.stage # "open"
            /\ Billed(purchase[p].stage) => Billed(row.stage)
        BY <2>1 DEF Becomes
      <3> QED BY <1>0, <2>2, <2>4, <3>1 DEF Truthful, Bought, Event, Paid
    <2>5. CASE e \in post /\ e.of # p
      BY <1>0, <1>1, <2>2, <2>5
    <2> QED BY <2>3, <2>4, <2>5
  <1>4. CASE UNCHANGED vars \/ (\E f \in post : Receive(f)) \/ (\E u \in Users : ByHand(u))
    <2>1. UNCHANGED purchase /\ post' \subseteq post
      BY <1>4, Received, Granted DEF vars
    <2> QED BY <1>1, <2>1
  <1> QED BY <1>2, <1>3, <1>4 DEF Next

\* The id of an event is of what the provider holds of its purchase.
LEMMA SameId ==
    ASSUME NEW p, NEW name, purchase'[p].kind = purchase[p].kind,
           purchase'[p].ids = purchase[p].ids, purchase'[p].try = purchase[p].try
    PROVE  EventId(Event(p, name))' = EventId(Event(p, name))
  BY DEF EventId, Event, Bought, Distinct, Provider

\* A purchase that neither gets a credit nor loses what its credit rests on
Quiet(p) ==
    /\ payments'[p] = payments[p]
    /\ recorded \subseteq recorded'
    /\ payments[p] = 1 =>
          /\ purchase'[p] # None /\ purchase'[p].stage # "open"
          /\ purchase'[p].kind = purchase[p].kind
          /\ purchase'[p].ids = purchase[p].ids /\ purchase'[p].try = purchase[p].try

LEMMA CreditQuiet ==
    ASSUME CreditInv, \A p \in Purchases : Quiet(p) PROVE CreditInv'
  <1> SUFFICES ASSUME NEW p \in Purchases
               PROVE  /\ payments'[p] \in {0, 1}
                      /\ payments'[p] = 1 =>
                            /\ Earning(p)' /\ Paid(p)'
                            /\ purchase'[p].kind # "order" =>
                                  EventId(Event(p, Crediting(purchase[p].kind)))' \in recorded'
    BY DEF CreditInv
  <1>1. payments'[p] = payments[p] /\ payments[p] \in {0, 1} /\ Quiet(p)
    BY DEF Quiet, CreditInv
  <1>2. ASSUME payments[p] = 1
        PROVE  /\ Earning(p)' /\ Paid(p)'
               /\ purchase'[p].kind # "order" =>
                     EventId(Event(p, Crediting(purchase[p].kind)))' \in recorded'
    <2>1. /\ Earning(p) /\ purchase'[p].kind = purchase[p].kind
          /\ purchase[p].kind # "order" => EventId(Event(p, Crediting(purchase[p].kind))) \in recorded
      BY <1>1, <1>2 DEF Quiet, CreditInv
    <2>2. EventId(Event(p, Crediting(purchase[p].kind)))' = EventId(Event(p, Crediting(purchase[p].kind)))
      BY <1>1, <1>2, <2>1, SameId DEF Quiet
    <2>3. Earning(p)' /\ Paid(p)'
      BY <1>1, <1>2, <2>1 DEF Quiet, Earning, Paid
    <2> QED BY <1>1, <2>1, <2>2, <2>3 DEF Quiet
  <1> QED BY <1>1, <1>2

\* A webhook grants nothing, or the one credit of a purchase that is paid.
LEMMA Credited ==
    ASSUME TypeOK, PostInv, CreditInv, NEW e \in post, Receive(e)
    PROVE  \/ UNCHANGED payments
           \/ /\ Earning(e.of) /\ Paid(e.of) /\ payments[e.of] = 0
              /\ payments' = [payments EXCEPT ![e.of] = 1]
              /\ purchase[e.of].kind # "order" =>
                    EventId(Event(e.of, Crediting(purchase[e.of].kind))) \in recorded'
  <1>0. e.of \in Purchases /\ purchase[e.of] # None /\ purchase[e.of].kind \in Kinds
    BY DEF TypeOK, Rows
  <1>1. ASSUME NEW heard \in BOOLEAN, Credit(e, heard)
        PROVE  /\ Earning(e.of) /\ Paid(e.of) /\ payments[e.of] = 0
               /\ payments' = [payments EXCEPT ![e.of] = 1]
               /\ EventId(Event(e.of, Crediting(purchase[e.of].kind))) \in recorded'
    <2>1. e.name \in {"payment_link.paid", Completed} /\ e.name # "payment.failed"
      BY <1>1 DEF Credit, Completed
    <2>2. e = Event(e.of, e.name) /\ Paid(e.of) /\ e.name \in Sent(purchase[e.of].kind)
      BY <2>1 DEF PostInv, Truthful, Bought
    <2>3. purchase[e.of].kind \in {"link", "session", "ssub"} /\ e.name = Crediting(purchase[e.of].kind)
      BY <1>0, <2>1, <2>2, Names DEF Crediting, Completed
    <2>4. e = Event(e.of, Crediting(purchase[e.of].kind))
      BY <2>2, <2>3
    <2>5. EventId(e) \notin recorded /\ EventId(e) \in recorded'
      BY <1>1 DEF Credit, New
    <2>6. payments[e.of] = 0
      BY <1>0, <2>3, <2>4, <2>5 DEF CreditInv
    <2>7. payments' = [payments EXCEPT ![e.of] = 1]
      BY <1>1, <2>6 DEF Credit, Grant
    <2> QED BY <1>0, <2>2, <2>3, <2>4, <2>5, <2>6, <2>7 DEF Earning
  <1>2. ASSUME NEW heard \in BOOLEAN, CreditOrder(e, heard), ~UNCHANGED payments
        PROVE  /\ Earning(e.of) /\ Paid(e.of) /\ payments[e.of] = 0 /\ purchase[e.of].kind = "order"
               /\ payments' = [payments EXCEPT ![e.of] = 1]
    <2>1. purchase[e.of].kind = "order" /\ e.name # "payment.failed"
      BY <1>2 DEF CreditOrder, Bought
    <2>2. payments[e.of] = 0
      BY <1>0, <1>2 DEF CreditOrder, CreditInv
    <2>3. payments' = [payments EXCEPT ![e.of] = 1]
      BY <1>2, <2>2 DEF CreditOrder, Grant
    <2> QED BY <1>0, <2>1, <2>2, <2>3 DEF PostInv, Truthful, Earning
  <1>3. CASE Ignore(e) \/ TooLate(e) \/ Duplicate(e)
             \/ \E heard \in BOOLEAN : NoCredit(e, heard) \/ MoveSubscription(e, heard)
    BY <1>3 DEF Ignore, TooLate, Duplicate, NoCredit, MoveSubscription
  <1> QED BY <1>1, <1>2, <1>3 DEF Receive, Handle

LEMMA CreditKept == TypeOK /\ PostInv /\ CreditInv /\ [Next]_vars => CreditInv'
  <1> SUFFICES ASSUME TypeOK, PostInv, CreditInv, [Next]_vars PROVE CreditInv'
    OBVIOUS
  <1>0. purchase \in [Purchases -> Rows \cup {None}] /\ payments \in [Purchases -> Nat]
    BY DEF TypeOK
  <1>1. ASSUME NEW u \in Users, Shop(u) PROVE CreditInv'
    <2>1. PICK p \in Purchases, row \in Rows :
            purchase' = [purchase EXCEPT ![p] = row] /\ purchase[p] = None
      BY <1>1, Shopped
    <2>2. UNCHANGED <<recorded, payments>>
      BY <1>1, Shopped
    <2> QED BY <1>0, <2>1, <2>2, CreditQuiet DEF Quiet, CreditInv, Paid
  <1>2. ASSUME NEW p \in Purchases, AtProvider(p) PROVE CreditInv'
    <2>1. PICK row \in Rows : Becomes(p, row)
      BY <1>2, Moved
    <2>2. UNCHANGED <<recorded, payments>>
      BY <1>2, Moved
    <2>3. ASSUME NEW q \in Purchases PROVE Quiet(q)
      <3>1. CASE q = p
        BY <1>0, <2>1, <2>2, <3>1, CheckoutAssumption DEF Quiet, CreditInv, Becomes
      <3>2. CASE q # p
        BY <1>0, <2>1, <2>2, <3>2 DEF Quiet, CreditInv, Becomes, Paid
      <3> QED BY <3>1, <3>2
    <2> QED BY <2>3, CreditQuiet
  <1>3. ASSUME NEW e \in post, Receive(e) PROVE CreditInv'
    <2>1. UNCHANGED purchase /\ recorded \subseteq recorded'
      BY <1>3 DEF Receive, Ignore, TooLate, Duplicate, Handle, Credit, CreditOrder, NoCredit,
                  MoveSubscription, New
    <2>2. CASE UNCHANGED payments
      BY <2>1, <2>2, CreditQuiet DEF Quiet, CreditInv, Paid
    <2>3. CASE ~UNCHANGED payments
      <3>1. /\ Earning(e.of) /\ Paid(e.of) /\ payments' = [payments EXCEPT ![e.of] = 1]
            /\ purchase[e.of].kind # "order" =>
                  EventId(Event(e.of, Crediting(purchase[e.of].kind))) \in recorded'
        BY <1>3, <2>3, Credited
      <3>2. ASSUME NEW q \in Purchases
            PROVE  EventId(Event(q, Crediting(purchase[q].kind)))' = EventId(Event(q, Crediting(purchase[q].kind)))
        <4>1. Crediting(purchase'[q].kind) = Crediting(purchase[q].kind)
          BY <2>1
        <4> QED BY <2>1, <4>1, SameId DEF Crediting
      <3>3. ASSUME NEW q \in Purchases, payments'[q] = 1
            PROVE  /\ Earning(q) /\ Paid(q)
                   /\ purchase[q].kind # "order" => EventId(Event(q, Crediting(purchase[q].kind))) \in recorded'
        <4>1. CASE q = e.of
          BY <3>1, <4>1
        <4>2. CASE q # e.of
          <5>1. payments[q] = 1
            BY <1>0, <3>1, <3>3, <4>2
          <5> QED BY <2>1, <5>1 DEF CreditInv
        <4> QED BY <4>1, <4>2
      <3>4. \A q \in Purchases : payments'[q] \in {0, 1}
        BY <1>0, <3>1 DEF CreditInv
      <3> QED BY <2>1, <3>2, <3>3, <3>4 DEF CreditInv, Earning, Paid
    <2> QED BY <2>2, <2>3
  <1>4. CASE UNCHANGED vars \/ \E u \in Users : ByHand(u)
    <2>1. UNCHANGED <<purchase, recorded, payments>>
      BY <1>4, Granted DEF vars
    <2> QED BY <2>1, CreditQuiet DEF Quiet, CreditInv, Paid
  <1> QED BY <1>1, <1>2, <1>3, <1>4 DEF Next

\* Every step of the handlers, the providers and the operator pays a purchase,
\* credits one that is paid and has no credit, or changes neither.
LEMMA LedgerStep ==
    TypeOK /\ PostInv /\ CreditInv /\ [Next]_vars => [Ledger!Next]_(Ledger!vars)
  <1> SUFFICES ASSUME TypeOK, PostInv, CreditInv, [Next]_vars
               PROVE  Ledger!Next \/ UNCHANGED Ledger!vars
    OBVIOUS
  <1> DEFINE paid == {p \in Purchases : Earning(p) /\ Paid(p)}
  <1>0. purchase \in [Purchases -> Rows \cup {None}] /\ payments \in [Purchases -> Nat]
    BY DEF TypeOK
  <1>1. ASSUME NEW u \in Users, Shop(u) PROVE UNCHANGED <<paid, payments>>
    <2>1. PICK p \in Purchases, row \in Rows :
            /\ purchase' = [purchase EXCEPT ![p] = row]
            /\ purchase[p] = None /\ row.stage = "open"
      BY <1>1, Shopped
    <2>2. UNCHANGED payments
      BY <1>1, Shopped
    <2> QED BY <1>0, <2>1, <2>2 DEF Earning, Paid
  <1>2. ASSUME NEW p \in Purchases, AtProvider(p)
        PROVE  UNCHANGED <<paid, payments>> \/ Ledger!Pay(p)
    <2>1. PICK row \in Rows : Becomes(p, row)
      BY <1>2, Moved
    <2>2. UNCHANGED payments /\ purchase[p] # None
      BY <1>2, Moved, CheckoutAssumption
    <2>3. ASSUME NEW q \in Purchases, q # p PROVE q \in paid' <=> q \in paid
      BY <1>0, <2>1, <2>3 DEF Becomes, Earning, Paid
    <2>4. p \in paid => p \in paid'
      BY <1>0, <2>1, CheckoutAssumption DEF Becomes, Earning, Paid
    <2>5. paid' = paid \/ (p \notin paid /\ paid' = paid \cup {p})
      BY <2>3, <2>4
    <2> QED BY <2>2, <2>5 DEF Ledger!Pay
  <1>3. ASSUME NEW e \in post, Receive(e)
        PROVE  UNCHANGED <<paid, payments>> \/ (e.of \in Purchases /\ Ledger!Credit(e.of))
    <2>1. UNCHANGED purchase
      BY <1>3, Received
    <2>2. UNCHANGED paid
      BY <2>1 DEF Earning, Paid
    <2>3. e.of \in Purchases
      BY DEF TypeOK
    <2> QED BY <1>3, <2>2, <2>3, Credited DEF Ledger!Credit
  <1>4. CASE UNCHANGED vars \/ \E u \in Users : ByHand(u)
    <2>1. UNCHANGED <<purchase, payments>>
      BY <1>4, Granted DEF vars
    <2>2. UNCHANGED <<paid, payments>>
      BY <2>1 DEF Earning, Paid
    <2> QED BY <2>2 DEF Ledger!vars
  <1> QED BY <1>1, <1>2, <1>3, <1>4 DEF Next, Ledger!vars, Ledger!Next

\* A webhook grants nothing for the order of a link, or the one credit of an
\* order that is paid.
LEMMA OrderCredited ==
    ASSUME TypeOK, PostInv, LinkInv, NEW e \in post, Receive(e)
    PROVE  \/ UNCHANGED linkOrders
           \/ /\ Ordered(e.of) /\ Paid(e.of) /\ linkOrders[e.of] = 0
              /\ linkOrders' = [linkOrders EXCEPT ![e.of] = 1]
  <1>0. e.of \in Purchases /\ purchase[e.of] # None /\ Truthful(e)
    BY DEF TypeOK, PostInv
  <1>1. ASSUME NEW heard \in BOOLEAN, CreditOrder(e, heard), ~UNCHANGED linkOrders
        PROVE  /\ Ordered(e.of) /\ Paid(e.of) /\ linkOrders[e.of] = 0
               /\ linkOrders' = [linkOrders EXCEPT ![e.of] = 1]
    <2>1. OfLinkOrder(e) /\ ~Unread(e) /\ e.name # "payment.failed"
      BY <1>1 DEF CreditOrder, New, Grant, OfLinkOrder
    <2>2. linkOrders[e.of] = 0 /\ linkOrders' = [linkOrders EXCEPT ![e.of] = 1]
      BY <1>1 DEF CreditOrder, Grant
    <2> QED BY <1>0, <2>1, <2>2 DEF Unread, Truthful, Ordered, Bought
  <1>2. CASE Ignore(e) \/ TooLate(e) \/ Duplicate(e)
             \/ \E heard \in BOOLEAN : Credit(e, heard) \/ NoCredit(e, heard) \/ MoveSubscription(e, heard)
    BY <1>2 DEF Ignore, TooLate, Duplicate, Credit, Grant, NoCredit, MoveSubscription
  <1> QED BY <1>1, <1>2 DEF Receive, Handle

\* The orders of links are kept as what their payments name.
LEMMA OrdersKept ==
    ASSUME TypeOK, [Next]_vars
    PROVE  \A p \in Purchases :
              purchase[p] # None =>
                  /\ purchase'[p] # None /\ purchase'[p].named = purchase[p].named
                  /\ Paid(p) => Paid(p)'
  <1> DEFINE Same(p) == purchase[p] # None =>
                  /\ purchase'[p] # None /\ purchase'[p].named = purchase[p].named
                  /\ Paid(p) => Paid(p)'
  <1>0. purchase \in [Purchases -> Rows \cup {None}]
    BY DEF TypeOK
  <1>1. ASSUME NEW u \in Users, Shop(u), NEW q \in Purchases PROVE Same(q)
    <2>1. PICK p \in Purchases, row \in Rows :
            purchase' = [purchase EXCEPT ![p] = row] /\ purchase[p] = None
      BY <1>1, Shopped
    <2> QED BY <1>0, <2>1 DEF Paid
  <1>2. ASSUME NEW p \in Purchases, AtProvider(p), NEW q \in Purchases PROVE Same(q)
    <2>1. PICK row \in Rows : Becomes(p, row)
      BY <1>2, Moved
    <2> QED BY <1>0, <2>1, CheckoutAssumption DEF Becomes, Paid
  <1>3. CASE UNCHANGED vars \/ (\E e \in post : Receive(e)) \/ (\E u \in Users : ByHand(u))
    <2>1. UNCHANGED purchase
      BY <1>3, Received, Granted DEF vars
    <2> QED BY <2>1 DEF Paid
  <1> QED BY <1>1, <1>2, <1>3 DEF Next

\* Nothing but a webhook credits the order of a link.
LEMMA OrderMoves ==
    ASSUME TypeOK, PostInv, LinkInv, [Next]_vars
    PROVE  \/ UNCHANGED linkOrders
           \/ \E p \in Purchases :
                 /\ UNCHANGED purchase
                 /\ Ordered(p) /\ Paid(p) /\ linkOrders[p] = 0
                 /\ linkOrders' = [linkOrders EXCEPT ![p] = 1]
  <1>1. ASSUME NEW e \in post, Receive(e), ~UNCHANGED linkOrders
        PROVE  \E p \in Purchases :
                 /\ UNCHANGED purchase
                 /\ Ordered(p) /\ Paid(p) /\ linkOrders[p] = 0
                 /\ linkOrders' = [linkOrders EXCEPT ![p] = 1]
    <2>1. e.of \in Purchases /\ UNCHANGED purchase
      BY <1>1, Received DEF TypeOK
    <2> QED BY <1>1, <2>1, OrderCredited
  <1> QED BY <1>1, Shopped, Moved, Granted DEF Next, vars

LEMMA LinkKept == TypeOK /\ PostInv /\ LinkInv /\ [Next]_vars => LinkInv'
  <1> SUFFICES ASSUME TypeOK, PostInv, LinkInv, [Next]_vars, NEW q \in Purchases
               PROVE  linkOrders'[q] \in {0, 1} /\ (linkOrders'[q] = 1 => Ordered(q)' /\ Paid(q)')
    BY DEF LinkInv
  <1>0. linkOrders \in [Purchases -> Nat]
    BY DEF TypeOK
  <1>1. Ordered(q) /\ Paid(q) => Ordered(q)' /\ Paid(q)'
    BY OrdersKept DEF Ordered
  <1>2. CASE linkOrders'[q] = linkOrders[q]
    BY <1>1, <1>2 DEF LinkInv
  <1>3. CASE linkOrders'[q] # linkOrders[q]
    BY <1>0, <1>1, <1>3, OrderMoves
  <1> QED BY <1>2, <1>3

\* And so with the second credit, for the order a link's payment names.
LEMMA OrderStep ==
    TypeOK /\ PostInv /\ LinkInv /\ [Next]_vars => [OrderLedger!Next]_(OrderLedger!vars)
  <1> SUFFICES ASSUME TypeOK, PostInv, LinkInv, [Next]_vars
               PROVE  OrderLedger!Next \/ UNCHANGED OrderLedger!vars
    OBVIOUS
  <1> DEFINE paid == {p \in Purchases : Ordered(p) /\ Paid(p)}
  <1>0. purchase \in [Purchases -> Rows \cup {None}]
    BY DEF TypeOK
  <1>1. ASSUME NEW p \in Purchases, AtProvider(p)
        PROVE  UNCHANGED <<paid, linkOrders>> \/ OrderLedger!Pay(p)
    <2>1. PICK row \in Rows : Becomes(p, row)
      BY <1>1, Moved
    <2>2. UNCHANGED linkOrders
      BY <1>1, Moved
    <2>3. ASSUME NEW q \in Purchases, q # p PROVE q \in paid' <=> q \in paid
      BY <1>0, <2>1, <2>3 DEF Becomes, Ordered, Paid
    <2>4. p \in paid => p \in paid'
      BY OrdersKept DEF Ordered
    <2>5. paid' = paid \/ (p \notin paid /\ paid' = paid \cup {p})
      BY <2>3, <2>4
    <2> QED BY <2>2, <2>5 DEF OrderLedger!Pay
  <1>2. ASSUME NEW u \in Users, Shop(u) PROVE UNCHANGED <<paid, linkOrders>>
    <2>1. PICK p \in Purchases, row \in Rows :
            /\ purchase' = [purchase EXCEPT ![p] = row]
            /\ purchase[p] = None /\ row.stage = "open"
      BY <1>2, Shopped
    <2>2. UNCHANGED linkOrders
      BY <1>2, Shopped
    <2> QED BY <1>0, <2>1, <2>2 DEF Ordered, Paid
  <1>3. CASE UNCHANGED vars \/ (\E e \in post : Receive(e)) \/ (\E u \in Users : ByHand(u))
    <2>1. UNCHANGED purchase
      BY <1>3, Received, Granted DEF vars
    <2>2. UNCHANGED paid
      BY <2>1 DEF Ordered, Paid
    <2>3. CASE UNCHANGED linkOrders
      BY <2>2, <2>3 DEF OrderLedger!vars
    <2>4. CASE ~UNCHANGED linkOrders
      <3>1. PICK p \in Purchases :
              /\ Ordered(p) /\ Paid(p) /\ linkOrders[p] = 0
              /\ linkOrders' = [linkOrders EXCEPT ![p] = 1]
        BY <2>4, OrderMoves
      <3>2. OrderLedger!Credit(p)
        BY <2>2, <3>1 DEF OrderLedger!Credit
      <3> QED BY <3>2 DEF OrderLedger!Next
    <2> QED BY <2>3, <2>4
  <1> QED BY <1>1, <1>2, <1>3 DEF Next, OrderLedger!vars, OrderLedger!Next

\* However the webhooks of a purchase arrive, the handlers implement CreditOnce:
\* no credit before the money and one for it after (_record_once, _credit,
\* _credit_order); and once more for the order that the payments of a link name.
THEOREM CreditsImplementOnce == Spec => CreditsArePaidFor
  <1> DEFINE Inv == TypeOK /\ PostInv /\ CreditInv /\ LinkInv
  <1>1. Init => Inv
    BY InitTyped DEF Init, PostInv, CreditInv, LinkInv
  <1>2. Init => Ledger!Init /\ OrderLedger!Init
    BY DEF Init, Ledger!Init, OrderLedger!Init, Earning, Ordered, Paid
  <1>3. Inv /\ [Next]_vars => Inv'
    BY TypeKept, PostKept, CreditKept, LinkKept
  <1>4. Inv /\ [Next]_vars => [Ledger!Next]_(Ledger!vars) /\ [OrderLedger!Next]_(OrderLedger!vars)
    BY LedgerStep, OrderStep
  <1> HIDE DEF Inv
  <1> QED BY <1>1, <1>2, <1>3, <1>4, PTL DEF Spec, CreditsArePaidFor, Ledger!Spec, OrderLedger!Spec

-----------------------------------------------------------------------------
(* Plans and the launch price *)

\* Who bought what, that it is paid, and that it was renewed, stays.
Kept(p) ==
    purchase[p] # None =>
        /\ purchase'[p] # None /\ purchase'[p].user = purchase[p].user
        /\ purchase'[p].kind = purchase[p].kind /\ purchase'[p].plan = purchase[p].plan
        /\ Paid(p) => purchase'[p].stage # "open"
        /\ Billed(purchase[p].stage) => Billed(purchase'[p].stage)

LEMMA PurchasesKept == TypeOK /\ [Next]_vars => \A p \in Purchases : Kept(p)
  <1> SUFFICES ASSUME TypeOK, [Next]_vars, NEW q \in Purchases PROVE Kept(q)
    OBVIOUS
  <1>0. purchase \in [Purchases -> Rows \cup {None}]
    BY DEF TypeOK
  <1>1. ASSUME NEW u \in Users, Shop(u) PROVE Kept(q)
    <2>1. PICK p \in Purchases, row \in Rows :
            purchase' = [purchase EXCEPT ![p] = row] /\ purchase[p] = None
      BY <1>1, Shopped
    <2> QED BY <1>0, <2>1 DEF Kept, Paid
  <1>2. ASSUME NEW p \in Purchases, AtProvider(p) PROVE Kept(q)
    <2>1. PICK row \in Rows : Becomes(p, row)
      BY <1>2, Moved
    <2> QED BY <1>0, <2>1, CheckoutAssumption DEF Becomes, Kept, Paid
  <1>3. CASE UNCHANGED vars \/ (\E e \in post : Receive(e)) \/ (\E u \in Users : ByHand(u))
    <2>1. UNCHANGED purchase
      BY <1>3, Received, Granted DEF vars
    <2> QED BY <2>1 DEF Kept, Paid
  <1> QED BY <1>1, <1>2, <1>3 DEF Next

\* What lets a user have a plan: the operator's grant, or a purchase
Entitled(u, tier) ==
    \/ <<u, tier>> \in byHand
    \/ \E p \in Purchases :
          /\ Paid(p)
          /\ purchase[p].user = u
          /\ \/ purchase[p].plan = tier
             \/ purchase[p].kind = "ssub" /\ Billed(purchase[p].stage) /\ tier = "pro"

\* A plan that an event names was bought, or the event is a renewal at Stripe.
LEMMA NamedByEvent ==
    ASSUME TypeOK, PostInv, NEW e \in post, NEW heard \in BOOLEAN, MoveSubscription(e, heard),
           NEW tier \in PlansOf(e)
    PROVE  Entitled(Bought(e).user, tier)
  <1>1. e.of \in Purchases /\ Bought(e) \in Rows /\ Bought(e).kind \notin OneShots
    BY Subscribed, PlanTyped DEF TypeOK
  <1>2. /\ Paid(e.of) /\ e.name \in Sent(Bought(e).kind)
        /\ e.name \in Later(Bought(e).kind) => Billed(Bought(e).stage)
    BY <1>1 DEF PostInv, Truthful, OneShots
  <1>3. CASE tier = Bought(e).plan
    BY <1>1, <1>2, <1>3 DEF Entitled, Bought
  <1>4. CASE tier = "pro" /\ e.name = "invoice.payment_succeeded"
    <2>1. Bought(e).kind = "ssub" /\ Billed(Bought(e).stage)
      BY <1>1, <1>2, <1>4, Names DEF Rows
    <2> QED BY <1>1, <1>2, <1>4, <2>1 DEF Entitled, Bought
  <1> QED BY <1>3, <1>4 DEF PlansOf

LEMMA PlanKept == TypeOK /\ PostInv /\ PlanWasBought /\ [Next]_vars => PlanWasBought'
  <1> SUFFICES ASSUME TypeOK, PostInv, PlanWasBought, [Next]_vars PROVE PlanWasBought'
    OBVIOUS
  <1>0. /\ purchase \in [Purchases -> Rows \cup {None}] /\ subs \in [Users -> SubRows \cup {None}]
        /\ \A p \in Purchases : Kept(p)
    BY PurchasesKept DEF TypeOK
  <1>1. byHand \subseteq byHand'
    <2>1. ASSUME NEW u \in Users, ByHand(u) PROVE byHand \subseteq byHand'
      BY <2>1 DEF ByHand, GrantPlan, WithdrawPlan
    <2> QED BY <2>1, Shopped, Moved, Received DEF Next, vars
  <1>2. ASSUME NEW u, NEW tier, Entitled(u, tier) PROVE Entitled(u, tier)'
    BY <1>0, <1>1, <1>2 DEF Entitled, Kept, Paid
  <1>3. ASSUME NEW u \in Users, subs'[u] # None, subs'[u].plan # "free"
        PROVE  Entitled(u, subs[u].plan)'
    <2>1. CASE subs'[u] = subs[u]
      <3>1. Entitled(u, subs[u].plan)
        BY <1>3, <2>1 DEF PlanWasBought, Entitled, Billed
      <3> QED BY <1>2, <2>1, <3>1 DEF Entitled
    <2>2. ASSUME NEW e \in post, NEW heard \in BOOLEAN, MoveSubscription(e, heard)
          PROVE  Entitled(u, subs[u].plan)'
      <3>1. PICK sub \in SubRows : /\ sub.plan \in PlansOf(e) \cup {"free"}
                                   /\ subs' = [subs EXCEPT ![Bought(e).user] = sub]
        BY <2>2, Subscribed
      <3>2. CASE u = Bought(e).user
        <4>1. subs'[u].plan = sub.plan /\ sub.plan \in PlansOf(e)
          BY <1>0, <1>3, <3>1, <3>2
        <4>2. Entitled(u, sub.plan)'
          BY <1>2, <2>2, <3>2, <4>1, NamedByEvent
        <4> QED BY <4>1, <4>2 DEF Entitled
      <3>3. CASE u # Bought(e).user
        BY <1>0, <2>1, <3>1, <3>3
      <3> QED BY <3>2, <3>3
    <2>3. ASSUME NEW v \in Users, ByHand(v) PROVE Entitled(u, subs[u].plan)'
      <3>1. CASE WithdrawPlan(v)
        BY <1>0, <1>3, <2>1, <3>1 DEF WithdrawPlan
      <3>2. ASSUME NEW tier \in Plans, GrantPlan(v, tier), u = v PROVE Entitled(u, subs[u].plan)'
        <4>1. subs'[u].plan = tier /\ <<u, tier>> \in byHand'
          BY <1>0, <3>2 DEF GrantPlan
        <4> QED BY <4>1 DEF Entitled
      <3>3. ASSUME NEW tier \in Plans, GrantPlan(v, tier), u # v PROVE Entitled(u, subs[u].plan)'
        BY <1>0, <2>1, <3>3 DEF GrantPlan
      <3> QED BY <2>3, <3>1, <3>2, <3>3 DEF ByHand
    <2>4. CASE UNCHANGED subs
      BY <2>1, <2>4
    <2>5. ASSUME NEW e \in post, Receive(e)
          PROVE  UNCHANGED subs \/ \E heard \in BOOLEAN : MoveSubscription(e, heard)
      BY <2>5 DEF Receive, Ignore, TooLate, Duplicate, Handle, Credit, CreditOrder, NoCredit
    <2>6. UNCHANGED subs \/ (\E e \in post : Receive(e)) \/ \E v \in Users : ByHand(v)
      BY Shopped, Moved DEF Next, vars
    <2> QED BY <2>2, <2>3, <2>4, <2>5, <2>6
  <1> QED BY <1>3 DEF PlanWasBought, Entitled, Billed

\* A plan in force is one that was paid for or granted, except that a renewal
\* at Stripe may make it Pro: its invoice need not name the plan that was
\* bought, and the handler then says "pro" (_handle_subscription).
THEOREM PlansAreBought == Spec => []PlanWasBought
  <1>1. Init => TypeOK /\ PostInv /\ PlanWasBought
    BY InitTyped DEF Init, PostInv, PlanWasBought
  <1>2. TypeOK /\ PostInv /\ PlanWasBought /\ [Next]_vars => (TypeOK /\ PostInv /\ PlanWasBought)'
    BY TypeKept, PostKept, PlanKept
  <1> QED BY <1>1, <1>2, PTL DEF Spec

\* At most one subscriber more is counted, and none less.
LEMMA LogGrows ==
    ASSUME TypeOK, [Next]_vars
    PROVE  \E id : log \subseteq log' /\ log' \subseteq log \cup {id}
  <1>1. ASSUME NEW e \in post, Receive(e) PROVE \E id : log \subseteq log' /\ log' \subseteq log \cup {id}
    <2>1. ASSUME NEW heard \in BOOLEAN, MoveSubscription(e, heard)
          PROVE  \E id : log \subseteq log' /\ log' \subseteq log \cup {id}
      BY <2>1, Subscribed
    <2>2. UNCHANGED log \/ \E heard \in BOOLEAN : MoveSubscription(e, heard)
      BY <1>1 DEF Receive, Ignore, TooLate, Duplicate, Handle, Credit, CreditOrder, NoCredit
    <2> QED BY <2>1, <2>2
  <1> QED BY <1>1, Shopped, Moved, Granted DEF Next, vars

LEMMA LogKept == TypeOK /\ LogInv /\ [Next]_vars => LogInv'
  <1> SUFFICES ASSUME TypeOK, LogInv, [Next]_vars, NEW provider \in Providers
               PROVE  IsFiniteSet(Counted(provider)')
    BY DEF LogInv
  <1>1. PICK id : log' \subseteq log \cup {id}
    BY LogGrows
  <1>2. IsFiniteSet(Counted(provider) \cup {id[1]})
    BY FS_AddElement DEF LogInv
  <1>3. Counted(provider)' \subseteq Counted(provider) \cup {id[1]}
    BY <1>1 DEF Counted
  <1> QED BY <1>2, <1>3, FS_Subset

LEMMA LaunchStep ==
    TypeOK /\ LogInv /\ LogInv' /\ [Next]_vars => \A ccy \in Currencies : LaunchOpen(ccy)' => LaunchOpen(ccy)
  <1> SUFFICES ASSUME TypeOK, LogInv, LogInv', [Next]_vars, NEW ccy \in Currencies
               PROVE  LaunchOpen(ccy)' => LaunchOpen(ccy)
    OBVIOUS
  <1> DEFINE provider == CurrencyProvider(ccy)
  <1>1. provider \in Providers
    BY DEF CurrencyProvider, Providers
  <1>2. Counted(provider) \subseteq Counted(provider)'
    BY LogGrows DEF Counted
  <1>3. IsFiniteSet(Counted(provider)) /\ IsFiniteSet(Counted(provider)')
    BY <1>1 DEF LogInv
  <1>4. Cardinality(Counted(provider)) <= Cardinality(Counted(provider)')
    BY <1>2, <1>3, FS_Subset
  <1>5. Cardinality(Counted(provider)) \in Nat /\ Cardinality(Counted(provider)') \in Nat
    BY <1>3, FS_CardinalityType
  <1>6. CohortUsed(ccy) = Cardinality(Counted(provider)) /\ CohortUsed(ccy)' = Cardinality(Counted(provider)')
    BY DEF CohortUsed, Counted
  <1> HIDE DEF provider
  <1> QED BY <1>4, <1>5, <1>6, CheckoutAssumption DEF LaunchOpen

\* A market counts whoever ever subscribed in it, so that nobody who leaves
\* reopens its launch price, for any number of users (cohort_used).
THEOREM LaunchIsOver == Spec => LaunchStaysClosed
  <1>1. Init => TypeOK /\ LogInv
    BY InitTyped, FS_EmptySet DEF Init, LogInv, Counted
  <1>2. TypeOK /\ LogInv /\ [Next]_vars => (TypeOK /\ LogInv)'
    BY TypeKept, LogKept
  <1> QED BY <1>1, <1>2, LaunchStep, PTL DEF Spec, LaunchStaysClosed

-----------------------------------------------------------------------------
(* Dunning: what a sweep may rely on *)

\* The day's count of a rung, as failed_at has it
Rank(r) == CASE r = "past_due" -> 1 [] r = "read_only" -> 2 [] OTHER -> 3

\* What the sweep holds of a row is the row, unless an event has torn it.
ViewsInv == \A s \in Subs \ torn : Held(s) => sweep.view[s] = Sub(s)

\* The sweep's step says what it has in hand.
TurnInv ==
    /\ sweep.pc = "off" => sweep.todo = {}
    /\ sweep.pc \in {"write", "mail"} => sweep.sub \in Subs /\ sweep.view[sweep.sub].clock # 0
    /\ sweep.pc = "write" => Reached(sweep.view[sweep.sub])

\* A rung is the clock's own, or the clock has left it behind or stands still.
Behind(s, r) == clock[s] = 0 \/ clock[s] > Rank(r) \/ (status[s] = r /\ clock[s] = Rank(r))
MailsInv ==
    \A s \in Subs \ torn, r \in Rungs : mails[s][r] # 0 => mails[s][r] = 1 /\ Behind(s, r)

\* The rung the sweep is about to mail was not mailed yet.
Owes(s, r) ==
    sweep.pc = "mail" /\ ~sweep.late /\ sweep.sub = s /\ r = Stage(sweep.view[s].clock)
OwedInv ==
    \A s \in Subs \ torn, r \in Rungs : Owes(s, r) => mails[s][r] = 0 /\ Behind(s, r)

DunningInv == RowsOK /\ ClockRuns /\ MailedOnce /\ ViewsInv /\ TurnInv /\ MailsInv /\ OwedInv

LEMMA StagesAndRanks ==
    ASSUME NEW c \in Clock, c # 0
    PROVE  Stage(c) \in Rungs /\ Rank(Stage(c)) = c
  <1>1. c = 1 \/ c = 2 \/ c = 3
    BY DEF Clock
  <1>2. ASSUME c = 1 PROVE Stage(c) = "past_due"
    BY <1>2 DEF Stage
  <1>3. ASSUME c = 2 PROVE Stage(c) = "read_only"
    BY <1>3 DEF Stage
  <1>4. ASSUME c = 3 PROVE Stage(c) = "cancelled"
    BY <1>4 DEF Stage
  <1> QED BY <1>1, <1>2, <1>3, <1>4 DEF Rungs, Rank

\* Time and the provider only move clocks of rows nobody holds, and events.
LEMMA TimeKeepsDunning ==
    ASSUME DunningInv, NEW s \in Subs, Day(s)
    PROVE  DunningInv'
  <1> USE DEF DunningInv, Day
  <1>1. RowsOK'
    BY DEF RowsOK, Clock
  <1>2. ClockRuns'
    BY DEF ClockRuns, RowsOK, Clock
  <1>3. MailedOnce'
    BY DEF MailedOnce
  <1>4. ViewsInv' /\ TurnInv'
    BY DEF ViewsInv, TurnInv, Held, Reached
  <1>5. \A x \in Subs, r \in Rungs : Behind(x, r) => Behind(x, r)'
    BY DEF Behind, RowsOK, Clock, Rank
  <1>6. MailsInv' /\ OwedInv'
    BY <1>5 DEF MailsInv, OwedInv, Owes
  <1> QED BY <1>1, <1>2, <1>3, <1>4, <1>6

LEMMA EmitKeepsDunning ==
    ASSUME DunningInv, NEW e \in Events, NEW s \in Subs, NEW k \in EventKinds, Emit(e, s, k)
    PROVE  DunningInv'
  <1> USE DEF DunningInv, Emit
  <1>1. RowsOK'
    BY DEF RowsOK
  <1>2. ClockRuns' /\ MailedOnce'
    BY DEF ClockRuns, MailedOnce
  <1>3. ViewsInv' /\ TurnInv'
    BY DEF ViewsInv, TurnInv, Held, Sub
  <1>4. MailsInv' /\ OwedInv'
    BY DEF MailsInv, OwedInv, Owes, Behind
  <1> QED BY <1>1, <1>2, <1>3, <1>4

-----------------------------------------------------------------------------
(* The web server *)

\* What a webhook or a closure does to the row s and its mails; the rungs it
\* mails are the ones its clock has just reached.
Rewrites(s, rungs) ==
    /\ torn' = torn \cup {s} \/ (~Held(s) /\ (torn' = torn \ {s} \/ torn' = torn))
    /\ status' = [status EXCEPT ![s] = status'[s]] /\ status'[s] \in Statuses
    /\ plan' = [plan EXCEPT ![s] = plan'[s]] /\ plan'[s] \in {"free", "paid"}
    /\ clock' = [clock EXCEPT ![s] = clock'[s]] /\ clock'[s] \in Clock
    /\ status'[s] \in {"past_due", "read_only"} => clock'[s] # 0
    /\ status'[s] = "active" => clock'[s] = 0
    /\ Mailed(s, rungs)
    /\ \A r \in rungs : status'[s] = r /\ clock'[s] = Rank(r)

LEMMA RewritesKeepDunning ==
    ASSUME DunningInv, NEW s \in Subs, NEW rungs \in SUBSET Rungs, Rewrites(s, rungs),
           event' = event, processed' \in SUBSET Events, closed' \in SUBSET Subs, deaths' = deaths
    PROVE  DunningInv'
  <1> USE DEF DunningInv
  <1>1. /\ sweep' = [sweep EXCEPT !.late = sweep'.late] /\ sweep'.late \in BOOLEAN
        /\ sweep.late => sweep'.late
        /\ sweep.pc = "mail" /\ sweep.sub = s => sweep'.late
    BY DEF Rewrites, Mailed, RowsOK, Sweeps
  <1>2. mails' = [mails EXCEPT ![s] = [r \in Rungs |-> IF r \in rungs THEN 1 ELSE 0]]
    BY DEF Rewrites, Mailed
  <1>3. RowsOK'
    <2>1. sweep' \in Sweeps
      BY <1>1 DEF RowsOK, Sweeps
    <2>2. mails' \in [Subs -> [Rungs -> 0 .. 2]]
      BY <1>2 DEF RowsOK
    <2>3. /\ status' \in [Subs -> Statuses] /\ clock' \in [Subs -> Clock]
          /\ plan' \in [Subs -> {"free", "paid"}]
      BY DEF Rewrites, RowsOK
    <2>4. torn' \in SUBSET Subs
      BY DEF Rewrites, RowsOK
    <2> QED BY <2>1, <2>2, <2>3, <2>4 DEF RowsOK
  <1>4. ClockRuns'
    BY DEF ClockRuns, Rewrites, RowsOK
  <1>5. MailedOnce'
    BY <1>2 DEF MailedOnce, RowsOK
  <1>6. /\ sweep'.pc = sweep.pc /\ sweep'.todo = sweep.todo /\ sweep'.fresh = sweep.fresh
        /\ sweep'.sub = sweep.sub /\ sweep'.view = sweep.view
    BY <1>1 DEF RowsOK, Sweeps
  <1>7. \A x \in Subs \ {s} : Sub(x)' = Sub(x)
    BY DEF Sub, RowsOK, Rewrites
  <1>8. ViewsInv'
    BY <1>6, <1>7 DEF ViewsInv, Held, Rewrites
  <1>9. TurnInv'
    BY <1>6 DEF TurnInv
  <1>10. \A x \in Subs \ {s}, r \in Rungs :
            (Behind(x, r) <=> Behind(x, r)') /\ mails'[x][r] = mails[x][r]
    BY <1>2 DEF Behind, RowsOK, Rewrites
  <1>11. \A r \in Rungs : mails'[s][r] # 0 => mails'[s][r] = 1 /\ Behind(s, r)'
    BY <1>2 DEF Behind, RowsOK, Rewrites
  <1>12. MailsInv'
    BY <1>10, <1>11 DEF MailsInv, Rewrites
  <1>13. \A x \in Subs, r \in Rungs : Owes(x, r)' => x # s /\ Owes(x, r)
    BY <1>1, <1>6 DEF Owes
  <1>14. OwedInv'
    BY <1>10, <1>13 DEF OwedInv, Rewrites
  <1> QED BY <1>3, <1>4, <1>5, <1>8, <1>9, <1>12, <1>14

LEMMA DeliveriesKeepDunning ==
    ASSUME DunningInv, NEW e \in Events, Deliver(e)
    PROVE  DunningInv'
  <1> DEFINE s == event[e].sub
  <1>1. s \in Subs /\ event[e].kind \in EventKinds /\ Apply(e) /\ RowsOK
    BY DEF Deliver, DunningInv, RowsOK
  <1>2. torn' = torn \cup {s} \/ (~Held(s) /\ torn' = torn \ {s})
    BY <1>1 DEF Apply
  <1>3. event' = event /\ processed' \in SUBSET Events /\ closed' \in SUBSET Subs /\ deaths' = deaths
    BY <1>1 DEF Apply, RowsOK
  <1>4. \/ event[e].kind = "charged" /\ Charged(s)
        \/ event[e].kind = "failed" /\ ChargeFailed(s)
        \/ event[e].kind = "cancelled" /\ ProviderCancelled(s)
    BY <1>1 DEF Apply, EventKinds
  <1> HIDE DEF s
  <1> USE <1>1 DEF RowsOK
  <1>5. ASSUME Charged(s) PROVE Rewrites(s, {})
    BY <1>2, <1>5 DEF Charged, Rewrites, Statuses, Clock
  <1>6. ASSUME ChargeFailed(s) PROVE \E rungs \in {{}, {"past_due"}} : Rewrites(s, rungs)
    <2>1. /\ status' = [status EXCEPT ![s] = "past_due"] /\ plan' = plan
          /\ status' = [status EXCEPT ![s] = status'[s]] /\ status'[s] = "past_due"
          /\ plan' = [plan EXCEPT ![s] = plan'[s]] /\ plan'[s] \in {"free", "paid"}
      BY <1>6 DEF ChargeFailed
    <2>2. CASE clock[s] = 0
      <3>1. clock' = [clock EXCEPT ![s] = 1] /\ Mailed(s, {"past_due"})
        BY <1>6, <2>2 DEF ChargeFailed
      <3>2. clock' = [clock EXCEPT ![s] = clock'[s]] /\ clock'[s] = 1 /\ Rank("past_due") = 1
        BY <3>1 DEF Rank
      <3>3. Rewrites(s, {"past_due"})
        BY <1>2, <2>1, <3>1, <3>2 DEF Rewrites, Statuses, Rungs, Clock
      <3> QED BY <3>3
    <2>3. CASE clock[s] # 0
      <3>1. clock' = clock /\ Mailed(s, {})
        BY <1>6, <2>3 DEF ChargeFailed
      <3>2. clock' = [clock EXCEPT ![s] = clock'[s]] /\ clock'[s] \in Clock /\ clock'[s] # 0
        BY <2>3, <3>1
      <3>3. Rewrites(s, {})
        BY <1>2, <2>1, <3>1, <3>2 DEF Rewrites, Statuses, Rungs
      <3> QED BY <3>3
    <2> QED BY <2>2, <2>3
  <1>7. ASSUME ProviderCancelled(s) PROVE Rewrites(s, {})
    BY <1>2, <1>7 DEF ProviderCancelled, Rewrites, Statuses, Rungs, Clock
  <1>8. \E rungs \in SUBSET Rungs : Rewrites(s, rungs)
    BY <1>4, <1>5, <1>6, <1>7 DEF Rungs
  <1> QED BY <1>3, <1>8, RewritesKeepDunning

LEMMA ClosuresKeepDunning ==
    ASSUME DunningInv, NEW s \in Subs, Close(s)
    PROVE  DunningInv'
  <1>1. Rewrites(s, {})
    BY DEF Close, Rewrites, DunningInv, RowsOK, Statuses, Rungs
  <1>2. event' = event /\ processed' \in SUBSET Events /\ closed' \in SUBSET Subs /\ deaths' = deaths
    BY DEF Close, DunningInv, RowsOK
  <1> QED BY <1>1, <1>2, RewritesKeepDunning

-----------------------------------------------------------------------------
(* The sweep *)

\* What a step that leaves the subscriptions and their mails alone keeps
LEMMA LooksKeep ==
    ASSUME DunningInv, sweep' \in Sweeps,
           UNCHANGED <<status, plan, clock, event, processed, mails, torn, closed, deaths>>
    PROVE  /\ RowsOK' /\ ClockRuns' /\ MailedOnce' /\ MailsInv'
           /\ sweep'.pc # "mail" => OwedInv'
  <1>1. RowsOK' /\ ClockRuns' /\ MailedOnce'
    BY DEF DunningInv, RowsOK, ClockRuns, MailedOnce
  <1>2. MailsInv'
    BY DEF DunningInv, MailsInv, Behind
  <1>3. sweep'.pc # "mail" => OwedInv'
    BY DEF OwedInv, Owes
  <1> QED BY <1>1, <1>2, <1>3

LEMMA RowsAreRows ==
    ASSUME RowsOK
    PROVE  NoRow \in Row /\ \A s \in Subs : Sub(s) \in Row
  BY DEF RowsOK, Sub, Row, NoRow, Statuses, Clock

LEMMA SweepStartKeepsDunning ==
    ASSUME DunningInv, SweepStart
    PROVE  DunningInv'
  <1> DEFINE view == [s \in Subs |-> IF s \in Failing THEN Sub(s) ELSE NoRow]
  <1>1. RowsOK /\ view \in [Subs -> Row] /\ Failing \in SUBSET Subs
    BY RowsAreRows DEF DunningInv, Failing
  <1>2. sweep' = [sweep EXCEPT !.pc = "rows", !.todo = Failing, !.fresh = Failing, !.view = view]
    BY DEF SweepStart
  <1>3. \A s \in Failing : view[s] = Sub(s)
    BY <1>1
  <1> HIDE DEF view
  <1>4. sweep' \in Sweeps /\ sweep'.pc = "rows" /\ sweep'.todo = Failing /\ sweep'.view = view
    BY <1>1, <1>2 DEF RowsOK, Sweeps
  <1>5. UNCHANGED <<status, plan, clock, event, processed, mails, torn, closed, deaths>>
    BY DEF SweepStart
  <1>6. ViewsInv'
    BY <1>3, <1>4, <1>5 DEF ViewsInv, Held, Sub
  <1>7. TurnInv'
    BY <1>4 DEF TurnInv
  <1> QED BY <1>4, <1>5, <1>6, <1>7, LooksKeep DEF DunningInv

LEMMA SweepRowKeepsDunning ==
    ASSUME DunningInv, NEW s \in Subs, SweepRow(s)
    PROVE  DunningInv'
  <1>1. RowsOK /\ sweep.pc = "rows" /\ sweep \in Sweeps
    BY DEF DunningInv, RowsOK, SweepRow
  <1>2. Sub(s) \in Row /\ NoRow \in Row
    BY <1>1, RowsAreRows
  <1> DEFINE row == Loaded(s)
  <1>3. row \in Row
    BY <1>1, <1>2 DEF Sweeps, Loaded
  <1>4. s \notin torn => row = Sub(s)
    BY DEF DunningInv, SweepRow, ViewsInv, Held, Loaded
  <1>5. sweep' = IF Reached(row)
                 THEN [sweep EXCEPT !.pc = "write", !.sub = s, !.view[s] = row]
                 ELSE [sweep EXCEPT !.todo = @ \ {s}, !.view[s] = NoRow]
    BY DEF SweepRow
  <1>6. UNCHANGED <<status, plan, clock, event, processed, mails, torn, closed, deaths>>
    BY DEF SweepRow
  <1> HIDE DEF row
  <1>7. CASE Reached(row)
    <2>1. /\ sweep' \in Sweeps
          /\ sweep'.pc = "write" /\ sweep'.sub = s
          /\ sweep'.todo = sweep.todo /\ sweep'.fresh = sweep.fresh
          /\ sweep'.view[s] = row
          /\ \A x \in Subs \ {s} : sweep'.view[x] = sweep.view[x]
      BY <1>1, <1>3, <1>5, <1>7 DEF Sweeps
    <2>2. ViewsInv'
      BY <1>4, <1>6, <2>1 DEF DunningInv, ViewsInv, Held, Sub
    <2>3. TurnInv'
      BY <1>7, <2>1 DEF TurnInv, Reached
    <2> QED BY <1>6, <2>1, <2>2, <2>3, LooksKeep DEF DunningInv
  <1>8. CASE ~Reached(row)
    <2>1. /\ sweep' \in Sweeps
          /\ sweep'.pc = "rows" /\ sweep'.todo = sweep.todo \ {s} /\ sweep'.fresh = sweep.fresh
          /\ \A x \in Subs \ {s} : sweep'.view[x] = sweep.view[x]
      BY <1>1, <1>2, <1>5, <1>8 DEF Sweeps
    <2>2. ViewsInv'
      BY <1>1, <1>6, <2>1 DEF DunningInv, ViewsInv, Held, Sub
    <2>3. TurnInv'
      BY <2>1 DEF TurnInv
    <2> QED BY <1>6, <2>1, <2>2, <2>3, LooksKeep DEF DunningInv
  <1> QED BY <1>7, <1>8

LEMMA SweepWriteKeepsDunning ==
    ASSUME DunningInv, SweepWrite,
           NEW s, s = sweep.sub,
           NEW c, c = sweep.view[s].clock,
           NEW stage, stage = Stage(c)
    PROVE  DunningInv'
  <1>1. RowsOK /\ sweep \in Sweeps /\ sweep.pc = "write" /\ s \in Subs
    BY DEF DunningInv, RowsOK, SweepWrite, TurnInv
  <1>2. c \in Clock /\ c # 0 /\ stage # sweep.view[s].status
    BY <1>1 DEF DunningInv, TurnInv, Reached, Sweeps, Row
  <1>3. stage \in Rungs /\ Rank(stage) = c
    BY <1>2, StagesAndRanks
  <1>4. s \notin torn => clock[s] = c /\ status[s] # stage
    <2>1. s \notin torn => sweep.view[s] = Sub(s)
      BY <1>1 DEF DunningInv, ViewsInv, Held
    <2> QED BY <1>2, <2>1 DEF Sub
  <1>5. /\ status' = [status EXCEPT ![s] = stage]
        /\ plan' = plan \/ plan' = [plan EXCEPT ![s] = "free"]
        /\ clock' = IF stage = "cancelled" THEN [clock EXCEPT ![s] = 0] ELSE clock
        /\ UNCHANGED <<event, processed, mails, torn, closed, deaths>>
    BY <1>1 DEF SweepWrite
  <1>6. sweep' = [sweep EXCEPT !.pc = "mail", !.fresh = {},
                      !.view = [x \in Subs |-> IF x = s THEN sweep.view[s] ELSE NoRow]]
    BY <1>1 DEF SweepWrite, Sweeps
  <1>7. /\ sweep' \in Sweeps
        /\ sweep'.pc = "mail" /\ sweep'.sub = s /\ sweep'.fresh = {} /\ sweep'.view[s] = sweep.view[s]
    BY <1>1, <1>6, RowsAreRows DEF Sweeps
  <1>8. Stage(sweep'.view[s].clock) = stage /\ sweep'.view[s].clock = c
    BY <1>7
  <1>9. RowsOK'
    <2>1. status' \in [Subs -> Statuses]
      BY <1>1, <1>3, <1>5 DEF RowsOK, Statuses
    <2>2. plan' \in [Subs -> {"free", "paid"}]
      BY <1>1, <1>5 DEF RowsOK
    <2>3. clock' \in [Subs -> Clock]
      BY <1>1, <1>5 DEF RowsOK, Clock
    <2> QED BY <1>1, <1>5, <1>7, <2>1, <2>2, <2>3 DEF RowsOK
  <1>10. ClockRuns'
    BY <1>1, <1>2, <1>3, <1>4, <1>5 DEF DunningInv, ClockRuns, RowsOK, Rungs
  <1>11. MailedOnce'
    BY <1>5 DEF DunningInv, MailedOnce
  <1>12. ViewsInv'
    BY <1>7 DEF ViewsInv, Held
  <1>13. TurnInv'
    BY <1>1, <1>2, <1>7, <1>8 DEF TurnInv
  <1>14. ASSUME NEW x \in Subs \ torn, NEW r \in Rungs
         PROVE  /\ Behind(x, r) => Behind(x, r)'
                /\ x = s /\ r = stage => ~Behind(x, r) /\ Behind(x, r)'
    <2>1. CASE x # s
      BY <2>1, <1>1, <1>5 DEF Behind, RowsOK
    <2>2. CASE x = s
      <3>1. clock[x] = c /\ status[x] # stage
        BY <2>2, <1>4
      <3>2. status'[x] = stage /\ clock'[x] = IF stage = "cancelled" THEN 0 ELSE c
        BY <1>1, <1>5, <2>2, <3>1 DEF RowsOK
      <3>3. r = stage => ~Behind(x, r) /\ Behind(x, r)'
        BY <1>2, <1>3, <3>1, <3>2 DEF Behind, Clock
      <3>4. ~(status[x] = r /\ clock[x] = Rank(r))
        BY <1>2, <1>3, <3>1 DEF Clock, Rungs, Rank
      <3>5. Behind(x, r) => Behind(x, r)'
        BY <1>2, <3>1, <3>2, <3>4 DEF Behind, Clock
      <3> QED BY <3>3, <3>5
    <2> QED BY <2>1, <2>2
  <1>15. MailsInv'
    BY <1>5, <1>14 DEF DunningInv, MailsInv
  <1>16. OwedInv'
    <2>1. s \notin torn => mails[s][stage] = 0 /\ Behind(s, stage)'
      BY <1>1, <1>3, <1>14 DEF DunningInv, MailsInv
    <2>2. \A x \in Subs, r \in Rungs : Owes(x, r)' => x = s /\ r = stage
      BY <1>7, <1>8 DEF Owes
    <2>3. \A x \in Subs, r \in Rungs :
            x = s /\ r = stage /\ s \notin torn => mails'[x][r] = 0 /\ Behind(x, r)'
      BY <1>5, <1>14, <2>1
    <2> QED BY <1>5, <2>2, <2>3 DEF OwedInv
  <1> QED BY <1>9, <1>10, <1>11, <1>12, <1>13, <1>15, <1>16 DEF DunningInv

LEMMA SweepMailKeepsDunning ==
    ASSUME DunningInv, SweepMail,
           NEW s, s = sweep.sub,
           NEW stage, stage = Stage(sweep.view[s].clock)
    PROVE  DunningInv'
  <1> DEFINE counted == ~sweep.late /\ s \notin torn
  <1>1. RowsOK /\ sweep \in Sweeps /\ sweep.pc = "mail" /\ s \in Subs
    BY DEF DunningInv, RowsOK, SweepMail, TurnInv
  <1>2. sweep.view[s].clock \in Clock /\ sweep.view[s].clock # 0
    BY <1>1 DEF DunningInv, TurnInv, Sweeps, Row
  <1>3. stage \in Rungs
    BY <1>2, StagesAndRanks
  <1>4. counted => mails[s][stage] = 0 /\ Behind(s, stage)
    BY <1>1, <1>3 DEF DunningInv, OwedInv, Owes
  <1>5. /\ mails' = IF counted THEN [mails EXCEPT ![s][stage] = IF @ < 2 THEN @ + 1 ELSE 2]
                 ELSE mails
        /\ UNCHANGED <<status, plan, clock, event, processed, torn, closed, deaths>>
        /\ sweep' = [sweep EXCEPT !.pc = "rows", !.todo = @ \ {s}, !.sub = NoSub, !.late = FALSE,
                              !.view[s] = NoRow]
    BY DEF SweepMail
  <1>6. /\ sweep' \in Sweeps
        /\ sweep'.pc = "rows" /\ sweep'.todo = sweep.todo \ {s} /\ sweep'.fresh = sweep.fresh
        /\ \A x \in Subs \ {s} : sweep'.view[x] = sweep.view[x]
    BY <1>1, <1>5, RowsAreRows DEF Sweeps
  <1>7. counted => s \notin torn
    OBVIOUS
  <1> HIDE DEF counted
  <1>8. mails \in [Subs -> [Rungs -> 0 .. 2]]
    BY <1>1 DEF RowsOK
  <1>9. CASE ~counted
    <2>1. mails' = mails
      BY <1>5, <1>9
    <2>2. ViewsInv'
      BY <1>1, <1>5, <1>6 DEF DunningInv, ViewsInv, Held, Sub
    <2>3. TurnInv'
      BY <1>6 DEF TurnInv
    <2> QED BY <1>5, <1>6, <2>1, <2>2, <2>3, LooksKeep DEF DunningInv
  <1>10. CASE counted
    <2>1. mails[s][stage] = 0 /\ mails' = [mails EXCEPT ![s][stage] = IF @ < 2 THEN @ + 1 ELSE 2]
      BY <1>4, <1>5, <1>10
    <2>2. /\ mails' \in [Subs -> [Rungs -> 0 .. 2]]
          /\ \A x \in Subs, r \in Rungs :
                mails'[x][r] = IF x = s /\ r = stage THEN 1 ELSE mails[x][r]
      BY <1>1, <1>3, <1>8, <2>1
    <2>3. RowsOK'
      BY <1>1, <1>5, <1>6, <2>2 DEF RowsOK
    <2>4. ClockRuns' /\ MailedOnce'
      BY <1>5, <2>2 DEF DunningInv, ClockRuns, MailedOnce
    <2>5. MailsInv'
      BY <1>4, <1>5, <1>10, <2>2 DEF DunningInv, MailsInv, Behind
    <2>6. ViewsInv'
      BY <1>1, <1>5, <1>6 DEF DunningInv, ViewsInv, Held, Sub
    <2>7. TurnInv' /\ OwedInv'
      BY <1>6 DEF TurnInv, OwedInv, Owes
    <2> QED BY <2>3, <2>4, <2>5, <2>6, <2>7 DEF DunningInv
  <1> QED BY <1>9, <1>10

\* The sweep ends, or its process or its mail does.
LEMMA SweepStopsKeepDunning ==
    ASSUME DunningInv, sweep' = NoSweep, deaths' \in 0 .. MaxDeaths,
           UNCHANGED <<status, plan, clock, event, processed, mails, torn, closed>>
    PROVE  DunningInv'
  <1>1. sweep'.pc = "off" /\ sweep'.todo = {} /\ sweep' \in Sweeps
    BY RowsAreRows DEF NoSweep, Sweeps, DunningInv
  <1>2. RowsOK'
    BY <1>1 DEF DunningInv, RowsOK
  <1>3. ClockRuns' /\ MailedOnce'
    BY DEF DunningInv, ClockRuns, MailedOnce
  <1>4. MailsInv'
    BY DEF DunningInv, MailsInv, Behind
  <1>5. ViewsInv' /\ TurnInv' /\ OwedInv'
    BY <1>1 DEF ViewsInv, TurnInv, OwedInv, Owes, Held
  <1> QED BY <1>2, <1>3, <1>4, <1>5 DEF DunningInv

-----------------------------------------------------------------------------
LEMMA DunningStarts == DunningInit => DunningInv
  <1> SUFFICES ASSUME DunningInit PROVE DunningInv
    OBVIOUS
  <1>1. RowsOK
    BY DunningAssumption DEF DunningInit, RowsOK, Sweeps, NoSweep, NoRow, Row, Statuses, Clock
  <1>2. ClockRuns /\ MailedOnce /\ MailsInv
    BY DEF DunningInit, ClockRuns, MailedOnce, MailsInv
  <1>3. ViewsInv /\ TurnInv /\ OwedInv
    BY DEF DunningInit, ViewsInv, TurnInv, OwedInv, Owes, Held, NoSweep
  <1> QED BY <1>1, <1>2, <1>3 DEF DunningInv

LEMMA DunningSteps == DunningInv /\ [DunningNext]_dunningVars => DunningInv'
  <1> SUFFICES ASSUME DunningInv, [DunningNext]_dunningVars PROVE DunningInv'
    OBVIOUS
  <1>1. ASSUME NEW s \in Subs, Day(s) PROVE DunningInv'
    BY <1>1, TimeKeepsDunning
  <1>2. ASSUME NEW s \in Subs, Close(s) PROVE DunningInv'
    BY <1>2, ClosuresKeepDunning
  <1>3. ASSUME NEW e \in Events, NEW s \in Subs, NEW k \in EventKinds, Emit(e, s, k)
        PROVE  DunningInv'
    BY <1>3, EmitKeepsDunning
  <1>4. ASSUME NEW e \in Events, Deliver(e) PROVE DunningInv'
    BY <1>4, DeliveriesKeepDunning
  <1>5. CASE SweepStart
    BY <1>5, SweepStartKeepsDunning
  <1>6. ASSUME NEW s \in Subs, SweepRow(s) PROVE DunningInv'
    BY <1>6, SweepRowKeepsDunning
  <1>7. CASE SweepWrite
    BY <1>7, SweepWriteKeepsDunning
  <1>8. CASE SweepMail
    BY <1>8, SweepMailKeepsDunning
  <1>9. CASE SweepMailFails \/ SweepEnd \/ SweepDies
    <2>1. deaths' \in 0 .. MaxDeaths
      BY <1>9, DunningAssumption DEF SweepMailFails, SweepEnd, SweepDies, DunningInv, RowsOK
    <2> QED BY <1>9, <2>1, SweepStopsKeepDunning DEF SweepMailFails, SweepEnd, SweepDies
  <1>10. CASE UNCHANGED dunningVars
    <2>1. RowsOK' /\ ClockRuns' /\ MailedOnce'
      BY <1>10 DEF dunningVars, DunningInv, RowsOK, ClockRuns, MailedOnce
    <2>2. ViewsInv' /\ TurnInv'
      BY <1>10 DEF dunningVars, DunningInv, ViewsInv, TurnInv, Held, Sub
    <2>3. MailsInv' /\ OwedInv'
      BY <1>10 DEF dunningVars, DunningInv, MailsInv, OwedInv, Owes, Behind
    <2> QED BY <2>1, <2>2, <2>3 DEF DunningInv
  <1> QED BY <1>1, <1>2, <1>3, <1>4, <1>5, <1>6, <1>7, <1>8, <1>9, <1>10 DEF DunningNext, Sweep

\* The rows, the sweep and the mails keep their types.
THEOREM RowsKeepTheirTypes == DunningSpec => []RowsOK
  <1>1. DunningInv => RowsOK
    BY DEF DunningInv
  <1> QED BY <1>1, DunningStarts, DunningSteps, PTL DEF DunningSpec

\* Past due and read-only customers have a clock that runs, paying ones have none
\* (advance_dunning, apply_event), except where an event fell between a sweep's
\* read and its write.
THEOREM DunnedWhileFailing == DunningSpec => []ClockRuns
  <1>1. DunningInv => ClockRuns
    BY DEF DunningInv
  <1> QED BY <1>1, DunningStarts, DunningSteps, PTL DEF DunningSpec

\* However often sweeps run, die or fail to mail, a rung is mailed once until the
\* provider or the customer changes the subscription (advance_dunning).
THEOREM RungsAreMailedOnce == DunningSpec => []MailedOnce
  <1>1. DunningInv => MailedOnce
    BY DEF DunningInv
  <1> QED BY <1>1, DunningStarts, DunningSteps, PTL DEF DunningSpec
=============================================================================
