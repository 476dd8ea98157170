------------------------------ MODULE Savings ------------------------------
(***************************************************************************)
(* What a workspace is shown about its money: the audits of its logs, the  *)
(* verdicts its people give on the findings, the savings that are verified *)
(* from the two (services/dashboard/savings.py), the dashboard's latest    *)
(* audit (metrics.py) and the explorer's view of the whole history         *)
(* (explorer.py).                                                          *)
(*                                                                         *)
(* A route is a detector and the model it names, or a finding without a    *)
(* model.  One audit may find a route many times, a detector claiming once *)
(* per prefix, tag, session or day.  What a log can show is a constant:    *)
(* the tokens behind it are the subject of Detectors.  Dates are counted   *)
(* in months.                                                              *)
(***************************************************************************)
EXTENDS Naturals, Sequences, FiniteSetsExt

CONSTANTS
    Routes,         \* route identities: (detector, model or finding)
    ModelOf,        \* the model a route names, or None
    Logs,           \* [observed: days, cost: (date, model) -> USD, found: its findings]
    Verdicts,       \* "applied" and others
    Sources,        \* accounts; Upload among them stands for uploaded logs
    MinVerifyDays,  \* MIN_VERIFY_DAYS
    TopLimit,       \* the limit of metrics.top_findings
    FindingsCap,    \* FINDINGS_CAP
    LastMonth, MaxAudits, MaxRunning, MaxVotes,   \* bounds
    None

\* The amounts of a log are not negative, and its dates are dates.  Its findings are in
\* the order in which the database returns them when it is asked for none; row is the
\* order in which they were inserted (findings.id).
ASSUME SavingsAssumption ==
    /\ LastMonth \in Nat \ {0} /\ FindingsCap \in Nat
    /\ None \notin Nat /\ None \notin [at : Nat, month : Nat]
    /\ \A log \in Logs :
         /\ \A b \in DOMAIN log.cost : b[1] \in 1 .. LastMonth
         /\ log.found \in Seq([row : Nat, route : Routes, usd : Nat])
         /\ \A n, k \in DOMAIN log.found : log.found[n].row = log.found[k].row => n = k

VARIABLES
    audits,   \* the audits in the order of their creation
    fb,       \* (audit, finding) -> verdict, when, month
    clock,    \* orders creations, completions and votes
    month     \* the current month

savingsVars == <<audits, fb, clock, month>>

Months == 1 .. LastMonth

SavingsInit == audits = <<>> /\ fb = [x \in {} |-> None] /\ clock = 1 /\ month = 1

\* A done audit: its findings are in the database.
Done == {i \in DOMAIN audits : audits[i].ready # None}

Latest(I) == Max(I)

Found(i) == audits[i].log.found

\* A finding is an audit and a place among its findings.
RouteOf(x) == Found(x[1])[x[2]].route
UsdOf(x) == Found(x[1])[x[2]].usd
RowOf(x) == Found(x[1])[x[2]].row

\* The places of a route among the findings of an audit, and their amounts
Of(i, r) == {n \in DOMAIN Found(i) : Found(i)[n].route = r}
AmountsAt(i, r) == {Found(i)[n].usd : n \in Of(i, r)}

Traffic(i) == DOMAIN audits[i].log.cost

-----------------------------------------------------------------------------
(* Audits come and finish, in any order; people vote *)

Start(source) ==
    /\ Len(audits) < MaxAudits /\ Cardinality(DOMAIN audits \ Done) < MaxRunning
    /\ audits' = Append(audits, [at |-> clock, month |-> month, source |-> source, ready |-> None])
    /\ clock' = clock + 1
    /\ UNCHANGED <<fb, month>>

Finish(i) ==
    /\ i \notin Done
    /\ \E log \in Logs :
         audits' = [audits EXCEPT ![i] = [at |-> @.at, month |-> @.month, source |-> @.source,
                        ready |-> [at |-> clock, month |-> month], log |-> log]]
    /\ clock' = clock + 1
    /\ UNCHANGED <<fb, month>>

\* A second vote on a finding replaces the first, and its time.
Vote(i, n, verdict) ==
    /\ clock <= Len(audits) + Cardinality(Done) + MaxVotes
    /\ i \in Done /\ n \in DOMAIN Found(i)
    /\ fb' = [x \in DOMAIN fb \cup {<<i, n>>} |->
                IF x = <<i, n>> THEN [verdict |-> verdict, at |-> clock, month |-> month] ELSE fb[x]]
    /\ clock' = clock + 1
    /\ UNCHANGED <<audits, month>>

MonthPasses ==
    /\ month < LastMonth
    /\ month' = month + 1
    /\ UNCHANGED <<audits, fb, clock>>

-----------------------------------------------------------------------------
(* Verified savings *)

VotesOn(r) == {x \in DOMAIN fb : RouteOf(x) = r}

Applied(r) == {x \in VotesOn(r) : fb[x].verdict = "applied"}

Settled == {r \in Routes : Applied(r) # {}}

\* Mutant of Fixed: a route that is found again is fixed anew with every vote.
FixedEachTime(r) == Applied(r)

\* R1: a route has one fix, the earliest of its applied findings.
Fixed(r) == {x \in Applied(r) : \A y \in Applied(r) : fb[x].at <= fb[y].at}

\* The audits that may prove a fix.
Qualifying(x) ==
    {i \in Done : audits[i].at > fb[x].at /\ audits[i].log.observed >= MinVerifyDays}

\* R2: a finding that names no model has no traffic that could be looked up.
HadTraffic(i, r) == ModelOf[r] # None /\ \E b \in Traffic(i) : b[2] = ModelOf[r]

Pending(x) ==
    IF Qualifying(x) = {} THEN TRUE
    ELSE LET check == Latest(Qualifying(x))
         IN  Of(check, RouteOf(x)) = {} /\ ~HadTraffic(check, RouteOf(x))

\* Of several findings of the route, by_key keeps the one that was returned last.
Recomputed(x) ==
    LET check == Latest(Qualifying(x))
        again == Of(check, RouteOf(x))
    IN  IF again = {} THEN 0 ELSE Found(check)[Max(again)].usd

Credit(x) ==
    LET baseline == UsdOf(x)
    IN  IF Recomputed(x) < baseline THEN Min({baseline - Recomputed(x), baseline}) ELSE 0

Fixes == UNION {Fixed(r) : r \in Routes}

PendingIn(period) == {x \in Fixes : Pending(x) /\ period \in {None, fb[x].month}}

\* A saving belongs to the month of the audit that proved it.
VerifiedIn(period) ==
    {x \in Fixes : ~Pending(x) /\ period \in {None, audits[Latest(Qualifying(x))].month}}

Lines(period) ==
    {[fix |-> x, proof |-> Latest(Qualifying(x)), usd |-> Credit(x)] : x \in VerifiedIn(period)}

Total(lines) == MapThenSumSet(LAMBDA l : l.usd, lines)

DoneIn(period) == {i \in Done : period \in {None, audits[i].month}}

\* R3: what is open is what the latest audit found and nobody has applied.
Identified(period) ==
    IF DoneIn(period) = {} THEN 0
    ELSE LET found == Found(Latest(DoneIn(period)))
             open == {n \in DOMAIN found : found[n].route \notin Settled}
         IN  MapThenSumSet(LAMBDA n : found[n].usd, open)

Compute(period) ==
    [lines |-> Lines(period), pending |-> Cardinality(PendingIn(period)), identified |-> Identified(period)]

-----------------------------------------------------------------------------
(* The dashboard and the explorer *)

\* The items of a list that is sorted by amount and cut; of equals, any may be cut.
Dearest(items, limit) == {x \in items : Cardinality({y \in items : y.usd > x.usd}) < limit}

\* metrics.top_findings: findings of the audit created last
TopFindings ==
    IF Done = {} THEN {}
    ELSE LET i == Latest(Done)
         IN  Dearest({[finding |-> <<i, n>>, usd |-> Found(i)[n].usd] : n \in DOMAIN Found(i)}, TopLimit)

NoFilter == [source |-> None, model |-> None, dates |-> Months, status |-> "any"]

Scope(f) == {i \in Done : f.source \in {None, audits[i].source}}

\* The aggregate rows of the audits in scope
Rows(f) ==
    {x \in UNION {{i} \X Traffic(i) : i \in Scope(f)} :
        x[2][1] \in f.dates /\ f.model \in {None, x[2][2]}}

\* Mutant of Survivors: the earliest report wins.
OldestSurvive(rows) ==
    {x \in rows : \A y \in rows : y[2] = x[2] => audits[x[1]].ready.at <= audits[y[1]].ready.at}

\* The overlap law: of two audits of one (date, model), the latest report wins.
Survivors(rows) ==
    {x \in rows : \A y \in rows : y[2] = x[2] => audits[y[1]].ready.at <= audits[x[1]].ready.at}

\* The rows that the explorer's spend, calls and tokens are the sums of
Counted(f) == Survivors(Rows(f))

\* An audit without aggregate rows is in view, unless a model is asked for.
Bare(f) ==
    {i \in Scope(f) : Traffic(i) = {} /\ f.model = None /\ audits[i].ready.month \in f.dates}

InView(f) == {x[1] : x \in Counted(f)} \cup Bare(f)

\* The findings of the audits in view
InSight(f) ==
    {x \in UNION {{i} \X DOMAIN Found(i) : i \in InView(f)} : f.model \in {None, ModelOf[RouteOf(x)]}}

\* x was reported after y; in one report the rows were inserted in their order.
NotAfter(y, x) ==
    LET then == audits[y[1]].ready.at
        now == audits[x[1]].ready.at
    IN  \/ then < now
        \/ then = now /\ RowOf(y) <= RowOf(x)

\* The finding that stands for its route, among the audits in view: the last
LastSeen(f) ==
    {x \in InSight(f) : \A y \in InSight(f) : RouteOf(y) = RouteOf(x) => NotAfter(y, x)}

\* The latest verdict on a route, over the audits in view
VerdictOf(f, r) ==
    LET votes == {x \in VotesOn(r) : x[1] \in InView(f)}
    IN  IF votes = {} THEN "unreviewed"
        ELSE fb[CHOOSE x \in votes : \A y \in votes : fb[y].at <= fb[x].at].verdict

\* The routes that the explorer counts and adds up ...
Explored(f) ==
    {[route |-> RouteOf(x), usd |-> UsdOf(x)] :
        x \in {y \in LastSeen(f) : f.status = "any" \/ f.status = VerdictOf(f, RouteOf(y))}}

\* ... and those that it lists
Displayed(f) == Dearest(Explored(f), FindingsCap)

-----------------------------------------------------------------------------
(* Properties *)

\* A credit is measured: an audit that was asked for after the fix, of a week or more,
\* either found the route again and one of its findings is smaller than the fixed one by
\* the credit or more, or found it no more and saw its model.  And however often weekly
\* audits find a route again, however many findings they have of it and however often
\* these are applied, no more is credited for the route than one finding of it claimed
\* (services/dashboard/savings.py, rules R1 and R2).  Which of several findings of the
\* route is compared with the fixed one is left to the order of the rows: the credit
\* does not show that the fixed finding itself became smaller.
CreditIsEarned ==
    /\ \A l \in Lines(None) : l.usd > 0 =>
        LET r == RouteOf(l.fix)
        IN  \E i \in Done :
                /\ audits[i].at > fb[l.fix].at /\ audits[i].log.observed >= MinVerifyDays
                /\ \/ \E usd \in AmountsAt(i, r) : l.usd + usd <= UsdOf(l.fix)
                   \/ Of(i, r) = {} /\ \E b \in Traffic(i) : b[2] = ModelOf[r]
    /\ \A r \in Routes :
        Total({l \in Lines(None) : RouteOf(l.fix) = r})
            <= Max({0} \cup UNION {AmountsAt(i, r) : i \in Done})

\* The surfaces agree.  The months' figures add up to the headline, a fix being
\* verified or pending in exactly one month.  When the audit created last also finished
\* last, the explorer has an item for the route of every finding that the dashboard
\* lists, with the amount of a finding of that audit on that route: the same amount, when
\* there is one.  The explorer counts the same rows whether it is asked at once, by
\* model or by month, the same items whether it is asked at once or by verdict, and a
\* verdict hides no item from its list
\* (savings.compute, metrics.top_findings, explorer.compose).
SurfacesAgree ==
    /\ Total(Lines(None)) = MapThenSumSet(LAMBDA m : Total(Lines(m)), Months)
    /\ Cardinality(PendingIn(None)) = MapThenSumSet(LAMBDA m : Cardinality(PendingIn(m)), Months)
    /\ Cardinality(PendingIn(None)) + Cardinality(Lines(None)) = Cardinality(Settled)
    /\ (\A i \in Done : i # Latest(Done) => audits[i].ready.at < audits[Latest(Done)].ready.at) =>
           \A t \in TopFindings : \E e \in Explored(NoFilter) :
               e.route = RouteOf(t.finding) /\ e.usd \in AmountsAt(Latest(Done), e.route)
    /\ LET models == {b[2] : b \in UNION {Traffic(i) : i \in Done}}
           statuses == Verdicts \cup {"unreviewed"}
       IN  \A s \in Sources \cup {None} :
               LET f == [NoFilter EXCEPT !.source = s]
               IN  /\ Counted(f) = UNION {Counted([f EXCEPT !.model = m]) : m \in models}
                   /\ Counted(f) = UNION {Counted([f EXCEPT !.dates = {d}]) : d \in Months}
                   /\ Explored(f) = UNION {Explored([f EXCEPT !.status = v]) : v \in statuses}
                   /\ Displayed(f) \subseteq UNION {Displayed([f EXCEPT !.status = v]) : v \in statuses}
=============================================================================
