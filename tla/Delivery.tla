------------------------------ MODULE Delivery ------------------------------
(***************************************************************************)
(* What the hourly tick (services/connectors/schedule.py) puts into the    *)
(* customers' mailboxes: the daily digest with its budget stages           *)
(* (services/connectors/daily.py) and the alerts (services/alerts).        *)
(*                                                                         *)
(* Mail and database are two systems: a mail leaves before or after the    *)
(* row that says so is committed, and either may fail, or the process die, *)
(* in between.  The digest sends first and the alerts record first.  Both  *)
(* keep their record in alert_events, under the same rule.  Ticks do not   *)
(* overlap (ofelia.ini), but may be under way at midnight.                 *)
(*                                                                         *)
(* The users are the members of one workspace: its spend, budget and rules *)
(* are common, the stamps and the rows that say who was told are each      *)
(* user's own.  Left out: amounts and wording (a budget is the stage it    *)
(* has reached, an audit the rules it crosses), plans (everybody here is   *)
(* on a watching plan; see Dunning), the pulls and audits that come before *)
(* in the same tick (Schedule).                                            *)
(***************************************************************************)
EXTENDS Integers

CONSTANTS
    Users,
    Bouncing,      \* users whose address refuses every mail
    Rules,         \* alert rules that are enabled
    Stages,        \* BUDGET_STAGES, 50, 80 and 100 per cent of the budget
    MonthLength,   \* days of a month
    FirstDay, MaxDay,   \* bound: the first and the last day
    MaxAudits,     \* bound: audits finished
    MaxFaults,     \* bound: mails to good addresses and commits that fail
    None

Month(d) == d \div MonthLength

ASSUME DeliveryAssumption ==
    /\ Bouncing \subseteq Users
    /\ {FirstDay, MaxDay, MaxAudits, MaxFaults} \subseteq Nat
    /\ Stages \subseteq 1 .. 100
    /\ MonthLength \in Nat \ {0}
    /\ None \notin Users \cup Nat

VARIABLES
    clock,
    level,       \* stage the month's spend has reached, 0 below the first
    optIn,       \* user -> users.daily_digest_emails
    digest,      \* user -> day of last_daily_digest_at, None before
    event,       \* user -> rows of alert_events
    audit,       \* the workspace's newest finished audit, 0 before the first
    tick,        \* the hourly process
    mailed,      \* history: user -> what has reached the mailbox
    again,       \* history: how often a digest or alert reached it once more
    lost, fails

world == <<clock, level, optIn, audit>>
history == <<mailed, again>>
deliveryVars == <<world, digest, event, tick, history, lost, fails>>

\* Rows of alert_events and mails.  A soft_budget row of the digest names the
\* stage and the month, one of the alerts its rule and the audit.
StageRow(s, m) == [kind |-> "stage", n |-> s, of |-> m]
AlertRow(r, a) == [kind |-> "alert", n |-> a, of |-> r]
DailyMail(d) == [kind |-> "daily", n |-> d, of |-> Month(d)]

Rows ==
    [kind : {"stage"}, n : Stages, of : {Month(d) : d \in Nat}]
    \cup [kind : {"alert"}, n : Nat, of : Rules]
Mails == Rows \cup [kind : {"daily"}, n : Nat, of : {Month(d) : d \in Nat}]

\* now, level: the day and the spend the pass works on; todo: users whose turn
\* is to come; due, firing: alerts of the user in hand, and the one being sent.
Idle == [pc |-> "idle", now |-> 0, level |-> 0, todo |-> {}, who |-> None,
         due |-> {}, firing |-> None]

Ticks ==
    [pc : {"idle", "digests", "stamp", "alerts", "record", "mail"}, now : Nat,
     level : Stages \cup {0}, todo : SUBSET Users, who : Users \cup {None},
     due : SUBSET Rows, firing : Rows \cup {None}]

DeliveryInit ==
    /\ clock = FirstDay
    /\ level = 0
    /\ optIn = [u \in Users |-> TRUE]
    /\ digest = [u \in Users |-> None]
    /\ event = [u \in Users |-> {}]
    /\ audit = 0
    /\ tick = Idle
    /\ mailed = [u \in Users |-> {}]
    /\ again = [digest |-> 0, alert |-> 0]
    /\ lost = 0
    /\ fails = 0

-----------------------------------------------------------------------------
(* The world *)

\* The digest adds up the month's spend up to yesterday: on a month's first
\* day there is none.
NextDay ==
    /\ clock < MaxDay
    /\ clock' = clock + 1
    /\ tick.pc # "idle" => tick.now = clock
    /\ level' \in IF Month(clock + 1) = Month(clock) THEN Stages \cup {0} ELSE {0}
    /\ UNCHANGED <<optIn, digest, event, audit, tick, history, lost, fails>>

\* A customer moves the budget line, or late usage is pulled.
SpendOrLineMoves ==
    /\ clock < MaxDay
    /\ clock % MonthLength # 0
    /\ level' \in Stages \cup {0}
    /\ UNCHANGED <<clock, optIn, digest, event, audit, tick, history, lost, fails>>

AuditDone ==
    /\ audit < MaxAudits
    /\ audit' = audit + 1
    /\ UNCHANGED <<clock, level, optIn, digest, event, tick, history, lost, fails>>

\* The customer turns the daily digest off or on.
Toggle(u) ==
    /\ optIn' = [optIn EXCEPT ![u] = ~@]
    /\ UNCHANGED <<clock, level, digest, event, audit, tick, history, lost, fails>>

\* The mail "what" of the part "from" reaches the user and tells "more".
Reaches(u, from, what, more) ==
    /\ u \notin Bouncing
    /\ mailed' = [mailed EXCEPT ![u] = @ \cup {what} \cup more]
    /\ again' = IF what \in mailed[u] THEN [again EXCEPT ![from] = @ + 1] ELSE again
    /\ UNCHANGED fails

\* The mail raises: always to a bouncing address, now and then to others.
Refused(u) ==
    /\ u \notin Bouncing => lost + fails < MaxFaults
    /\ fails' = IF u \in Bouncing THEN fails ELSE fails + 1
    /\ UNCHANGED history

\* The database fails, or the process dies, between a mail and its commit.
LosesCommit == lost + fails < MaxFaults /\ lost' = lost + 1

-----------------------------------------------------------------------------
(* The tick: digests, then alerts *)

TickBegins ==
    /\ tick.pc = "idle"
    /\ tick' = [Idle EXCEPT !.pc = "digests", !.now = clock, !.level = level, !.todo = Users]
    /\ UNCHANGED <<world, digest, event, history, lost, fails>>

\* Mutant of Best: an alert's soft_budget row counts as the last stage.
BestOfAnyRow(u) ==
    IF \E x \in event[u] : x.kind = "alert" THEN 100 ELSE 0

\* The highest stage recorded for the month the tick began in
Best(u) ==
    LET said == {s \in Stages : StageRow(s, Month(tick.now)) \in event[u]}
    IN  IF said = {} THEN 0 ELSE CHOOSE s \in said : \A t \in said : t <= s

\* _budget_stage_crossed: the stage reached, if higher than any told
Crossed(u) == IF tick.level > Best(u) THEN tick.level ELSE 0
CrossedRow(u) == IF Crossed(u) = 0 THEN {} ELSE {StageRow(Crossed(u), Month(tick.now))}

\* Mutant of Wants: the day's stamp is not looked at.
WantsEveryTick(u) == optIn[u]

\* Not one who has opted out or had today's digest
Wants(u) == optIn[u] /\ (digest[u] # None => digest[u] < tick.now)

Turn(u) == tick.pc = "digests" /\ u \in tick.todo
Done(u) == [tick EXCEPT !.todo = @ \ {u}]

SkipDigest(u) ==
    /\ Turn(u)
    /\ ~Wants(u)
    /\ tick' = Done(u)
    /\ UNCHANGED <<world, digest, event, history, lost, fails>>

\* A day without spend, stage or forecast is stamped and not mailed.
QuietDigest(u) ==
    /\ Turn(u)
    /\ Wants(u)
    /\ Crossed(u) = 0
    /\ digest' = [digest EXCEPT ![u] = tick.now]
    /\ tick' = Done(u)
    /\ UNCHANGED <<world, event, history, lost, fails>>

\* The digest leaves, or the mail raises and the next tick tries again.
SendDigest(u) ==
    /\ Turn(u)
    /\ Wants(u)
    /\ \/ /\ Reaches(u, "digest", DailyMail(tick.now), CrossedRow(u))
          /\ tick' = [Done(u) EXCEPT !.pc = "stamp", !.who = u, !.due = CrossedRow(u)]
       \/ /\ Refused(u)
          /\ tick' = Done(u)
    /\ UNCHANGED <<world, digest, event, lost>>

Back == [tick EXCEPT !.pc = "digests", !.who = None, !.due = {}]

\* Stage and day, in one commit
StampDigest ==
    /\ tick.pc = "stamp"
    /\ digest' = [digest EXCEPT ![tick.who] = tick.now]
    /\ event' = [event EXCEPT ![tick.who] = @ \cup tick.due]
    /\ tick' = Back
    /\ UNCHANGED <<world, history, lost, fails>>

StampLost ==
    /\ tick.pc = "stamp"
    /\ LosesCommit
    /\ tick' = Back
    /\ UNCHANGED <<world, digest, event, history, fails>>

ToAlerts ==
    /\ tick.pc = "digests"
    /\ tick.todo = {}
    /\ tick' = [tick EXCEPT !.pc = "alerts", !.todo = Users, !.level = 0]
    /\ UNCHANGED <<world, digest, event, history, lost, fails>>

\* evaluate: of the enabled rules the newest audit crosses, with the thresholds
\* of the moment, those not recorded for it.
Evaluate(u, crossed) ==
    /\ tick.pc = "alerts"
    /\ u \in tick.todo
    /\ audit > 0
    /\ LET due == {AlertRow(r, audit) : r \in crossed} \ event[u]
       IN  tick' = IF due = {} THEN Done(u)
                   ELSE [Done(u) EXCEPT !.pc = "record", !.who = u, !.due = due]
    /\ UNCHANGED <<world, digest, event, history, lost, fails>>

\* run_for_user commits the event of a firing before it sends it.
Record(x) ==
    /\ tick.pc = "record"
    /\ x \in tick.due
    /\ event' = [event EXCEPT ![tick.who] = @ \cup {x}]
    /\ tick' = [tick EXCEPT !.pc = "mail", !.firing = x]
    /\ UNCHANGED <<world, digest, history, lost, fails>>

NextUser == [tick EXCEPT !.pc = "alerts", !.who = None, !.due = {}, !.firing = None]

\* The alert leaves; or the mail raises, and run_all goes on with the next user.
SendAlert ==
    /\ tick.pc = "mail"
    /\ \/ /\ Reaches(tick.who, "alert", tick.firing, {})
          /\ tick' = IF tick.due = {tick.firing} THEN NextUser
                     ELSE [tick EXCEPT !.pc = "record", !.due = @ \ {tick.firing}, !.firing = None]
       \/ /\ Refused(tick.who)
          /\ tick' = NextUser
    /\ UNCHANGED <<world, digest, event, lost>>

End ==
    /\ tick.pc = "alerts"
    /\ tick.todo = {} \/ audit = 0
    /\ tick' = Idle
    /\ UNCHANGED <<world, digest, event, history, lost, fails>>

\* The process dies wherever it is.
TickDies ==
    /\ tick.pc # "idle"
    /\ LosesCommit
    /\ tick' = Idle
    /\ UNCHANGED <<world, digest, event, history, fails>>

-----------------------------------------------------------------------------
TickSteps ==
    \/ TickBegins \/ StampDigest \/ ToAlerts \/ SendAlert \/ End
    \/ \E u \in tick.todo : SkipDigest(u) \/ QuietDigest(u) \/ SendDigest(u)
    \/ \E u \in tick.todo, crossed \in SUBSET Rules : Evaluate(u, crossed)
    \/ \E x \in tick.due : Record(x)

DeliveryNext ==
    \/ NextDay \/ SpendOrLineMoves \/ AuditDone \/ StampLost \/ TickDies \/ TickSteps
    \/ \E u \in Users : Toggle(u)

DeliverySpec == DeliveryInit /\ [][DeliveryNext]_deliveryVars

\* Time passes, ofelia starts the tick every hour and the process runs on; the
\* losses and the refusals of good addresses are bounded, so that a mail gets
\* through in the end.
FairDelivery == DeliverySpec /\ WF_deliveryVars(NextDay) /\ WF_deliveryVars(TickSteps)

-----------------------------------------------------------------------------
(* Properties *)

DeliveryTypeOK ==
    /\ clock \in Nat /\ level \in Stages \cup {0} /\ audit \in Nat
    /\ optIn \in [Users -> BOOLEAN]
    /\ digest \in [Users -> Nat \cup {None}]
    /\ event \in [Users -> SUBSET Rows]
    /\ tick \in Ticks
    /\ mailed \in [Users -> SUBSET Mails]
    /\ again \in [digest : Nat, alert : Nat]
    /\ lost \in Nat /\ fails \in Nat

\* Nobody is told twice: a day's digest comes once, whatever its mails, ticks and
\* midnights, but for a commit lost after the mail has left (run_digests), and an
\* alert is never sent again for its rule and audit, though the process may die at
\* any step of it (run_for_user).
ToldOnce == again.digest <= lost /\ again.alert = 0

\* A customer who keeps the digest on, at an address that works, hears of the
\* stage the month has reached: a failed mail is tried again on a later tick,
\* and the alerts' records under the same rule do not stand in for it.
StageIsTold ==
    \A u \in Users \ Bouncing, s \in Stages :
        <>[](level = s /\ optIn[u]) =>
            <>[](\E x \in {t \in Stages : t >= s} : StageRow(x, Month(clock)) \in mailed[u])
=============================================================================
