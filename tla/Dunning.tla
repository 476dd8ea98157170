------------------------------ MODULE Dunning -------------------------------
(***************************************************************************)
(* Subscriptions (services/payments/subscriptions.py): the web server      *)
(* applies the payment provider's webhooks (api/routes_webhooks.py) and    *)
(* account closures (web/routes_settings.py); the hourly sweep, a process  *)
(* of its own (scripts/scheduler_tick.py), walks failing subscriptions     *)
(* down the dunning ladder.                                                *)
(*                                                                         *)
(* The provider delivers an event any number of times, late and in any     *)
(* order.  A webhook is one transaction; a sweep commits one row at a time *)
(* and writes only the columns it changes, so that what a webhook          *)
(* committed between the sweep's read and its write is overwritten.        *)
(***************************************************************************)
EXTENDS Naturals, FiniteSets

CONSTANTS
    Subs,
    MaxEvents,    \* bound: the provider's events are numbered 1 .. MaxEvents
    MaxCloses,    \* bound: how many accounts are closed
    MaxDeaths,    \* bound: how often the sweep's process dies
    NoEvent,      \* the event of a number not used yet
    NoSub         \* the row of a sweep between rows

Events == 1 .. MaxEvents
EventKinds == {"charged", "failed", "cancelled"}

\* failed_at as the rung it has reached: none, since less than seven days,
\* since seven, since twenty-one.
Clock == 0 .. 3
Rungs == {"past_due", "read_only", "cancelled"}
Statuses == {"none", "active"} \cup Rungs

ASSUME DunningAssumption ==
    /\ MaxEvents \in Nat
    /\ MaxCloses \in Nat
    /\ MaxDeaths \in Nat
    /\ NoSub \notin Subs

VARIABLES
    status,       \* subscriptions.status ("none": there is no row)
    plan,         \* subscriptions.plan
    clock,        \* subscriptions.failed_at
    event,        \* number -> the provider's event
    processed,     \* webhook_events: numbers already applied
    sweep,        \* the sweep in progress
    mails,        \* rung mails sent to a customer since the last event or closure
    torn,         \* subscriptions changed between a sweep's read and its write,
                  \* and by no event since (observation)
    closed,       \* accounts closed
    deaths

dunningVars == <<status, plan, clock, event, processed, sweep, mails, torn, closed, deaths>>

Sub(s) == [status |-> status[s], plan |-> plan[s], clock |-> clock[s]]
Row == [status : Statuses, plan : {"free", "paid"}, clock : Clock]

NoRow == [status |-> "none", plan |-> "free", clock |-> 0]
NoSweep == [pc |-> "off", todo |-> {}, fresh |-> {}, sub |-> NoSub, late |-> FALSE,
            view |-> [s \in Subs |-> NoRow]]

Sweeps == [pc    : {"off", "rows", "write", "mail"},
           todo  : SUBSET Subs,         \* rows of its SELECT, not yet done
           fresh : SUBSET Subs,         \* of these, not expired by a commit
           view  : [Subs -> Row],       \* the rows as the sweep read them
           sub   : Subs \cup {NoSub},
           late  : BOOLEAN]             \* the row changed after its rung's commit

RowsOK ==
    /\ status \in [Subs -> Statuses]
    /\ plan \in [Subs -> {"free", "paid"}]
    /\ clock \in [Subs -> Clock]
    /\ event \in [Events -> [sub : Subs, kind : EventKinds] \cup {NoEvent}]
    /\ processed \in SUBSET Events
    /\ sweep \in Sweeps
    /\ mails \in [Subs -> [Rungs -> 0 .. 2]]
    /\ torn \in SUBSET Subs
    /\ closed \in SUBSET Subs
    /\ deaths \in 0 .. MaxDeaths

DunningInit ==
    /\ status = [s \in Subs |-> "none"]
    /\ plan = [s \in Subs |-> "free"]
    /\ clock = [s \in Subs |-> 0]
    /\ event = [e \in Events |-> NoEvent]
    /\ processed = {}
    /\ sweep = NoSweep
    /\ mails = [s \in Subs |-> [r \in Rungs |-> 0]]
    /\ torn = {}
    /\ closed = {}
    /\ deaths = 0

\* dunning_stage, of a clock that runs
Stage(c) ==
    CASE c = 1 -> "past_due"
      [] c = 2 -> "read_only"
      [] OTHER -> "cancelled"

-----------------------------------------------------------------------------
(* Time and the provider *)

\* The seventh and the twenty-first day pass; a sweep takes seconds.
Day(s) ==
    /\ sweep.pc = "off"
    /\ clock[s] \in {1, 2}
    /\ clock' = [clock EXCEPT ![s] = @ + 1]
    /\ UNCHANGED <<status, plan, event, processed, sweep, mails, torn, closed, deaths>>

Emit(e, s, kind) ==
    /\ event[e] = NoEvent
    /\ \A d \in Events : d < e => event[d] # NoEvent
    /\ event' = [event EXCEPT ![e] = [sub |-> s, kind |-> kind]]
    /\ UNCHANGED <<status, plan, clock, processed, sweep, mails, torn, closed, deaths>>

-----------------------------------------------------------------------------
(* The web server *)

\* The sweep has read row s and not yet written it.
Held(s) ==
    \/ s \in sweep.todo \cap sweep.fresh
    \/ sweep.pc = "write" /\ sweep.sub = s

\* The web server changes the subscription: from here on mails are counted
\* anew, and one the sweep still owes for an earlier rung does not count.
Mailed(s, rungs) ==
    /\ mails' = [mails EXCEPT ![s] = [r \in Rungs |-> IF r \in rungs THEN 1 ELSE 0]]
    /\ sweep' = [sweep EXCEPT !.late = @ \/ (sweep.pc = "mail" /\ sweep.sub = s)]

\* Mutant of Charged: the clock is left running.
ChargedOnly(s) ==
    /\ status' = [status EXCEPT ![s] = "active"]
    /\ plan' = [plan EXCEPT ![s] = "paid"]
    /\ Mailed(s, {})
    /\ UNCHANGED clock

\* apply_event, by kind (activated and renewed do the same)
Charged(s) ==
    /\ status' = [status EXCEPT ![s] = "active"]
    /\ plan' = [plan EXCEPT ![s] = "paid"]
    /\ clock' = [clock EXCEPT ![s] = 0]
    /\ Mailed(s, {})

\* Only the first failure starts the clock and mails the customer.
ChargeFailed(s) ==
    /\ status' = [status EXCEPT ![s] = "past_due"]
    /\ IF clock[s] = 0
       THEN clock' = [clock EXCEPT ![s] = 1] /\ Mailed(s, {"past_due"})
       ELSE Mailed(s, {}) /\ UNCHANGED clock
    /\ UNCHANGED plan

ProviderCancelled(s) ==
    /\ status' = [status EXCEPT ![s] = "cancelled"]
    /\ plan' = [plan EXCEPT ![s] = "free"]
    /\ clock' = [clock EXCEPT ![s] = 0]
    /\ Mailed(s, {})

\* _record_once, apply_event and the commit.  When the mail of the first
\* failure raises, all of it rolls back and the provider delivers again.
Apply(e) ==
    LET s == event[e].sub IN
    /\ torn' = IF Held(s) THEN torn \cup {s} ELSE torn \ {s}
    /\ processed' = processed \cup {e}
    /\ CASE event[e].kind = "charged"   -> Charged(s)
         [] event[e].kind = "failed"    -> ChargeFailed(s)
         [] event[e].kind = "cancelled" -> ProviderCancelled(s)
    /\ UNCHANGED <<event, closed, deaths>>

\* A delivery; one of an event already applied answers "duplicate".
Deliver(e) ==
    /\ event[e] # NoEvent
    /\ e \notin processed
    /\ Apply(e)

\* close_account, as far as the subscription goes
Close(s) ==
    /\ Cardinality(closed) < MaxCloses
    /\ s \notin closed
    /\ status[s] \notin {"none", "cancelled"}
    /\ torn' = IF Held(s) THEN torn \cup {s} ELSE torn
    /\ closed' = closed \cup {s}
    /\ status' = [status EXCEPT ![s] = "cancelled"]
    /\ Mailed(s, {})
    /\ UNCHANGED <<plan, clock, event, processed, deaths>>

-----------------------------------------------------------------------------
(* advance_dunning *)

Failing == {s \in Subs : clock[s] # 0}

\* Mutant of SweepStart: the rows are selected by status.
SweepPastDue ==
    /\ sweep.pc = "off"
    /\ Failing # {}
    /\ LET rows == {s \in Failing : status[s] = "past_due"} IN
       sweep' = [sweep EXCEPT !.pc = "rows", !.todo = rows, !.fresh = rows,
                              !.view = [s \in Subs |-> IF s \in Failing THEN Sub(s) ELSE NoRow]]
    /\ UNCHANGED <<status, plan, clock, event, processed, mails, torn, closed, deaths>>

SweepStart ==
    /\ sweep.pc = "off"
    /\ Failing # {}
    /\ sweep' = [sweep EXCEPT !.pc = "rows", !.todo = Failing, !.fresh = Failing,
                              !.view = [s \in Subs |-> IF s \in Failing THEN Sub(s) ELSE NoRow]]
    /\ UNCHANGED <<status, plan, clock, event, processed, mails, torn, closed, deaths>>

\* The row as the session has it: a commit expires it, and the next access
\* reads it again.
Loaded(s) == IF s \in sweep.fresh THEN sweep.view[s] ELSE Sub(s)

\* Mutant of Reached: whether the customer has the rung already is not asked.
ReachedAlways(row) == row.clock # 0

\* The rung to apply: none when the clock was cleared or the row is there.
Reached(row) == row.clock # 0 /\ Stage(row.clock) # row.status

\* One row is read: there is nothing to do for it, or it will be written.
SweepRow(s) ==
    /\ sweep.pc = "rows"
    /\ s \in sweep.todo
    /\ sweep' = IF Reached(Loaded(s))
                THEN [sweep EXCEPT !.pc = "write", !.sub = s, !.view[s] = Loaded(s)]
                ELSE [sweep EXCEPT !.todo = @ \ {s}, !.view[s] = NoRow]
    /\ UNCHANGED <<status, plan, clock, event, processed, mails, torn, closed, deaths>>

\* The rung is committed before its mail is sent, and every loaded row expires.
SweepWrite ==
    LET s == sweep.sub
        stage == Stage(sweep.view[s].clock) IN
    /\ sweep.pc = "write"
    /\ status' = [status EXCEPT ![s] = stage]
    /\ IF stage = "cancelled"
       THEN /\ plan' = IF sweep.view[s].plan = "free" THEN plan
                       ELSE [plan EXCEPT ![s] = "free"]
            /\ clock' = [clock EXCEPT ![s] = 0]
       ELSE UNCHANGED <<plan, clock>>
    /\ sweep' = [sweep EXCEPT !.pc = "mail", !.fresh = {},
                              !.view = [x \in Subs |-> IF x = s THEN @[s] ELSE NoRow]]
    /\ UNCHANGED <<event, processed, mails, torn, closed, deaths>>

SweepMail ==
    LET s == sweep.sub
        stage == Stage(sweep.view[s].clock) IN
    /\ sweep.pc = "mail"
    /\ mails' = IF sweep.late \/ s \in torn THEN mails
                ELSE [mails EXCEPT ![s][stage] = IF @ < 2 THEN @ + 1 ELSE 2]
    /\ sweep' = [sweep EXCEPT !.pc = "rows", !.todo = @ \ {s}, !.sub = NoSub, !.late = FALSE,
                              !.view[s] = NoRow]
    /\ UNCHANGED <<status, plan, clock, event, processed, torn, closed, deaths>>

\* The mail raises: the tick logs it and goes on to its next stage.
SweepMailFails ==
    /\ sweep.pc = "mail"
    /\ sweep' = NoSweep
    /\ UNCHANGED <<status, plan, clock, event, processed, mails, torn, closed, deaths>>

SweepEnd ==
    /\ sweep.pc = "rows" /\ sweep.todo = {}
    /\ sweep' = NoSweep
    /\ UNCHANGED <<status, plan, clock, event, processed, mails, torn, closed, deaths>>

\* The sweep's process dies: what it committed stays.
SweepDies ==
    /\ sweep.pc # "off"
    /\ deaths < MaxDeaths
    /\ deaths' = deaths + 1
    /\ sweep' = NoSweep
    /\ UNCHANGED <<status, plan, clock, event, processed, mails, torn, closed>>

-----------------------------------------------------------------------------
Sweep ==
    \/ SweepStart \/ SweepWrite \/ SweepMail \/ SweepMailFails \/ SweepEnd
    \/ \E s \in Subs : SweepRow(s)

DunningNext ==
    \/ \E s \in Subs : Day(s) \/ Close(s) \/ \E e \in Events, k \in EventKinds : Emit(e, s, k)
    \/ \E e \in Events : Deliver(e)
    \/ Sweep
    \/ SweepDies

DunningSpec == DunningInit /\ [][DunningNext]_dunningVars

\* The hourly tick comes round, and a tick that has begun goes on.  Its mail
\* may fail every time.
FairSpec == DunningSpec /\ WF_dunningVars(Sweep)

-----------------------------------------------------------------------------
(* Properties *)

\* A customer is dunned exactly while a charge is failing: past due and
\* read-only customers have a clock that runs, paying ones have none.  "A
\* successful charge clears the dunning clock" (subscriptions.py:268).  Only an
\* event or a closure between a sweep's read and its write breaks it, and the
\* provider's next event mends it.
ClockRuns ==
    \A s \in Subs \ torn :
        /\ status[s] \in {"past_due", "read_only"} => clock[s] # 0
        /\ status[s] = "active" => clock[s] = 0

\* A rung is mailed at most once, however often the sweep runs, dies or fails
\* to mail, until a webhook or a closure changes the subscription
\* (subscriptions.py:14-16).  The mails of torn subscriptions are not counted.
MailedOnce == \A s \in Subs, r \in Rungs : mails[s][r] <= 1

\* A charge that has been failing for twenty-one days ends in a cancellation,
\* unless the customer pays: a row whose mail always fails does not keep the
\* sweep from the others (subscriptions.py:332-336).
LadderEnds ==
    \A s \in Subs : (clock[s] = 3) ~> (clock[s] = 0 \/ status[s] = "cancelled")
=============================================================================
