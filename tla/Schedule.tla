------------------------------ MODULE Schedule ------------------------------
(***************************************************************************)
(* Connected sources at work: the hourly tick of                           *)
(* services/connectors/schedule.py, a process of its own, beside the first *)
(* pull that connecting a source starts on a thread of the server          *)
(* (web/routes_sources.py), both calling run_pull and run_source_audit     *)
(* (services/connectors/pull.py, source_audit.py), while customers revoke  *)
(* their keys, plans change, providers fail and processes die.             *)
(*                                                                         *)
(* Time is counted in parts of a day.  A usage figure is represented by    *)
(* the day it was fetched on: the later that day, the more of the figure's *)
(* own day it covers.  The pull that is under way in a process is kept in  *)
(* "pull"; its steps are its reads, the provider's answer and its commit.  *)
(***************************************************************************)
EXTENDS Integers

CONSTANTS
    Sources,
    Standing,     \* sources connected already, and never pulled
    Broken,       \* sources whose provider never answers
    Tick,         \* the puller that is not a source's first-pull thread
    NoSource,
    DayLength,    \* parts of a day
    AuditEvery,   \* AUDIT_EVERY, in days
    Backfill,     \* connect_backfill_days
    MaxClock,     \* bound: the last moment
    MaxMishaps    \* bound: how often plans change and processes die

ASSUME ScheduleAssumption ==
    /\ Standing \subseteq Sources
    /\ Broken \subseteq Sources
    /\ Tick \notin Sources
    /\ NoSource \notin Sources
    /\ DayLength \in Nat \ {0}
    /\ {AuditEvery, Backfill, MaxClock, MaxMishaps} \subseteq Nat

Times == 0 .. MaxClock
Day(t) == t \div DayLength
Days == 0 .. Day(MaxClock)
Never == -1
NoFigure == -1
Pullers == Sources \cup {Tick}

VARIABLES
    clock,
    plan,      \* what the workspace of the sources is subscribed to
    source,    \* sources: status, credentials_encrypted, the two stamps
    usage,     \* source_usage: source -> day -> day its figure was fetched on
    failed,    \* pull_events: the sources with a failed pull on record
    first,     \* the audit row that connecting the source created
    worker,    \* source -> step of its first-pull thread
    tick,      \* the tick's process
    pull,      \* puller -> the run_pull it is in
    mishaps    \* plan changes and deaths so far

vars == <<clock, plan, source, usage, failed, first, worker, tick, pull,
          mishaps>>

NoPull == [pc |-> "no", of |-> NoSource, active |-> FALSE, last |-> Never,
           from |-> 0, to |-> 0, missing |-> {}]
Idle == [pc |-> "idle", now |-> 0, todo |-> {}]
InFlight == {"loaded", "asking", "writing", "raised"}
AtWork == {"begun", "pulling", "pulled", "pullFailed", "auditFailed",
           "recording"}

TypeOK ==
    /\ clock \in Times
    /\ plan \in {"free", "paid", "readOnly", "lapsed"}
    /\ source \in [Sources -> [status    : {"none", "active", "revoked"},
                               key       : BOOLEAN,
                               lastPull  : Times \cup {Never},
                               lastAudit : Times \cup {Never}]]
    /\ usage \in [Sources -> [Days -> Days \cup {NoFigure}]]
    /\ failed \in SUBSET Sources
    /\ first \in [Sources -> {"none", "queued", "processing", "done", "failed"}]
    /\ worker \in [Sources -> {"none", "over", "killed"} \cup AtWork]
    /\ tick \in [pc   : {"idle", "pulling", "auditing"},
                 now  : Times,
                 todo : SUBSET Sources]
    /\ pull \in [Pullers -> [pc      : {"no"} \cup InFlight,
                             of      : Sources \cup {NoSource},
                             active  : BOOLEAN,      \* the row as loaded
                             last    : Times \cup {Never},
                             from    : Int,          \* the window asked for
                             to      : Days,
                             missing : SUBSET Days]] \* rows not found
    /\ mishaps \in 0 .. MaxMishaps

Init ==
    /\ clock = 0
    /\ plan \in {"free", "paid"}
    /\ source = [s \in Sources |->
                    [status |-> IF s \in Standing THEN "active" ELSE "none",
                     key |-> s \in Standing,
                     lastPull |-> Never,
                     lastAudit |-> Never]]
    /\ usage = [s \in Sources |-> [d \in Days |-> NoFigure]]
    /\ failed = {}
    /\ first = [s \in Sources |-> "none"]
    /\ worker = [s \in Sources |-> "none"]
    /\ tick = Idle
    /\ pull = [p \in Pullers |-> NoPull]
    /\ mishaps = 0

-----------------------------------------------------------------------------
(* Customers, plans and time.                                              *)

\* A new source; with a first pull when the key was validated and the plan
\* or a credit pays for it (Upload has the credit).
Connect(s) ==
    /\ source[s].status = "none"
    /\ source' = [source EXCEPT ![s].status = "active", ![s].key = TRUE]
    /\ \/ /\ first' = [first EXCEPT ![s] = "queued"]
          /\ worker' = [worker EXCEPT ![s] = "begun"]
       \/ UNCHANGED <<first, worker>>
    /\ UNCHANGED <<clock, plan, usage, failed, tick, pull, mishaps>>

\* revoke_source, and close_account for each source
Revoke(s) ==
    /\ source[s].status = "active"
    /\ source' = [source EXCEPT ![s].status = "revoked", ![s].key = FALSE]
    /\ UNCHANGED <<clock, plan, usage, failed, first, worker, tick, pull,
                   mishaps>>

\* The subscription's events and dunning, as far as the tick can tell.
PlanMoves ==
    [free |-> {"paid"}, paid |-> {"readOnly", "lapsed"},
     readOnly |-> {"paid", "lapsed"}, lapsed |-> {"paid"}]

PlanChanges ==
    /\ mishaps < MaxMishaps
    /\ mishaps' = mishaps + 1
    /\ plan' \in PlanMoves[plan]
    /\ UNCHANGED <<clock, source, usage, failed, first, worker, tick, pull>>

\* No tick and no pull takes longer than a day.
Pass ==
    /\ clock < MaxClock
    /\ clock' = clock + 1
    /\ \A p \in Pullers :
          pull[p].pc \in {"asking", "writing"} => Day(clock + 1) <= pull[p].to + 1
    /\ tick.pc # "idle" => clock < tick.now + DayLength
    /\ UNCHANGED <<plan, source, usage, failed, first, worker, tick, pull,
                   mishaps>>

-----------------------------------------------------------------------------
(* run_pull, called by puller p.                                           *)

Loaded(s) == [NoPull EXCEPT !.pc = "loaded",
                            !.of = s,
                            !.active = source[s].status = "active" /\ source[s].key,
                            !.last = source[s].lastPull]

\* Mutant of WindowStart: no overlap with the day of the last pull.
WindowStartNoOverlap(last, end) == IF last = Never THEN end - Backfill ELSE Day(last)

\* start_day: one day of overlap, so that late figures are fetched again
WindowStart(last, end) == IF last = Never THEN end - Backfill ELSE Day(last) - 1

Window(p) == {d \in Days : pull[p].from <= d /\ d <= pull[p].to}

Raised(p) == [NoPull EXCEPT !.pc = "raised", !.of = pull[p].of]

\* The row as loaded decides, even if it was revoked since.
Ask(p) ==
    /\ pull[p].pc = "loaded"
    /\ pull' = [pull EXCEPT ![p] =
                   IF pull[p].active
                   THEN [NoPull EXCEPT
                            !.pc = "asking",
                            !.of = pull[p].of,
                            !.from = WindowStart(pull[p].last, Day(clock)),
                            !.to = Day(clock)]
                   ELSE Raised(p)]

\* The provider answers, and the buckets are looked up.
Answer(p) ==
    /\ pull[p].pc = "asking"
    /\ pull[p].of \notin Broken
    /\ pull' = [pull EXCEPT ![p] =
                   [@ EXCEPT !.pc = "writing",
                             !.missing = {d \in Window(p) :
                                            usage[pull[p].of][d] = NoFigure}]]

Refuse(p) ==
    /\ pull[p].pc = "asking"
    /\ pull' = [pull EXCEPT ![p] = Raised(p)]

\* uq_source_usage_bucket: a bucket to insert has appeared meanwhile
Conflict(p) == \E d \in pull[p].missing : usage[pull[p].of][d] # NoFigure

Collide(p) ==
    /\ pull[p].pc = "writing"
    /\ Conflict(p)
    /\ pull' = [pull EXCEPT ![p] = Raised(p)]

\* Mutant of Stamped: the whole row is written back as it was loaded.
StampedWholeRow(s, p) ==
    [source[s] EXCEPT !.lastPull = clock, !.status = "active", !.key = TRUE]

\* Figures, stamp and ledger row commit together; of the source's row only
\* the stamp is written.
Stamped(s, p) == [source[s] EXCEPT !.lastPull = clock]

Save(p) ==
    LET s == pull[p].of IN
    /\ pull[p].pc = "writing"
    /\ ~Conflict(p)
    /\ usage' = [usage EXCEPT ![s] = [d \in Days |-> IF d \in Window(p)
                                                     THEN pull[p].to
                                                     ELSE usage[s][d]]]
    /\ source' = [source EXCEPT ![s] = Stamped(s, p)]
    /\ pull' = [pull EXCEPT ![p] = NoPull]

RecordFailure(s) == failed' = failed \cup {s}

InsidePull(p) ==
    /\ Ask(p) \/ Answer(p) \/ Refuse(p) \/ Collide(p)
    /\ UNCHANGED <<clock, plan, source, usage, failed, first, worker, tick,
                   mishaps>>

\* run_source_audit: reads the figures, writes the audit and its stamp
AuditStamp(s) == source' = [source EXCEPT ![s].lastAudit = clock]

-----------------------------------------------------------------------------
(* The first-pull thread of a source.                                      *)

\* Loads the source, then commits the audit row as processing.
Begin(s) ==
    /\ worker[s] = "begun"
    /\ worker' = [worker EXCEPT ![s] = "pulling"]
    /\ first' = [first EXCEPT ![s] = "processing"]
    /\ pull' = [pull EXCEPT ![s] = Loaded(s)]
    /\ UNCHANGED <<clock, plan, source, usage, failed, tick, mishaps>>

FirstPull(s) ==
    /\ worker[s] = "pulling"
    /\ Save(s)
    /\ worker' = [worker EXCEPT ![s] = "pulled"]
    /\ UNCHANGED <<clock, plan, failed, first, tick, mishaps>>

FirstPullRaises(s) ==
    /\ worker[s] = "pulling"
    /\ pull[s].pc = "raised"
    /\ pull' = [pull EXCEPT ![s] = NoPull]
    /\ worker' = [worker EXCEPT ![s] = "pullFailed"]
    /\ UNCHANGED <<clock, plan, source, usage, failed, first, tick, mishaps>>

FirstAudit(s) ==
    /\ worker[s] = "pulled"
    /\ AuditStamp(s)
    /\ first' = [first EXCEPT ![s] = "done"]
    /\ worker' = [worker EXCEPT ![s] = "over"]
    /\ UNCHANGED <<clock, plan, usage, failed, tick, pull, mishaps>>

FirstAuditRaises(s) ==
    /\ worker[s] = "pulled"
    /\ worker' = [worker EXCEPT ![s] = "auditFailed"]
    /\ UNCHANGED <<clock, plan, source, usage, failed, first, tick, pull,
                   mishaps>>

\* Mutant of MarkFailed: an audit that is processing is left as it is.
MarkFailedIfQueued(s) ==
    /\ worker[s] \in {"pullFailed", "auditFailed"}
    /\ first' = [first EXCEPT ![s] = IF @ = "queued" THEN "failed" ELSE @]
    /\ worker' = [worker EXCEPT ![s] = IF @ = "pullFailed" THEN "recording"
                                       ELSE "over"]
    /\ UNCHANGED <<clock, plan, source, usage, failed, tick, pull, mishaps>>

\* _mark_failed; only a failed pull then goes to the ledger
MarkFailed(s) ==
    /\ worker[s] \in {"pullFailed", "auditFailed"}
    /\ first' = [first EXCEPT ![s] = IF @ \in {"queued", "processing"}
                                     THEN "failed" ELSE @]
    /\ worker' = [worker EXCEPT ![s] = IF @ = "pullFailed" THEN "recording"
                                       ELSE "over"]
    /\ UNCHANGED <<clock, plan, source, usage, failed, tick, pull, mishaps>>

FirstFailureRecorded(s) ==
    /\ worker[s] = "recording"
    /\ RecordFailure(s)
    /\ worker' = [worker EXCEPT ![s] = "over"]
    /\ UNCHANGED <<clock, plan, source, usage, first, tick, pull, mishaps>>

\* The threads are daemons: they die with the server.
ServerDies ==
    /\ mishaps < MaxMishaps
    /\ mishaps' = mishaps + 1
    /\ \E s \in Sources : worker[s] \in AtWork
    /\ worker' = [s \in Sources |-> IF worker[s] \in AtWork THEN "killed"
                                    ELSE worker[s]]
    /\ pull' = [p \in Pullers |-> IF p = Tick THEN pull[p] ELSE NoPull]
    /\ UNCHANGED <<clock, plan, source, usage, failed, first, tick>>

WorkerStep(s) ==
    \/ Begin(s) \/ InsidePull(s) \/ FirstPull(s) \/ FirstPullRaises(s)
    \/ FirstAudit(s) \/ FirstAuditRaises(s)
    \/ MarkFailed(s) \/ FirstFailureRecorded(s)

-----------------------------------------------------------------------------
(* The tick.  ofelia starts it every hour, and not while one is running.   *)

\* due_pulls: by plan, so read-only accounts keep pulling
DuePulls(now) ==
    {s \in Sources :
        /\ source[s].status = "active" /\ source[s].key
        /\ \/ source[s].lastPull = Never
           \/ now - source[s].lastPull >= DayLength
        /\ plan \in {"paid", "readOnly"}}

\* due_audits: by entitlement, which read-only accounts lack
DueAudits(now) ==
    {s \in Sources :
        /\ source[s].status = "active"
        /\ source[s].lastPull # Never
        /\ \/ source[s].lastAudit = Never
           \/ now - source[s].lastAudit >= AuditEvery * DayLength
        /\ plan = "paid"}

\* The first source is pulled by the row due_pulls loaded.
TickStart ==
    LET due == DuePulls(clock) IN
    /\ tick.pc = "idle"
    /\ \/ due = {} /\ pull' = pull
       \/ \E s \in due : pull' = [pull EXCEPT ![Tick] = Loaded(s)]
    /\ tick' = [pc |-> "pulling", now |-> clock, todo |-> due \ {pull'[Tick].of}]
    /\ UNCHANGED <<clock, plan, source, usage, failed, first, worker, mishaps>>

\* A commit or rollback expires the rows: the others are loaded afresh.
TickNext ==
    /\ tick.pc = "pulling"
    /\ pull[Tick].pc = "no"
    /\ \E s \in tick.todo : /\ pull' = [pull EXCEPT ![Tick] = Loaded(s)]
                            /\ tick' = [tick EXCEPT !.todo = @ \ {s}]
    /\ UNCHANGED <<clock, plan, source, usage, failed, first, worker, mishaps>>

TickPull ==
    /\ Save(Tick)
    /\ UNCHANGED <<clock, plan, failed, first, worker, tick, mishaps>>

\* record_pull_failure; if that fails too, the tick goes on without it
TickPullRaises ==
    /\ pull[Tick].pc = "raised"
    /\ RecordFailure(pull[Tick].of) \/ failed' = failed
    /\ pull' = [pull EXCEPT ![Tick] = NoPull]
    /\ UNCHANGED <<clock, plan, source, usage, first, worker, tick, mishaps>>

TickAudits ==
    /\ tick.pc = "pulling"
    /\ pull[Tick].pc = "no"
    /\ tick.todo = {}
    /\ tick' = [tick EXCEPT !.pc = "auditing", !.todo = DueAudits(tick.now)]
    /\ UNCHANGED <<clock, plan, source, usage, failed, first, worker, pull,
                   mishaps>>

TickAudit(s) ==
    /\ tick.pc = "auditing"
    /\ s \in tick.todo
    /\ tick' = [tick EXCEPT !.todo = @ \ {s}]
    /\ AuditStamp(s)
    /\ UNCHANGED <<clock, plan, usage, failed, first, worker, pull, mishaps>>

TickAuditRaises(s) ==
    /\ tick.pc = "auditing"
    /\ s \in tick.todo
    /\ tick' = [tick EXCEPT !.todo = @ \ {s}]
    /\ UNCHANGED <<clock, plan, source, usage, failed, first, worker, pull,
                   mishaps>>

\* Digests, dunning and alerts follow, each in a try block of its own.
TickEnd ==
    /\ tick.pc = "auditing"
    /\ tick.todo = {}
    /\ tick' = Idle
    /\ UNCHANGED <<clock, plan, source, usage, failed, first, worker, pull,
                   mishaps>>

TickDies ==
    /\ tick.pc # "idle"
    /\ mishaps < MaxMishaps
    /\ mishaps' = mishaps + 1
    /\ tick' = Idle
    /\ pull' = [pull EXCEPT ![Tick] = NoPull]
    /\ UNCHANGED <<clock, plan, source, usage, failed, first, worker>>

TickStep ==
    \/ TickStart \/ TickNext
    \/ InsidePull(Tick) \/ TickPull \/ TickPullRaises
    \/ TickAudits \/ TickEnd
    \/ \E s \in Sources : TickAudit(s) \/ TickAuditRaises(s)

-----------------------------------------------------------------------------

Next ==
    \/ \E s \in Sources : Connect(s) \/ Revoke(s) \/ WorkerStep(s)
    \/ PlanChanges \/ Pass
    \/ TickStep
    \/ ServerDies \/ TickDies

Spec == Init /\ [][Next]_vars

\* The thread of a first audit goes on unless it dies; ticks may come or not.
FairSpec == Spec /\ \A s \in Sources \ Standing : WF_vars(WorkerStep(s))

-----------------------------------------------------------------------------
(* Properties.                                                             *)

\* Every finished day that an audit looks back on was fetched after it had
\* ended, but for the day before the last pull, which a pull that straddles
\* midnight asked for while it ran; also when pulls fail for days, and when
\* the first pull and the tick overwrite each other's figures.
EveryDayIsFinal ==
    \A s \in Sources, d \in Days :
        LET last == source[s].lastPull IN
        /\ last # Never
        /\ d + 1 < Day(last)
        /\ Day(last) <= d + Backfill
        => usage[s][d] > d

\* The pulls of a source that have asked its provider, or go on to ask it
Pulling(s) ==
    {p \in Pullers : /\ pull[p].of = s
                     /\ \/ pull[p].pc \in {"asking", "writing"}
                        \/ pull[p].pc = "loaded" /\ pull[p].active}

\* A revoked source stays revoked and its key deleted, whatever pulls that
\* loaded it before commit afterwards, and no further pull of it gets as far
\* as its provider: those under way end, and may still store what they
\* fetched; a tick that finds it in its list loads it revoked and gives up.
RevokedIsForever ==
    [][\A s \in Sources : source[s].status = "revoked" =>
          /\ source'[s].status = "revoked"
          /\ ~source'[s].key
          /\ Pulling(s)' \subseteq Pulling(s)]_vars

\* The audit a customer watches after connecting comes to an end, unless the
\* server dies under it; and one that failed is explained: the ledger has the
\* failed pull, or the pull went well and only the audit failed.
FirstAuditSettles ==
    \A s \in Sources \ Standing :
        first[s] = "queued" ~>
            \/ first[s] = "done"
            \/ first[s] = "failed" /\ (s \in failed \/ source[s].lastPull # Never)
            \/ worker[s] = "killed"

=============================================================================
