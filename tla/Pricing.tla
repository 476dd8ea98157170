------------------------------ MODULE Pricing ------------------------------
(***************************************************************************)
(* The price table (services/pricing/table.py), the job that keeps it      *)
(* fresh (scripts/pricing_sync.py) and the gate that releases wait for     *)
(* (scripts/pricing_verify.py).                                            *)
(*                                                                         *)
(* Every model has a history of rates, each valid from a day on: rows of   *)
(* the file people keep (prices.yaml) and rows a machine adds              *)
(* (prices.auto.yaml).  A dated snapshot without a history of its own is   *)
(* priced by its family.  Every day a refresh reprices what the table      *)
(* knows from a public feed, and between the refreshes a cover run prices  *)
(* what turned up in usage without a rate.  Both write one status file,    *)
(* which also carries how often a suspicious rate has been seen.           *)
(*                                                                         *)
(* Left out: a second provider, the decimals of a rate, the process that   *)
(* loaded the table when it started, the re-audit of sources after a cover *)
(* run (Schedule has the audits of a source).                              *)
(***************************************************************************)
EXTENDS Integers, FiniteSets, Sequences

CONSTANTS
    Models,        \* model ids
    FamilyOf,      \* model -> the id it is a dated snapshot of, or itself
    BaseRows,      \* rows of prices.yaml: [model, from, rate]
    Feed,          \* model -> rates the feed may publish for it, NoRate for no row
    MaxRate,       \* MAX_RATE
    Backdate,      \* COVERAGE_BACKDATE_DAYS
    Window,        \* settings.connect_backfill_days
    Timetable,     \* what ofelia starts in a day, in order
    FirstDay, LastDay,   \* bound: the days the jobs run
    MaxMoves,      \* bound: changes of the feed
    MaxUsage,      \* bound: usage rows
    MaxFailures,   \* bound: runs that cannot fetch the feed
    NoRate

HoldCorroborations == 3

\* The family of a family is itself; what a window of usage reaches, a cover run
\* reaches too (COVERAGE_BACKDATE_DAYS, connect_backfill_days).
ASSUME PricingAssumption ==
    /\ FamilyOf \in [Models -> Models]
    /\ \A m \in Models : FamilyOf[FamilyOf[m]] = FamilyOf[m]
    /\ \A b \in BaseRows : b.from \in Int /\ b.rate # NoRate
    /\ FirstDay \in Int /\ Backdate \in Nat /\ Window \in Nat /\ Window <= Backdate
    /\ MaxFailures \in Nat

Days == (FirstDay - Backdate) .. LastDay

VARIABLES
    over,      \* model -> rows of the overlay, [from, rate]
    streak,    \* model -> [rate, n]: held_streaks of the status file, n = 0 absent
    feed,      \* model -> the rate the feed publishes, or NoRate
    usage,     \* rows of source_usage: <<model, day>>
    day, slot, \* the day, and the next entry of Timetable
    sightings, \* history: model -> [rate, n], runs in a row that saw the rate
    moves, failures

pricingVars == <<over, streak, feed, usage, day, slot, sightings, moves, failures>>

-----------------------------------------------------------------------------
(* The table *)

\* PricingTable.load: what people wrote wins a tie of dates.
Table(o) ==
    [m \in Models |->
        LET base == {[from |-> b.from, rate |-> b.rate] : b \in {x \in BaseRows : x.model = m}}
        IN  base \cup {r \in o[m] : \A b \in base : b.from # r.from}]

\* entries sorted by effective_from, of which rate takes the last
LastRows(rows) == {r \in rows : \A q \in rows : q.from <= r.from}

\* PricingTable.rate: a model's own history if it has one, else its family's;
\* NoRate stands for PricingGapError.
Rate(t, m, d) ==
    LET key == IF t[m] # {} THEN m ELSE FamilyOf[m]
        applicable == {r \in t[key] : r.from <= d}
    IN  IF applicable = {} THEN NoRate
        ELSE (CHOOSE r \in LastRows(applicable) : TRUE).rate

-----------------------------------------------------------------------------
(* One run of pricing_sync *)

InBand(r) == \A k \in {"input", "output", "read", "write"} : r[k] <= MaxRate

\* The guard of a run that has nothing to write looks at two of the four rates.
Same(a, b) == a.input = b.input /\ a.output = b.output

\* A swing of more than 60 per cent, of the price of input or of output
Jumps(old, new) ==
    \E k \in {"input", "output"} : 10 * new[k] > 16 * old[k] \/ 10 * new[k] < 4 * old[k]

\* Mutant of Streak: the count goes on whatever the feed says.
StreakOfAnything(m, cand) == streak[m].n + 1

\* Runs in which the feed has reported this very candidate, this one included
Streak(m, cand) == IF streak[m].n > 0 /\ Same(streak[m].rate, cand) THEN streak[m].n + 1 ELSE 1

\* Ids that a cover run asked for "gaps" prices: an id or its bare family id.
Covered(m, gaps) == FamilyOf[m] \in {FamilyOf[g] : g \in gaps}

\* Mutant of Deepens: a rate of today is thought to do for the past.
DeepensNothing(t, m, gaps) == FALSE

\* Priced today, but not back to the start of the window
Deepens(t, m, gaps) ==
    Covered(m, gaps) /\ Rate(t, m, day) # NoRate /\ Rate(t, m, day - Backdate) = NoRate

\* Candidates that plan looks at: priced, or asked for, and plausible.
Considered(t, gaps) ==
    {m \in Models : /\ feed[m] # NoRate
                    /\ Rate(t, m, day) # NoRate \/ Covered(m, gaps)
                    /\ feed[m] # NoRate => InBand(feed[m])}

\* The models whose repricing of today is held back
Held(t, gaps) ==
    {m \in Considered(t, gaps) :
        /\ ~Deepens(t, m, gaps)
        /\ Rate(t, m, day) # NoRate
        /\ ~Same(Rate(t, m, day), feed[m])
        /\ Jumps(Rate(t, m, day), feed[m])
        /\ Streak(m, feed[m]) < HoldCorroborations}

\* Mutant of Row: a new price is backdated like a new model.
RowBackdated(t, m, gaps) ==
    LET priced == Rate(t, m, day) # NoRate
    IN  IF m \notin Considered(t, gaps) \ Held(t, gaps) THEN {}
        ELSE IF priced /\ ~Deepens(t, m, gaps) /\ Same(Rate(t, m, day), feed[m]) THEN {}
        ELSE {[from |-> day - Backdate, rate |-> feed[m]]}

\* plan and merge_overlay: the row a run writes for m, none if it has none.
Row(t, m, gaps) ==
    LET write(d) == {[from |-> d, rate |-> feed[m]]}
    IN  IF m \notin Considered(t, gaps) \ Held(t, gaps) THEN {}
        ELSE IF Deepens(t, m, gaps) \/ Rate(t, m, day) = NoRate THEN write(day - Backdate)
        ELSE IF Same(Rate(t, m, day), feed[m]) THEN {}
        ELSE write(day)

NoStreak == [m \in Models |-> [rate |-> NoRate, n |-> 0]]

\* run: reads table and status, writes overlay and status.
Sync(gaps) ==
    LET t == Table(over)
    IN  /\ over' = [m \in Models |->
                LET new == Row(t, m, gaps)
                IN  {r \in over[m] : \A w \in new : w.from # r.from} \cup new]
        /\ streak' = [m \in Models |->
                IF m \in Held(t, gaps) THEN [rate |-> feed[m], n |-> Streak(m, feed[m])]
                ELSE NoStreak[m]]
        /\ sightings' = [m \in Models |->
                IF feed[m] # NoRate /\ sightings[m].n > 0 /\ Same(sightings[m].rate, feed[m])
                THEN [sightings[m] EXCEPT !.n = IF @ = HoldCorroborations THEN @ ELSE @ + 1]
                ELSE [rate |-> feed[m], n |-> IF feed[m] = NoRate THEN 0 ELSE 1]]

-----------------------------------------------------------------------------
(* The day *)

PricingInit ==
    /\ over = [m \in Models |-> {}]
    /\ streak = NoStreak
    /\ feed \in {f \in [Models -> UNION {Feed[m] : m \in Models}] :
                    \A m \in Models : f[m] \in Feed[m]}
    /\ usage = {}
    /\ day = FirstDay
    /\ slot = 1
    /\ sightings = NoStreak
    /\ moves = 0
    /\ failures = 0

\* After the last run of a day comes the first of the next.
Passes ==
    IF slot = Len(Timetable) THEN slot' = 1 /\ day' = day + 1
    ELSE slot' = slot + 1 /\ day' = day

Starts(job) == day <= LastDay /\ Timetable[slot] = job

Refresh ==
    /\ Starts("refresh")
    /\ Sync({})
    /\ Passes
    /\ UNCHANGED <<feed, usage, moves, failures>>

\* cover_from_usage: models with a day of recent usage the table has no rate for
Gaps == {u[1] : u \in {x \in usage : x[2] >= day - Window /\ Rate(Table(over), x[1], x[2]) = NoRate}}

\* Without a gap the run only writes its status, which has no held_streaks.
CoverFromUsage ==
    /\ Starts("cover")
    /\ IF Gaps = {} THEN streak' = NoStreak /\ UNCHANGED <<over, sightings>> ELSE Sync(Gaps)
    /\ Passes
    /\ UNCHANGED <<feed, usage, moves, failures>>

\* The feed cannot be fetched: the status says so, and no more.
RunFails ==
    /\ failures < MaxFailures
    /\ failures' = failures + 1
    /\ Starts("refresh") \/ (Starts("cover") /\ Gaps # {})
    /\ streak' = NoStreak
    /\ Passes
    /\ UNCHANGED <<over, feed, usage, sightings, moves>>

FeedMoves(m, r) ==
    /\ moves < MaxMoves
    /\ day <= LastDay
    /\ r \in Feed[m] \ {feed[m]}
    /\ feed' = [feed EXCEPT ![m] = r]
    /\ moves' = moves + 1
    /\ UNCHANGED <<over, streak, usage, day, slot, sightings, failures>>

\* A pull brings usage of a day of its window (pull.py).
UsageArrives(m, d) ==
    /\ Cardinality(usage) < MaxUsage
    /\ day <= LastDay
    /\ d \in (day - Window) .. (day - 1)
    /\ usage' = usage \cup {<<m, d>>}
    /\ UNCHANGED <<over, streak, feed, day, slot, sightings, moves, failures>>

PricingNext ==
    \/ Refresh \/ CoverFromUsage \/ RunFails
    \/ \E m \in Models, r \in UNION {Feed[x] : x \in Models} : FeedMoves(m, r)
    \/ \E m \in Models, d \in Days : UsageArrives(m, d)

PricingSpec == PricingInit /\ [][PricingNext]_pricingVars

-----------------------------------------------------------------------------
(* The gate of releases *)

\* The row of the feed that ours is compared with: its own, or a snapshot's
Listed(m) ==
    IF feed[m] # NoRate THEN {m} ELSE {x \in Models : FamilyOf[x] = m /\ feed[x] # NoRate}

\* verify: a rate in force is the feed's, or a swing the sync holds back.
Verdict(t, m) ==
    LET ours == Rate(t, m, day)
        theirs == feed[CHOOSE x \in Listed(m) : TRUE]
    IN  CASE ours = NoRate -> "not-applicable"
          [] ours # NoRate /\ Listed(m) = {} -> "uncovered"
          [] ours # NoRate /\ Listed(m) # {} ->
                IF ours = theirs THEN "verified"
                ELSE IF Jumps(ours, theirs) THEN "held" ELSE "mismatch"

-----------------------------------------------------------------------------
(* Properties *)

\* A day that is over keeps its price, for a model with a history of its own:
\* whatever the sync writes, an audit of past usage comes to the figure it came
\* to before (table.py, merge_overlay).  Not so for a snapshot its family has
\* priced: the first row of its own hides the family's days.
HistoryIsFixed ==
    [][\A m \in Models, d \in Days :
        d < day /\ Table(over)[m] # {} /\ Rate(Table(over), m, d) # NoRate =>
            Rate(Table(over'), m, d) = Rate(Table(over), m, d)]_pricingVars

\* A price of the feed that swings away is not applied before three runs have
\* seen it, so that a glitch of the feed never reaches an audit (plan, gate 4).
\* Not so for a snapshot its family has priced, which a cover run prices back to
\* the start of the window: that row passes no gate but the band.
GlitchesAreHeld ==
    [][\A m \in Models :
        LET old == Rate(Table(over), m, day)
            new == Rate(Table(over'), m, day)
            priced == IF Table(over')[m] # {} THEN m ELSE FamilyOf[m]
        IN  old # NoRate /\ new # old /\ Jumps(old, new) =>
                \/ sightings'[priced].n >= HoldCorroborations
                \/ Table(over)[m] = {} /\ priced = m /\ Rate(Table(over), m, day - Backdate) = NoRate
      ]_pricingVars

\* A run that succeeds has done its work.  A cover run leaves no gap of its window
\* that the feed could close, a family standing for a snapshot without a history;
\* and after a refresh the gate of releases finds no rate it has to call wrong, as
\* far as the price goes, where a model has a history and the feed a plausible
\* price, but for a row people wrote for the very day
\* (cover_from_usage, pricing_verify.verify).
RunsDoTheirWork ==
    [][(slot' # slot \/ day' # day) /\ failures' = failures =>
        /\ Starts("cover") =>
            \A u \in usage :
                LET offers == {k \in {u[1], FamilyOf[u[1]]} :
                                feed[k] # NoRate /\ (Table(over)[u[1]] = {} \/ k = u[1])}
                IN  /\ u[2] >= day - Window
                    /\ Rate(Table(over), u[1], u[2]) = NoRate
                    /\ \E k \in offers : InBand(feed[k])
                    => Rate(Table(over'), u[1], u[2]) # NoRate
        /\ Starts("refresh") =>
            \A m \in Models :
                /\ Table(over')[m] # {} /\ feed[m] # NoRate
                /\ feed[m] # NoRate => InBand(feed[m])
                /\ Verdict(Table(over'), m) = "mismatch"
                => \/ Same(Rate(Table(over'), m, day), feed[m])
                   \/ \E b \in BaseRows : b.model = m /\ b.from = day]_pricingVars
=============================================================================
