--------------------------- MODULE ScheduleProofs ---------------------------
(***************************************************************************)
(* Proofs about Schedule, for any number of sources, any length of a day,  *)
(* any backfill and any time: every finished day an audit looks back on    *)
(* was fetched after it had ended, and what is revoked stays revoked.      *)
(***************************************************************************)
EXTENDS Schedule, TLAPS

-----------------------------------------------------------------------------
(* The inductive invariant *)

\* Nothing was stamped in the future.
NotAhead == \A s \in Sources : source[s].lastPull <= clock

\* The figures that a stamp vouches for
Vouched(s, last) ==
    \A d \in Days :
        last # Never /\ d + 1 < Day(last) /\ Day(last) <= d + Backfill => usage[s][d] > d

\* A row that was loaded vouches for its figures, also when it is old.
Loads ==
    \A p \in Pullers : pull[p].pc = "loaded" =>
        /\ pull[p].last <= clock
        /\ Vouched(pull[p].of, pull[p].last)

\* A pull saves on the day it asked or on the next; what lies before its window
\* is out of reach or final.
Windows ==
    \A p \in Pullers : pull[p].pc \in {"asking", "writing"} =>
        /\ pull[p].to <= Day(clock) /\ Day(clock) <= pull[p].to + 1
        /\ \A d \in Days : d < pull[p].from =>
              \/ d + Backfill < pull[p].to
              \/ d + 1 < pull[p].to /\ usage[pull[p].of][d] > d

\* A pull in flight is some source's.
Owned == \A p \in Pullers : pull[p].pc # "no" => pull[p].of \in Sources

\* Only active sources have a key.
Keyed == \A s \in Sources : source[s].key => source[s].status = "active"

IInv == TypeOK /\ NotAhead /\ EveryDayIsFinal /\ Loads /\ Windows /\ Owned /\ Keyed
-----------------------------------------------------------------------------
(* Days *)

\* Moments and days are natural numbers, and later moments are on later days.
LEMMA DaysGrow ==
    /\ Backfill \in Nat /\ MaxClock \in Nat /\ Never \in Int /\ Never \notin Times
    /\ \A d \in Days : d \in Nat
    /\ \A t \in Times : t \in Nat /\ Day(t) \in Nat /\ Day(t) \in Days
    /\ \A t, u \in Times : t <= u => Day(t) <= Day(u)
  <1>1. \A t \in Nat : Day(t) \in Nat
    BY ScheduleAssumption DEF Day
  <1>2. ASSUME NEW t \in Nat, NEW u \in Nat, t <= u PROVE Day(t) <= Day(u)
    BY <1>2, ScheduleAssumption DEF Day
  <1>3. MaxClock \in Nat /\ Backfill \in Nat
    BY ScheduleAssumption
  <1>4. Day(MaxClock) \in Nat
    BY <1>1, <1>3
  <1> QED BY <1>1, <1>2, <1>3, <1>4 DEF Times, Days, Never

-----------------------------------------------------------------------------
(* Types *)

PullRow == [pc : {"no"} \cup InFlight, of : Sources \cup {NoSource}, active : BOOLEAN,
            last : Times \cup {Never}, from : Int, to : Days, missing : SUBSET Days]

LEMMA PullsTyped ==
    ASSUME TypeOK, [Next]_vars
    PROVE  pull' \in [Pullers -> PullRow]
  <1>0. /\ pull \in [Pullers -> PullRow]
        /\ NoPull \in PullRow
        /\ Day(clock) \in Days /\ Day(clock) \in Int /\ Backfill \in Int
    <2>1. Day(MaxClock) \in Nat /\ 0 \in Days
      BY DaysGrow DEF Times, Days
    <2>2. NoPull \in PullRow
      BY <2>1 DEF PullRow, NoPull
    <2> QED BY <2>2, DaysGrow DEF TypeOK, PullRow
  <1>1. ASSUME NEW s \in Sources PROVE Loaded(s) \in PullRow
    BY <1>0, <1>1 DEF Loaded, PullRow, NoPull, TypeOK, InFlight
  <1>2. ASSUME NEW p \in Pullers, pull[p].of \in Sources \cup {NoSource} PROVE Raised(p) \in PullRow
    BY <1>0, <1>2 DEF Raised, PullRow, NoPull, InFlight
  <1>3. ASSUME NEW p \in Pullers, InsidePull(p) PROVE pull' \in [Pullers -> PullRow]
    <2>0. Raised(p) \in PullRow
      BY <1>0, <1>2 DEF PullRow
    <2>1. CASE Ask(p)
      <3>1. WindowStart(pull[p].last, Day(clock)) \in Int
        BY <1>0, DaysGrow DEF WindowStart, PullRow
      <3>2. [NoPull EXCEPT !.pc = "asking", !.of = pull[p].of,
                           !.from = WindowStart(pull[p].last, Day(clock)), !.to = Day(clock)] \in PullRow
        BY <1>0, <3>1 DEF PullRow, InFlight
      <3> QED BY <1>0, <2>0, <2>1, <3>2 DEF Ask
    <2>2. CASE Answer(p)
      <3>1. [pull[p] EXCEPT !.pc = "writing",
                            !.missing = {d \in Window(p) : usage[pull[p].of][d] = NoFigure}] \in PullRow
        BY <1>0 DEF PullRow, InFlight, Window
      <3> QED BY <1>0, <2>2, <3>1 DEF Answer
    <2>3. CASE Refuse(p) \/ Collide(p)
      <3>1. pull' = [pull EXCEPT ![p] = Raised(p)]
        BY <2>3 DEF Refuse, Collide
      <3> QED BY <1>0, <2>0, <3>1
    <2> QED BY <1>3, <2>1, <2>2, <2>3 DEF InsidePull
  <1>4. ASSUME NEW p \in Pullers, Save(p) \/ pull' = [pull EXCEPT ![p] = NoPull] PROVE pull' \in [Pullers -> PullRow]
    BY <1>0, <1>4 DEF Save
  <1>5. ASSUME NEW p \in Pullers, NEW s \in Sources, pull' = [pull EXCEPT ![p] = Loaded(s)] PROVE pull' \in [Pullers -> PullRow]
    BY <1>0, <1>1, <1>5
  <1>6. Tick \in Pullers /\ Sources \subseteq Pullers
    BY DEF Pullers
  <1>7. ASSUME NEW s \in Sources, WorkerStep(s) PROVE pull' \in [Pullers -> PullRow]
    BY <1>0, <1>3, <1>4, <1>5, <1>6, <1>7
       DEF WorkerStep, Begin, FirstPull, FirstPullRaises, FirstAudit, FirstAuditRaises,
           MarkFailed, FirstFailureRecorded
  <1>8. CASE TickStep
    <2>1. CASE TickStart
      <3>1. DuePulls(clock) \subseteq Sources
        BY DEF DuePulls
      <3> QED BY <1>0, <1>5, <1>6, <2>1, <3>1 DEF TickStart
    <2>2. CASE TickNext
      BY <1>5, <1>6, <2>2 DEF TickNext, TypeOK
    <2>3. CASE InsidePull(Tick)
      BY <1>3, <1>6, <2>3
    <2>4. CASE TickPull \/ TickPullRaises
      BY <1>4, <1>6, <2>4 DEF TickPull, TickPullRaises
    <2>5. CASE TickAudits \/ TickEnd \/ \E s \in Sources : TickAudit(s) \/ TickAuditRaises(s)
      BY <1>0, <2>5 DEF TickAudits, TickEnd, TickAudit, TickAuditRaises
    <2> QED BY <1>8, <2>1, <2>2, <2>3, <2>4, <2>5 DEF TickStep
  <1>9. CASE ServerDies
    BY <1>0, <1>9 DEF ServerDies
  <1>10. CASE TickDies
    BY <1>4, <1>6, <1>10 DEF TickDies
  <1>11. CASE PlanChanges \/ Pass \/ (\E s \in Sources : Connect(s) \/ Revoke(s)) \/ UNCHANGED vars
    BY <1>0, <1>11 DEF PlanChanges, Pass, Connect, Revoke, vars
  <1> QED BY <1>7, <1>8, <1>9, <1>10, <1>11 DEF Next

SourceRow == [status : {"none", "active", "revoked"}, key : BOOLEAN,
              lastPull : Times \cup {Never}, lastAudit : Times \cup {Never}]

LEMMA SourcesTyped ==
    ASSUME TypeOK, [Next]_vars
    PROVE  source' \in [Sources -> SourceRow]
  <1>0. source \in [Sources -> SourceRow] /\ clock \in Times
    BY DEF TypeOK, SourceRow
  <1>1. ASSUME NEW s \in Sources, Connect(s) \/ Revoke(s) PROVE source' \in [Sources -> SourceRow]
    BY <1>0, <1>1 DEF Connect, Revoke, SourceRow
  <1>2. ASSUME NEW s \in Sources, AuditStamp(s) PROVE source' \in [Sources -> SourceRow]
    BY <1>0, <1>2 DEF AuditStamp, SourceRow
  <1>3. ASSUME NEW p \in Pullers, Save(p) PROVE source' \in [Sources -> SourceRow]
    BY <1>0, <1>3 DEF Save, Stamped, SourceRow
  <1>4. \/ UNCHANGED source
        \/ \E s \in Sources : Connect(s) \/ Revoke(s) \/ AuditStamp(s)
        \/ \E p \in Pullers : Save(p)
    BY DEF Next, vars, WorkerStep, Begin, InsidePull, FirstPull, FirstPullRaises, FirstAudit,
           FirstAuditRaises, MarkFailed, FirstFailureRecorded, PlanChanges, Pass, TickStep,
           TickStart, TickNext, TickPull, TickPullRaises, TickAudits, TickAudit,
           TickAuditRaises, TickEnd, ServerDies, TickDies, Pullers
  <1> QED BY <1>0, <1>1, <1>2, <1>3, <1>4

LEMMA FiguresTyped ==
    ASSUME TypeOK, [Next]_vars
    PROVE  usage' \in [Sources -> [Days -> Days \cup {NoFigure}]]
  <1>1. ASSUME NEW p \in Pullers, Save(p) PROVE usage' \in [Sources -> [Days -> Days \cup {NoFigure}]]
    <2> DEFINE figures == [d \in Days |-> IF d \in Window(p) THEN pull[p].to
                                          ELSE usage[pull[p].of][d]]
    <2>1. usage' = [usage EXCEPT ![pull[p].of] = figures]
      BY <1>1 DEF Save
    <2>2. pull[p].of \in Sources => figures \in [Days -> Days \cup {NoFigure}]
      BY DEF TypeOK
    <2> HIDE DEF figures
    <2> QED BY <2>1, <2>2 DEF TypeOK
  <1>2. UNCHANGED usage \/ \E p \in Pullers : Save(p)
    BY DEF Next, vars, Connect, Revoke, WorkerStep, Begin, InsidePull, FirstPull, FirstPullRaises,
           FirstAudit, FirstAuditRaises, MarkFailed, FirstFailureRecorded, PlanChanges, Pass,
           TickStep, TickStart, TickNext, TickPull, TickPullRaises, TickAudits, TickAudit,
           TickAuditRaises, TickEnd, ServerDies, TickDies, Pullers
  <1> QED BY <1>1, <1>2 DEF TypeOK

LEMMA TypeKept == TypeOK /\ Owned /\ [Next]_vars => TypeOK'
  <1> SUFFICES ASSUME TypeOK, Owned, [Next]_vars PROVE TypeOK'
    OBVIOUS
  <1> DEFINE Simple ==
         /\ clock \in Times /\ plan \in {"free", "paid", "readOnly", "lapsed"}
         /\ failed \in SUBSET Sources
         /\ first \in [Sources -> {"none", "queued", "processing", "done", "failed"}]
         /\ worker \in [Sources -> {"none", "over", "killed"} \cup AtWork]
         /\ tick \in [pc : {"idle", "pulling", "auditing"}, now : Times, todo : SUBSET Sources]
         /\ mishaps \in 0 .. MaxMishaps
  <1>0. /\ Simple /\ MaxMishaps \in Nat /\ MaxClock \in Nat /\ 0 \in Times
        /\ \A p \in Pullers : pull[p].pc # "no" => pull[p].of \in Sources
        /\ Tick \in Pullers
    BY ScheduleAssumption DEF Times, TypeOK, Owned, Pullers
  <1> USE DEF AtWork
  <1>1. ASSUME NEW s \in Sources, Connect(s) \/ Revoke(s) PROVE Simple'
    BY <1>0, <1>1 DEF Connect, Revoke
  <1>2. ASSUME NEW s \in Sources, WorkerStep(s) PROVE Simple'
    BY <1>0, <1>2 DEF WorkerStep, Begin, InsidePull, FirstPull, FirstPullRaises, FirstAudit,
                      FirstAuditRaises, MarkFailed, FirstFailureRecorded, RecordFailure
  <1>3. ASSUME PlanChanges PROVE Simple'
    <2>1. plan' \in {"free", "paid", "readOnly", "lapsed"}
      BY <1>0, <1>3 DEF PlanChanges, PlanMoves
    <2>2. mishaps' \in 0 .. MaxMishaps
      BY <1>0, <1>3 DEF PlanChanges
    <2> QED BY <1>0, <1>3, <2>1, <2>2 DEF PlanChanges
  <1>4. ASSUME Pass PROVE Simple'
    <2>1. clock' \in Times
      BY <1>0, <1>4 DEF Pass, Times
    <2> QED BY <1>0, <1>4, <2>1 DEF Pass
  <1>5. ASSUME TickStep PROVE Simple'
    <2>1. CASE TickStart
      BY <1>0, <1>5, <2>1 DEF TickStart, DuePulls
    <2>2. CASE TickNext \/ InsidePull(Tick) \/ TickPull \/ TickEnd
      BY <1>0, <2>2 DEF TickNext, InsidePull, TickPull, TickEnd, Idle
    <2>3. CASE TickPullRaises
      BY <1>0, <2>3 DEF TickPullRaises, RecordFailure
    <2>4. CASE TickAudits
      BY <1>0, <2>4 DEF TickAudits, DueAudits
    <2>5. CASE \E s \in Sources : TickAudit(s) \/ TickAuditRaises(s)
      BY <1>0, <2>5 DEF TickAudit, TickAuditRaises
    <2> QED BY <1>5, <2>1, <2>2, <2>3, <2>4, <2>5 DEF TickStep
  <1>6. ASSUME ServerDies PROVE Simple'
    BY <1>0, <1>6 DEF ServerDies
  <1>7. ASSUME TickDies PROVE Simple'
    BY <1>0, <1>7 DEF TickDies, Idle
  <1>8. ASSUME UNCHANGED vars PROVE Simple'
    BY <1>0, <1>8 DEF vars
  <1>9. Simple'
    BY <1>1, <1>2, <1>3, <1>4, <1>5, <1>6, <1>7, <1>8 DEF Next
  <1> QED BY <1>9, PullsTyped, SourcesTyped, FiguresTyped DEF TypeOK, PullRow, SourceRow

-----------------------------------------------------------------------------
(* What a step does to a pull, to the figures and to the stamps *)

\* A pull ends, raises, loads a row, asks for its window or has its answer.
Goes(p) ==
    \/ pull'[p] = pull[p]
    \/ pull'[p].pc = "no"
    \/ pull'[p].pc = "raised" /\ pull'[p].of = pull[p].of /\ pull[p].pc # "no"
    \/ /\ pull'[p].pc = "loaded" /\ pull'[p].of \in Sources
       /\ pull'[p].last = source[pull'[p].of].lastPull
       /\ pull'[p].active => source[pull'[p].of].status = "active"
    \/ /\ pull[p].pc = "loaded" /\ pull[p].active
       /\ pull'[p].pc = "asking" /\ pull'[p].of = pull[p].of
       /\ pull'[p].to = Day(clock) /\ pull'[p].from = WindowStart(pull[p].last, Day(clock))
    \/ /\ pull[p].pc = "asking" /\ pull'[p].pc = "writing" /\ pull'[p].of = pull[p].of
       /\ pull'[p].to = pull[p].to /\ pull'[p].from = pull[p].from

LEMMA InsideGoes ==
    ASSUME TypeOK, NEW q \in Pullers, InsidePull(q), NEW p \in Pullers
    PROVE  Goes(p)
  <1>1. CASE Ask(q)
    <2>1. CASE pull[q].active
      <3>1. PICK row : /\ row.pc = "asking" /\ row.of = pull[q].of /\ row.to = Day(clock)
                       /\ row.from = WindowStart(pull[q].last, Day(clock))
                       /\ pull' = [pull EXCEPT ![q] = row]
        BY <1>1, <2>1 DEF Ask, NoPull
      <3> QED BY <1>1, <2>1, <3>1 DEF Ask, Goes, TypeOK
    <2>2. CASE ~pull[q].active
      <3>1. pull' = [pull EXCEPT ![q] = Raised(q)]
        BY <1>1, <2>2 DEF Ask
      <3> QED BY <1>1, <3>1 DEF Ask, Goes, TypeOK, NoPull, Raised
    <2> QED BY <2>1, <2>2
  <1>2. CASE Answer(q)
    BY <1>2 DEF Answer, Goes, TypeOK
  <1>3. CASE Refuse(q) \/ Collide(q)
    <2>1. pull' = [pull EXCEPT ![q] = Raised(q)] /\ pull[q].pc # "no"
      BY <1>3 DEF Refuse, Collide
    <2> QED BY <2>1 DEF Goes, TypeOK, NoPull, Raised
  <1> QED BY <1>1, <1>2, <1>3 DEF InsidePull

LEMMA PullsGo == TypeOK /\ [Next]_vars => \A p \in Pullers : Goes(p)
  <1> SUFFICES ASSUME TypeOK, [Next]_vars, NEW p \in Pullers PROVE Goes(p)
    OBVIOUS
  <1>1. ASSUME NEW s \in Sources, Connect(s) \/ Revoke(s) PROVE Goes(p)
    BY <1>1 DEF Connect, Revoke, Goes
  <1>2. ASSUME NEW s \in Sources, WorkerStep(s) PROVE Goes(p)
    <2>1. s \in Pullers
      BY DEF Pullers
    <2>2. CASE Begin(s)
      BY <2>1, <2>2 DEF Begin, Loaded, Goes, TypeOK, NoPull
    <2>3. CASE InsidePull(s)
      BY <2>1, <2>3, InsideGoes
    <2>4. CASE FirstPull(s) \/ FirstPullRaises(s)
      BY <2>1, <2>4 DEF FirstPull, FirstPullRaises, Save, Goes, TypeOK, NoPull
    <2>5. CASE FirstAudit(s) \/ FirstAuditRaises(s) \/ MarkFailed(s) \/ FirstFailureRecorded(s)
      BY <2>5 DEF FirstAudit, FirstAuditRaises, MarkFailed, FirstFailureRecorded, Goes
    <2> QED BY <1>2, <2>2, <2>3, <2>4, <2>5 DEF WorkerStep
  <1>3. CASE PlanChanges \/ Pass
    BY <1>3 DEF PlanChanges, Pass, Goes
  <1>4. CASE TickStep
    <2>1. Tick \in Pullers
      BY DEF Pullers
    <2>2. ASSUME NEW s \in Sources, pull' = [pull EXCEPT ![Tick] = Loaded(s)] PROVE Goes(p)
      BY <2>1, <2>2 DEF Loaded, Goes, TypeOK, NoPull
    <2>3. CASE TickStart
      <3>1. DuePulls(clock) \subseteq Sources
        BY DEF DuePulls
      <3> QED BY <2>2, <2>3, <3>1 DEF TickStart, Goes
    <2>4. CASE TickNext
      BY <2>2, <2>4 DEF TickNext, TypeOK
    <2>5. CASE InsidePull(Tick)
      BY <2>1, <2>5, InsideGoes
    <2>6. CASE TickPull \/ TickPullRaises
      BY <2>1, <2>6 DEF TickPull, TickPullRaises, Save, Goes, TypeOK, NoPull
    <2>7. CASE TickAudits \/ TickEnd \/ \E s \in Sources : TickAudit(s) \/ TickAuditRaises(s)
      BY <2>7 DEF TickAudits, TickEnd, TickAudit, TickAuditRaises, Goes
    <2> QED BY <1>4, <2>3, <2>4, <2>5, <2>6, <2>7 DEF TickStep
  <1>5. CASE ServerDies \/ TickDies
    BY <1>5 DEF ServerDies, TickDies, Goes, TypeOK, NoPull, Pullers
  <1>6. CASE UNCHANGED vars
    BY <1>6 DEF vars, Goes
  <1> QED BY <1>1, <1>2, <1>3, <1>4, <1>5, <1>6 DEF Next

\* Only a pull that saves touches figures and the stamp of the last pull.
LEMMA OnlySaves ==
    ASSUME TypeOK, [Next]_vars, ~ \E p \in Pullers : Save(p)
    PROVE  /\ UNCHANGED usage
           /\ \A s \in Sources : source'[s].lastPull = source[s].lastPull
  <1>0. source \in [Sources -> [status : {"none", "active", "revoked"}, key : BOOLEAN,
                                lastPull : Times \cup {Never}, lastAudit : Times \cup {Never}]]
    BY DEF TypeOK
  <1> DEFINE Same == /\ UNCHANGED usage
                     /\ \A x \in Sources : source'[x].lastPull = source[x].lastPull
  <1>1. ASSUME NEW s \in Sources, Connect(s) \/ Revoke(s) PROVE Same
    <2>1. PICK st, k : source' = [source EXCEPT ![s].status = st, ![s].key = k]
      BY <1>1 DEF Connect, Revoke
    <2> QED BY <1>0, <1>1, <2>1 DEF Connect, Revoke
  <1>2. ASSUME NEW s \in Sources, FirstAudit(s) \/ TickAudit(s) PROVE Same
    <2>1. source' = [source EXCEPT ![s].lastAudit = clock]
      BY <1>2 DEF FirstAudit, TickAudit, AuditStamp
    <2> QED BY <1>0, <1>2, <2>1 DEF FirstAudit, TickAudit
  <1>3. ~TickPull /\ \A s \in Sources : ~FirstPull(s)
    BY DEF TickPull, FirstPull, Pullers
  <1>4. CASE UNCHANGED <<usage, source>>
    BY <1>4
  <1>5. \/ UNCHANGED <<usage, source>>
        \/ \E s \in Sources : Connect(s) \/ Revoke(s) \/ FirstAudit(s) \/ TickAudit(s)
    BY <1>3 DEF Next, vars, WorkerStep, Begin, InsidePull, FirstPullRaises, FirstAuditRaises, MarkFailed,
          FirstFailureRecorded, PlanChanges, Pass, TickStep, TickStart, TickNext, TickPullRaises,
          TickAudits, TickAuditRaises, TickEnd, ServerDies, TickDies
  <1> QED BY <1>1, <1>2, <1>4, <1>5

\* Time passes alone, and not past the day after a window's last.
LEMMA Clocked ==
    ASSUME TypeOK, [Next]_vars
    PROVE  \/ clock' = clock
           \/ /\ clock' = clock + 1 /\ clock < MaxClock /\ UNCHANGED <<usage, source, pull>>
              /\ \A p \in Pullers :
                   pull[p].pc \in {"asking", "writing"} => Day(clock') <= pull[p].to + 1
  BY DEF Next, vars, Connect, Revoke, WorkerStep, Begin, InsidePull, FirstPull, FirstPullRaises,
         FirstAudit, FirstAuditRaises, MarkFailed, FirstFailureRecorded, PlanChanges, Pass,
         TickStep, TickStart, TickNext, TickPull, TickPullRaises, TickAudits, TickAudit,
         TickAuditRaises, TickEnd, ServerDies, TickDies
-----------------------------------------------------------------------------
(* The stamps and the figures they vouch for *)

LEMMA NotAheadKept == TypeOK /\ NotAhead /\ [Next]_vars => NotAhead'
  <1> SUFFICES ASSUME TypeOK, NotAhead, [Next]_vars, NEW s \in Sources
               PROVE  source'[s].lastPull <= clock'
    BY DEF NotAhead
  <1>1. clock \in Nat /\ source[s].lastPull \in Int /\ source[s].lastPull <= clock
    BY DaysGrow DEF TypeOK, NotAhead, Never
  <1>2. ASSUME NEW p \in Pullers, Save(p) PROVE source'[s].lastPull \in {source[s].lastPull, clock}
    BY <1>2 DEF Save, Stamped, TypeOK
  <1>3. source'[s].lastPull \in {source[s].lastPull, clock}
    BY <1>2, OnlySaves
  <1>4. clock' = clock \/ clock' = clock + 1
    BY Clocked
  <1> QED BY <1>1, <1>3, <1>4

\* A figure that is final stays so: a pull that is late by more than a day
\* would overwrite it, but there is none.
LEMMA FinalStays ==
    ASSUME TypeOK, Windows, [Next]_vars, NEW s \in Sources, NEW d \in Days,
           usage[s][d] > d, d + 1 < Day(clock)
    PROVE  usage'[s][d] > d
  <1>1. CASE \E p \in Pullers : Save(p)
    <2>1. PICK p \in Pullers : Save(p)
      BY <1>1
    <2>2. usage'[s][d] = IF s = pull[p].of /\ d \in Window(p) THEN pull[p].to ELSE usage[s][d]
      BY <2>1 DEF Save, TypeOK
    <2>3. /\ pull[p].to \in Int /\ Day(clock) \in Int /\ d \in Int
          /\ Day(clock) <= pull[p].to + 1
      BY <2>1, DaysGrow DEF Save, Windows, TypeOK
    <2>4. d < pull[p].to
      BY <2>3
    <2> QED BY <2>2, <2>4
  <1> QED BY <1>1, OnlySaves

\* What a stamp vouches for, it goes on vouching for.
LEMMA VouchedStays ==
    ASSUME TypeOK, Windows, [Next]_vars, NEW s \in Sources, NEW last \in Times \cup {Never},
           last <= clock, Vouched(s, last)
    PROVE  \A d \in Days :
              last # Never /\ d + 1 < Day(last) /\ Day(last) <= d + Backfill => usage'[s][d] > d
  <1> SUFFICES ASSUME NEW d \in Days,
                      last # Never, d + 1 < Day(last), Day(last) <= d + Backfill
               PROVE  usage'[s][d] > d
    OBVIOUS
  <1>1. usage[s][d] > d
    BY DEF Vouched
  <1>2. /\ Day(last) \in Int /\ Day(clock) \in Int /\ d \in Int
        /\ Day(last) <= Day(clock)
    BY DaysGrow DEF TypeOK
  <1>3. d + 1 < Day(clock)
    BY <1>2
  <1> QED BY <1>1, <1>3, FinalStays

\* A pull that saves leaves every finished day final, as far as its own new
\* stamp vouches.
LEMMA SavedIsFinal ==
    ASSUME TypeOK, Windows, NEW p \in Pullers, Save(p), [Next]_vars,
           NEW d \in Days, d + 1 < Day(clock), Day(clock) <= d + Backfill, pull[p].of \in Sources
    PROVE  usage'[pull[p].of][d] > d
  <1> DEFINE s == pull[p].of
  <1>1. /\ pull[p].to <= Day(clock) /\ Day(clock) <= pull[p].to + 1
        /\ d < pull[p].from =>
              \/ d + Backfill < pull[p].to
              \/ d + 1 < pull[p].to /\ usage[s][d] > d
    BY DEF Save, Windows
  <1>2. /\ pull[p].to \in Int /\ pull[p].from \in Int /\ Day(clock) \in Int
        /\ d \in Int /\ Backfill \in Int
    BY DaysGrow, ScheduleAssumption DEF TypeOK
  <1>3. usage'[s][d] = IF d \in Window(p) THEN pull[p].to ELSE usage[s][d]
    BY DEF Save, TypeOK
  <1>4. d < pull[p].to
    BY <1>1, <1>2
  <1>5. CASE d < pull[p].from
    <2>1. usage[s][d] > d
      BY <1>1, <1>2, <1>5
    <2>2. d \notin Window(p)
      BY <1>2, <1>5 DEF Window
    <2> QED BY <1>3, <2>1, <2>2
  <1>6. CASE ~(d < pull[p].from)
    <2>1. d \in Window(p)
      BY <1>2, <1>4, <1>6 DEF Window
    <2> QED BY <1>3, <1>4, <2>1
  <1> QED BY <1>5, <1>6

LEMMA FinalKept == IInv /\ [Next]_vars => EveryDayIsFinal'
  <1> SUFFICES ASSUME IInv, [Next]_vars, NEW s \in Sources, NEW d \in Days,
                      source'[s].lastPull # Never,
                      d + 1 < Day(source'[s].lastPull),
                      Day(source'[s].lastPull) <= d + Backfill
               PROVE  usage'[s][d] > d
    BY DEF EveryDayIsFinal
  <1>1. CASE source'[s].lastPull = source[s].lastPull
    <2>1. /\ source[s].lastPull \in Times \cup {Never} /\ source[s].lastPull <= clock
          /\ Vouched(s, source[s].lastPull)
      BY DEF IInv, TypeOK, NotAhead, EveryDayIsFinal, Vouched
    <2> QED BY <1>1, <2>1, VouchedStays DEF IInv
  <1>2. CASE source'[s].lastPull # source[s].lastPull
    <2>1. PICK p \in Pullers : Save(p)
      BY <1>2, OnlySaves DEF IInv
    <2>2. pull[p].of = s /\ source'[s].lastPull = clock
      BY <1>2, <2>1 DEF Save, Stamped, IInv, TypeOK
    <2> QED BY <2>1, <2>2, SavedIsFinal DEF IInv
  <1> QED BY <1>1, <1>2

-----------------------------------------------------------------------------
(* The pulls in flight *)

LEMMA OwnedKept == TypeOK /\ Owned /\ [Next]_vars => Owned'
  BY PullsGo DEF Owned, Goes

LEMMA LoadsKept == IInv /\ [Next]_vars => Loads'
  <1> SUFFICES ASSUME IInv, [Next]_vars, NEW p \in Pullers, pull'[p].pc = "loaded"
               PROVE  /\ pull'[p].last <= clock'
                      /\ \A d \in Days :
                            /\ pull'[p].last # Never /\ d + 1 < Day(pull'[p].last)
                            /\ Day(pull'[p].last) <= d + Backfill
                            => usage'[pull'[p].of][d] > d
    BY DEF Loads, Vouched
  <1>0. clock \in Nat /\ Never \in Int /\ \A t \in Times : t \in Nat
    BY DaysGrow DEF IInv, TypeOK, Never
  <1>1. PICK s \in Sources, last \in Times \cup {Never} :
           /\ pull'[p].of = s /\ pull'[p].last = last /\ last <= clock /\ Vouched(s, last)
    <2>1. CASE pull'[p] = pull[p]
      BY <2>1 DEF IInv, TypeOK, Owned, Loads
    <2>2. CASE /\ pull'[p].of \in Sources
               /\ pull'[p].last = source[pull'[p].of].lastPull
      BY <2>2 DEF IInv, TypeOK, NotAhead, EveryDayIsFinal, Vouched
    <2> QED BY <2>1, <2>2, PullsGo DEF IInv, Goes
  <1>2. clock' = clock \/ clock' = clock + 1
    BY Clocked DEF IInv
  <1>3. last <= clock'
    BY <1>0, <1>1, <1>2
  <1> QED BY <1>1, <1>3, VouchedStays DEF IInv

LEMMA WindowsKept == IInv /\ [Next]_vars => Windows'
  <1> SUFFICES ASSUME IInv, [Next]_vars, NEW p \in Pullers, pull'[p].pc \in {"asking", "writing"}
               PROVE  /\ pull'[p].to <= Day(clock') /\ Day(clock') <= pull'[p].to + 1
                      /\ \A d \in Days : d < pull'[p].from =>
                            \/ d + Backfill < pull'[p].to
                            \/ d + 1 < pull'[p].to /\ usage'[pull'[p].of][d] > d
    BY DEF Windows
  <1>0. /\ clock \in Times /\ Day(clock) \in Int /\ Backfill \in Int /\ \A d \in Days : d \in Int
        /\ \A q \in Pullers : pull[q].to \in Int /\ pull[q].from \in Int
        /\ pull[p].last \in Times \cup {Never}
    BY DaysGrow, ScheduleAssumption DEF IInv, TypeOK
  <1>1. CASE /\ pull[p].pc = "loaded" /\ pull'[p].of = pull[p].of
             /\ pull'[p].to = Day(clock) /\ pull'[p].from = WindowStart(pull[p].last, Day(clock))
    <2>1. clock' = clock
      BY <1>1, Clocked DEF IInv, Goes
    <2>2. ASSUME NEW d \in Days, d < pull'[p].from
          PROVE  \/ d + Backfill < pull'[p].to
                 \/ d + 1 < pull'[p].to /\ usage'[pull'[p].of][d] > d
      <3>1. CASE pull[p].last = Never
        BY <1>0, <1>1, <2>2, <3>1 DEF WindowStart
      <3>2. CASE pull[p].last # Never
        <4>1. /\ Day(pull[p].last) \in Int /\ Day(pull[p].last) <= Day(clock)
              /\ pull[p].of \in Sources /\ pull[p].last <= clock
              /\ Vouched(pull[p].of, pull[p].last)
          BY <1>0, <1>1, <3>2, DaysGrow DEF IInv, Loads, Owned
        <4>2. d + 1 < Day(pull[p].last)
          BY <1>0, <1>1, <2>2, <3>2, <4>1 DEF WindowStart
        <4>3. CASE Day(pull[p].last) <= d + Backfill
          BY <1>0, <1>1, <3>2, <4>1, <4>2, <4>3, VouchedStays DEF IInv
        <4>4. CASE ~(Day(pull[p].last) <= d + Backfill)
          BY <1>0, <1>1, <4>1, <4>4
        <4> QED BY <4>3, <4>4
      <3> QED BY <3>1, <3>2
    <2> QED BY <1>0, <1>1, <2>1, <2>2
  <1>2. CASE /\ pull[p].pc \in {"asking", "writing"} /\ pull'[p].of = pull[p].of
             /\ pull'[p].to = pull[p].to /\ pull'[p].from = pull[p].from
    <2>1. /\ pull[p].to <= Day(clock) /\ Day(clock) <= pull[p].to + 1
          /\ pull[p].of \in Sources
      BY <1>2 DEF IInv, Windows, Owned
    <2>2. /\ Day(clock') \in Int /\ Day(clock) <= Day(clock')
          /\ Day(clock') <= pull[p].to + 1
      <3>1. clock' = clock \/ (clock' = clock + 1 /\ clock < MaxClock /\ Day(clock') <= pull[p].to + 1)
        BY <1>2, Clocked DEF IInv
      <3>2. clock' \in Times /\ clock <= clock'
        BY <1>0, <3>1, ScheduleAssumption DEF Times
      <3> QED BY <1>0, <2>1, <3>1, <3>2, DaysGrow
    <2>3. ASSUME NEW d \in Days, d < pull[p].from
          PROVE  d + Backfill < pull[p].to \/ (d + 1 < pull[p].to /\ usage'[pull[p].of][d] > d)
      <3>1. d + Backfill < pull[p].to \/ (d + 1 < pull[p].to /\ usage[pull[p].of][d] > d)
        BY <1>2, <2>3 DEF IInv, Windows
      <3>2. d + 1 < pull[p].to => d + 1 < Day(clock)
        BY <1>0, <2>1
      <3> QED BY <2>1, <3>1, <3>2, FinalStays DEF IInv
    <2> QED BY <1>0, <1>2, <2>1, <2>2, <2>3
  <1> QED BY <1>1, <1>2, PullsGo DEF IInv, Goes
-----------------------------------------------------------------------------
(* Keys and revocation *)

\* A step changes status and key together, if at all: it connects or revokes.
LEMMA KeysChange ==
    ASSUME TypeOK, [Next]_vars, NEW s \in Sources
    PROVE  \/ source'[s].status = source[s].status /\ source'[s].key = source[s].key
           \/ source[s].status = "none" /\ source'[s].status = "active"
           \/ source'[s].status = "revoked" /\ ~source'[s].key
  <1>0. source \in [Sources -> SourceRow]
    BY DEF TypeOK, SourceRow
  <1>1. ASSUME NEW x \in Sources, Connect(x)
        PROVE  \/ source'[s] = source[s]
               \/ source[s].status = "none" /\ source'[s].status = "active"
    BY <1>0, <1>1 DEF Connect, SourceRow
  <1>2. ASSUME NEW x \in Sources, Revoke(x)
        PROVE  \/ source'[s] = source[s]
               \/ source'[s].status = "revoked" /\ source'[s].key = FALSE
    BY <1>0, <1>2 DEF Revoke, SourceRow
  <1>3. ASSUME NEW x \in Sources, AuditStamp(x)
        PROVE  source'[s].status = source[s].status /\ source'[s].key = source[s].key
    BY <1>0, <1>3 DEF AuditStamp, SourceRow
  <1>4. ASSUME NEW p \in Pullers, Save(p)
        PROVE  source'[s].status = source[s].status /\ source'[s].key = source[s].key
    BY <1>0, <1>4 DEF Save, Stamped, SourceRow
  <1>5. \/ UNCHANGED source
        \/ \E x \in Sources : Connect(x) \/ Revoke(x) \/ AuditStamp(x)
        \/ \E p \in Pullers : Save(p)
    BY DEF Next, vars, WorkerStep, Begin, InsidePull, FirstPull, FirstPullRaises, FirstAudit,
           FirstAuditRaises, MarkFailed, FirstFailureRecorded, PlanChanges, Pass, TickStep,
           TickStart, TickNext, TickPull, TickPullRaises, TickAudits, TickAudit,
           TickAuditRaises, TickEnd, ServerDies, TickDies, Pullers
  <1> QED BY <1>1, <1>2, <1>3, <1>4, <1>5

LEMMA KeyedKept == TypeOK /\ Keyed /\ [Next]_vars => Keyed'
  BY KeysChange DEF Keyed

-----------------------------------------------------------------------------
(* The theorems *)

LEMMA Initial == Init => IInv
  <1> SUFFICES ASSUME Init PROVE IInv
    OBVIOUS
  <1>0. /\ Never \in Int /\ Never < 0 /\ 0 \in Times /\ 0 \in Days
    BY DaysGrow, ScheduleAssumption DEF Never, Times, Days
  <1>1. TypeOK
    <2>1. \A s \in Sources : source[s] \in SourceRow
      <3> TAKE s \in Sources
      <3> DEFINE st == IF s \in Standing THEN "active" ELSE "none"
                 k == s \in Standing
      <3>1. source[s] = [status |-> st, key |-> k, lastPull |-> Never, lastAudit |-> Never]
        BY DEF Init
      <3>2. st \in {"none", "active", "revoked"} /\ k \in BOOLEAN
        OBVIOUS
      <3> HIDE DEF st, k
      <3> QED BY <3>1, <3>2 DEF SourceRow
    <2>2. NoPull \in PullRow
      BY <1>0 DEF PullRow, NoPull
    <2>3. source \in [Sources -> SourceRow] /\ pull \in [Pullers -> PullRow]
      BY <2>1, <2>2 DEF Init
    <2>4. tick \in [pc : {"idle", "pulling", "auditing"}, now : Times, todo : SUBSET Sources]
      BY <1>0 DEF Init, Idle
    <2>5. mishaps \in 0 .. MaxMishaps
      BY ScheduleAssumption DEF Init
    <2> QED BY <1>0, <2>3, <2>4, <2>5 DEF Init, TypeOK, PullRow, SourceRow
  <1>2. NotAhead
    <2>1. \A s \in Sources : source[s].lastPull = Never
      BY Zenon DEF Init
    <2>2. Never <= clock
      BY <1>0 DEF Init
    <2> QED BY <2>1, <2>2, Zenon DEF NotAhead
  <1>3. EveryDayIsFinal /\ Keyed
    BY DEF Init, EveryDayIsFinal, Keyed
  <1>4. Loads /\ Windows /\ Owned
    BY DEF Init, NoPull, Loads, Windows, Owned
  <1> QED BY <1>1, <1>2, <1>3, <1>4 DEF IInv

LEMMA Inductive == IInv /\ [Next]_vars => IInv'
  BY TypeKept, NotAheadKept, FinalKept, LoadsKept, WindowsKept, OwnedKept, KeyedKept DEF IInv

LEMMA Invariance == Spec => []IInv
  BY Initial, Inductive, PTL DEF Spec

\* Clocks, sources, figures, threads and pulls keep their types.
THEOREM TypeCorrect == Spec => []TypeOK
  <1>1. IInv => TypeOK
    BY DEF IInv
  <1> QED BY <1>1, Invariance, PTL

\* Every finished day that an audit looks back on, but for the day before the
\* last pull, was fetched after it had ended (pull.py: one day of overlap from the last stamp), for any number of
\* sources and pulls, any backfill and however long pulls fail.
THEOREM FinishedDaysAreFinal == Spec => []EveryDayIsFinal
  <1>1. IInv => EveryDayIsFinal
    BY DEF IInv
  <1> QED BY <1>1, Invariance, PTL

\* What is revoked stays revoked and without a key, whatever pulls and audits
\* that loaded its row before commit afterwards (revoke_source); and no pull
\* asks its provider but those that had loaded it before (run_pull).
THEOREM RevocationsLast == Spec => RevokedIsForever
  <1> DEFINE Lasting ==
        \A s \in Sources : source[s].status = "revoked" =>
            /\ source'[s].status = "revoked"
            /\ ~source'[s].key
            /\ Pulling(s)' \subseteq Pulling(s)
  <1>1. IInv /\ [Next]_vars => [Lasting]_vars
    <2> SUFFICES ASSUME IInv, [Next]_vars, NEW s \in Sources, source[s].status = "revoked"
                 PROVE  /\ source'[s].status = "revoked" /\ ~source'[s].key
                        /\ Pulling(s)' \subseteq Pulling(s)
      OBVIOUS
    <2>1. ~source[s].key
      BY DEF IInv, Keyed
    <2>2. source'[s].status = "revoked" /\ ~source'[s].key
      BY <2>1, KeysChange DEF IInv
    <2>3. Pulling(s)' \subseteq Pulling(s)
      BY PullsGo DEF IInv, Goes, Pulling
    <2> QED BY <2>2, <2>3
  <1> QED BY <1>1, Invariance, PTL DEF Spec, RevokedIsForever
=============================================================================
