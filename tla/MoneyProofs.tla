----------------------------- MODULE MoneyProofs -----------------------------
(***************************************************************************)
(* Proofs about the figures: the price table, claims, savings, statements. *)
(*                                                                         *)
(* Savings and statements, for any number of clicks, months, audits and    *)
(* votes.  SentIsFinal: a writer that begins after a statement was sent    *)
(* finds it sent when it looks, and so has nothing to change.              *)
(* CreditIsEarned and SurfacesAgree: the figures are read off the history, *)
(* of which MoneyInv says that votes are about findings of finished audits *)
(* and no two are of one time.                                             *)
(*                                                                         *)
(* The sums and the largest and smallest members that the figures are made *)
(* of are defined over finite sets, so there are lemmas about these first. *)
(* They rest on FS_StrictSubsetOrderingWellFounded, by which a family of   *)
(* finite sets has a smallest member.                                      *)
(*                                                                         *)
(* The price table, for any models, families, feed and timetable: a run    *)
(* adds to a history at most one row, of today or of before the window, so *)
(* the row a day is priced by is found by cases; and PricesInv says that   *)
(* the streak in the status file is of runs that did see the price.        *)
(*                                                                         *)
(* The claims of an audit, for any log and any table of prices.  Every     *)
(* detector's claim is a sum of parts, each no more than a call or a day   *)
(* has cost (SumOrder), over rows that are summed once: groups share no    *)
(* row, bursts of a session neither (BurstsApart), and what a quantile     *)
(* reads exists because every place of a sorted set is some row's          *)
(* (EveryPlace).                                                           *)
(*                                                                         *)
(* Noise hides no spike: the median of the days' spending, and that of how *)
(* far they are from it, is the mean of two values that at most half of    *)
(* them are below and at most half above (AreMiddle), so a day that rises  *)
(* further leaves both where they were.                                    *)
(*                                                                         *)
(* A call reads the same whoever reports it: each format's row is computed *)
(* to the one record that the call itself gives.                           *)
(*                                                                         *)
(* A pull that succeeds writes what was used: the client has read every    *)
(* page of every chunk (ReadToTheEnd), so what it heard is in one-to-one   *)
(* correspondence with the figures the provider shows of the use           *)
(* (FigureSums).                                                           *)
(***************************************************************************)
EXTENDS Statements, Audits, FiniteSetTheorems, SequenceTheorems, NaturalsInduction,
        WellFoundedInduction, TLAPS

-----------------------------------------------------------------------------
(* SentIsFinal *)

\* The archive and the transactions are functions and records; of a transaction,
\* the fields the argument is about.
TypeInv ==
    /\ month \in Months /\ issued \in Nat
    /\ DOMAIN stmt = Months
    /\ \A m \in Months : stmt[m] = [is |-> stmt[m].is, doc |-> stmt[m].doc]
    /\ DOMAIN writer = Writers
    /\ \A w \in Writers :
         /\ writer[w] = [step |-> writer[w].step, for |-> writer[w].for, doc |-> writer[w].doc,
                         row |-> writer[w].row, writes |-> writer[w].writes,
                         sentBefore |-> writer[w].sentBefore]
         /\ writer[w].sentBefore \in BOOLEAN

\* A writer that began when its statement was sent still finds it sent, and once
\* it has looked it knows.
Knows ==
    \A w \in Writers : writer[w].sentBefore =>
        /\ writer[w].for \in Months
        /\ stmt[writer[w].for].is = "sent"
        /\ writer[w].writes = {}
        /\ writer[w].step # "built" => writer[w].row.is = "sent"

IInv == TypeInv /\ Knows

\* What one writer does leaves the others' records alone.
LEMMA OneWriter ==
    ASSUME NEW w \in Writers, NEW t, TypeInv, writer' = [writer EXCEPT ![w] = t]
    PROVE  /\ DOMAIN writer' = Writers
           /\ writer'[w] = t
           /\ \A v \in Writers \ {w} : writer'[v] = writer[v]
  BY DEF TypeInv

\* A step that changes one writer's record and not the archive keeps the
\* invariant if the new record does.
LEMMA KeepsArchive ==
    ASSUME NEW w \in Writers, NEW step, NEW for, NEW doc, NEW row, NEW writes,
           NEW before \in BOOLEAN,
           IInv, UNCHANGED stmt, month' \in Months, issued' \in Nat,
           writer' = [writer EXCEPT ![w] = [step |-> step, for |-> for, doc |-> doc, row |-> row,
                                            writes |-> writes, sentBefore |-> before]],
           before => /\ for \in Months /\ stmt[for].is = "sent" /\ writes = {}
                     /\ step # "built" => row.is = "sent"
    PROVE  IInv'
  <1> DEFINE t == [step |-> step, for |-> for, doc |-> doc, row |-> row,
                   writes |-> writes, sentBefore |-> before]
  <1>1. /\ DOMAIN writer' = Writers
        /\ writer'[w] = t
        /\ \A v \in Writers \ {w} : writer'[v] = writer[v]
    BY OneWriter DEF IInv
  <1>2. TypeInv'
    BY <1>1 DEF IInv, TypeInv
  <1>3. Knows'
    BY <1>1 DEF IInv, Knows
  <1> QED BY <1>2, <1>3 DEF IInv

\* At first nothing is archived and nobody writes.
LEMMA Initially == Init => IInv
  <1> SUFFICES ASSUME Init PROVE IInv
    OBVIOUS
  <1>1. month \in Months /\ issued \in Nat
    BY SavingsAssumption DEF Init, SavingsInit, Months
  <1>2. stmt = [m \in Months |-> NoRow] /\ writer = [w \in Writers |-> Resting]
    BY DEF Init
  <1> QED BY <1>1, <1>2 DEF IInv, TypeInv, Knows, Resting, NoRow

\* A writer opens its transaction with what it read of the month.
LEMMA Opening ==
    ASSUME NEW w \in Writers, NEW m \in Months, NEW step, NEW doc, NEW row,
           IInv, UNCHANGED <<stmt, month>>, issued' \in Nat, Opens(w, step, m, doc, row),
           step # "built" => row = stmt[m]
    PROVE  IInv'
  <1> DEFINE before == stmt[m].is = "sent"
  <1>1. before \in BOOLEAN /\ (before => stmt[m].is = "sent")
    OBVIOUS
  <1>2. writer' = [writer EXCEPT ![w] = [step |-> step, for |-> m, doc |-> doc, row |-> row,
                                         writes |-> {}, sentBefore |-> before]]
    BY DEF Opens
  <1>3. month' \in Months
    BY DEF IInv, TypeInv
  <1>4. before => (step # "built" => row.is = "sent")
    OBVIOUS
  <1> HIDE DEF before
  <1> QED BY <1>1, <1>2, <1>3, <1>4, KeepsArchive

\* A writer that rests knows nothing.
LEMMA Resigning ==
    ASSUME NEW w \in Writers, IInv, UNCHANGED <<stmt, month, issued>>, Rest(w)
    PROVE  IInv'
  BY KeepsArchive DEF Rest, Resting, IInv, TypeInv

\* Nobody is told to change a statement that was sent.
LEMMA NothingToChange ==
    ASSUME NEW row, NEW doc, row.is = "sent"
    PROVE  Changes(row, doc) = {}
  BY DEF Changes

\* A writer proceeds, and writes only if it did not find the statement sent.
LEMMA Advancing ==
    ASSUME NEW w \in Writers, NEW step, NEW doc, NEW row, NEW writes, IInv,
           UNCHANGED <<stmt, month, issued>>,
           Proceeds(w, step, doc, row, writes),
           writer[w].sentBefore =>
               writes = {} /\ (step # "built" => row.is = "sent")
    PROVE  IInv'
  <1> DEFINE for == writer[w].for
             before == writer[w].sentBefore
  <1>1. writer' = [writer EXCEPT ![w] = [step |-> step, for |-> for, doc |-> doc, row |-> row,
                                         writes |-> writes, sentBefore |-> before]]
    BY DEF Proceeds, IInv, TypeInv
  <1>2. month' \in Months /\ issued' \in Nat /\ before \in BOOLEAN
    BY DEF IInv, TypeInv
  <1>3. before => /\ for \in Months /\ stmt[for].is = "sent" /\ writes = {}
                  /\ step # "built" => row.is = "sent"
    BY DEF IInv, Knows
  <1> HIDE DEF for, before
  <1> QED BY <1>1, <1>2, <1>3, KeepsArchive

\* A look finds a statement that was sent before.
LEMMA LookKeeps ==
    ASSUME NEW w \in Writers, IInv, Look(w)
    PROVE  IInv'
  <1> DEFINE t == writer[w]
  <1>1. Proceeds(w, "looked", t.doc, stmt[t.for], {}) /\ UNCHANGED <<stmt, month, issued>>
    BY DEF Look, savingsVars
  <1>2. t.sentBefore => stmt[t.for].is = "sent"
    BY DEF IInv, Knows
  <1> QED BY <1>1, <1>2, Advancing

\* Who found it sent has nothing to flush ...
LEMMA FlushKeeps ==
    ASSUME NEW w \in Writers, IInv, Flush(w)
    PROVE  IInv'
  <1> DEFINE t == writer[w]
             changes == Changes(t.row, t.doc)
             doc == IF changes = {} THEN t.row.doc ELSE t.doc
  <1>1. Proceeds(w, "held", doc, t.row, changes) /\ UNCHANGED <<stmt, month, issued>>
    BY DEF Flush, savingsVars
  <1>2. t.sentBefore => t.row.is = "sent"
    BY DEF Flush, IInv, Knows
  <1>3. t.sentBefore => changes = {}
    BY <1>2, NothingToChange
  <1> HIDE DEF changes, doc
  <1> QED BY <1>1, <1>2, <1>3, Advancing

\* ... and marks nothing as sent.
LEMMA MailKeeps ==
    ASSUME NEW w \in Writers, IInv,
           Mail(w) \/ ClickMailFails(w) \/ (w = "job" /\ Withhold)
    PROVE  IInv'
  <1> DEFINE t == writer[w]
  <1>1. t.step = "held" /\ UNCHANGED <<stmt, month, issued>>
    BY DEF Mail, ClickMailFails, Withhold, savingsVars
  <1>2. PICK writes : /\ Proceeds(w, "mailed", t.doc, t.row, writes)
                      /\ t.row.is = "sent" => writes = t.writes
    BY DEF Mail, ClickMailFails, Withhold
  <1>3. t.sentBefore => t.row.is = "sent" /\ t.writes = {}
    BY <1>1 DEF IInv, Knows
  <1> QED BY <1>1, <1>2, <1>3, Advancing

\* A commit changes one month, and leaves it sent if it was.
LEMMA CommitWrites ==
    ASSUME NEW w \in Writers, IInv, Commit(w)
    PROVE  /\ DOMAIN stmt' = Months
           /\ \A m \in Months :
                /\ stmt'[m] = [is |-> stmt'[m].is, doc |-> stmt'[m].doc]
                /\ stmt[m].is = "sent" => stmt'[m].is = "sent"
                /\ (m # writer[w].for \/ writer[w].writes = {}) => stmt'[m] = stmt[m]
  BY DEF Commit, IInv, TypeInv

\* A commit keeps what others know.
LEMMA CommitKeeps ==
    ASSUME NEW w \in Writers, IInv, Commit(w)
    PROVE  IInv'
  <1>1. /\ writer' = [writer EXCEPT ![w] = Resting]
        /\ UNCHANGED <<month, issued>>
    BY DEF Commit, Rest, savingsVars
  <1>2. /\ DOMAIN writer' = Writers
        /\ writer'[w] = Resting
        /\ \A v \in Writers \ {w} : writer'[v] = writer[v]
    BY <1>1, OneWriter DEF IInv
  <1>3. TypeInv'
    BY <1>1, <1>2, CommitWrites DEF IInv, TypeInv, Resting
  <1>4. Knows'
    <2> SUFFICES ASSUME NEW v \in Writers, writer'[v].sentBefore
                 PROVE  /\ writer'[v].for \in Months
                        /\ stmt'[writer'[v].for].is = "sent"
                        /\ writer'[v].writes = {}
                        /\ writer'[v].step # "built" => writer'[v].row.is = "sent"
      BY DEF Knows
    <2>1. v # w
      BY <1>2 DEF Resting
    <2>2. writer'[v] = writer[v]
      BY <1>2, <2>1
    <2> QED BY <2>2, CommitWrites DEF IInv, Knows
  <1> QED BY <1>3, <1>4 DEF IInv

\* The invariant of the archive, over every step.
LEMMA StepKeeps == IInv /\ [Next]_vars => IInv'
  <1> SUFFICES ASSUME IInv, [Next]_vars PROVE IInv'
    OBVIOUS
  <1>1. CASE Money
    <2>1. UNCHANGED <<stmt, writer, issued>>
      BY <1>1 DEF Money
    <2>2. month' \in Months
      <3>1. UNCHANGED month \/ MonthPasses
        BY <1>1 DEF Money, Start, Finish, Vote
      <3>2. ASSUME MonthPasses PROVE month' \in Months
        BY <3>2, SavingsAssumption DEF MonthPasses, IInv, TypeInv, Months
      <3> QED BY <3>1, <3>2 DEF IInv, TypeInv
    <2> QED BY <2>1, <2>2 DEF IInv, TypeInv, Knows
  <1>2. CASE JobBuild
    <2>1. month - 1 \in Months /\ issued' \in Nat
      BY <1>2, SavingsAssumption DEF JobBuild, IInv, TypeInv, Months
    <2>2. Opens("job", "built", month - 1, Doc(month - 1), NoRow) /\ UNCHANGED <<stmt, month>>
      BY <1>2 DEF JobBuild, savingsVars
    <2> QED BY <2>1, <2>2, Opening DEF Writers
  <1>3. CASE Withhold
    BY <1>3, MailKeeps DEF Writers
  <1>4. ASSUME NEW w \in Clicks, NEW m \in 1 .. month, Click(w, m) PROVE IInv'
    <2>1. m \in Months /\ w \in Writers
      BY SavingsAssumption DEF IInv, TypeInv, Months, Writers
    <2>2. UNCHANGED <<stmt, month>> /\ issued' \in Nat
      BY <1>4 DEF Click, savingsVars, IInv, TypeInv
    <2>3. CASE Opens(w, "built", m, Doc(m), NoRow)
      BY <2>1, <2>2, <2>3, Opening
    <2>4. CASE Opens(w, "held", m, stmt[m].doc, stmt[m])
      BY <2>1, <2>2, <2>4, Opening
    <2> QED BY <1>4, <2>3, <2>4 DEF Click
  <1>5. ASSUME NEW w \in Writers, WriterStep(w) PROVE IInv'
    <2>1. CASE Look(w)
      BY <2>1, LookKeeps
    <2>2. CASE Flush(w)
      BY <2>2, FlushKeeps
    <2>3. CASE Mail(w) \/ ClickMailFails(w)
      BY <2>3, MailKeeps
    <2>4. CASE Clash(w) \/ RollBack(w)
      BY <2>4, Resigning DEF Clash, RollBack, savingsVars
    <2>5. CASE Commit(w)
      BY <2>5, CommitKeeps
    <2> QED BY <1>5, <2>1, <2>2, <2>3, <2>4, <2>5 DEF WriterStep
  <1>6. CASE UNCHANGED vars
    BY <1>6 DEF vars, savingsVars, IInv, TypeInv, Knows
  <1> QED BY <1>1, <1>2, <1>3, <1>4, <1>5, <1>6 DEF Next

\* The archive changes by a commit, and a writer that began after the statement
\* was sent has nothing to commit.
LEMMA StepIsFinal ==
    ASSUME IInv, Next, NEW m \in Months, stmt[m].is = "sent", stmt'[m] # stmt[m]
    PROVE  \E w \in Writers : writer[w].for = m /\ ~writer[w].sentBefore /\ writer'[w] = Resting
  <1>1. PICK w \in Writers : Commit(w)
    BY DEF Next, Money, JobBuild, Withhold, Click, WriterStep, Look, Flush, Clash, Mail,
           ClickMailFails, RollBack
  <1>2. writer[w].for = m /\ writer[w].writes # {}
    BY <1>1, CommitWrites
  <1>3. ~writer[w].sentBefore
    BY <1>2 DEF IInv, Knows
  <1>4. writer'[w] = Resting
    BY <1>1 DEF Commit, Rest, IInv, TypeInv
  <1> QED BY <1>2, <1>3, <1>4

\* A statement that was sent is changed by nobody who came after it was sent
\* (build.archive), for any number of clicks beside the job and any history.
THEOREM SentStatementsAreFinal == Spec => SentIsFinal
  <1> DEFINE Final ==
        \A m \in Months :
          (stmt[m].is = "sent" /\ stmt'[m] # stmt[m]) =>
              \E w \in Writers : writer[w].for = m /\ ~writer[w].sentBefore /\ writer'[w] = Resting
  <1>1. IInv /\ [Next]_vars => [Final]_vars
    BY StepIsFinal
  <1> QED BY Initially, StepKeeps, <1>1, PTL DEF Spec, SentIsFinal

-----------------------------------------------------------------------------
(* Smallest and largest members *)

\* A family of finite sets has a smallest member.
LEMMA SmallestSet ==
    ASSUME NEW S, NEW F, F \subseteq FiniteSubsetsOf(S), F # {}
    PROVE  \E T \in F : \A U \in F : ~(U \subseteq T /\ U # T)
  <1>1. PICK T \in F : \A U \in F : <<U, T>> \notin StrictSubsetOrdering(S)
    BY FS_StrictSubsetOrderingWellFounded, WFMin
  <1>2. \A U \in F : U \in SUBSET S
    BY DEF FiniteSubsetsOf
  <1> QED BY <1>1, <1>2 DEF StrictSubsetOrdering

\* Induction over the subsets of a finite set, for a family of sets instead
\* of a predicate.
LEMMA SetInduction ==
    ASSUME NEW S, IsFiniteSet(S), NEW F, {} \in F,
           \A T \in SUBSET S : \A x \in S \ T : T \in F => T \cup {x} \in F
    PROVE  \A T \in SUBSET S : T \in F
  <1> DEFINE bad == {T \in SUBSET S : T \notin F}
  <1> SUFFICES ASSUME NEW B \in SUBSET S, B \notin F PROVE FALSE
    OBVIOUS
  <1>0. B \in bad
    OBVIOUS
  <1>1. bad \subseteq FiniteSubsetsOf(S)
    BY FS_Subset DEF FiniteSubsetsOf
  <1>2. PICK T \in bad : \A U \in bad : ~(U \subseteq T /\ U # T)
    <2> HIDE DEF bad
    <2> QED BY <1>0, <1>1, SmallestSet
  <1>3. PICK x \in T : TRUE
    BY <1>2
  <1>4. T \ {x} \in F
    <2>1. T \ {x} \subseteq T /\ T \ {x} # T /\ T \ {x} \in SUBSET S
      BY <1>3, <1>2
    <2> QED BY <1>2, <2>1
  <1>5. (T \ {x}) \cup {x} = T
    BY <1>3
  <1>6. T \ {x} \in SUBSET S /\ x \in S \ (T \ {x}) /\ T \notin F
    BY <1>2, <1>3
  <1> QED BY <1>4, <1>5, <1>6

\* A finite set of naturals that is not empty has a largest member, and that is Max.
LEMMA MaxIsLargest ==
    ASSUME NEW S, S \subseteq Nat, S # {}, IsFiniteSet(S)
    PROVE  /\ Max(S) \in S
           /\ \A n \in S : n <= Max(S)
  <1> DEFINE F == {T \in SUBSET S : T = {} \/ \E m \in T : \A n \in T : m >= n}
  <1>1. {} \in F
    OBVIOUS
  <1>2. ASSUME NEW T \in SUBSET S, NEW x \in S \ T, T \in F
        PROVE  T \cup {x} \in F
    <2>1. CASE T = {}
      BY <2>1
    <2>2. ASSUME NEW m \in T, \A n \in T : m >= n
          PROVE  \E k \in T \cup {x} : \A n \in T \cup {x} : k >= n
      <3>1. CASE x >= m
        BY <2>2, <3>1
      <3>2. CASE m >= x
        BY <2>2, <3>2
      <3> QED BY <3>1, <3>2
    <2> QED BY <1>2, <2>1, <2>2
  <1>3. S \in F
    <2> HIDE DEF F
    <2> QED BY <1>1, <1>2, SetInduction
  <1>4. \E m \in S : \A n \in S : m >= n
    BY <1>3
  <1> QED BY <1>4 DEF Max

\* A set of naturals that is not empty has a smallest member.
LEMMA SmallestNumber ==
    ASSUME NEW T, T \subseteq Nat, T # {}
    PROVE  \E n \in T : \A k \in T : n <= k
  <1> DEFINE F == {0 .. n : n \in T}
  <1>1. F \subseteq FiniteSubsetsOf(Nat) /\ F # {}
    <2>1. \A n \in Nat : 0 .. n \in SUBSET Nat /\ IsFiniteSet(0 .. n)
      BY FS_Interval
    <2> QED BY <2>1 DEF FiniteSubsetsOf
  <1>2. PICK U \in F : \A V \in F : ~(V \subseteq U /\ V # U)
    <2> HIDE DEF F
    <2> QED BY <1>1, SmallestSet
  <1>3. PICK n \in T : U = 0 .. n
    BY <1>2
  <1>4. ASSUME NEW k \in T, k < n PROVE FALSE
    <2>1. 0 .. k \in F /\ 0 .. k \subseteq U /\ n \in U /\ n \notin 0 .. k
      BY <1>3, <1>4
    <2> QED BY <1>2, <2>1
  <1> QED BY <1>4

\* Induction over the naturals, for a set instead of a predicate.
LEMMA NatSetInduction ==
    ASSUME NEW A, 0 \in A, \A n \in Nat : n \in A => n + 1 \in A
    PROVE  \A n \in Nat : n \in A
  <1> SUFFICES ASSUME NEW b \in Nat, b \notin A PROVE FALSE
    OBVIOUS
  <1>1. PICK n \in Nat \ A : \A k \in Nat \ A : n <= k
    BY SmallestNumber
  <1>2. n # 0
    BY <1>1
  <1>3. n - 1 \in Nat /\ n = (n - 1) + 1 /\ ~(n <= n - 1)
    BY <1>2
  <1> QED BY <1>1, <1>3

-----------------------------------------------------------------------------
(* Sums *)

\* The recursion by which the community modules add up g over a finite set: h
\* takes one chosen element after the other from a set.
Pick(s) == CHOOSE x \in s : TRUE

AddsUp(g, D, h) ==
    \A s \in D : h[s] = IF s = {} THEN 0 ELSE g[Pick(s)] + h[s \ {Pick(s)}]

Weighs(g, S) == IsFiniteSet(S) /\ \A x \in S : g[x] \in Int

\* What is picked from a set is in it.
LEMMA Picked == \A s : s # {} => Pick(s) \in s
  BY DEF Pick

\* There is such an h ...
LEMMA SumsExist ==
    ASSUME NEW S, NEW g, Weighs(g, S)
    PROVE  \E h \in [SUBSET S -> Int] : AddsUp(g, SUBSET S, h)
  <1> DEFINE small(n) == {s \in SUBSET S : Cardinality(s) < n}
             A == {n \in Nat : \E h \in [small(n) -> Int] : AddsUp(g, small(n), h)}
  <1>0. \A s \in SUBSET S :
            /\ IsFiniteSet(s) /\ Cardinality(s) \in Nat /\ Cardinality(s) <= Cardinality(S)
            /\ s # {} => Pick(s) \in S /\ Cardinality(s \ {Pick(s)}) = Cardinality(s) - 1
    BY Picked, FS_Subset, FS_CardinalityType, FS_RemoveElement DEF Weighs
  <1>a. \A s \in SUBSET S : Cardinality(s) \in Nat /\ Cardinality(s) <= Cardinality(S)
    BY <1>0
  <1>1. 0 \in A
    <2>1. small(0) = {}
      <3>1. \A s \in SUBSET S : ~(Cardinality(s) < 0)
        BY <1>a
      <3> QED BY <3>1
    <2>2. [s \in {} |-> 0] \in [{} -> Int]
      OBVIOUS
    <2> QED BY <2>1, <2>2 DEF AddsUp
  <1>2. ASSUME NEW n \in Nat, n \in A PROVE n + 1 \in A
    <2>1. PICK h \in [small(n) -> Int] : AddsUp(g, small(n), h)
      BY <1>2
    <2> DEFINE k == [s \in small(n + 1) |->
                       IF s = {} THEN 0 ELSE g[Pick(s)] + h[s \ {Pick(s)}]]
    <2>2. \A s \in small(n + 1) : s # {} => s \ {Pick(s)} \in small(n) /\ g[Pick(s)] \in Int
      BY <1>0 DEF Weighs
    <2>3. small(n) \subseteq small(n + 1)
      <3>1. \A s \in SUBSET S : Cardinality(s) < n => Cardinality(s) < n + 1
        BY <1>a
      <3> QED BY <3>1
    <2>4. \A s \in small(n) : k[s] = h[s]
      BY <2>1, <2>3 DEF AddsUp
    <2>5. k \in [small(n + 1) -> Int]
      <3> HIDE DEF small
      <3> QED BY <2>2
    <2>6. AddsUp(g, small(n + 1), k)
      <3> HIDE DEF small
      <3> QED BY <2>2, <2>4 DEF AddsUp
    <2> HIDE DEF k, small
    <2> QED BY <2>5, <2>6
  <1>3. \A n \in Nat : n \in A
    <2> HIDE DEF A
    <2> QED BY <1>1, <1>2, NatSetInduction
  <1>4. Cardinality(S) + 1 \in Nat /\ small(Cardinality(S) + 1) = SUBSET S
    <2>1. Cardinality(S) \in Nat
      BY <1>a
    <2>2. \A s \in SUBSET S : Cardinality(s) < Cardinality(S) + 1
      BY <1>a, <2>1
    <2> QED BY <2>1, <2>2
  <1>5. Cardinality(S) + 1 \in A
    <2> HIDE DEF A
    <2> QED BY <1>3, <1>4
  <1> QED BY <1>4, <1>5

\* ... which is the only one, whatever else it is defined on ...
LEMMA SumsAgree ==
    ASSUME NEW S, NEW g, Weighs(g, S), NEW h, NEW k,
           AddsUp(g, SUBSET S, h), AddsUp(g, SUBSET S, k)
    PROVE  \A s \in SUBSET S : h[s] = k[s]
  <1> DEFINE F == {s \in SUBSET S : h[s] # k[s]}
  <1> SUFFICES ASSUME F # {} PROVE FALSE
    OBVIOUS
  <1>1. F \subseteq FiniteSubsetsOf(S)
    BY FS_Subset DEF Weighs, FiniteSubsetsOf
  <1>2. PICK s \in F : \A u \in F : ~(u \subseteq s /\ u # s)
    <2> HIDE DEF F
    <2> QED BY <1>1, SmallestSet
  <1>3. s \in SUBSET S /\ h[s] # k[s] /\ s # {}
    BY <1>2 DEF AddsUp
  <1>4. Pick(s) \in s
    BY <1>3, Picked
  <1>5. s \ {Pick(s)} \in SUBSET S /\ s \ {Pick(s)} \notin F
    BY <1>2, <1>3, <1>4
  <1> QED BY <1>3, <1>5 DEF AddsUp

InAnyOrder(g, S, h) == \A s \in SUBSET S : \A x \in s : h[s] = g[x] + h[s \ {x}]

\* ... and whatever element is taken first.
LEMMA AnyOrder ==
    ASSUME NEW S, NEW g, Weighs(g, S), NEW h, h \in [SUBSET S -> Int], AddsUp(g, SUBSET S, h)
    PROVE  InAnyOrder(g, S, h)
  <1> DEFINE F == {s \in SUBSET S : \E x \in s : h[s] # g[x] + h[s \ {x}]}
  <1> SUFFICES ASSUME F # {} PROVE FALSE
    BY DEF InAnyOrder
  <1>1. F \subseteq FiniteSubsetsOf(S)
    BY FS_Subset DEF Weighs, FiniteSubsetsOf
  <1>2. PICK s \in F : \A u \in F : ~(u \subseteq s /\ u # s)
    <2> HIDE DEF F
    <2> QED BY <1>1, SmallestSet
  <1>3. PICK x \in s : h[s] # g[x] + h[s \ {x}]
    BY <1>2
  <1> DEFINE c == Pick(s)
  <1>4. s \in SUBSET S /\ c \in s /\ h[s] = g[c] + h[s \ {c}]
    BY <1>2, <1>3, Picked DEF AddsUp
  <1> HIDE DEF c
  <1>5. c # x
    BY <1>3, <1>4
  <1>6. ASSUME NEW y \in s, NEW z \in s, y # z
        PROVE  h[s \ {y}] = g[z] + h[(s \ {y}) \ {z}]
    <2>1. s \ {y} \in SUBSET S /\ s \ {y} \notin F /\ z \in s \ {y}
      BY <1>2, <1>4, <1>6
    <2> QED BY <2>1
  <1>7. h[s \ {c}] = g[x] + h[(s \ {c}) \ {x}] /\ h[s \ {x}] = g[c] + h[(s \ {x}) \ {c}]
    BY <1>4, <1>5, <1>6
  <1>8. (s \ {c}) \ {x} = (s \ {x}) \ {c} /\ h[(s \ {c}) \ {x}] \in Int /\ g[x] \in Int /\ g[c] \in Int
    BY <1>4 DEF Weighs
  <1>9. g[c] + (g[x] + h[(s \ {c}) \ {x}]) = g[x] + (g[c] + h[(s \ {c}) \ {x}])
    <2> DEFINE rest == h[(s \ {c}) \ {x}]
    <2>1. rest \in Int /\ g[x] \in Int /\ g[c] \in Int
      BY <1>8
    <2> HIDE DEF rest
    <2> QED BY <2>1
  <1>10. h[s] = g[c] + (g[x] + h[(s \ {c}) \ {x}]) /\ h[s \ {x}] = g[c] + h[(s \ {c}) \ {x}]
    BY <1>4, <1>7, <1>8
  <1> QED BY <1>3, <1>9, <1>10

SumUp(g, S) == (CHOOSE h \in [SUBSET S -> Int] : AddsUp(g, SUBSET S, h))[S]

\* Whatever adds up like this yields the sum.
LEMMA SumUpIs ==
    ASSUME NEW S, NEW g, Weighs(g, S), NEW h, AddsUp(g, SUBSET S, h), NEW T \in SUBSET S
    PROVE  SumUp(g, T) = h[T] /\ SumUp(g, T) \in Int
  <1> DEFINE k == CHOOSE k \in [SUBSET T -> Int] : AddsUp(g, SUBSET T, k)
  <1>1. Weighs(g, T)
    BY FS_Subset DEF Weighs
  <1>2. k \in [SUBSET T -> Int] /\ AddsUp(g, SUBSET T, k)
    BY <1>1, SumsExist
  <1>3. AddsUp(g, SUBSET T, h)
    BY DEF AddsUp
  <1>4. SumUp(g, T) = k[T]
    BY DEF SumUp
  <1> HIDE DEF k
  <1> QED BY <1>1, <1>2, <1>3, <1>4, SumsAgree

\* The sum of nothing, and of one element more.
LEMMA SumUpRules ==
    ASSUME NEW S, NEW g, Weighs(g, S)
    PROVE  /\ SumUp(g, {}) = 0
           /\ \A T \in SUBSET S : SumUp(g, T) \in Int
           /\ \A T \in SUBSET S : \A x \in S \ T : SumUp(g, T \cup {x}) = g[x] + SumUp(g, T)
  <1>1. PICK h \in [SUBSET S -> Int] : AddsUp(g, SUBSET S, h)
    BY SumsExist
  <1>2. \A T \in SUBSET S : SumUp(g, T) = h[T]
    BY <1>1, SumUpIs
  <1>3. InAnyOrder(g, S, h)
    BY <1>1, AnyOrder
  <1>4. h[{}] = 0
    BY <1>1 DEF AddsUp
  <1>5. ASSUME NEW T \in SUBSET S, NEW x \in S \ T
        PROVE  h[T \cup {x}] = g[x] + h[T]
    <2>1. T \cup {x} \in SUBSET S /\ x \in T \cup {x} /\ (T \cup {x}) \ {x} = T
      OBVIOUS
    <2> QED BY <1>3, <2>1 DEF InAnyOrder
  <1>6. \A T \in SUBSET S : \A x \in S \ T : T \cup {x} \in SUBSET S
    OBVIOUS
  <1> QED BY <1>1, <1>2, <1>4, <1>5, <1>6

\* The sum of naturals is natural.
LEMMA SumUpCounts ==
    ASSUME NEW S, NEW g, IsFiniteSet(S), \A x \in S : g[x] \in Nat
    PROVE  SumUp(g, S) \in Nat
  <1> DEFINE F == {T \in SUBSET S : SumUp(g, T) \in Nat}
  <1>1. Weighs(g, S)
    BY DEF Weighs
  <1>2. {} \in F
    BY <1>1, SumUpRules
  <1>3. ASSUME NEW T \in SUBSET S, NEW x \in S \ T, T \in F PROVE T \cup {x} \in F
    <2>1. SumUp(g, T \cup {x}) = g[x] + SumUp(g, T)
      BY <1>1, SumUpRules
    <2> QED BY <1>3, <2>1
  <1>4. S \in F
    <2> HIDE DEF F
    <2> QED BY <1>2, <1>3, SetInduction
  <1> QED BY <1>4

\* Equal weights have equal sums.
LEMMA SumUpSame ==
    ASSUME NEW S, NEW g, NEW k, Weighs(g, S), \A x \in S : g[x] = k[x]
    PROVE  SumUp(g, S) = SumUp(k, S)
  <1>1. PICK h \in [SUBSET S -> Int] : AddsUp(g, SUBSET S, h)
    BY SumsExist
  <1>2. Weighs(k, S)
    BY DEF Weighs
  <1>3. AddsUp(k, SUBSET S, h)
    BY <1>1, Picked DEF AddsUp
  <1> QED BY <1>1, <1>2, <1>3, SumUpIs

\* The fold of the community modules, for the weights g
FoldOf(g, S, i) ==
    i = [s \in SUBSET S |-> IF s = {} THEN 0 ELSE g[Pick(s)] + i[s \ {Pick(s)}]]

\* There is one, and it yields the sum.
LEMMA FoldIs ==
    ASSUME NEW S, NEW g, Weighs(g, S)
    PROVE  /\ \E i : FoldOf(g, S, i)
           /\ \A i : FoldOf(g, S, i) => i[S] = SumUp(g, S)
  <1>1. PICK h \in [SUBSET S -> Int] : AddsUp(g, SUBSET S, h)
    BY SumsExist
  <1>2. FoldOf(g, S, h)
    BY <1>1 DEF FoldOf, AddsUp
  <1>3. ASSUME NEW i, FoldOf(g, S, i) PROVE i[S] = SumUp(g, S)
    <2>1. AddsUp(g, SUBSET S, i)
      BY <1>3 DEF FoldOf, AddsUp
    <2> QED BY <2>1, SumUpIs
  <1> QED BY <1>2, <1>3

\* Total, with the fold it is made of, is such a sum.
LEMMA TotalIs ==
    ASSUME NEW L, IsFiniteSet(L), \A l \in L : l.usd \in Nat
    PROVE  Total(L) = SumUp([l \in L |-> l.usd], L)
  <1> DEFINE g == [l \in L |-> l.usd]
             Rec(i) == i = [s \in SUBSET L |->
                              IF s = {} THEN 0 ELSE Pick(s).usd + i[s \ {Pick(s)}]]
             iter == CHOOSE i : Rec(i)
  <1>1. Total(L) = iter[L]
    BY DEF Total, MapThenSumSet, MapThenFoldSet, Pick
  <1>2. Weighs(g, L)
    BY DEF Weighs
  <1>3. \A i : Rec(i) <=> FoldOf(g, L, i)
    BY Picked DEF FoldOf
  <1> HIDE DEF g, Rec
  <1> QED BY <1>1, <1>2, <1>3, FoldIs DEF g

\* The sum over two sets that share nothing is the sum of the sums.
LEMMA SumSplit ==
    ASSUME NEW L, NEW K, NEW g, Weighs(g, L \cup K), L \cap K = {}
    PROVE  SumUp(g, L \cup K) = SumUp(g, L) + SumUp(g, K)
  <1> DEFINE S == L \cup K
             F == {T \in SUBSET K : SumUp(g, L \cup T) = SumUp(g, L) + SumUp(g, T)}
  <1>1. SumUp(g, {}) = 0 /\ (\A T \in SUBSET S : SumUp(g, T) \in Int)
          /\ \A T \in SUBSET S : \A x \in S \ T : SumUp(g, T \cup {x}) = g[x] + SumUp(g, T)
    BY SumUpRules
  <1>2. {} \in F
    <2>1. L \cup {} = L /\ SumUp(g, L) \in Int
      BY <1>1
    <2> QED BY <1>1, <2>1
  <1>3. ASSUME NEW T \in SUBSET K, NEW x \in K \ T, T \in F PROVE T \cup {x} \in F
    <2>1. SumUp(g, L \cup T) = SumUp(g, L) + SumUp(g, T)
      BY <1>3
    <2>2. L \cup T \in SUBSET S /\ T \in SUBSET S /\ x \in S \ (L \cup T) /\ x \in S \ T
            /\ L \cup (T \cup {x}) = (L \cup T) \cup {x}
      BY <1>3
    <2>3. SumUp(g, (L \cup T) \cup {x}) = g[x] + SumUp(g, L \cup T)
            /\ SumUp(g, T \cup {x}) = g[x] + SumUp(g, T)
      BY <1>1, <2>2
    <2>4. g[x] \in Int /\ SumUp(g, L) \in Int /\ SumUp(g, T) \in Int
      BY <1>1, <2>2 DEF Weighs
    <2>5. g[x] + (SumUp(g, L) + SumUp(g, T)) = SumUp(g, L) + (g[x] + SumUp(g, T))
      BY <2>4
    <2>6. SumUp(g, L \cup (T \cup {x})) = SumUp(g, L) + SumUp(g, T \cup {x})
      BY <2>1, <2>2, <2>3, <2>5
    <2> QED BY <2>6
  <1>4. IsFiniteSet(K)
    BY FS_Subset DEF Weighs
  <1>5. K \in F
    <2> HIDE DEF F
    <2> QED BY <1>2, <1>3, <1>4, SetInduction
  <1> QED BY <1>5

\* A part of what weighs nothing less than zero is no heavier than the whole.
LEMMA SumOfPart ==
    ASSUME NEW S, NEW T \in SUBSET S, NEW g, IsFiniteSet(S), \A x \in S : g[x] \in Nat
    PROVE  SumUp(g, T) <= SumUp(g, S) /\ SumUp(g, T) \in Nat /\ SumUp(g, S) \in Nat
  <1>1. T \cup (S \ T) = S /\ T \cap (S \ T) = {}
    OBVIOUS
  <1>2. IsFiniteSet(T) /\ IsFiniteSet(S \ T)
    BY FS_Subset
  <1>3. Weighs(g, S)
    BY DEF Weighs
  <1>4. SumUp(g, S) = SumUp(g, T) + SumUp(g, S \ T)
    BY <1>1, <1>3, SumSplit
  <1>5. SumUp(g, T) \in Nat /\ SumUp(g, S \ T) \in Nat
    BY <1>2, SumUpCounts
  <1> QED BY <1>4, <1>5

\* What weighs less one by one weighs less together: c times g against d times k.
LEMMA SumOrder ==
    ASSUME NEW S, NEW g, NEW k, NEW c \in Int, NEW d \in Int, Weighs(g, S), Weighs(k, S),
           \A x \in S : c * g[x] <= d * k[x]
    PROVE  c * SumUp(g, S) <= d * SumUp(k, S) /\ SumUp(g, S) \in Int /\ SumUp(k, S) \in Int
  <1> DEFINE F == {T \in SUBSET S : c * SumUp(g, T) <= d * SumUp(k, T)}
  <1>1. \A u \in {g, k} : /\ SumUp(u, {}) = 0 /\ (\A T \in SUBSET S : SumUp(u, T) \in Int)
                          /\ \A T \in SUBSET S : \A x \in S \ T : SumUp(u, T \cup {x}) = u[x] + SumUp(u, T)
    BY SumUpRules
  <1>2. {} \in F
    BY <1>1
  <1>3. ASSUME NEW T \in SUBSET S, NEW x \in S \ T, T \in F PROVE T \cup {x} \in F
    <2> DEFINE a == SumUp(g, T)
               b == SumUp(k, T)
    <2>1. a \in Int /\ b \in Int /\ g[x] \in Int /\ k[x] \in Int
      BY <1>1 DEF Weighs
    <2>2. c * a <= d * b /\ c * g[x] <= d * k[x]
      BY <1>3
    <2>3. SumUp(g, T \cup {x}) = g[x] + a /\ SumUp(k, T \cup {x}) = k[x] + b
      BY <1>1
    <2> HIDE DEF a, b
    <2>4. /\ c * (g[x] + a) = c * g[x] + c * a /\ c * g[x] \in Int /\ c * a \in Int
          /\ d * (k[x] + b) = d * k[x] + d * b /\ d * k[x] \in Int /\ d * b \in Int
      BY <2>1
    <2>5. c * g[x] + c * a <= d * k[x] + d * b
      BY <2>1, <2>2, <2>4
    <2> QED BY <2>3, <2>4, <2>5
  <1>4. S \in F
    <2> HIDE DEF F
    <2> QED BY <1>2, <1>3, SetInduction DEF Weighs
  <1> QED BY <1>1, <1>4

-----------------------------------------------------------------------------
(* Ranks *)

\* The rows at or before r, by the number F and then by row number
UpToRow(S, F, r) == {q \in S : F[q] < F[r] \/ (F[q] = F[r] /\ q.row <= r.row)}

Numbered(S) == /\ IsFiniteSet(S)
               /\ \A r \in S : r.row \in Int
               /\ \A q, r \in S : q.row = r.row => q = r

\* Every place is somebody's.
LEMMA EveryPlace ==
    ASSUME NEW S, NEW F, Numbered(S), \A r \in S : F[r] \in Int
    PROVE  \A i \in 1 .. Cardinality(S) : \E r \in S : i = Cardinality(UpToRow(S, F, r))
  <1> DEFINE n == Cardinality(S)
             before(r) == UpToRow(S, F, r)
             place == [r \in S |-> Cardinality(before(r))]
  <1>1. n \in Nat /\ IsFiniteSet(S)
    BY FS_CardinalityType DEF Numbered
  <1>2. \A r \in S : r \in before(r) /\ before(r) \in SUBSET S
    BY DEF UpToRow, Numbered
  <1>3. \A r \in S : /\ IsFiniteSet(before(r)) /\ Cardinality(before(r)) \in Nat
                     /\ Cardinality(before(r)) <= n
                     /\ Cardinality(before(r)) # 0
    <2> SUFFICES ASSUME NEW r \in S
                 PROVE  /\ IsFiniteSet(before(r)) /\ Cardinality(before(r)) \in Nat
                        /\ Cardinality(before(r)) <= n
                        /\ Cardinality(before(r)) # 0
      OBVIOUS
    <2>1. r \in before(r) /\ before(r) \in SUBSET S
      BY <1>2
    <2> HIDE DEF before
    <2> QED BY <1>1, <2>1, FS_Subset, FS_CardinalityType, FS_EmptySet
  <1>4. \A q, r \in S : q # r => before(q) # before(r)
    BY DEF UpToRow, Numbered
  <1>5. \A q, r \in S : before(q) \subseteq before(r) \/ before(r) \subseteq before(q)
    BY DEF UpToRow, Numbered
  <1>6. ASSUME NEW q \in S, NEW r \in S, Cardinality(before(q)) = Cardinality(before(r)) PROVE q = r
    <2> HIDE DEF before
    <2>1. CASE before(q) \subseteq before(r)
      <3>1. before(q) = before(r)
        BY <1>3, <1>6, <2>1, FS_Subset
      <3> QED BY <3>1, <1>4
    <2>2. CASE before(r) \subseteq before(q)
      <3>1. before(q) = before(r)
        BY <1>3, <1>6, <2>2, FS_Subset
      <3> QED BY <3>1, <1>4
    <2> QED BY <1>5, <2>1, <2>2
  <1>7. place \in Injection(S, 1 .. n)
    <2> HIDE DEF before
    <2>1. place \in [S -> 1 .. n]
      BY <1>1, <1>3
    <2> QED BY <1>6, <2>1 DEF Injection, IsInjective
  <1>8. IsFiniteSet(1 .. n) /\ Cardinality(1 .. n) = n
    BY <1>1, FS_Interval
  <1>9. place \in Surjection(S, 1 .. n)
    <2> HIDE DEF place
    <2> QED BY <1>7, <1>8, FS_Injection
  <1> QED BY <1>9 DEF Surjection

-----------------------------------------------------------------------------
(* The history of audits and votes *)

AuditRows ==
    [at : Nat, month : Months, source : Sources, ready : {None}]
        \cup [at : Nat, month : Months, source : Sources,
              ready : [at : Nat, month : Months], log : Logs]

\* A vote is about a finding of a finished audit.
IsVote(x) == x = <<x[1], x[2]>> /\ x[1] \in Done /\ x[2] \in DOMAIN Found(x[1])

VotesInv ==
    /\ IsFiniteSet(DOMAIN fb)
    /\ \A x \in DOMAIN fb :
         /\ IsVote(x) /\ fb[x].verdict \in Verdicts
         /\ fb[x].at \in Nat /\ fb[x].at < clock /\ fb[x].month \in Months
    /\ \A x, y \in DOMAIN fb : fb[x].at = fb[y].at => x = y

HistoryInv == month \in Months /\ clock \in Nat /\ audits \in Seq(AuditRows)

MoneyInv == HistoryInv /\ VotesInv

\* The first month: no audit, no vote.
LEMMA MoneyInit == SavingsInit => MoneyInv
  <1> SUFFICES ASSUME SavingsInit PROVE MoneyInv
    OBVIOUS
  <1>1. month \in Months /\ clock \in Nat /\ audits \in Seq(AuditRows)
    BY SavingsAssumption DEF SavingsInit, Months
  <1>2. DOMAIN fb = {}
    BY DEF SavingsInit
  <1> QED BY <1>1, <1>2, FS_EmptySet DEF MoneyInv, HistoryInv, VotesInv

\* What is done stays as it is when the history grows.
Grows ==
    /\ audits' \in Seq(AuditRows)
    /\ Done \subseteq Done'
    /\ \A i \in Done : audits'[i] = audits[i]

\* What the types of the history say of its audits.
LEMMA HistoryTypes ==
    ASSUME HistoryInv
    PROVE  /\ Len(audits) \in Nat /\ DOMAIN audits = 1 .. Len(audits)
           /\ \A i \in DOMAIN audits : audits[i] \in AuditRows
  BY DEF HistoryInv

\* A new audit is appended ...
LEMMA StartGrows ==
    ASSUME HistoryInv, NEW source \in Sources, Start(source)
    PROVE  Grows
  <1> DEFINE row == [at |-> clock, month |-> month, source |-> source, ready |-> None]
  <1>1. row \in AuditRows
    BY DEF AuditRows, HistoryInv
  <1>2. audits' = Append(audits, row)
    BY DEF Start
  <1> HIDE DEF row
  <1>3. /\ audits' \in Seq(AuditRows)
        /\ DOMAIN audits \subseteq DOMAIN audits'
        /\ \A i \in DOMAIN audits : audits'[i] = audits[i]
    BY <1>1, <1>2, HistoryTypes, AppendProperties DEF HistoryInv
  <1> QED BY <1>3 DEF Grows, Done

\* ... and one that finishes is not yet among the finished ones.
LEMMA FinishGrows ==
    ASSUME HistoryInv, NEW i \in DOMAIN audits, Finish(i)
    PROVE  Grows
  <1>1. PICK log \in Logs :
           audits' = [audits EXCEPT ![i] = [at |-> @.at, month |-> @.month, source |-> @.source,
                          ready |-> [at |-> clock, month |-> month], log |-> log]]
    BY DEF Finish
  <1> DEFINE row == [at |-> audits[i].at, month |-> audits[i].month, source |-> audits[i].source,
                          ready |-> [at |-> clock, month |-> month], log |-> log]
  <1>2. row \in AuditRows
    <2>1. audits[i].at \in Nat /\ audits[i].month \in Months /\ audits[i].source \in Sources
      BY HistoryTypes DEF AuditRows
    <2>2. [at |-> clock, month |-> month] \in [at : Nat, month : Months]
      BY DEF HistoryInv
    <2> QED BY <2>1, <2>2 DEF AuditRows
  <1>3. audits' = [audits EXCEPT ![i] = row]
    BY <1>1
  <1> HIDE DEF row
  <1>4. /\ audits' \in Seq(AuditRows)
        /\ DOMAIN audits = DOMAIN audits'
        /\ \A j \in DOMAIN audits \ {i} : audits'[j] = audits[j]
    BY <1>2, <1>3, HistoryTypes, ExceptSeq DEF HistoryInv
  <1> QED BY <1>4 DEF Grows, Done, Finish

\* Votes keep their meaning while the history grows.
LEMMA VotesFrame ==
    ASSUME VotesInv, Grows, UNCHANGED fb, clock \in Nat, clock' \in Nat, clock <= clock'
    PROVE  VotesInv'
  <1>1. \A x : IsVote(x) => IsVote(x)'
    BY DEF IsVote, Grows, Found
  <1> QED BY <1>1 DEF VotesInv

\* A vote is later than all votes before it.
LEMMA VoteKeeps ==
    ASSUME MoneyInv, NEW i \in Done, NEW v \in Verdicts, NEW n \in DOMAIN Found(i), Vote(i, n, v)
    PROVE  VotesInv'
  <1> DEFINE x0 == <<i, n>>
             vote == [verdict |-> v, at |-> clock, month |-> month]
  <1>1. /\ DOMAIN fb' = DOMAIN fb \cup {x0}
        /\ fb'[x0] = vote
        /\ \A x \in DOMAIN fb \ {x0} : fb'[x] = fb[x]
    BY DEF Vote
  <1>2. IsVote(x0)' /\ \A x : IsVote(x) => IsVote(x)'
    BY DEF Vote, IsVote, Done, Found
  <1>4. clock \in Nat /\ clock' = clock + 1 /\ month \in Months
    BY DEF Vote, MoneyInv, HistoryInv
  <1>5. vote.at = clock /\ vote.month \in Months /\ vote.verdict \in Verdicts
    BY <1>4
  <1> HIDE DEF x0, vote
  <1>3. IsFiniteSet(DOMAIN fb')
    BY <1>1, FS_AddElement DEF MoneyInv, VotesInv
  <1>6. \A x \in DOMAIN fb' :
           IsVote(x)' /\ fb'[x].verdict \in Verdicts /\ fb'[x].at \in Nat /\ fb'[x].at < clock' /\ fb'[x].month \in Months
    BY <1>1, <1>2, <1>4, <1>5 DEF MoneyInv, VotesInv
  <1>7. \A x, y \in DOMAIN fb' : fb'[x].at = fb'[y].at => x = y
    BY <1>1, <1>4, <1>5 DEF MoneyInv, VotesInv
  <1> QED BY <1>3, <1>6, <1>7 DEF VotesInv

\* Statements and mails leave the history alone.
LEMMA MoneyStep == MoneyInv /\ [Next]_vars => MoneyInv'
  <1> SUFFICES ASSUME MoneyInv, [Next]_vars PROVE MoneyInv'
    OBVIOUS
  <1>1. CASE UNCHANGED savingsVars
    BY <1>1 DEF savingsVars, MoneyInv, HistoryInv, VotesInv, IsVote, Done, Found
  <1>2. ASSUME NEW source \in Sources, Start(source) PROVE MoneyInv'
    <2>1. Grows
      BY <1>2, StartGrows DEF MoneyInv
    <2>2. UNCHANGED <<fb, month>> /\ clock \in Nat /\ clock' = clock + 1
      BY <1>2 DEF Start, MoneyInv, HistoryInv
    <2>3. VotesInv'
      BY <2>1, <2>2, VotesFrame DEF MoneyInv
    <2> QED BY <2>1, <2>2, <2>3 DEF MoneyInv, HistoryInv, Grows, Months
  <1>3. ASSUME NEW i \in DOMAIN audits, Finish(i) PROVE MoneyInv'
    <2>1. Grows
      BY <1>3, FinishGrows DEF MoneyInv
    <2>2. UNCHANGED <<fb, month>> /\ clock \in Nat /\ clock' = clock + 1
      BY <1>3 DEF Finish, MoneyInv, HistoryInv
    <2>3. VotesInv'
      BY <2>1, <2>2, VotesFrame DEF MoneyInv
    <2> QED BY <2>1, <2>2, <2>3 DEF MoneyInv, HistoryInv, Grows, Months
  <1>4. ASSUME NEW i \in Done, NEW v \in Verdicts, NEW n \in DOMAIN Found(i), Vote(i, n, v)
        PROVE  MoneyInv'
    BY <1>4, VoteKeeps DEF MoneyInv, HistoryInv, Vote
  <1>5. CASE MonthPasses
    <2>1. month' \in Months
      BY <1>5, SavingsAssumption DEF MonthPasses, MoneyInv, HistoryInv, Months
    <2> QED BY <1>5, <2>1 DEF MonthPasses, MoneyInv, HistoryInv, VotesInv, IsVote, Done, Found
  <1>6. Money => UNCHANGED savingsVars \/ MoneyInv'
    BY <1>2, <1>3, <1>4, <1>5 DEF Money
  <1>7. UNCHANGED savingsVars \/ Money
    BY DEF Next, vars, JobBuild, Withhold, Click, WriterStep, Look, Flush, Clash, Mail,
           ClickMailFails, RollBack, Commit
  <1> QED BY <1>1, <1>6, <1>7

-----------------------------------------------------------------------------
(* Verified savings *)

\* The latest of some finished audits is one of them.
LEMMA LatestIs ==
    ASSUME HistoryInv, NEW I, I \subseteq Done, I # {}
    PROVE  /\ Latest(I) \in I
           /\ \A i \in I : i <= Latest(I)
  <1>1. I \subseteq 1 .. Len(audits) /\ Len(audits) \in Nat
    BY HistoryTypes DEF Done
  <1>2. I \subseteq Nat /\ IsFiniteSet(I)
    <2>1. IsFiniteSet(1 .. Len(audits))
      BY <1>1, FS_Interval
    <2>2. I \subseteq Nat
      BY <1>1
    <2> QED BY <1>1, <2>1, <2>2, FS_Subset
  <1>3. Max(I) \in I /\ \A i \in I : i <= Max(I)
    BY <1>2, MaxIsLargest
  <1> QED BY <1>3 DEF Latest

\* What is known of a finished audit and of what its log shows.
LEMMA DoneRow ==
    ASSUME HistoryInv, NEW i \in Done
    PROVE  /\ audits[i].log \in Logs /\ audits[i].ready \in [at : Nat, month : Months]
           /\ audits[i].at \in Nat /\ audits[i].month \in Months
           /\ \A b \in Traffic(i) : b[1] \in Months
  <1>1. audits[i] \in AuditRows /\ audits[i].ready # None
    BY HistoryTypes DEF Done
  <1>2. audits[i].log \in Logs /\ audits[i].ready \in [at : Nat, month : Months]
          /\ audits[i].at \in Nat /\ audits[i].month \in Months
    BY <1>1 DEF AuditRows
  <1> QED BY <1>2, SavingsAssumption DEF Traffic, Months

\* The findings of an audit: a list of rows that are told apart by their number.
LEMMA FoundRows ==
    ASSUME HistoryInv, NEW i \in Done
    PROVE  /\ Found(i) \in Seq([row : Nat, route : Routes, usd : Nat])
           /\ DOMAIN Found(i) \subseteq Nat /\ IsFiniteSet(DOMAIN Found(i))
           /\ \A n \in DOMAIN Found(i) :
                 Found(i)[n].route \in Routes /\ Found(i)[n].usd \in Nat /\ Found(i)[n].row \in Nat
           /\ \A n, k \in DOMAIN Found(i) : Found(i)[n].row = Found(i)[k].row => n = k
  <1> DEFINE found == Found(i)
             Rows0 == [row : Nat, route : Routes, usd : Nat]
  <1>1. /\ found \in Seq(Rows0)
        /\ \A n, k \in DOMAIN found : found[n].row = found[k].row => n = k
    BY DoneRow, SavingsAssumption DEF Found
  <1> HIDE DEF found, Rows0
  <1>2. DOMAIN found = 1 .. Len(found) /\ Len(found) \in Nat /\ \A n \in DOMAIN found : found[n] \in Rows0
    BY <1>1, ElementOfSeq, LenProperties
  <1>3. IsFiniteSet(1 .. Len(found))
    <2>1. Len(found) \in Int /\ 1 \in Int
      BY <1>2
    <2> HIDE DEF found
    <2> QED BY <2>1, FS_Interval
  <1>4. \A n \in DOMAIN found : found[n].route \in Routes /\ found[n].usd \in Nat /\ found[n].row \in Nat
    BY <1>2 DEF Rows0
  <1>5. DOMAIN found \subseteq Nat /\ IsFiniteSet(DOMAIN found)
    BY <1>2, <1>3
  <1> QED BY <1>1, <1>4, <1>5 DEF found, Rows0

\* The places of a route among them, and their amounts
LEMMA PlacesOf ==
    ASSUME HistoryInv, NEW i \in Done, NEW r
    PROVE  /\ Of(i, r) \subseteq DOMAIN Found(i) /\ IsFiniteSet(Of(i, r))
           /\ AmountsAt(i, r) \subseteq Nat /\ IsFiniteSet(AmountsAt(i, r))
           /\ Of(i, r) # {} => Max(Of(i, r)) \in Of(i, r)
  <1>1. Of(i, r) \subseteq DOMAIN Found(i) /\ IsFiniteSet(Of(i, r)) /\ Of(i, r) \subseteq Nat
    <2>1. Of(i, r) \subseteq DOMAIN Found(i)
      BY DEF Of
    <2> QED BY <2>1, FoundRows, FS_Subset
  <1>2. AmountsAt(i, r) \subseteq Nat
    BY <1>1, FoundRows DEF AmountsAt
  <1>3. IsFiniteSet(AmountsAt(i, r))
    <2> DEFINE f == [n \in Of(i, r) |-> Found(i)[n].usd]
    <2>1. f \in Surjection(Of(i, r), AmountsAt(i, r))
      BY DEF Surjection, AmountsAt
    <2> QED BY <1>1, <2>1, FS_Surjection
  <1> QED BY <1>1, <1>2, <1>3, MaxIsLargest

\* R1 gives a route one fix, since no two votes are of one time.
LEMMA FixedOnce ==
    ASSUME MoneyInv, NEW r, NEW x \in Fixed(r), NEW y \in Fixed(r)
    PROVE  x = y
  <1>1. x \in DOMAIN fb /\ y \in DOMAIN fb /\ fb[x].at \in Nat /\ fb[y].at \in Nat
    BY DEF Fixed, Applied, VotesOn, MoneyInv, VotesInv
  <1>2. fb[x].at <= fb[y].at /\ fb[y].at <= fb[x].at
    BY DEF Fixed
  <1> QED BY <1>1, <1>2 DEF MoneyInv, VotesInv

\* A fix is a vote on a finding of its route.
LEMMA FixIsVote ==
    ASSUME MoneyInv, NEW r, NEW x \in Fixed(r)
    PROVE  /\ x \in DOMAIN fb /\ RouteOf(x) = r /\ x[1] \in Done /\ x[2] \in DOMAIN Found(x[1])
           /\ x[2] \in Of(x[1], r) /\ UsdOf(x) \in AmountsAt(x[1], r) /\ UsdOf(x) \in Nat
  <1>1. x \in DOMAIN fb /\ RouteOf(x) = r /\ x[1] \in Done /\ x[2] \in DOMAIN Found(x[1])
    BY DEF Fixed, Applied, VotesOn, MoneyInv, VotesInv, IsVote
  <1> QED BY <1>1, FoundRows DEF MoneyInv, Of, AmountsAt, RouteOf, UsdOf
\* The audit that proves a saving qualifies, and says something of the route.
LEMMA ProofQualifies ==
    ASSUME MoneyInv, NEW x \in VerifiedIn(None)
    PROVE  /\ Latest(Qualifying(x)) \in Qualifying(x)
           /\ Qualifying(x) \subseteq Done
           /\ \/ Of(Latest(Qualifying(x)), RouteOf(x)) # {}
              \/ HadTraffic(Latest(Qualifying(x)), RouteOf(x))
  <1>1. Qualifying(x) \subseteq Done
    BY DEF Qualifying
  <1>2. ~Pending(x)
    BY DEF VerifiedIn
  <1>3. Qualifying(x) # {}
    BY <1>2 DEF Pending
  <1> QED BY <1>1, <1>2, <1>3, LatestIs DEF Pending, MoneyInv

\* What it says is the amount of a finding of the route, if it has one.
LEMMA RecomputedIs ==
    ASSUME MoneyInv, NEW x \in VerifiedIn(None)
    PROVE  LET again == Of(Latest(Qualifying(x)), RouteOf(x))
           IN  /\ Recomputed(x) \in Nat
               /\ again # {} => Recomputed(x) \in AmountsAt(Latest(Qualifying(x)), RouteOf(x))
  <1> DEFINE check == Latest(Qualifying(x))
             again == Of(check, RouteOf(x))
  <1>1. check \in Done
    BY ProofQualifies
  <1>2. Recomputed(x) = IF again = {} THEN 0 ELSE Found(check)[Max(again)].usd
    BY DEF Recomputed
  <1>3. AmountsAt(check, RouteOf(x)) = {Found(check)[n].usd : n \in again}
    BY DEF AmountsAt
  <1> HIDE DEF check
  <1>4. AmountsAt(check, RouteOf(x)) \subseteq Nat /\ (again # {} => Max(again) \in again)
    BY <1>1, PlacesOf DEF MoneyInv
  <1> HIDE DEF again
  <1>5. again # {} => Recomputed(x) \in AmountsAt(check, RouteOf(x))
    BY <1>2, <1>3, <1>4
  <1>6. Recomputed(x) \in Nat
    BY <1>2, <1>4, <1>5
  <1> QED BY <1>5, <1>6 DEF check, again

\* Of two numbers, the smaller.
LEMMA MinOfTwo ==
    ASSUME NEW a \in Nat, NEW b \in Nat
    PROVE  Min({a, b}) \in Nat /\ Min({a, b}) <= a /\ Min({a, b}) <= b
  <1>1. \E x \in {a, b} : \A y \in {a, b} : x =< y
    <2>1. CASE a <= b
      BY <2>1
    <2>2. CASE b <= a
      BY <2>2
    <2> QED BY <2>1, <2>2
  <1> QED BY <1>1 DEF Min

\* A credit is at most what the fixed finding claimed, and with what the proof found no more.
LEMMA CreditBound ==
    ASSUME MoneyInv, NEW x \in VerifiedIn(None)
    PROVE  /\ x \in Fixes /\ x[1] \in Done /\ RouteOf(x) \in Routes
           /\ UsdOf(x) \in AmountsAt(x[1], RouteOf(x))
           /\ UsdOf(x) \in Nat
           /\ Credit(x) \in Nat
           /\ Credit(x) <= UsdOf(x)
           /\ Credit(x) > 0 => Credit(x) + Recomputed(x) <= UsdOf(x)
  <1>1. PICK r \in Routes : x \in Fixed(r)
    BY DEF VerifiedIn, Fixes
  <1>2. RouteOf(x) = r /\ x[1] \in Done /\ UsdOf(x) \in AmountsAt(x[1], r)
    BY <1>1, FixIsVote
  <1> DEFINE baseline == UsdOf(x)
  <1>3. baseline \in Nat
    BY <1>1, FixIsVote
  <1>4. Recomputed(x) \in Nat
    BY RecomputedIs
  <1>5. Credit(x) = IF Recomputed(x) < baseline
                    THEN Min({baseline - Recomputed(x), baseline}) ELSE 0
    BY DEF Credit
  <1> HIDE DEF baseline
  <1>6. Recomputed(x) < baseline => baseline - Recomputed(x) \in Nat
    BY <1>3, <1>4
  <1>7. /\ Credit(x) \in Nat /\ Credit(x) <= baseline
        /\ Credit(x) > 0 => Credit(x) + Recomputed(x) <= baseline
    BY <1>3, <1>4, <1>5, <1>6, MinOfTwo
  <1>8. x \in Fixes
    BY <1>1 DEF Fixes
  <1> QED BY <1>1, <1>2, <1>3, <1>7, <1>8 DEF baseline

\* The fields of a line.
LEMMA LineIs ==
    ASSUME NEW period, NEW l \in Lines(period)
    PROVE  /\ l.fix \in VerifiedIn(period) /\ l.proof = Latest(Qualifying(l.fix))
           /\ l.usd = Credit(l.fix)
           /\ l = [fix |-> l.fix, proof |-> Latest(Qualifying(l.fix)), usd |-> Credit(l.fix)]
  BY DEF Lines

\* The first half of CreditIsEarned.
LEMMA Measured ==
    ASSUME MoneyInv, NEW l \in Lines(None), l.usd > 0
    PROVE  LET r == RouteOf(l.fix)
           IN  \E i \in Done :
                /\ audits[i].at > fb[l.fix].at /\ audits[i].log.observed >= MinVerifyDays
                /\ \/ \E usd \in AmountsAt(i, r) : l.usd + usd <= UsdOf(l.fix)
                   \/ Of(i, r) = {} /\ \E b \in Traffic(i) : b[2] = ModelOf[r]
  <1> DEFINE x == l.fix
             i == Latest(Qualifying(x))
             r == RouteOf(x)
  <1>1. x \in VerifiedIn(None) /\ l.usd = Credit(x)
    BY LineIs
  <1> HIDE DEF x
  <1>2. i \in Qualifying(x) /\ i \in Done /\ (Of(i, r) # {} \/ HadTraffic(i, r))
    BY <1>1, ProofQualifies
  <1>3. l.usd + Recomputed(x) <= UsdOf(x)
    BY <1>1, CreditBound
  <1>4. Of(i, r) # {} => Recomputed(x) \in AmountsAt(i, r)
    BY <1>1, RecomputedIs
  <1>5. audits[i].at > fb[x].at /\ audits[i].log.observed >= MinVerifyDays
    BY <1>2 DEF Qualifying
  <1> HIDE DEF i, r
  <1>6. HadTraffic(i, r) => \E b \in Traffic(i) : b[2] = ModelOf[r]
    BY DEF HadTraffic
  <1>7. \/ \E usd \in AmountsAt(i, r) : l.usd + usd <= UsdOf(x)
        \/ Of(i, r) = {} /\ \E b \in Traffic(i) : b[2] = ModelOf[r]
    BY <1>2, <1>3, <1>4, <1>6
  <1> QED BY <1>2, <1>5, <1>7 DEF x, r

\* What is credited for a route is the credit of its one fix.
LEMMA OneLine ==
    ASSUME MoneyInv, NEW r \in Routes
    PROVE  LET L == {l \in Lines(None) : RouteOf(l.fix) = r}
           IN  L = {} \/ \E l \in L : L = {l}
  <1> DEFINE L == {l \in Lines(None) : RouteOf(l.fix) = r}
  <1>1. ASSUME NEW l \in L, NEW k \in L PROVE l = k
    <2>1. l.fix \in Fixed(r) /\ k.fix \in Fixed(r)
      <3>1. ASSUME NEW j \in L PROVE j.fix \in Fixed(r)
        <4>1. j.fix \in Fixes
          BY LineIs DEF VerifiedIn
        <4>2. PICK q \in Routes : j.fix \in Fixed(q)
          BY <4>1 DEF Fixes
        <4> QED BY <4>2, FixIsVote
      <3> QED BY <3>1
    <2>2. l.fix = k.fix
      BY <2>1, FixedOnce
    <2> QED BY <2>2, LineIs
  <1> QED BY <1>1

\* Nothing adds up to zero ...
LEMMA TotalOfNone == Total({}) = 0
  <1>1. Total({}) = SumUp([k \in {} |-> k.usd], {})
    BY TotalIs, FS_EmptySet
  <1>2. Weighs([k \in {} |-> k.usd], {})
    BY FS_EmptySet DEF Weighs
  <1> QED BY <1>1, <1>2, SumUpRules

\* ... and one line to itself.
LEMMA TotalOfOne ==
    ASSUME NEW l, l.usd \in Nat
    PROVE  Total({l}) = l.usd
  <1> DEFINE g == [k \in {l} |-> k.usd]
  <1>1. Weighs(g, {l}) /\ g[l] = l.usd
    <2>1. \A x \in {l} : g[x] = l.usd
      OBVIOUS
    <2> HIDE DEF g
    <2> QED BY <2>1, FS_Singleton DEF Weighs
  <1>2. Total({l}) = SumUp(g, {l})
    BY TotalIs, FS_Singleton
  <1> HIDE DEF g
  <1>5. SumUp(g, {}) = 0 /\ SumUp(g, {} \cup {l}) = g[l] + SumUp(g, {})
    BY <1>1, SumUpRules
  <1>6. {} \cup {l} = {l}
    OBVIOUS
  <1> QED BY <1>1, <1>2, <1>5, <1>6

\* What the audits found on a route has a maximum.
LEMMA AmountsOf ==
    ASSUME MoneyInv, NEW r
    PROVE  LET S == {0} \cup UNION {AmountsAt(i, r) : i \in Done}
           IN  /\ Max(S) \in Nat
               /\ \A n \in S : n <= Max(S)
  <1> DEFINE A(i) == AmountsAt(i, r)
             T == UNION {A(i) : i \in Done}
  <1>1. IsFiniteSet(Done)
    <2>1. Done \subseteq 1 .. Len(audits) /\ Len(audits) \in Nat
      BY HistoryTypes DEF Done, MoneyInv
    <2>2. IsFiniteSet(1 .. Len(audits))
      BY <2>1, FS_Interval
    <2> QED BY <2>1, <2>2, FS_Subset
  <1>2. \A i \in Done : A(i) \subseteq Nat /\ IsFiniteSet(A(i))
    BY PlacesOf DEF MoneyInv
  <1> HIDE DEF A
  <1>3. IsFiniteSet({A(i) : i \in Done})
    <2> DEFINE f == [i \in Done |-> A(i)]
    <2>1. f \in Surjection(Done, {A(i) : i \in Done})
      BY DEF Surjection
    <2> QED BY <1>1, <2>1, FS_Surjection
  <1>4. IsFiniteSet(T)
    BY <1>2, <1>3, FS_UNION
  <1> DEFINE S == {0} \cup T
  <1>5. S \subseteq Nat /\ S # {}
    BY <1>2
  <1>6. IsFiniteSet(S)
    <2>1. S = T \cup {0}
      OBVIOUS
    <2> HIDE DEF T
    <2> QED BY <1>4, <2>1, FS_AddElement
  <1> HIDE DEF S
  <1>7. Max(S) \in S /\ \A n \in S : n <= Max(S)
    BY <1>5, <1>6, MaxIsLargest
  <1> QED BY <1>5, <1>7 DEF S, A

\* Both halves.
LEMMA CreditsAreEarned == MoneyInv => CreditIsEarned
  <1> SUFFICES ASSUME MoneyInv PROVE CreditIsEarned
    OBVIOUS
  <1>1. ASSUME NEW r \in Routes
        PROVE  Total({l \in Lines(None) : RouteOf(l.fix) = r})
                  <= Max({0} \cup UNION {AmountsAt(i, r) : i \in Done})
    <2> DEFINE L == {l \in Lines(None) : RouteOf(l.fix) = r}
               S == {0} \cup UNION {AmountsAt(i, r) : i \in Done}
    <2>0. Max(S) \in Nat /\ (\A n \in S : n <= Max(S)) /\ 0 \in S
      <3>1. Max(S) \in Nat /\ (\A n \in S : n <= Max(S))
        BY AmountsOf
      <3> QED BY <3>1
    <2>1. ASSUME L = {} PROVE Total(L) <= Max(S)
      <3>1. Total(L) = 0
        BY <2>1, TotalOfNone
      <3> HIDE DEF L, S
      <3> QED BY <2>0, <3>1
    <2>2. ASSUME NEW l \in L, L = {l} PROVE Total(L) <= Max(S)
      <3>1. l.fix \in VerifiedIn(None) /\ l.usd = Credit(l.fix) /\ RouteOf(l.fix) = r
        BY LineIs
      <3>2. l.usd \in Nat /\ l.usd <= UsdOf(l.fix) /\ UsdOf(l.fix) \in Nat
        BY <3>1, CreditBound
      <3>3. UsdOf(l.fix) \in S
        BY <3>1, CreditBound
      <3>4. Total(L) = l.usd
        BY <2>2, <3>2, TotalOfOne
      <3> HIDE DEF S
      <3> QED BY <2>0, <3>2, <3>3, <3>4
    <2>3. L = {} \/ \E l \in L : L = {l}
      BY OneLine
    <2> QED BY <2>1, <2>2, <2>3
  <1> QED BY <1>1, Measured DEF CreditIsEarned

-----------------------------------------------------------------------------
(* The months and the headline *)

\* Totals of lines that have none in common add up.
LEMMA AddTotals ==
    ASSUME NEW L, NEW K, IsFiniteSet(L), IsFiniteSet(K), L \cap K = {},
           \A l \in L \cup K : l.usd \in Nat
    PROVE  Total(L \cup K) = Total(L) + Total(K)
  <1> DEFINE S == L \cup K
             g == [l \in S |-> l.usd]
  <1>1. IsFiniteSet(S)
    BY FS_Union
  <1>2. Weighs(g, S) /\ Weighs(g, L) /\ Weighs(g, K)
    BY <1>1 DEF Weighs
  <1>3. Total(S) = SumUp(g, S)
    BY <1>1, TotalIs
  <1>4. \A T \in {L, K} : Total(T) = SumUp(g, T)
    <2> SUFFICES ASSUME NEW T \in {L, K} PROVE Total(T) = SumUp(g, T)
      OBVIOUS
    <2> DEFINE k == [l \in T |-> l.usd]
    <2>1. Total(T) = SumUp(k, T)
      BY TotalIs
    <2>2. \A l \in T : g[l] = k[l]
      OBVIOUS
    <2>3. Weighs(g, T)
      BY <1>2
    <2> HIDE DEF k, g
    <2> QED BY <2>1, <2>2, <2>3, SumUpSame
  <1> HIDE DEF g
  <1>5. SumUp(g, S) = SumUp(g, L) + SumUp(g, K)
    BY <1>2, SumSplit
  <1> QED BY <1>3, <1>4, <1>5

\* A total is a number.
LEMMA TotalIsNat ==
    ASSUME NEW L, IsFiniteSet(L), \A l \in L : l.usd \in Nat
    PROVE  Total(L) \in Nat
  <1> DEFINE g == [l \in L |-> l.usd]
  <1>1. \A l \in L : g[l] \in Nat
    OBVIOUS
  <1>2. Total(L) = SumUp(g, L)
    BY TotalIs
  <1> HIDE DEF g
  <1> QED BY <1>1, <1>2, SumUpCounts

\* The months are finitely many, and none of them stands for all.
LEMMA MonthsFinite == IsFiniteSet(Months) /\ Months \subseteq Nat /\ None \notin Months
  BY FS_Interval, SavingsAssumption DEF Months

\* The two sums over the months that SurfacesAgree speaks of.
LEMMA TotalsByMonth ==
    ASSUME NEW g, DOMAIN g = Months, \A m \in Months : g[m] = Total(Lines(m)) /\ g[m] \in Nat
    PROVE  MapThenSumSet(LAMBDA m : Total(Lines(m)), Months) = SumUp(g, Months)
  <1> DEFINE Rec(i) == i = [s \in SUBSET Months |->
                              IF s = {} THEN 0 ELSE Total(Lines(Pick(s))) + i[s \ {Pick(s)}]]
             iter == CHOOSE i : Rec(i)
  <1>1. MapThenSumSet(LAMBDA m : Total(Lines(m)), Months) = iter[Months]
    BY DEF MapThenSumSet, MapThenFoldSet, Pick
  <1>2. Weighs(g, Months)
    BY MonthsFinite DEF Weighs
  <1>3. \A i : Rec(i) <=> FoldOf(g, Months, i)
    <2>1. \A s \in SUBSET Months : s # {} => g[Pick(s)] = Total(Lines(Pick(s)))
      BY Picked
    <2>2. ASSUME NEW i
          PROVE  [s \in SUBSET Months |-> IF s = {} THEN 0 ELSE Total(Lines(Pick(s))) + i[s \ {Pick(s)}]]
                 = [s \in SUBSET Months |-> IF s = {} THEN 0 ELSE g[Pick(s)] + i[s \ {Pick(s)}]]
      BY <2>1
    <2> QED BY <2>2 DEF FoldOf
  <1>4. Rec(iter)
    <2>1. \E i : Rec(i)
      BY <1>2, <1>3, FoldIs
    <2> HIDE DEF Rec
    <2> QED BY <2>1
  <1> HIDE DEF Rec, iter
  <1> QED BY <1>1, <1>2, <1>3, <1>4, FoldIs

\* The same for the pending ones.
LEMMA PendingByMonth ==
    ASSUME NEW g, DOMAIN g = Months,
           \A m \in Months : g[m] = Cardinality(PendingIn(m)) /\ g[m] \in Nat
    PROVE  MapThenSumSet(LAMBDA m : Cardinality(PendingIn(m)), Months) = SumUp(g, Months)
  <1> DEFINE Rec(i) == i = [s \in SUBSET Months |->
                              IF s = {} THEN 0 ELSE Cardinality(PendingIn(Pick(s))) + i[s \ {Pick(s)}]]
             iter == CHOOSE i : Rec(i)
  <1>1. MapThenSumSet(LAMBDA m : Cardinality(PendingIn(m)), Months) = iter[Months]
    BY DEF MapThenSumSet, MapThenFoldSet, Pick
  <1>2. Weighs(g, Months)
    BY MonthsFinite DEF Weighs
  <1>3. \A i : Rec(i) <=> FoldOf(g, Months, i)
    <2>1. \A s \in SUBSET Months : s # {} => g[Pick(s)] = Cardinality(PendingIn(Pick(s)))
      BY Picked
    <2>2. ASSUME NEW i
          PROVE  [s \in SUBSET Months |-> IF s = {} THEN 0 ELSE Cardinality(PendingIn(Pick(s))) + i[s \ {Pick(s)}]]
                 = [s \in SUBSET Months |-> IF s = {} THEN 0 ELSE g[Pick(s)] + i[s \ {Pick(s)}]]
      BY <2>1
    <2> QED BY <2>2 DEF FoldOf
  <1>4. Rec(iter)
    <2>1. \E i : Rec(i)
      BY <1>2, <1>3, FoldIs
    <2> HIDE DEF Rec
    <2> QED BY <2>1
  <1> HIDE DEF Rec, iter
  <1> QED BY <1>1, <1>2, <1>3, <1>4, FoldIs

\* There are finitely many fixes, and lines.
LEMMA FixesFinite ==
    ASSUME MoneyInv
    PROVE  /\ IsFiniteSet(Fixes) /\ Fixes \subseteq DOMAIN fb
           /\ IsFiniteSet(Lines(None)) /\ \A l \in Lines(None) : l.usd \in Nat
  <1>1. Fixes \subseteq DOMAIN fb
    BY FixIsVote DEF Fixes
  <1>2. IsFiniteSet(Fixes)
    BY <1>1, FS_Subset DEF MoneyInv, VotesInv
  <1>3. IsFiniteSet(VerifiedIn(None))
    <2>1. VerifiedIn(None) \in SUBSET Fixes
      BY DEF VerifiedIn
    <2> QED BY <1>2, <2>1, FS_Subset
  <1>4. IsFiniteSet(Lines(None))
    <2> DEFINE f == [x \in VerifiedIn(None) |->
                       [fix |-> x, proof |-> Latest(Qualifying(x)), usd |-> Credit(x)]]
    <2>1. f \in Surjection(VerifiedIn(None), Lines(None))
      BY DEF Surjection, Lines
    <2> QED BY <1>3, <2>1, FS_Surjection
  <1>5. \A l \in Lines(None) : l.usd \in Nat
    BY LineIs, CreditBound
  <1> QED BY <1>1, <1>2, <1>4, <1>5

\* The months' figures add up to the headline.
LEMMA MonthsAddUp ==
    ASSUME MoneyInv
    PROVE  Total(Lines(None)) = MapThenSumSet(LAMBDA m : Total(Lines(m)), Months)
  <1> DEFINE A(M) == {l \in Lines(None) : audits[l.proof].month \in M}
             g == [m \in Months |-> Total(Lines(m))]
             F == {M \in SUBSET Months : Total(A(M)) = SumUp(g, M)}
  <1>1. \A m \in Months : Lines(m) = A({m})
    <2> SUFFICES ASSUME NEW m \in Months PROVE Lines(m) = A({m})
      OBVIOUS
    <2>1. VerifiedIn(m) = {x \in VerifiedIn(None) : audits[Latest(Qualifying(x))].month = m}
      BY MonthsFinite DEF VerifiedIn
    <2>2. Lines(m) \subseteq A({m})
      BY <2>1 DEF Lines
    <2>3. A({m}) \subseteq Lines(m)
      BY <2>1, LineIs DEF Lines
    <2> QED BY <2>2, <2>3
  <1>2. \A M : IsFiniteSet(A(M)) /\ \A l \in A(M) : l.usd \in Nat
    BY FixesFinite, FS_Subset
  <1>3. A(Months) = Lines(None)
    <2>1. ASSUME NEW l \in Lines(None) PROVE audits[l.proof].month \in Months
      <3>1. l.proof \in Done
        BY LineIs, ProofQualifies
      <3> QED BY <3>1, DoneRow DEF MoneyInv
    <2> QED BY <2>1
  <1>4. A({}) = {}
    OBVIOUS
  <1>5. \A M : \A m : m \notin M => A(M \cup {m}) = A(M) \cup A({m}) /\ A(M) \cap A({m}) = {}
    OBVIOUS
  <1> HIDE DEF A
  <1>6. DOMAIN g = Months /\ \A m \in Months : g[m] = Total(Lines(m)) /\ g[m] \in Nat
    <2>1. ASSUME NEW m \in Months PROVE Total(Lines(m)) \in Nat
      BY <1>1, <1>2, TotalIsNat
    <2> QED BY <2>1
  <1> HIDE DEF g
  <1>7. Weighs(g, Months)
    BY <1>6, MonthsFinite DEF Weighs
  <1>8. {} \in F
    BY <1>4, <1>7, SumUpRules, TotalOfNone
  <1>9. ASSUME NEW M \in SUBSET Months, NEW m \in Months \ M, M \in F PROVE M \cup {m} \in F
    <2>1. Total(A(M \cup {m})) = Total(A(M)) + Total(A({m}))
      BY <1>2, <1>5, <1>9, AddTotals
    <2>2. Total(A({m})) = g[m] /\ g[m] \in Nat
      BY <1>1, <1>6
    <2>3. SumUp(g, M \cup {m}) = g[m] + SumUp(g, M) /\ SumUp(g, M) \in Int
      BY <1>7, SumUpRules
    <2>4. Total(A(M)) = SumUp(g, M)
      BY <1>9
    <2>5. Total(A(M \cup {m})) = SumUp(g, M \cup {m})
      BY <2>1, <2>2, <2>3, <2>4
    <2> QED BY <2>5
  <1>10. Months \in F
    <2> HIDE DEF F
    <2> QED BY <1>8, <1>9, MonthsFinite, SetInduction
  <1> QED BY <1>3, <1>6, <1>10, TotalsByMonth

\* So do the numbers of pending fixes.
LEMMA PendingAddsUp ==
    ASSUME MoneyInv
    PROVE  Cardinality(PendingIn(None)) = MapThenSumSet(LAMBDA m : Cardinality(PendingIn(m)), Months)
  <1> DEFINE A(M) == {x \in PendingIn(None) : fb[x].month \in M}
             g == [m \in Months |-> Cardinality(PendingIn(m))]
             F == {M \in SUBSET Months : Cardinality(A(M)) = SumUp(g, M)}
  <1>1. \A m \in Months : PendingIn(m) = A({m})
    BY MonthsFinite DEF PendingIn
  <1>2. \A M : IsFiniteSet(A(M))
    <2>1. \A M : A(M) \in SUBSET Fixes
      BY DEF PendingIn
    <2> HIDE DEF A
    <2> QED BY <2>1, FixesFinite, FS_Subset
  <1>3. A(Months) = PendingIn(None)
    BY FixesFinite DEF PendingIn, MoneyInv, VotesInv
  <1>4. A({}) = {}
    OBVIOUS
  <1>5. \A M : \A m : m \notin M => A(M \cup {m}) = A(M) \cup A({m}) /\ A(M) \cap A({m}) = {}
    OBVIOUS
  <1> HIDE DEF A
  <1>6. DOMAIN g = Months /\ \A m \in Months : g[m] = Cardinality(PendingIn(m)) /\ g[m] \in Nat
    BY <1>1, <1>2, FS_CardinalityType
  <1> HIDE DEF g
  <1>7. Weighs(g, Months)
    BY <1>6, MonthsFinite DEF Weighs
  <1>8. {} \in F
    BY <1>4, <1>7, SumUpRules, FS_EmptySet
  <1>9. ASSUME NEW M \in SUBSET Months, NEW m \in Months \ M, M \in F PROVE M \cup {m} \in F
    <2>1. Cardinality(A(M \cup {m})) = Cardinality(A(M)) + Cardinality(A({m})) - Cardinality({})
      <3>1. A(M \cup {m}) = A(M) \cup A({m}) /\ A(M) \cap A({m}) = {}
        BY <1>5, <1>9
      <3>2. IsFiniteSet(A(M)) /\ IsFiniteSet(A({m}))
        BY <1>2
      <3> QED BY <3>1, <3>2, FS_Union
    <2>2. Cardinality(A({m})) = g[m] /\ g[m] \in Nat
      BY <1>1, <1>6
    <2>3. SumUp(g, M \cup {m}) = g[m] + SumUp(g, M) /\ SumUp(g, M) \in Int
      BY <1>7, SumUpRules
    <2>4. Cardinality(A(M)) = SumUp(g, M)
      BY <1>9
    <2>5. Cardinality(A(M \cup {m})) = SumUp(g, M \cup {m})
      BY <2>1, <2>2, <2>3, <2>4, FS_EmptySet
    <2> QED BY <2>5
  <1>10. Months \in F
    <2> HIDE DEF F
    <2> QED BY <1>8, <1>9, MonthsFinite, SetInduction
  <1> QED BY <1>3, <1>6, <1>10, PendingByMonth

\* A route that was ever called fixed has a first time.
LEMMA SettledHasFix ==
    ASSUME MoneyInv, NEW r \in Settled
    PROVE  Fixed(r) # {}
  <1> DEFINE T == {fb[x].at : x \in Applied(r)}
  <1>1. T \subseteq Nat /\ T # {}
    BY DEF Settled, Applied, VotesOn, MoneyInv, VotesInv
  <1>2. PICK n \in T : \A k \in T : n <= k
    <2> HIDE DEF T
    <2> QED BY <1>1, SmallestNumber
  <1>3. PICK x \in Applied(r) : fb[x].at = n
    BY <1>2
  <1>4. \A y \in Applied(r) : fb[x].at <= fb[y].at
    BY <1>2, <1>3
  <1> QED BY <1>4 DEF Fixed

\* Fixes and settled routes are one to one ...
LEMMA FixesAreSettled ==
    ASSUME MoneyInv
    PROVE  Cardinality(Fixes) = Cardinality(Settled)
  <1> DEFINE f == [x \in Fixes |-> RouteOf(x)]
  <1>1. \A x \in Fixes : RouteOf(x) \in Settled /\ x \in Fixed(RouteOf(x))
    <2> SUFFICES ASSUME NEW x \in Fixes PROVE RouteOf(x) \in Settled /\ x \in Fixed(RouteOf(x))
      OBVIOUS
    <2>1. PICK r \in Routes : x \in Fixed(r)
      BY DEF Fixes
    <2>2. RouteOf(x) = r
      BY <2>1, FixIsVote
    <2> QED BY <2>1, <2>2 DEF Settled, Fixed
  <1>2. \A x, y \in Fixes : RouteOf(x) = RouteOf(y) => x = y
    BY <1>1, FixedOnce
  <1>3. \A r \in Settled : \E x \in Fixes : RouteOf(x) = r
    <2> SUFFICES ASSUME NEW r \in Settled PROVE \E x \in Fixes : RouteOf(x) = r
      OBVIOUS
    <2>1. PICK x \in Fixed(r) : TRUE
      BY SettledHasFix
    <2> QED BY <2>1, FixIsVote DEF Fixes, Settled
  <1>4. f \in Bijection(Fixes, Settled)
    BY <1>1, <1>2, <1>3 DEF Bijection, Injection, Surjection, IsInjective
  <1> QED BY <1>4, FS_Bijection, FixesFinite DEF ExistsBijection

\* ... and so are lines and verified fixes.
LEMMA EveryFixShows ==
    ASSUME MoneyInv
    PROVE  Cardinality(PendingIn(None)) + Cardinality(Lines(None)) = Cardinality(Settled)
  <1>1. PendingIn(None) \cup VerifiedIn(None) = Fixes /\ PendingIn(None) \cap VerifiedIn(None) = {}
    BY DEF PendingIn, VerifiedIn
  <1>2. IsFiniteSet(PendingIn(None)) /\ IsFiniteSet(VerifiedIn(None))
    BY <1>1, FixesFinite, FS_Subset
  <1>3. Cardinality(Fixes) = Cardinality(PendingIn(None)) + Cardinality(VerifiedIn(None))
    <2>1. Cardinality(Fixes) = Cardinality(PendingIn(None)) + Cardinality(VerifiedIn(None)) - Cardinality({})
      BY <1>1, <1>2, FS_Union
    <2>2. Cardinality(PendingIn(None)) \in Nat /\ Cardinality(VerifiedIn(None)) \in Nat /\ Cardinality({}) = 0
      BY <1>2, FS_EmptySet, FS_CardinalityType
    <2> QED BY <2>1, <2>2
  <1> DEFINE f == [x \in VerifiedIn(None) |->
                     [fix |-> x, proof |-> Latest(Qualifying(x)), usd |-> Credit(x)]]
  <1>4. f \in Bijection(VerifiedIn(None), Lines(None))
    <2>1. f \in Surjection(VerifiedIn(None), Lines(None))
      BY DEF Surjection, Lines
    <2>2. \A x, y \in VerifiedIn(None) : f[x] = f[y] => x = y
      OBVIOUS
    <2> HIDE DEF f
    <2> QED BY <2>1, <2>2 DEF Bijection, Injection, Surjection, IsInjective
  <1> HIDE DEF f
  <1>5. Cardinality(Lines(None)) = Cardinality(VerifiedIn(None))
    BY <1>2, <1>4, FS_Bijection DEF ExistsBijection
  <1> QED BY <1>3, <1>5, FixesAreSettled

-----------------------------------------------------------------------------
(* The dashboard and the explorer *)

\* What the dashboard lists is in the explorer's view of everything, when the audit
\* created last reported last.
LEMMA LastIsInView ==
    ASSUME MoneyInv, Done # {},
           \A i \in Done : audits[i].ready.at <= audits[Latest(Done)].ready.at
    PROVE  Latest(Done) \in InView(NoFilter)
  <1> DEFINE i == Latest(Done)
  <1>1. i \in Done
    BY LatestIs DEF MoneyInv
  <1>2. NoFilter.source = None /\ NoFilter.model = None /\ NoFilter.dates = Months
    BY DEF NoFilter
  <1>3. Scope(NoFilter) = Done
    BY <1>2 DEF Scope
  <1> HIDE DEF i
  <1>4. CASE Traffic(i) = {}
    <2>1. audits[i].ready.month \in Months
      BY <1>1, DoneRow DEF MoneyInv
    <2> QED BY <1>1, <1>2, <1>3, <1>4, <2>1 DEF InView, Bare, i
  <1>5. ASSUME NEW b \in Traffic(i) PROVE i \in InView(NoFilter)
    <2>1. b[1] \in Months
      BY <1>1, DoneRow DEF MoneyInv
    <2>2. <<i, b>> \in Rows(NoFilter)
      BY <1>1, <1>2, <1>3, <2>1 DEF Rows
    <2>3. \A y \in Rows(NoFilter) : y[1] \in Done
      BY <1>3 DEF Rows
    <2>4. \A y \in Rows(NoFilter) : audits[y[1]].ready.at <= audits[i].ready.at
      BY <2>3 DEF i
    <2>5. <<i, b>> \in Survivors(Rows(NoFilter))
      BY <2>2, <2>4 DEF Survivors
    <2> QED BY <2>5 DEF InView, Counted
  <1> QED BY <1>4, <1>5 DEF i

\* In a finished audit with findings of a route, one of them was inserted last.
LEMMA LastRow ==
    ASSUME HistoryInv, NEW i \in Done, NEW r, Of(i, r) # {}
    PROVE  \E n \in Of(i, r) : \A k \in Of(i, r) : RowOf(<<i, k>>) <= RowOf(<<i, n>>)
  <1> DEFINE S == {Found(i)[n].row : n \in Of(i, r)}
             f == [n \in Of(i, r) |-> Found(i)[n].row]
  <1>1. f \in Surjection(Of(i, r), S)
    BY DEF Surjection
  <1>2. IsFiniteSet(S)
    <2> HIDE DEF S, f
    <2> QED BY <1>1, PlacesOf, FS_Surjection
  <1>3. S \subseteq Nat /\ S # {}
    BY PlacesOf, FoundRows
  <1>4. Max(S) \in S /\ \A m \in S : m <= Max(S)
    <2> HIDE DEF S
    <2> QED BY <1>2, <1>3, MaxIsLargest
  <1>5. PICK n \in Of(i, r) : Found(i)[n].row = Max(S)
    BY <1>4
  <1>6. \A k \in Of(i, r) : Found(i)[k].row <= Found(i)[n].row
    BY <1>4, <1>5
  <1> QED BY <1>5, <1>6 DEF RowOf

\* So the explorer has the routes of the dashboard's findings.
LEMMA ListedIsExplored ==
    ASSUME MoneyInv,
           \A i \in Done : i # Latest(Done) => audits[i].ready.at < audits[Latest(Done)].ready.at,
           NEW t \in TopFindings
    PROVE  \E e \in Explored(NoFilter) :
              e.route = RouteOf(t.finding) /\ e.usd \in AmountsAt(Latest(Done), e.route)
  <1> DEFINE i == Latest(Done)
             r == RouteOf(t.finding)
  <1>1. Done # {}
    BY DEF TopFindings
  <1>2. i \in Done
    BY <1>1, LatestIs DEF MoneyInv
  <1>3. \A j \in Done : audits[j].ready.at \in Nat
    BY DoneRow DEF MoneyInv
  <1>4. i \in InView(NoFilter)
    <2>1. \A j \in Done : audits[j].ready.at <= audits[i].ready.at
      BY <1>2, <1>3
    <2> QED BY <1>1, <2>1, LastIsInView
  <1>5. PICK k \in DOMAIN Found(i) : t.finding = <<i, k>>
    BY <1>1 DEF TopFindings, Dearest
  <1>6. k \in Of(i, r)
    BY <1>5 DEF Of, RouteOf
  <1>7. InView(NoFilter) \subseteq Done
    BY DEF InView, Bare, Counted, Survivors, Rows, Scope
  <1>8. NoFilter.model = None /\ NoFilter.status = "any"
    BY DEF NoFilter
  <1> HIDE DEF r
  <1>9. PICK n \in Of(i, r) : \A m \in Of(i, r) : RowOf(<<i, m>>) <= RowOf(<<i, n>>)
    <2> HIDE DEF i
    <2> QED BY <1>2, <1>6, LastRow DEF MoneyInv
  <1> DEFINE x == <<i, n>>
  <1>10. n \in DOMAIN Found(i) /\ RouteOf(x) = r /\ UsdOf(x) = Found(i)[n].usd
    BY DEF Of, RouteOf, UsdOf
  <1>11. x \in InSight(NoFilter)
    BY <1>4, <1>8, <1>10 DEF InSight
  <1>12. ASSUME NEW y \in InSight(NoFilter), RouteOf(y) = r PROVE NotAfter(y, x)
    <2>1. PICK j \in InView(NoFilter) : y \in {j} \X DOMAIN Found(j)
      BY DEF InSight
    <2>2. y = <<j, y[2]>> /\ y[1] = j /\ y[2] \in DOMAIN Found(j) /\ j \in Done
      BY <1>7, <2>1
    <2>3. ASSUME j # i PROVE NotAfter(y, x)
      <3>1. audits[j].ready.at < audits[i].ready.at
        BY <2>2, <2>3
      <3> QED BY <2>2, <3>1 DEF NotAfter
    <2>4. ASSUME j = i PROVE NotAfter(y, x)
      <3>1. y[2] \in Of(i, r)
        BY <1>12, <2>2, <2>4 DEF Of, RouteOf
      <3>2. RowOf(<<i, y[2]>>) <= RowOf(x)
        BY <1>9, <3>1
      <3>3. y = <<i, y[2]>>
        BY <2>2, <2>4
      <3> QED BY <2>2, <2>4, <3>2, <3>3 DEF NotAfter
    <2> QED BY <2>3, <2>4
  <1>13. x \in LastSeen(NoFilter)
    <2> HIDE DEF x
    <2> QED BY <1>10, <1>11, <1>12 DEF LastSeen
  <1>14. [route |-> r, usd |-> Found(i)[n].usd] \in Explored(NoFilter)
    <2> HIDE DEF x, i
    <2> QED BY <1>8, <1>10, <1>13 DEF Explored
  <1>15. Found(i)[n].usd \in AmountsAt(i, r)
    BY DEF AmountsAt
  <1> QED BY <1>14, <1>15 DEF r

\* A verdict is one that can be given, or none.
LEMMA VerdictIs ==
    ASSUME MoneyInv, NEW f, NEW r
    PROVE  VerdictOf(f, r) \in Verdicts \cup {"unreviewed"}
  <1> DEFINE votes == {x \in VotesOn(r) : x[1] \in InView(f)}
             at == [x \in votes |-> fb[x].at]
             S == {fb[x].at : x \in votes}
  <1>1. VerdictOf(f, r) = IF votes = {} THEN "unreviewed"
                          ELSE fb[CHOOSE x \in votes : \A y \in votes : fb[y].at <= fb[x].at].verdict
    BY DEF VerdictOf
  <1>2. votes \subseteq DOMAIN fb
    BY DEF VotesOn
  <1>3. IsFiniteSet(votes)
    <2> HIDE DEF votes
    <2> QED BY <1>2, FS_Subset DEF MoneyInv, VotesInv
  <1>4. ASSUME votes # {} PROVE \E x \in votes : \A y \in votes : fb[y].at <= fb[x].at
    <2> HIDE DEF votes
    <2>1. at \in Surjection(votes, S)
      BY DEF Surjection
    <2>2. IsFiniteSet(S)
      <3> HIDE DEF at, S
      <3> QED BY <1>3, <2>1, FS_Surjection
    <2>3. S \subseteq Nat /\ S # {}
      BY <1>2, <1>4 DEF MoneyInv, VotesInv
    <2>4. Max(S) \in S /\ \A n \in S : n <= Max(S)
      <3> HIDE DEF S
      <3> QED BY <2>2, <2>3, MaxIsLargest
    <2> QED BY <2>4
  <1> HIDE DEF votes
  <1> QED BY <1>1, <1>2, <1>4 DEF MoneyInv, VotesInv

\* The explorer has finitely many items.
LEMMA ExploredFinite ==
    ASSUME MoneyInv, NEW f
    PROVE  IsFiniteSet(Explored(f))
  <1> DEFINE D(i) == {i} \X DOMAIN Found(i)
             All == UNION {D(i) : i \in Done}
             X == {y \in LastSeen(f) : f.status = "any" \/ f.status = VerdictOf(f, RouteOf(y))}
             g == [x \in X |-> [route |-> RouteOf(x), usd |-> UsdOf(x)]]
  <1>1. IsFiniteSet(Done)
    <2>1. Done \subseteq 1 .. Len(audits) /\ Len(audits) \in Nat
      BY HistoryTypes DEF Done, MoneyInv
    <2>2. IsFiniteSet(1 .. Len(audits))
      BY <2>1, FS_Interval
    <2> QED BY <2>1, <2>2, FS_Subset
  <1>2. \A i \in Done : IsFiniteSet(D(i))
    BY FoundRows, FS_Singleton, FS_Product DEF MoneyInv
  <1>3. InView(f) \subseteq Done
    BY DEF InView, Bare, Counted, Survivors, Rows, Scope
  <1>4. X \subseteq All
    BY <1>3 DEF LastSeen, InSight
  <1> HIDE DEF D
  <1>5. IsFiniteSet({D(i) : i \in Done})
    <2> DEFINE h == [i \in Done |-> D(i)]
    <2>1. h \in Surjection(Done, {D(i) : i \in Done})
      BY DEF Surjection
    <2> QED BY <1>1, <2>1, FS_Surjection
  <1>6. IsFiniteSet(All)
    BY <1>2, <1>5, FS_UNION
  <1>7. IsFiniteSet(X)
    <2> HIDE DEF X, All
    <2> QED BY <1>4, <1>6, FS_Subset
  <1>8. g \in Surjection(X, Explored(f))
    <2>1. Explored(f) = {[route |-> RouteOf(x), usd |-> UsdOf(x)] : x \in X}
      BY DEF Explored
    <2> HIDE DEF X
    <2> QED BY <2>1 DEF Surjection
  <1> HIDE DEF X, g
  <1> QED BY <1>7, <1>8, FS_Surjection

\* The explorer has the same items, however the question is split by verdict.
LEMMA SplitByVerdict ==
    ASSUME MoneyInv, NEW f,
           f = [source |-> f.source, model |-> None, dates |-> Months, status |-> "any"]
    PROVE  LET statuses == Verdicts \cup {"unreviewed"}
           IN  /\ Explored(f) = UNION {Explored([f EXCEPT !.status = v]) : v \in statuses}
               /\ Displayed(f) \subseteq UNION {Displayed([f EXCEPT !.status = v]) : v \in statuses}
  <1> DEFINE statuses == Verdicts \cup {"unreviewed"}
             g(v) == [f EXCEPT !.status = v]
             Item(x) == [route |-> RouteOf(x), usd |-> UsdOf(x)]
  <1>1. \A v : g(v).source = f.source /\ g(v).model = f.model /\ g(v).dates = f.dates /\ g(v).status = v
    OBVIOUS
  <1>2. f.status = "any"
    OBVIOUS
  <1> HIDE DEF g
  <1>3. \A v : InView(g(v)) = InView(f)
    BY <1>1 DEF InView, Bare, Counted, Rows, Scope
  <1>4. \A v : LastSeen(g(v)) = LastSeen(f)
    <2>1. \A v : InSight(g(v)) = InSight(f)
      BY <1>1, <1>3 DEF InSight
    <2> QED BY <2>1 DEF LastSeen
  <1>5. \A v, r : VerdictOf(g(v), r) = VerdictOf(f, r)
    <2> SUFFICES ASSUME NEW v, NEW r PROVE VerdictOf(g(v), r) = VerdictOf(f, r)
      OBVIOUS
    <2> DEFINE votes(h) == {x \in VotesOn(r) : x[1] \in InView(h)}
               Newest(S) == IF S = {} THEN "unreviewed"
                            ELSE fb[CHOOSE x \in S : \A y \in S : fb[y].at <= fb[x].at].verdict
    <2>1. \A h : VerdictOf(h, r) = Newest(votes(h))
      BY DEF VerdictOf
    <2>2. votes(g(v)) = votes(f)
      BY <1>3
    <2> HIDE DEF votes, Newest
    <2> QED BY <2>1, <2>2
  <1>6. Explored(f) = {Item(x) : x \in LastSeen(f)}
    BY <1>2 DEF Explored
  <1>7. \A v : Explored(g(v)) = {Item(x) : x \in {y \in LastSeen(f) : v = "any" \/ v = VerdictOf(f, RouteOf(y))}}
    BY <1>1, <1>4, <1>5 DEF Explored
  <1> HIDE DEF Item
  <1>8. \A v : Explored(g(v)) \subseteq Explored(f)
    BY <1>6, <1>7
  <1>9. \A e \in Explored(f) : \E v \in statuses : e \in Explored(g(v))
    <2> SUFFICES ASSUME NEW e \in Explored(f) PROVE \E v \in statuses : e \in Explored(g(v))
      OBVIOUS
    <2>1. PICK x \in LastSeen(f) : e = Item(x)
      BY <1>6
    <2>2. VerdictOf(f, RouteOf(x)) \in statuses
      BY VerdictIs
    <2>3. e \in Explored(g(VerdictOf(f, RouteOf(x))))
      BY <1>7, <2>1
    <2> QED BY <2>2, <2>3
  <1>10. ASSUME NEW e \in Displayed(f) PROVE \E v \in statuses : e \in Displayed(g(v))
    <2>1. e \in Explored(f) /\ Cardinality({y \in Explored(f) : y.usd > e.usd}) < FindingsCap
      BY DEF Displayed, Dearest
    <2>2. PICK v \in statuses : e \in Explored(g(v))
      BY <1>9, <2>1
    <2> DEFINE A == {y \in Explored(f) : y.usd > e.usd}
               B == {y \in Explored(g(v)) : y.usd > e.usd}
    <2>3. IsFiniteSet(A)
      BY ExploredFinite, FS_Subset
    <2>4. B \subseteq A
      BY <1>8
    <2>5. Cardinality(B) <= Cardinality(A) /\ Cardinality(A) \in Nat /\ Cardinality(B) \in Nat
      <3> HIDE DEF A, B
      <3> QED BY <2>3, <2>4, FS_Subset, FS_CardinalityType
    <2>6. Cardinality(B) < FindingsCap
      BY <2>1, <2>5, SavingsAssumption
    <2> QED BY <2>2, <2>6 DEF Displayed, Dearest
  <1>11. Explored(f) = UNION {Explored(g(v)) : v \in statuses}
    BY <1>8, <1>9
  <1> HIDE DEF statuses
  <1> QED BY <1>10, <1>11 DEF g, statuses

\* The explorer counts the same rows, however the question is split.
LEMMA SplitByModel ==
    ASSUME NEW f, f = [source |-> f.source, model |-> None, dates |-> Months, status |-> f.status]
    PROVE  LET models == {b[2] : b \in UNION {Traffic(i) : i \in Done}}
           IN  Counted(f) = UNION {Counted([f EXCEPT !.model = m]) : m \in models}
  <1> DEFINE models == {b[2] : b \in UNION {Traffic(i) : i \in Done}}
             g(m) == [f EXCEPT !.model = m]
  <1>1. \A m : g(m).source = f.source /\ g(m).model = m /\ g(m).dates = f.dates
    OBVIOUS
  <1>2. \A m : Scope(g(m)) = Scope(f)
    BY <1>1 DEF Scope
  <1>3. \A x \in Rows(f) : x[2][2] \in models
    BY DEF Rows, Scope
  <1>4. \A m : Rows(g(m)) = {x \in Rows(f) : m \in {None, x[2][2]}}
    BY <1>1, <1>2 DEF Rows
  <1> HIDE DEF models, g
  <1>5. ASSUME NEW x \in Counted(f) PROVE x \in Counted(g(x[2][2])) /\ x[2][2] \in models
    <2>1. x \in Rows(f) /\ \A y \in Rows(f) : y[2] = x[2] => audits[y[1]].ready.at <= audits[x[1]].ready.at
      BY DEF Counted, Survivors
    <2> QED BY <2>1, <1>3, <1>4 DEF Counted, Survivors
  <1>6. ASSUME NEW m \in models, NEW x \in Counted(g(m)) PROVE x \in Counted(f)
    <2>1. /\ x \in Rows(f) /\ m \in {None, x[2][2]}
          /\ \A y \in Rows(g(m)) : y[2] = x[2] => audits[y[1]].ready.at <= audits[x[1]].ready.at
      BY <1>4 DEF Counted, Survivors
    <2>2. \A y \in Rows(f) : y[2] = x[2] => y \in Rows(g(m))
      BY <1>4, <2>1
    <2> QED BY <2>1, <2>2 DEF Counted, Survivors
  <1>7. Counted(f) = UNION {Counted(g(m)) : m \in models}
    BY <1>5, <1>6
  <1> QED BY <1>7 DEF models, g

\* The same for the months.
LEMMA SplitByMonth ==
    ASSUME NEW f, f = [source |-> f.source, model |-> None, dates |-> Months, status |-> f.status]
    PROVE  Counted(f) = UNION {Counted([f EXCEPT !.dates = {d}]) : d \in Months}
  <1> DEFINE g(d) == [f EXCEPT !.dates = {d}]
  <1>1. \A d : g(d).source = f.source /\ g(d).model = f.model /\ g(d).dates = {d}
    OBVIOUS
  <1>2. \A d : Scope(g(d)) = Scope(f)
    BY <1>1 DEF Scope
  <1>3. \A x \in Rows(f) : x[2][1] \in Months
    BY DEF Rows
  <1>4. \A d \in Months : Rows(g(d)) = {x \in Rows(f) : x[2][1] = d}
    <2>1. f.dates = Months
      OBVIOUS
    <2> HIDE DEF g
    <2>2. \A d \in Months : Rows(g(d)) \subseteq {x \in Rows(f) : x[2][1] = d}
      BY <1>1, <1>2, <2>1 DEF Rows
    <2>3. \A d \in Months : {x \in Rows(f) : x[2][1] = d} \subseteq Rows(g(d))
      BY <1>1, <1>2, <2>1 DEF Rows
    <2> QED BY <2>2, <2>3
  <1> HIDE DEF g
  <1>5. ASSUME NEW x \in Counted(f) PROVE x \in Counted(g(x[2][1])) /\ x[2][1] \in Months
    <2>1. x \in Rows(f) /\ \A y \in Rows(f) : y[2] = x[2] => audits[y[1]].ready.at <= audits[x[1]].ready.at
      BY DEF Counted, Survivors
    <2> QED BY <2>1, <1>3, <1>4 DEF Counted, Survivors
  <1>6. ASSUME NEW d \in Months, NEW x \in Counted(g(d)) PROVE x \in Counted(f)
    <2>1. /\ x \in Rows(f) /\ x[2][1] = d
          /\ \A y \in Rows(g(d)) : y[2] = x[2] => audits[y[1]].ready.at <= audits[x[1]].ready.at
      BY <1>4 DEF Counted, Survivors
    <2>2. \A y \in Rows(f) : y[2] = x[2] => y \in Rows(g(d))
      BY <1>4, <2>1
    <2> QED BY <2>1, <2>2 DEF Counted, Survivors
  <1>7. Counted(f) = UNION {Counted(g(d)) : d \in Months}
    BY <1>5, <1>6
  <1> QED BY <1>7 DEF g

\* All of it together.
LEMMA SurfacesDoAgree == MoneyInv => SurfacesAgree
  <1> SUFFICES ASSUME MoneyInv PROVE SurfacesAgree
    OBVIOUS
  <1>1. ASSUME NEW s \in Sources \cup {None}
        PROVE  LET models == {b[2] : b \in UNION {Traffic(i) : i \in Done}}
                   statuses == Verdicts \cup {"unreviewed"}
                   f == [NoFilter EXCEPT !.source = s]
               IN  /\ Counted(f) = UNION {Counted([f EXCEPT !.model = m]) : m \in models}
                   /\ Counted(f) = UNION {Counted([f EXCEPT !.dates = {d}]) : d \in Months}
                   /\ Explored(f) = UNION {Explored([f EXCEPT !.status = v]) : v \in statuses}
                   /\ Displayed(f) \subseteq UNION {Displayed([f EXCEPT !.status = v]) : v \in statuses}
    <2> DEFINE f == [NoFilter EXCEPT !.source = s]
    <2>1. f = [source |-> f.source, model |-> None, dates |-> Months, status |-> "any"]
      BY DEF NoFilter
    <2>2. f.status = "any"
      BY DEF NoFilter
    <2> HIDE DEF f
    <2>3. f = [source |-> f.source, model |-> None, dates |-> Months, status |-> f.status]
      BY <2>1, <2>2
    <2>4. Counted(f) = UNION {Counted([f EXCEPT !.model = m]) :
                                m \in {b[2] : b \in UNION {Traffic(i) : i \in Done}}}
      BY <2>3, SplitByModel
    <2>5. Counted(f) = UNION {Counted([f EXCEPT !.dates = {d}]) : d \in Months}
      BY <2>3, SplitByMonth
    <2>6. /\ Explored(f) = UNION {Explored([f EXCEPT !.status = v]) : v \in Verdicts \cup {"unreviewed"}}
          /\ Displayed(f) \subseteq UNION {Displayed([f EXCEPT !.status = v]) : v \in Verdicts \cup {"unreviewed"}}
      BY <2>1, SplitByVerdict
    <2> QED BY <2>4, <2>5, <2>6 DEF f
  <1> QED BY <1>1, MonthsAddUp, PendingAddsUp, EveryFixShows, ListedIsExplored DEF SurfacesAgree

\* A credit is measured by an audit that began after the fix: it is at most the fixed
\* finding less a finding of its route there, or the route is gone and its model was
\* seen; and a route is credited with no more than one finding of it claimed
\* (services/dashboard/savings.py, rules R1 and R2), for any history of audits and
\* votes and any number of findings of one route in one audit.
THEOREM CreditsAreAlwaysEarned == Spec => []CreditIsEarned
  <1>1. Init => MoneyInv
    BY MoneyInit DEF Init
  <1> QED BY <1>1, MoneyStep, CreditsAreEarned, PTL DEF Spec

\* The months add up to the headline, every settled route is pending or verified
\* once, the explorer has the routes that the dashboard lists when the audit created
\* last finished last, and it counts the same rows and items however it is asked
\* (savings.compute, metrics.top_findings, explorer.compose), for any history.
THEOREM SurfacesAlwaysAgree == Spec => []SurfacesAgree
  <1>1. Init => MoneyInv
    BY MoneyInit DEF Init
  <1> QED BY <1>1, MoneyStep, SurfacesDoAgree, PTL DEF Spec

-----------------------------------------------------------------------------
(* The price table *)

\* Rows that are dated and carry a rate
GoodRows(S) == \A r \in S : r.from \in Int /\ r.rate # NoRate
GoodTable(t) == \A m \in Models : GoodRows(t[m])

\* The id whose history prices a model, and the part of it that a day can see
PricedBy(t, m) == IF t[m] # {} THEN m ELSE FamilyOf[m]
UpTo(S, d) == {r \in S : r.from <= d}

\* Of dated rows up to a day some are the latest.
LEMMA LatestExists ==
    ASSUME NEW S, NEW d \in Int, GoodRows(S), S # {}, \A r \in S : r.from <= d
    PROVE  LastRows(S) # {}
  <1> DEFINE ages == {d - r.from : r \in S}
  <1>1. ages \subseteq Nat /\ ages # {}
    BY DEF GoodRows
  <1>2. PICK a \in ages : \A b \in ages : ~(<<b, a>> \in OpToRel(<, Nat))
    <2>1. IsWellFoundedOn(OpToRel(<, Nat), Nat)
      BY NatLessThanWellFounded
    <2> HIDE DEF ages
    <2>2. PICK a \in ages : \A b \in ages : <<b, a>> \notin OpToRel(<, Nat)
      BY <1>1, <2>1, WFMin
    <2> QED BY <2>2
  <1>3. PICK r \in S : a = d - r.from
    BY <1>2
  <1>4. ASSUME NEW q \in S PROVE q.from <= r.from
    <2>1. d - q.from \in ages /\ d - q.from \in Nat /\ d - r.from \in Nat
      BY <1>1
    <2>2. ~(d - q.from < d - r.from)
      BY <1>2, <1>3, <2>1 DEF OpToRel
    <2> QED BY <2>1, <2>2 DEF GoodRows
  <1> QED BY <1>4 DEF LastRows

\* What rate returns, by the history that prices the model
LEMMA RateIs ==
    ASSUME NEW t, NEW m \in Models, NEW d \in Int, GoodTable(t)
    PROVE  LET seen == UpTo(t[PricedBy(t, m)], d)
           IN  /\ seen = {} => Rate(t, m, d) = NoRate
               /\ seen # {} => /\ Rate(t, m, d) # NoRate
                               /\ Rate(t, m, d) = (CHOOSE r \in LastRows(seen) : TRUE).rate
  <1> DEFINE k == PricedBy(t, m)
             seen == UpTo(t[k], d)
  <1>1. k \in Models
    BY PricingAssumption DEF PricedBy
  <1>2. Rate(t, m, d) = IF seen = {} THEN NoRate ELSE (CHOOSE r \in LastRows(seen) : TRUE).rate
    BY DEF Rate, PricedBy, UpTo
  <1>3. ASSUME seen # {} PROVE (CHOOSE r \in LastRows(seen) : TRUE).rate # NoRate
    <2>1. GoodRows(seen) /\ \A r \in seen : r.from <= d
      BY <1>1 DEF GoodTable, GoodRows, UpTo
    <2>2. LastRows(seen) # {}
      BY <1>3, <2>1, LatestExists
    <2>3. (CHOOSE r \in LastRows(seen) : TRUE) \in seen
      BY <2>2 DEF LastRows
    <2> QED BY <2>1, <2>3 DEF GoodRows
  <1> QED BY <1>2, <1>3

\* What prices a model with a history is that history.
LEMMA SameHistory ==
    ASSUME NEW t, NEW u, NEW m, NEW d, t[m] # {}, u[m] = t[m]
    PROVE  Rate(u, m, d) = Rate(t, m, d)
  <1>1. \A x : x[m] # {} => Rate(x, m, d) = IF UpTo(x[m], d) = {} THEN NoRate
                                ELSE (CHOOSE r \in LastRows(UpTo(x[m], d)) : TRUE).rate
    BY DEF Rate, UpTo
  <1> QED BY <1>1

\* S2 is S with the row w, which takes the place of what had its date.
Adds(S, S2, w) ==
    /\ w \in S2
    /\ \A r \in S2 : r \in S \/ r = w
    /\ \A r \in S : r.from # w.from => r \in S2
    /\ \A r \in S2 : r.from = w.from => r = w

\* What a row added to a history changes of the row that is in force on a day
LEMMA Adding ==
    ASSUME NEW S, NEW S2, NEW w, NEW d \in Int,
           GoodRows(S), GoodRows(S2), Adds(S, S2, w)
    PROVE  /\ d < w.from => UpTo(S2, d) = UpTo(S, d)
           /\ (\E r \in UpTo(S, d) : w.from < r.from) => LastRows(UpTo(S2, d)) = LastRows(UpTo(S, d))
           /\ w.from <= d /\ (\A r \in UpTo(S, d) : r.from <= w.from) => LastRows(UpTo(S2, d)) = {w}
           /\ UpTo(S, d) # {} => UpTo(S2, d) # {}
  <1>1. w.from \in Int /\ \A r \in S \cup S2 : r.from \in Int
    BY DEF GoodRows, Adds
  <1>2. ASSUME d < w.from PROVE UpTo(S2, d) = UpTo(S, d)
    BY <1>1, <1>2 DEF Adds, UpTo
  <1>3. ASSUME NEW r \in UpTo(S, d), w.from < r.from
        PROVE  LastRows(UpTo(S2, d)) = LastRows(UpTo(S, d))
    <2>1. r \in UpTo(S2, d) /\ r \in S
      BY <1>1, <1>3 DEF Adds, UpTo
    <2>2. \A q \in LastRows(UpTo(S2, d)) : q \in UpTo(S, d) /\ q.from >= r.from
      BY <1>1, <1>3, <2>1 DEF Adds, UpTo, LastRows
    <2>3. \A q \in LastRows(UpTo(S, d)) : q \in UpTo(S2, d) /\ q.from >= r.from
      BY <1>1, <1>3, <2>1 DEF Adds, UpTo, LastRows
    <2>4. ASSUME NEW q \in LastRows(UpTo(S2, d)), NEW p \in UpTo(S, d) PROVE p.from <= q.from
      BY <1>1, <1>3, <2>2, <2>4 DEF Adds, UpTo, LastRows
    <2>5. ASSUME NEW q \in LastRows(UpTo(S, d)), NEW p \in UpTo(S2, d) PROVE p.from <= q.from
      BY <1>1, <1>3, <2>3, <2>5 DEF Adds, UpTo, LastRows
    <2> QED BY <2>2, <2>3, <2>4, <2>5 DEF LastRows
  <1>4. ASSUME w.from <= d, \A r \in UpTo(S, d) : r.from <= w.from
        PROVE  LastRows(UpTo(S2, d)) = {w}
    <2>1. w \in UpTo(S2, d) /\ \A q \in UpTo(S2, d) : q.from <= w.from
      BY <1>1, <1>4 DEF Adds, UpTo
    <2>2. \A q \in LastRows(UpTo(S2, d)) : q = w
      BY <1>1, <2>1 DEF Adds, UpTo, LastRows
    <2> QED BY <2>1, <2>2 DEF LastRows
  <1>5. ASSUME NEW r \in UpTo(S, d) PROVE UpTo(S2, d) # {}
    BY <1>1, <1>5 DEF Adds, UpTo
  <1> QED BY <1>2, <1>3, <1>4, <1>5

-----------------------------------------------------------------------------
(* The invariant *)

\* The overlay has dated rows that carry a rate; usage is dated.
RowsAreGood ==
    /\ DOMAIN over = Models
    /\ \A m \in Models : GoodRows(over[m])
    /\ day \in Int /\ failures \in Nat
    /\ \A u \in usage : u[1] \in Models /\ u[2] \in Int

\* A streak that the status file carries on is of runs that did see that price, and
\* is not complete.
StreaksAreSeen ==
    \A m \in Models :
        /\ streak[m].n \in Nat /\ sightings[m].n \in Nat
        /\ streak[m].n > 0 =>
              /\ streak[m].n < HoldCorroborations /\ streak[m].n <= sightings[m].n
              /\ Same(streak[m].rate, sightings[m].rate)

PricesInv == RowsAreGood /\ StreaksAreSeen

\* A table of good rows has good rows, those of the release included.
LEMMA GoodTables ==
    ASSUME NEW o, \A m \in Models : GoodRows(o[m])
    PROVE  GoodTable(Table(o))
  BY PricingAssumption DEF GoodTable, GoodRows, Table

\* The row a run writes for a model
LEMMA WrittenRows ==
    ASSUME NEW m \in Models, NEW gaps, NEW t
    PROVE  \/ Row(t, m, gaps) = {}
           \/ /\ Row(t, m, gaps) = {[from |-> day - Backdate, rate |-> feed[m]]}
              /\ m \in Considered(t, gaps)
              /\ Deepens(t, m, gaps) \/ Rate(t, m, day) = NoRate
           \/ /\ Row(t, m, gaps) = {[from |-> day, rate |-> feed[m]]}
              /\ m \in Considered(t, gaps) \ Held(t, gaps)
              /\ ~Deepens(t, m, gaps) /\ Rate(t, m, day) # NoRate
              /\ ~Same(Rate(t, m, day), feed[m])
  BY DEF Row

\* The history of a model after a run: as it was, the more so when people wrote a
\* row for that very day; or with the new row.
Unmoved(m) == Table(over')[m] = Table(over)[m]
Gains(m, w) == Adds(Table(over)[m], Table(over')[m], w)

\* A run that writes no row for a model moves nothing of its history; what it
\* writes is the history's, unless the release has a row of that day.
LEMMA HistoryAfter ==
    ASSUME PricesInv, NEW gaps, Sync(gaps), NEW m \in Models
    PROVE  /\ Row(Table(over), m, gaps) = {} => Unmoved(m)
           /\ \A w : Row(Table(over), m, gaps) = {w} =>
                 \/ Gains(m, w)
                 \/ Unmoved(m) /\ \E b \in BaseRows : b.model = m /\ b.from = w.from
  <1> DEFINE base == {[from |-> b.from, rate |-> b.rate] : b \in {x \in BaseRows : x.model = m}}
  <1>1. \A o : Table(o)[m] = base \cup {r \in o[m] : \A b \in base : b.from # r.from}
    BY DEF Table
  <1>2. over'[m] = {r \in over[m] : \A w \in Row(Table(over), m, gaps) : w.from # r.from}
                     \cup Row(Table(over), m, gaps)
    BY DEF Sync
  <1>3. \A b \in base : \E x \in BaseRows : x.model = m /\ x.from = b.from
    OBVIOUS
  <1>4. CASE Row(Table(over), m, gaps) = {}
    <2>1. over'[m] = over[m]
      BY <1>2, <1>4
    <2> QED BY <1>1, <1>4, <2>1 DEF Unmoved
  <1>5. ASSUME NEW w, Row(Table(over), m, gaps) = {w}
        PROVE  \/ Gains(m, w)
               \/ Unmoved(m) /\ \E b \in BaseRows : b.model = m /\ b.from = w.from
    <2> HIDE DEF base
    <2>1. over'[m] = {r \in over[m] : w.from # r.from} \cup {w}
      BY <1>2, <1>5
    <2>2. CASE \E b \in base : b.from = w.from
      <3>1. \A r : r \in over'[m] /\ (\A b \in base : b.from # r.from)
                     <=> r \in over[m] /\ \A b \in base : b.from # r.from
        BY <2>1, <2>2
      <3>2. {r \in over'[m] : \A b \in base : b.from # r.from}
              = {r \in over[m] : \A b \in base : b.from # r.from}
        BY <3>1
      <3>3. Table(over')[m] = Table(over)[m]
        BY <1>1, <3>2
      <3> QED BY <1>3, <2>2, <3>3 DEF Unmoved
    <2>3. CASE \A b \in base : b.from # w.from
      BY <1>1, <2>1, <2>3 DEF Gains, Adds
    <2> QED BY <2>2, <2>3
  <1> QED BY <1>4, <1>5

\* PricesInv holds of the table a release starts with ...
LEMMA PricesStart == PricingInit => PricesInv
  BY PricingAssumption
     DEF PricingInit, PricesInv, RowsAreGood, StreaksAreSeen, NoStreak, GoodRows

\* A run writes dated rows with the rate that the feed has.
LEMMA RowsStayGood ==
    ASSUME PricesInv, NEW gaps, Sync(gaps)
    PROVE  DOMAIN over' = Models /\ \A m \in Models : GoodRows(over'[m])
  <1>1. DOMAIN over' = Models
    BY DEF Sync
  <1> SUFFICES ASSUME NEW m \in Models PROVE GoodRows(over'[m])
    BY <1>1
  <1>2. over'[m] = {r \in over[m] : \A w \in Row(Table(over), m, gaps) : w.from # r.from}
                     \cup Row(Table(over), m, gaps)
    BY DEF Sync
  <1>3. GoodRows(Row(Table(over), m, gaps))
    BY WrittenRows, PricingAssumption DEF GoodRows, Considered, PricesInv, RowsAreGood
  <1> QED BY <1>2, <1>3 DEF GoodRows, PricesInv, RowsAreGood

\* What a run counts as a streak, it and the runs before it did see.
LEMMA RunsSee ==
    ASSUME PricesInv, NEW gaps, Sync(gaps), NEW m \in Models, feed[m] # NoRate
    PROVE  /\ Streak(m, feed[m]) \in 1 .. HoldCorroborations
           /\ Streak(m, feed[m]) <= sightings'[m].n
           /\ Same(feed[m], sightings'[m].rate)
  <1>1. sightings'[m] =
           IF sightings[m].n > 0 /\ Same(sightings[m].rate, feed[m])
           THEN [sightings[m] EXCEPT !.n = IF @ = HoldCorroborations THEN @ ELSE @ + 1]
           ELSE [rate |-> feed[m], n |-> 1]
    BY DEF Sync
  <1> QED BY <1>1 DEF PricesInv, StreaksAreSeen, Streak, Same, HoldCorroborations

\* ... and every run, day and move of the feed keeps it.
LEMMA PricesGoOn == PricesInv /\ [PricingNext]_pricingVars => PricesInv'
  <1> SUFFICES ASSUME PricesInv, [PricingNext]_pricingVars PROVE PricesInv'
    OBVIOUS
  <1>1. ASSUME NEW gaps, Sync(gaps), Passes, UNCHANGED <<feed, usage, moves, failures>>
        PROVE  PricesInv'
    <2>1. RowsAreGood'
      BY <1>1, RowsStayGood DEF PricesInv, RowsAreGood, Passes
    <2>2. ASSUME NEW m \in Models
          PROVE  /\ streak'[m].n \in Nat /\ sightings'[m].n \in Nat
                 /\ streak'[m].n > 0 =>
                       /\ streak'[m].n < HoldCorroborations /\ streak'[m].n <= sightings'[m].n
                       /\ Same(streak'[m].rate, sightings'[m].rate)
      <3>1. sightings'[m].n \in Nat
        BY <1>1 DEF Sync, PricesInv, StreaksAreSeen, HoldCorroborations
      <3>2. CASE m \in Held(Table(over), gaps)
        <4>1. feed[m] # NoRate /\ Streak(m, feed[m]) < HoldCorroborations
          BY <3>2 DEF Held, Considered
        <4>2. streak'[m] = [rate |-> feed[m], n |-> Streak(m, feed[m])]
          BY <1>1, <3>2 DEF Sync
        <4> QED BY <1>1, <3>1, <4>1, <4>2, RunsSee DEF HoldCorroborations
      <3>3. CASE m \notin Held(Table(over), gaps)
        BY <1>1, <3>1, <3>3 DEF Sync, NoStreak
      <3> QED BY <3>2, <3>3
    <2>3. StreaksAreSeen'
      BY <2>2 DEF StreaksAreSeen
    <2> QED BY <2>1, <2>3 DEF PricesInv
  <1>2. CASE Refresh
    BY <1>1, <1>2 DEF Refresh
  <1>3. ASSUME streak' = NoStreak, UNCHANGED <<over, feed, usage, sightings, moves>>, Passes,
               failures' \in Nat
        PROVE  PricesInv'
    BY <1>3 DEF Passes, NoStreak, PricesInv, RowsAreGood, StreaksAreSeen
  <1>4. CASE CoverFromUsage
    <2>1. CASE Gaps = {}
      BY <1>3, <1>4, <2>1 DEF CoverFromUsage, PricesInv, RowsAreGood
    <2>2. CASE Gaps # {}
      BY <1>1, <1>4, <2>2 DEF CoverFromUsage
    <2> QED BY <2>1, <2>2
  <1>5. CASE RunFails
    BY <1>3, <1>5 DEF RunFails, PricesInv, RowsAreGood
  <1>6. ASSUME NEW m \in Models, NEW r, FeedMoves(m, r) PROVE PricesInv'
    BY <1>6 DEF FeedMoves, PricesInv, RowsAreGood, StreaksAreSeen
  <1>7. ASSUME NEW m \in Models, NEW d \in Days, UsageArrives(m, d) PROVE PricesInv'
    <2>1. d \in Int
      BY <1>7, PricingAssumption DEF UsageArrives, PricesInv, RowsAreGood
    <2> QED BY <1>7, <2>1 DEF UsageArrives, PricesInv, RowsAreGood, StreaksAreSeen
  <1>8. CASE UNCHANGED pricingVars
    BY <1>8 DEF pricingVars, PricesInv, RowsAreGood, StreaksAreSeen
  <1> QED BY <1>2, <1>4, <1>5, <1>6, <1>7, <1>8 DEF PricingNext

\* Either a run syncs the table, or the table stays as it is.
LEMMA TableSteps ==
    ASSUME [PricingNext]_pricingVars
    PROVE  over' = over \/ \E gaps : Sync(gaps) /\ (gaps = {} \/ gaps = Gaps)
  BY DEF PricingNext, pricingVars, Refresh, CoverFromUsage, RunFails, FeedMoves, UsageArrives

-----------------------------------------------------------------------------
(* Days that are over *)

\* A new row of today is the price of today.
LEMMA TodaysRow ==
    ASSUME PricesInv, NEW gaps, Sync(gaps), NEW m \in Models, NEW w, Gains(m, w),
           w = [from |-> day, rate |-> feed[m]]
    PROVE  Rate(Table(over'), m, day) = feed[m]
  <1> DEFINE T == Table(over)
             U == Table(over')
  <1>1. GoodTable(U) /\ GoodRows(T[m]) /\ GoodRows(U[m])
    BY GoodTables, RowsStayGood DEF PricesInv, RowsAreGood, GoodTable
  <1>2. w.from = day /\ w.rate = feed[m] /\ day \in Int
    BY DEF PricesInv, RowsAreGood
  <1>3. PricedBy(U, m) = m
    BY DEF Gains, Adds, PricedBy
  <1>4. \A r \in UpTo(T[m], day) : r.from <= w.from
    BY <1>2 DEF UpTo
  <1>5. LastRows(UpTo(U[m], day)) = {w}
    BY <1>1, <1>2, <1>4, Adding DEF Gains
  <1>6. UpTo(U[m], day) # {}
    BY <1>2 DEF Gains, Adds, UpTo
  <1>7. (CHOOSE r \in {w} : TRUE).rate = w.rate
    OBVIOUS
  <1>8. Rate(U, m, day) = (CHOOSE r \in LastRows(UpTo(U[m], day)) : TRUE).rate
    BY <1>1, <1>2, <1>3, <1>6, RateIs
  <1> QED BY <1>2, <1>5, <1>7, <1>8

\* A model with a history that has a price keeps it, but for a new price of today.
LEMMA OwnPrice ==
    ASSUME PricesInv, NEW gaps, Sync(gaps), NEW m \in Models, NEW d \in Int, d <= day,
           Table(over)[m] # {}, Rate(Table(over), m, d) # NoRate
    PROVE  \/ Rate(Table(over'), m, d) = Rate(Table(over), m, d)
           \/ /\ d = day /\ Rate(Table(over'), m, d) = feed[m]
              /\ Row(Table(over), m, gaps) = {[from |-> day, rate |-> feed[m]]}
  <1> DEFINE T == Table(over)
             U == Table(over')
  <1>1. GoodTable(T) /\ GoodTable(U)
    BY GoodTables, RowsStayGood DEF PricesInv, RowsAreGood
  <1>2. GoodRows(T[m]) /\ GoodRows(U[m])
    BY <1>1 DEF GoodTable
  <1>3. PricedBy(T, m) = m /\ UpTo(T[m], d) # {}
    BY <1>1, RateIs DEF PricedBy
  <1>4. ASSUME Unmoved(m) PROVE Rate(U, m, d) = Rate(T, m, d)
    BY <1>4, SameHistory DEF Unmoved
  <1>5. ASSUME NEW w, Gains(m, w),
               UpTo(U[m], d) = UpTo(T[m], d) \/ LastRows(UpTo(U[m], d)) = LastRows(UpTo(T[m], d))
        PROVE  Rate(U, m, d) = Rate(T, m, d)
    <2>1. PricedBy(U, m) = m
      BY <1>5 DEF Gains, Adds, PricedBy
    <2>2. UpTo(U[m], d) # {} /\ LastRows(UpTo(U[m], d)) = LastRows(UpTo(T[m], d))
      BY <1>2, <1>3, <1>5, Adding DEF Gains
    <2> HIDE DEF T, U
    <2> QED BY <1>1, <1>3, <2>1, <2>2, RateIs
  <1>6. ASSUME NEW w, Gains(m, w), w.from = day - Backdate,
               Deepens(T, m, gaps) \/ Rate(T, m, day) = NoRate
        PROVE  Rate(U, m, d) = Rate(T, m, d)
    <2>1. UpTo(T[m], d) \subseteq UpTo(T[m], day)
      BY <1>2 DEF GoodRows, UpTo, PricesInv, RowsAreGood
    <2>2. Rate(T, m, day) # NoRate
      BY <1>1, <1>3, <2>1, RateIs DEF PricesInv, RowsAreGood
    <2>3. Rate(T, m, day - Backdate) = NoRate /\ day - Backdate \in Int
      BY <1>6, <2>2, PricingAssumption DEF Deepens, PricesInv, RowsAreGood
    <2>4. UpTo(T[m], day - Backdate) = {}
      BY <1>1, <1>3, <2>3, RateIs
    <2>5. \A r \in UpTo(T[m], d) : w.from < r.from
      BY <1>2, <1>6, <2>3, <2>4 DEF UpTo, GoodRows
    <2>6. LastRows(UpTo(U[m], d)) = LastRows(UpTo(T[m], d))
      BY <1>2, <1>3, <1>6, <2>5, Adding DEF Gains
    <2> QED BY <1>5, <1>6, <2>6
  <1>7. ASSUME NEW w, Gains(m, w), w = [from |-> day, rate |-> feed[m]]
        PROVE  IF d = day THEN Rate(U, m, d) = feed[m] ELSE Rate(U, m, d) = Rate(T, m, d)
    <2>1. w.from = day /\ w.rate = feed[m] /\ day \in Int
      BY <1>7 DEF PricesInv, RowsAreGood
    <2>2. CASE d = day
      BY <1>7, <2>2, TodaysRow
    <2>3. CASE d # day
      <3>1. UpTo(U[m], d) = UpTo(T[m], d)
        BY <1>2, <1>7, <2>1, <2>3, Adding DEF Gains
      <3> QED BY <1>5, <1>7, <2>3, <3>1
    <2> QED BY <2>2, <2>3
  <1>8. CASE Row(T, m, gaps) = {}
    BY <1>4, <1>8, HistoryAfter
  <1>9. ASSUME Row(T, m, gaps) = {[from |-> day - Backdate, rate |-> feed[m]]},
               Deepens(T, m, gaps) \/ Rate(T, m, day) = NoRate
        PROVE  Rate(U, m, d) = Rate(T, m, d)
    <2>1. PICK w : w = [from |-> day - Backdate, rate |-> feed[m]]
      OBVIOUS
    <2>2. Gains(m, w) \/ Unmoved(m)
      BY <1>9, <2>1, HistoryAfter
    <2>3. w.from = day - Backdate
      BY <2>1
    <2>4. ASSUME Gains(m, w) PROVE Rate(U, m, d) = Rate(T, m, d)
      BY <1>6, <1>9, <2>3, <2>4
    <2>5. ASSUME Unmoved(m) PROVE Rate(U, m, d) = Rate(T, m, d)
      BY <1>4, <2>5
    <2> QED BY <2>2, <2>4, <2>5
  <1>10. ASSUME Row(T, m, gaps) = {[from |-> day, rate |-> feed[m]]}
         PROVE  \/ Rate(U, m, d) = Rate(T, m, d)
                \/ d = day /\ Rate(U, m, d) = feed[m]
    <2>1. PICK w : w = [from |-> day, rate |-> feed[m]]
      OBVIOUS
    <2>2. Gains(m, w) \/ Unmoved(m)
      BY <1>10, <2>1, HistoryAfter
    <2> QED BY <1>4, <1>7, <2>1, <2>2
  <1> QED BY <1>8, <1>9, <1>10, WrittenRows

\* No step changes the price of a day that is over.
LEMMA FixedStep == PricesInv /\ [PricingNext]_pricingVars =>
    \A m \in Models, d \in Days :
        d < day /\ Table(over)[m] # {} /\ Rate(Table(over), m, d) # NoRate =>
            Rate(Table(over'), m, d) = Rate(Table(over), m, d)
  <1> SUFFICES ASSUME PricesInv, [PricingNext]_pricingVars, NEW m \in Models, NEW d \in Days,
                      d < day, Table(over)[m] # {}, Rate(Table(over), m, d) # NoRate
               PROVE  Rate(Table(over'), m, d) = Rate(Table(over), m, d)
    OBVIOUS
  <1>1. d \in Int /\ day \in Int
    BY DEF Days, PricesInv, RowsAreGood
  <1>2. CASE over' = over
    BY <1>2
  <1>3. ASSUME NEW gaps, Sync(gaps) PROVE Rate(Table(over'), m, d) = Rate(Table(over), m, d)
    BY <1>1, <1>3, OwnPrice
  <1> QED BY <1>2, <1>3, TableSteps

-----------------------------------------------------------------------------
(* Glitches *)

\* A price of today that replaces another passed the gate.
LEMMA GatePassed ==
    ASSUME PricesInv, NEW gaps, Sync(gaps), NEW m \in Models,
           Row(Table(over), m, gaps) = {[from |-> day, rate |-> feed[m]]},
           Rate(Table(over), m, day) # NoRate, Jumps(Rate(Table(over), m, day), feed[m])
    PROVE  sightings'[m].n >= HoldCorroborations
  <1>1. ~Deepens(Table(over), m, gaps)
    <2>1. CASE Backdate = 0
      BY <2>1 DEF Deepens, PricesInv, RowsAreGood
    <2>2. CASE Backdate # 0
      <3>1. [from |-> day, rate |-> feed[m]] # [from |-> day - Backdate, rate |-> feed[m]]
        <4>1. [from |-> day, rate |-> feed[m]].from
                 # [from |-> day - Backdate, rate |-> feed[m]].from
          BY <2>2, PricingAssumption DEF PricesInv, RowsAreGood
        <4> QED BY <4>1
      <3> QED BY <3>1 DEF Row
    <2> QED BY <2>1, <2>2
  <1>2. /\ m \in Considered(Table(over), gaps) \ Held(Table(over), gaps)
        /\ ~Same(Rate(Table(over), m, day), feed[m])
    BY <1>1 DEF Row
  <1>3. feed[m] # NoRate /\ ~(Streak(m, feed[m]) < HoldCorroborations)
    BY <1>1, <1>2 DEF Held, Considered
  <1> QED BY <1>3, RunsSee DEF HoldCorroborations, PricesInv, StreaksAreSeen, Sync

\* A model with a history is not repriced by a glitch.
LEMMA OwnGlitches ==
    ASSUME PricesInv, NEW gaps, Sync(gaps), NEW m \in Models, Table(over)[m] # {},
           Rate(Table(over), m, day) # NoRate,
           Rate(Table(over'), m, day) # Rate(Table(over), m, day),
           Jumps(Rate(Table(over), m, day), Rate(Table(over'), m, day))
    PROVE  sightings'[m].n >= HoldCorroborations
  BY OwnPrice, GatePassed DEF PricesInv, RowsAreGood

\* A history does not vanish.
LEMMA HistoryStays ==
    ASSUME PricesInv, NEW gaps, Sync(gaps), NEW m \in Models, NEW d \in Int,
           UpTo(Table(over)[m], d) # {}
    PROVE  UpTo(Table(over')[m], d) # {}
  <1>1. GoodTable(Table(over)) /\ GoodTable(Table(over'))
    BY GoodTables, RowsStayGood DEF PricesInv, RowsAreGood
  <1>2. ASSUME NEW w, Gains(m, w) PROVE UpTo(Table(over')[m], d) # {}
    BY <1>1, <1>2, Adding DEF Gains, GoodTable
  <1>3. \E w : Row(Table(over), m, gaps) = {} \/ Row(Table(over), m, gaps) = {w}
    BY WrittenRows
  <1> QED BY <1>2, <1>3, HistoryAfter DEF Unmoved

\* The first row of its own that a priced snapshot gets
LEMMA FirstRow ==
    ASSUME PricesInv, NEW gaps, Sync(gaps), NEW m \in Models,
           Table(over)[m] = {}, Table(over')[m] # {}
    PROVE  \E w : /\ Row(Table(over), m, gaps) = {w} /\ Table(over')[m] = {w}
                  /\ w.rate = feed[m]
                  /\ \/ /\ w.from = day - Backdate
                        /\ Deepens(Table(over), m, gaps) \/ Rate(Table(over), m, day) = NoRate
                     \/ w.from = day /\ w = [from |-> day, rate |-> feed[m]]
                        /\ Rate(Table(over), m, day) # NoRate
  <1>1. PICK w : /\ Row(Table(over), m, gaps) = {w}
                 /\ \/ /\ w = [from |-> day - Backdate, rate |-> feed[m]]
                       /\ Deepens(Table(over), m, gaps) \/ Rate(Table(over), m, day) = NoRate
                    \/ w = [from |-> day, rate |-> feed[m]] /\ Rate(Table(over), m, day) # NoRate
    <2>1. ~Unmoved(m)
      BY DEF Unmoved
    <2>2. Row(Table(over), m, gaps) # {}
      BY <2>1, HistoryAfter
    <2> QED BY <2>2, WrittenRows
  <1>2. Gains(m, w)
    BY <1>1, HistoryAfter DEF Unmoved
  <1>3. Table(over')[m] = {w}
    BY <1>2 DEF Gains, Adds
  <1>4. w.rate = feed[m] /\ (w = [from |-> day - Backdate, rate |-> feed[m]] => w.from = day - Backdate)
        /\ (w = [from |-> day, rate |-> feed[m]] => w.from = day)
    BY <1>1
  <1> QED BY <1>1, <1>3, <1>4

\* The price of a history of one row
LEMMA OneRow ==
    ASSUME NEW t, NEW m \in Models, NEW d \in Int, NEW w, GoodTable(t), t[m] = {w}, w.from <= d
    PROVE  Rate(t, m, d) = w.rate /\ Rate(t, m, d) # NoRate
  <1>1. PricedBy(t, m) = m /\ UpTo(t[m], d) = {w}
    BY DEF PricedBy, UpTo
  <1>2. LastRows({w}) = {w}
    <2>1. w.from \in Int
      BY DEF GoodTable, GoodRows
    <2> QED BY <2>1 DEF LastRows
  <1>3. (CHOOSE r \in {w} : TRUE).rate = w.rate
    OBVIOUS
  <1> QED BY <1>1, <1>2, <1>3, RateIs

\* A snapshot without a history has the price of its family.
LEMMA FamilyPrice ==
    ASSUME NEW t, NEW m \in Models, NEW d, t[m] = {}
    PROVE  FamilyOf[m] \in Models /\ Rate(t, m, d) = Rate(t, FamilyOf[m], d)
  <1> DEFINE price(k) == IF UpTo(t[k], d) = {} THEN NoRate
                         ELSE (CHOOSE r \in LastRows(UpTo(t[k], d)) : TRUE).rate
  <1>1. \A x : Rate(t, x, d) = price(PricedBy(t, x))
    BY DEF Rate, PricedBy, UpTo
  <1>2. FamilyOf[m] \in Models /\ FamilyOf[FamilyOf[m]] = FamilyOf[m]
    BY PricingAssumption
  <1>3. PricedBy(t, m) = FamilyOf[m] /\ PricedBy(t, FamilyOf[m]) = FamilyOf[m]
    BY <1>2 DEF PricedBy
  <1> HIDE DEF price
  <1> QED BY <1>1, <1>2, <1>3

\* A swing that a step applies was seen often enough, or fills in a snapshot.
LEMMA HeldStep == PricesInv /\ [PricingNext]_pricingVars =>
    \A m \in Models :
        LET old == Rate(Table(over), m, day)
            new == Rate(Table(over'), m, day)
            priced == IF Table(over')[m] # {} THEN m ELSE FamilyOf[m]
        IN  old # NoRate /\ new # old /\ Jumps(old, new) =>
                \/ sightings'[priced].n >= HoldCorroborations
                \/ Table(over)[m] = {} /\ priced = m /\ Rate(Table(over), m, day - Backdate) = NoRate
  <1> SUFFICES ASSUME PricesInv, [PricingNext]_pricingVars, NEW m \in Models,
                      Rate(Table(over), m, day) # NoRate,
                      Rate(Table(over'), m, day) # Rate(Table(over), m, day),
                      Jumps(Rate(Table(over), m, day), Rate(Table(over'), m, day))
               PROVE  \/ sightings'[IF Table(over')[m] # {} THEN m ELSE FamilyOf[m]].n
                            >= HoldCorroborations
                      \/ /\ Table(over)[m] = {} /\ Table(over')[m] # {}
                         /\ Rate(Table(over), m, day - Backdate) = NoRate
    OBVIOUS
  <1>1. over' # over
    OBVIOUS
  <1>2. PICK gaps : Sync(gaps)
    BY <1>1, TableSteps
  <1>3. GoodTable(Table(over)) /\ GoodTable(Table(over')) /\ day \in Int
    BY <1>2, GoodTables, RowsStayGood DEF PricesInv, RowsAreGood
  <1>4. CASE Table(over)[m] # {}
    <2>1. Table(over')[m] # {}
      <3>1. PICK r \in Table(over)[m] : r.from \in Int
        BY <1>3, <1>4 DEF GoodTable, GoodRows
      <3>2. UpTo(Table(over)[m], r.from) # {}
        BY <3>1 DEF UpTo
      <3>3. UpTo(Table(over')[m], r.from) # {}
        BY <1>2, <3>1, <3>2, HistoryStays
      <3> QED BY <3>3 DEF UpTo
    <2> QED BY <1>2, <1>4, <2>1, OwnGlitches
  <1>5. CASE Table(over)[m] = {} /\ Table(over')[m] # {}
    <2>1. PICK w : /\ Row(Table(over), m, gaps) = {w} /\ Table(over')[m] = {w}
                   /\ w.rate = feed[m]
                   /\ \/ w.from = day - Backdate /\ Deepens(Table(over), m, gaps)
                      \/ w.from = day /\ w = [from |-> day, rate |-> feed[m]]
      BY <1>2, <1>5, FirstRow
    <2>2. CASE Deepens(Table(over), m, gaps)
      BY <1>5, <2>2 DEF Deepens
    <2>3. CASE w.from = day /\ w = [from |-> day, rate |-> feed[m]]
      <3>1. Rate(Table(over'), m, day) = feed[m]
        BY <1>3, <2>1, <2>3, OneRow
      <3>2. sightings'[m].n >= HoldCorroborations
        BY <1>2, <2>1, <2>3, <3>1, GatePassed
      <3> QED BY <1>5, <3>2
    <2> QED BY <2>1, <2>2, <2>3
  <1>6. CASE Table(over)[m] = {} /\ Table(over')[m] = {}
    <2>1. PICK f \in Models : f = FamilyOf[m]
      BY <1>6, FamilyPrice
    <2>2. /\ Rate(Table(over), m, day) = Rate(Table(over), f, day)
          /\ Rate(Table(over'), m, day) = Rate(Table(over'), f, day)
      BY <1>6, <2>1, FamilyPrice
    <2>3. Table(over)[f] # {}
      <3>1. PricedBy(Table(over), f) = f
        BY <2>1, PricingAssumption DEF PricedBy
      <3>2. UpTo(Table(over)[f], day) # {}
        BY <1>3, <2>2, <3>1, RateIs
      <3> QED BY <3>2 DEF UpTo
    <2>4. sightings'[f].n >= HoldCorroborations
      BY <1>2, <2>2, <2>3, OwnGlitches
    <2> QED BY <1>6, <2>1, <2>4
  <1> QED BY <1>4, <1>5, <1>6

-----------------------------------------------------------------------------
(* The work of a run *)

\* A gap of the window that the feed could close for the model or its family
LEMMA RowForGap ==
    ASSUME PricesInv, NEW m \in Models, NEW k \in Models, NEW d \in Int,
           Rate(Table(over), m, d) = NoRate, d >= day - Backdate,
           m \in Gaps, k = m \/ (k = FamilyOf[m] /\ Table(over)[m] = {}),
           feed[k] # NoRate, InBand(feed[k])
    PROVE  Row(Table(over), k, Gaps) = {[from |-> day - Backdate, rate |-> feed[k]]}
  <1> DEFINE T == Table(over)
  <1>1. GoodTable(T) /\ day \in Int /\ day - Backdate \in Int
    BY GoodTables, PricingAssumption DEF PricesInv, RowsAreGood
  <1>2. FamilyOf[m] \in Models /\ FamilyOf[k] = FamilyOf[m]
    BY PricingAssumption
  <1>3. Covered(k, Gaps)
    BY <1>2 DEF Covered
  <1>4. \A x \in Int : Rate(T, k, x) = Rate(T, m, x)
    BY FamilyPrice
  <1>5. Rate(T, m, day - Backdate) = NoRate
    <2>1. UpTo(T[PricedBy(T, m)], d) = {}
      BY <1>1, RateIs
    <2>2. PricedBy(T, m) \in Models
      BY <1>2 DEF PricedBy
    <2>3. UpTo(T[PricedBy(T, m)], day - Backdate) \subseteq UpTo(T[PricedBy(T, m)], d)
      BY <1>1, <2>2 DEF UpTo, GoodTable, GoodRows
    <2> HIDE DEF T
    <2> QED BY <1>1, <2>1, <2>3, RateIs
  <1>6. Deepens(T, k, Gaps) \/ Rate(T, k, day) = NoRate
    BY <1>1, <1>3, <1>4, <1>5 DEF Deepens
  <1>7. k \in Considered(T, Gaps) \ Held(T, Gaps)
    BY <1>3, <1>6 DEF Considered, Held
  <1> QED BY <1>6, <1>7 DEF Row

\* A cover run closes such a gap.
LEMMA GapCloses ==
    ASSUME PricesInv, Sync(Gaps), NEW m \in Models, NEW k \in Models, NEW d \in Int,
           Rate(Table(over), m, d) = NoRate, d >= day - Backdate,
           m \in Gaps, k = m \/ (k = FamilyOf[m] /\ Table(over)[m] = {}),
           feed[k] # NoRate, InBand(feed[k])
    PROVE  Rate(Table(over'), m, d) # NoRate
  <1>1. GoodTable(Table(over)) /\ GoodTable(Table(over')) /\ day - Backdate \in Int
    BY GoodTables, RowsStayGood, PricingAssumption DEF PricesInv, RowsAreGood
  <1>2. PICK w : w = [from |-> day - Backdate, rate |-> feed[k]]
    OBVIOUS
  <1>3. Row(Table(over), k, Gaps) = {w} /\ w.from = day - Backdate
    BY <1>2, RowForGap
  <1>4. \E r \in Table(over')[k] : r.from = day - Backdate
    <2>1. CASE Gains(k, w)
      BY <1>3, <2>1 DEF Gains, Adds
    <2>2. ASSUME Unmoved(k), NEW b \in BaseRows, b.model = k, b.from = w.from
          PROVE  \E r \in Table(over')[k] : r.from = day - Backdate
      <3>1. [from |-> b.from, rate |-> b.rate] \in Table(over')[k]
        BY <2>2 DEF Table
      <3> QED BY <1>3, <2>2, <3>1
    <2> QED BY <1>3, <2>1, <2>2, HistoryAfter
  <1>5. UpTo(Table(over')[k], d) # {}
    BY <1>1, <1>4 DEF UpTo, GoodTable, GoodRows
  <1>6. CASE k = m \/ Table(over')[m] = {}
    <2>1. PricedBy(Table(over'), m) = k
      BY <1>5, <1>6 DEF PricedBy, UpTo
    <2> QED BY <1>1, <1>5, <2>1, RateIs
  <1>7. CASE Table(over)[m] = {} /\ Table(over')[m] # {}
    <2>1. PICK x : /\ Table(over')[m] = {x}
                   /\ \/ x.from = day - Backdate
                      \/ ~Deepens(Table(over), m, Gaps) /\ Rate(Table(over), m, day) # NoRate
      <3>1. PICK x : /\ Row(Table(over), m, Gaps) = {x} /\ Table(over')[m] = {x}
                     /\ \/ x.from = day - Backdate
                        \/ x = [from |-> day, rate |-> feed[m]]
                           /\ Rate(Table(over), m, day) # NoRate
        BY <1>7, FirstRow
      <3>2. CASE Deepens(Table(over), m, Gaps)
        <4>1. x = [from |-> day - Backdate, rate |-> feed[m]]
          BY <3>1, <3>2 DEF Row
        <4>2. x.from = day - Backdate
          BY <4>1
        <4> QED BY <3>1, <4>2
      <3> QED BY <3>1, <3>2
    <2>2. Deepens(Table(over), m, Gaps) \/ Rate(Table(over), m, day) = NoRate
      <3>1. Covered(m, Gaps)
        BY DEF Covered
      <3>2. Rate(Table(over), m, day - Backdate) = NoRate
        <4>1. PricedBy(Table(over), m) \in Models
          BY PricingAssumption DEF PricedBy
        <4>2. UpTo(Table(over)[PricedBy(Table(over), m)], d) = {}
          BY <1>1, RateIs
        <4>3. UpTo(Table(over)[PricedBy(Table(over), m)], day - Backdate) = {}
          BY <1>1, <4>1, <4>2 DEF UpTo, GoodTable, GoodRows
        <4> QED BY <1>1, <4>3, RateIs
      <3> QED BY <3>1, <3>2 DEF Deepens
    <2>3. x.from = day - Backdate
      BY <2>1, <2>2
    <2>4. x.from <= d
      BY <2>3
    <2> QED BY <1>1, <2>1, <2>4, OneRow
  <1> QED BY <1>6, <1>7

\* After a refresh the price of a model with a history is the feed's, or held.
LEMMA GateAgrees ==
    ASSUME PricesInv, Sync({}), NEW m \in Models,
           Table(over')[m] # {}, feed[m] # NoRate, InBand(feed[m]),
           Verdict(Table(over'), m) = "mismatch"
    PROVE  \/ Same(Rate(Table(over'), m, day), feed[m])
           \/ \E b \in BaseRows : b.model = m /\ b.from = day
  <1> DEFINE T == Table(over)
             U == Table(over')
  <1>1. GoodTable(T) /\ GoodTable(U) /\ day \in Int
    BY GoodTables, RowsStayGood DEF PricesInv, RowsAreGood
  <1>2. Rate(U, m, day) # NoRate /\ Rate(U, m, day) # feed[m] /\ ~Jumps(Rate(U, m, day), feed[m])
    <2>1. Listed(m) = {m} /\ (CHOOSE x \in {m} : TRUE) = m
      BY DEF Listed
    <2> QED BY <2>1 DEF Verdict
  <1>3. ~Deepens(T, m, {}) /\ ~Covered(m, {})
    BY DEF Deepens, Covered
  <1>4. ASSUME Row(T, m, {}) = {} PROVE Rate(U, m, day) = Rate(T, m, day)
    BY <1>4, HistoryAfter, SameHistory DEF Unmoved
  <1>5. m \in Considered(T, {}) /\ Rate(T, m, day) # NoRate
    <2>1. CASE m \notin Considered(T, {})
      BY <1>2, <1>4, <2>1 DEF Row, Considered
    <2> QED BY <1>3, <2>1 DEF Considered
  <1>6. CASE m \in Held(T, {})
    BY <1>2, <1>4, <1>6 DEF Held, Row
  <1>7. CASE m \notin Held(T, {}) /\ Same(Rate(T, m, day), feed[m])
    <2>1. Row(T, m, {}) = {}
      BY <1>3, <1>5, <1>7 DEF Row
    <2> QED BY <1>4, <1>7, <2>1
  <1>8. CASE m \notin Held(T, {}) /\ ~Same(Rate(T, m, day), feed[m])
    <2>1. PICK w : w = [from |-> day, rate |-> feed[m]]
      OBVIOUS
    <2>2. Row(T, m, {}) = {w} /\ w.from = day
      BY <1>3, <1>5, <1>8, <2>1 DEF Row
    <2>3. ~Gains(m, w)
      BY <1>2, <2>1, TodaysRow
    <2> QED BY <2>2, <2>3, HistoryAfter
  <1> QED BY <1>6, <1>7, <1>8

\* A cover run leaves no gap that the feed could close, and a refresh no objection.
LEMMA WorkStep == PricesInv /\ [PricingNext]_pricingVars =>
    ((slot' # slot \/ day' # day) /\ failures' = failures =>
        /\ Starts("cover") =>
            \A u \in usage :
                LET offers == {k \in {u[1], FamilyOf[u[1]]} :
                                feed[k] # NoRate /\ (Table(over)[u[1]] = {} \/ k = u[1])}
                IN  /\ u[2] >= day - Window
                    /\ Rate(Table(over), u[1], u[2]) = NoRate
                    /\ \E k \in offers : InBand(feed[k])
                    => Rate(Table(over'), u[1], u[2]) # NoRate
        /\ Starts("refresh") =>
            \A m \in Models :
                /\ Table(over')[m] # {} /\ feed[m] # NoRate
                /\ feed[m] # NoRate => InBand(feed[m])
                /\ Verdict(Table(over'), m) = "mismatch"
                => \/ Same(Rate(Table(over'), m, day), feed[m])
                   \/ \E b \in BaseRows : b.model = m /\ b.from = day)
  <1> SUFFICES ASSUME PricesInv, [PricingNext]_pricingVars,
                      slot' # slot \/ day' # day, failures' = failures
               PROVE  /\ Starts("cover") =>
                          \A u \in usage : \A k \in {u[1], FamilyOf[u[1]]} :
                              /\ feed[k] # NoRate /\ (Table(over)[u[1]] = {} \/ k = u[1])
                              /\ u[2] >= day - Window
                              /\ Rate(Table(over), u[1], u[2]) = NoRate
                              /\ InBand(feed[k])
                              => Rate(Table(over'), u[1], u[2]) # NoRate
                      /\ Starts("refresh") =>
                          \A m \in Models :
                              /\ Table(over')[m] # {} /\ feed[m] # NoRate
                              /\ feed[m] # NoRate => InBand(feed[m])
                              /\ Verdict(Table(over'), m) = "mismatch"
                              => \/ Same(Rate(Table(over'), m, day), feed[m])
                                 \/ \E b \in BaseRows : b.model = m /\ b.from = day
    OBVIOUS
  <1>1. Refresh \/ CoverFromUsage
    BY DEF PricingNext, pricingVars, RunFails, FeedMoves, UsageArrives, PricesInv, RowsAreGood
  <1>2. ASSUME Starts("cover"), NEW u \in usage, NEW k \in {u[1], FamilyOf[u[1]]},
               feed[k] # NoRate, Table(over)[u[1]] = {} \/ k = u[1], u[2] >= day - Window,
               Rate(Table(over), u[1], u[2]) = NoRate, InBand(feed[k])
        PROVE  Rate(Table(over'), u[1], u[2]) # NoRate
    <2>1. u[1] \in Gaps
      BY <1>2 DEF Gaps
    <2>2. Sync(Gaps)
      BY <1>1, <1>2, <2>1 DEF Refresh, CoverFromUsage, Starts
    <2>3. u[1] \in Models /\ k \in Models /\ u[2] \in Int /\ u[2] >= day - Backdate
      BY <1>2, PricingAssumption DEF PricesInv, RowsAreGood
    <2> QED BY <1>2, <2>1, <2>2, <2>3, GapCloses
  <1>3. ASSUME Starts("refresh"), NEW m \in Models, Table(over')[m] # {}, feed[m] # NoRate,
               InBand(feed[m]), Verdict(Table(over'), m) = "mismatch"
        PROVE  \/ Same(Rate(Table(over'), m, day), feed[m])
               \/ \E b \in BaseRows : b.model = m /\ b.from = day
    <2>1. Sync({})
      BY <1>1, <1>3 DEF Refresh, CoverFromUsage, Starts
    <2> QED BY <1>3, <2>1, GateAgrees
  <1> QED BY <1>2, <1>3

-----------------------------------------------------------------------------
(* Theorems about the table *)

\* PricesInv holds throughout.
LEMMA PricesInvariant == PricingSpec => []PricesInv
  BY PricesStart, PricesGoOn, PTL DEF PricingSpec

\* Whatever the runs write, the price of a day that is over stays the same for a
\* model with a history of its own (merge_overlay).
THEOREM HistoryStaysFixed == PricingSpec => HistoryIsFixed
  BY PricesInvariant, FixedStep, PTL DEF PricingSpec, HistoryIsFixed

\* No swing of the feed is applied before three runs have seen it, but for the
\* backdated first row of a snapshot (plan, gate 4).
THEOREM GlitchesWait == PricingSpec => GlitchesAreHeld
  BY PricesInvariant, HeldStep, PTL DEF PricingSpec, GlitchesAreHeld

\* A cover run closes the gaps that the feed can close, and after a refresh the gate
\* of releases has nothing to object to (cover_from_usage, pricing_verify.verify).
THEOREM RunsHaveDoneTheirWork == PricingSpec => RunsDoTheirWork
  BY PricesInvariant, WorkStep, PTL DEF PricingSpec, RunsDoTheirWork

-----------------------------------------------------------------------------
(* The sums of the detectors are such sums *)

\* What calls cost, at the rates of their card ...
LEMMA CostsAddUp ==
    ASSUME NEW t, NEW P, NEW g, Weighs(g, P),
           \A r \in P : g[r] = CostAt(r, RateOf(t, r))
    PROVE  MapThenSumSet(LAMBDA r : CostAt(r, RateOf(t, r)), P) = SumUp(g, P)
  <1> DEFINE e(s) == CostAt(Pick(s), RateOf(t, Pick(s)))
             Rec(i) == i = [s \in SUBSET P |-> IF s = {} THEN 0 ELSE e(s) + i[s \ {Pick(s)}]]
             iter == CHOOSE i : Rec(i)
  <1>1. MapThenSumSet(LAMBDA r : CostAt(r, RateOf(t, r)), P) = iter[P]
    BY DEF MapThenSumSet, MapThenFoldSet, Pick
  <1>2. \A s \in SUBSET P : s # {} => g[Pick(s)] = e(s)
    BY Picked
  <1> HIDE DEF e
  <1>3. \A i : Rec(i) <=> FoldOf(g, P, i)
    <2>1. ASSUME NEW i
          PROVE  [s \in SUBSET P |-> IF s = {} THEN 0 ELSE e(s) + i[s \ {Pick(s)}]]
                 = [s \in SUBSET P |-> IF s = {} THEN 0 ELSE g[Pick(s)] + i[s \ {Pick(s)}]]
      BY <1>2
    <2> QED BY <2>1 DEF FoldOf
  <1>4. Rec(iter)
    <2>1. \E i : Rec(i)
      BY <1>3, FoldIs
    <2> HIDE DEF Rec
    <2> QED BY <2>1
  <1> HIDE DEF Rec, iter
  <1> QED BY <1>1, <1>3, <1>4, FoldIs

\* ... and at those of the model one tier down;
LEMMA CheaperCostsAddUp ==
    ASSUME NEW t, NEW P, NEW g, Weighs(g, P),
           \A r \in P : g[r] = CostAt(r, t[Downgrade[r.model]][DayOf(r)])
    PROVE  MapThenSumSet(LAMBDA r : CostAt(r, t[Downgrade[r.model]][DayOf(r)]), P) = SumUp(g, P)
  <1> DEFINE e(s) == CostAt(Pick(s), t[Downgrade[Pick(s).model]][DayOf(Pick(s))])
             Rec(i) == i = [s \in SUBSET P |-> IF s = {} THEN 0 ELSE e(s) + i[s \ {Pick(s)}]]
             iter == CHOOSE i : Rec(i)
  <1>1. MapThenSumSet(LAMBDA r : CostAt(r, t[Downgrade[r.model]][DayOf(r)]), P) = iter[P]
    BY DEF MapThenSumSet, MapThenFoldSet, Pick
  <1>2. \A s \in SUBSET P : s # {} => g[Pick(s)] = e(s)
    BY Picked
  <1> HIDE DEF e
  <1>3. \A i : Rec(i) <=> FoldOf(g, P, i)
    <2>1. ASSUME NEW i
          PROVE  [s \in SUBSET P |-> IF s = {} THEN 0 ELSE e(s) + i[s \ {Pick(s)}]]
                 = [s \in SUBSET P |-> IF s = {} THEN 0 ELSE g[Pick(s)] + i[s \ {Pick(s)}]]
      BY <1>2
    <2> QED BY <2>1 DEF FoldOf
  <1>4. Rec(iter)
    <2>1. \E i : Rec(i)
      BY <1>3, FoldIs
    <2> HIDE DEF Rec
    <2> QED BY <2>1
  <1> HIDE DEF Rec, iter
  <1> QED BY <1>1, <1>3, <1>4, FoldIs

\* what a token saves that is read from the cache,
LEMMA ReadsAddUp ==
    ASSUME NEW t, NEW P, NEW g, Weighs(g, P),
           \A r \in P : g[r] = RateOf(t, r).input - RateOf(t, r).read
    PROVE  MapThenSumSet(LAMBDA r : RateOf(t, r).input - RateOf(t, r).read, P) = SumUp(g, P)
  <1> DEFINE e(s) == RateOf(t, Pick(s)).input - RateOf(t, Pick(s)).read
             Rec(i) == i = [s \in SUBSET P |-> IF s = {} THEN 0 ELSE e(s) + i[s \ {Pick(s)}]]
             iter == CHOOSE i : Rec(i)
  <1>1. MapThenSumSet(LAMBDA r : RateOf(t, r).input - RateOf(t, r).read, P) = iter[P]
    BY DEF MapThenSumSet, MapThenFoldSet, Pick
  <1>2. \A s \in SUBSET P : s # {} => g[Pick(s)] = e(s)
    BY Picked
  <1> HIDE DEF e
  <1>3. \A i : Rec(i) <=> FoldOf(g, P, i)
    <2>1. ASSUME NEW i
          PROVE  [s \in SUBSET P |-> IF s = {} THEN 0 ELSE e(s) + i[s \ {Pick(s)}]]
                 = [s \in SUBSET P |-> IF s = {} THEN 0 ELSE g[Pick(s)] + i[s \ {Pick(s)}]]
      BY <1>2
    <2> QED BY <2>1 DEF FoldOf
  <1>4. Rec(iter)
    <2>1. \E i : Rec(i)
      BY <1>3, FoldIs
    <2> HIDE DEF Rec
    <2> QED BY <2>1
  <1> HIDE DEF Rec, iter
  <1> QED BY <1>1, <1>3, <1>4, FoldIs

\* and costs that is written to it;
LEMMA WritesAddUp ==
    ASSUME NEW t, NEW P, NEW g, Weighs(g, P),
           \A r \in P : g[r] = RateOf(t, r).write - RateOf(t, r).input
    PROVE  MapThenSumSet(LAMBDA r : RateOf(t, r).write - RateOf(t, r).input, P) = SumUp(g, P)
  <1> DEFINE e(s) == RateOf(t, Pick(s)).write - RateOf(t, Pick(s)).input
             Rec(i) == i = [s \in SUBSET P |-> IF s = {} THEN 0 ELSE e(s) + i[s \ {Pick(s)}]]
             iter == CHOOSE i : Rec(i)
  <1>1. MapThenSumSet(LAMBDA r : RateOf(t, r).write - RateOf(t, r).input, P) = iter[P]
    BY DEF MapThenSumSet, MapThenFoldSet, Pick
  <1>2. \A s \in SUBSET P : s # {} => g[Pick(s)] = e(s)
    BY Picked
  <1> HIDE DEF e
  <1>3. \A i : Rec(i) <=> FoldOf(g, P, i)
    <2>1. ASSUME NEW i
          PROVE  [s \in SUBSET P |-> IF s = {} THEN 0 ELSE e(s) + i[s \ {Pick(s)}]]
                 = [s \in SUBSET P |-> IF s = {} THEN 0 ELSE g[Pick(s)] + i[s \ {Pick(s)}]]
      BY <1>2
    <2> QED BY <2>1 DEF FoldOf
  <1>4. Rec(iter)
    <2>1. \E i : Rec(i)
      BY <1>3, FoldIs
    <2> HIDE DEF Rec
    <2> QED BY <2>1
  <1> HIDE DEF Rec, iter
  <1> QED BY <1>1, <1>3, <1>4, FoldIs

\* what could be taken from prompts;
LEMMA RemovablesAddUp ==
    ASSUME NEW S, NEW t, NEW P, NEW g, Weighs(g, P),
           \A r \in P : g[r] = Removable(S, r, t)
    PROVE  MapThenSumSet(LAMBDA r : Removable(S, r, t), P) = SumUp(g, P)
  <1> DEFINE e(s) == Removable(S, Pick(s), t)
             Rec(i) == i = [s \in SUBSET P |-> IF s = {} THEN 0 ELSE e(s) + i[s \ {Pick(s)}]]
             iter == CHOOSE i : Rec(i)
  <1>1. MapThenSumSet(LAMBDA r : Removable(S, r, t), P) = iter[P]
    BY DEF MapThenSumSet, MapThenFoldSet, Pick
  <1>2. \A s \in SUBSET P : s # {} => g[Pick(s)] = e(s)
    BY Picked
  <1> HIDE DEF e
  <1>3. \A i : Rec(i) <=> FoldOf(g, P, i)
    <2>1. ASSUME NEW i
          PROVE  [s \in SUBSET P |-> IF s = {} THEN 0 ELSE e(s) + i[s \ {Pick(s)}]]
                 = [s \in SUBSET P |-> IF s = {} THEN 0 ELSE g[Pick(s)] + i[s \ {Pick(s)}]]
      BY <1>2
    <2> QED BY <2>1 DEF FoldOf
  <1>4. Rec(iter)
    <2>1. \E i : Rec(i)
      BY <1>3, FoldIs
    <2> HIDE DEF Rec
    <2> QED BY <2>1
  <1> HIDE DEF Rec, iter
  <1> QED BY <1>1, <1>3, <1>4, FoldIs

\* ... and of the calls that a storm repeats;
LEMMA StormsAddUp ==
    ASSUME NEW t, NEW P, NEW g, Weighs(g, P),
           \A b \in P : g[b] = LET n == Cardinality(Priced(b, t)) IN (Unit * (n - 1) * Spend(b, t)) \div n
    PROVE  MapThenSumSet(LAMBDA b : LET n == Cardinality(Priced(b, t)) IN (Unit * (n - 1) * Spend(b, t)) \div n, P) = SumUp(g, P)
  <1> DEFINE e(s) == LET n == Cardinality(Priced(Pick(s), t)) IN (Unit * (n - 1) * Spend(Pick(s), t)) \div n
             Rec(i) == i = [s \in SUBSET P |-> IF s = {} THEN 0 ELSE e(s) + i[s \ {Pick(s)}]]
             iter == CHOOSE i : Rec(i)
  <1>1. MapThenSumSet(LAMBDA b : LET n == Cardinality(Priced(b, t)) IN (Unit * (n - 1) * Spend(b, t)) \div n, P) = iter[P]
    BY DEF MapThenSumSet, MapThenFoldSet, Pick
  <1>2. \A s \in SUBSET P : s # {} => g[Pick(s)] = e(s)
    BY Picked
  <1> HIDE DEF e
  <1>3. \A i : Rec(i) <=> FoldOf(g, P, i)
    <2>1. ASSUME NEW i
          PROVE  [s \in SUBSET P |-> IF s = {} THEN 0 ELSE e(s) + i[s \ {Pick(s)}]]
                 = [s \in SUBSET P |-> IF s = {} THEN 0 ELSE g[Pick(s)] + i[s \ {Pick(s)}]]
      BY <1>2
    <2> QED BY <2>1 DEF FoldOf
  <1>4. Rec(iter)
    <2>1. \E i : Rec(i)
      BY <1>3, FoldIs
    <2> HIDE DEF Rec
    <2> QED BY <2>1
  <1> HIDE DEF Rec, iter
  <1> QED BY <1>1, <1>3, <1>4, FoldIs

\* what writes to the cache cost that reads do not pay back.
LEMMA LossesAddUp ==
    ASSUME NEW t, NEW P, NEW g, Weighs(g, P),
           \A r \in P : g[r] = LET e == RateOf(t, r) IN (e.write - e.input) * r.written - (e.input - e.read) * r.cached
    PROVE  MapThenSumSet(LAMBDA r : LET e == RateOf(t, r) IN (e.write - e.input) * r.written - (e.input - e.read) * r.cached, P) = SumUp(g, P)
  <1> DEFINE w(s) == LET e == RateOf(t, Pick(s)) IN (e.write - e.input) * Pick(s).written - (e.input - e.read) * Pick(s).cached
             Rec(i) == i = [s \in SUBSET P |-> IF s = {} THEN 0 ELSE w(s) + i[s \ {Pick(s)}]]
             iter == CHOOSE i : Rec(i)
  <1>1. MapThenSumSet(LAMBDA r : LET e == RateOf(t, r) IN (e.write - e.input) * r.written - (e.input - e.read) * r.cached, P) = iter[P]
    BY DEF MapThenSumSet, MapThenFoldSet, Pick
  <1>2. \A s \in SUBSET P : s # {} => g[Pick(s)] = w(s)
    BY Picked
  <1> HIDE DEF w
  <1>3. \A i : Rec(i) <=> FoldOf(g, P, i)
    <2>1. ASSUME NEW i
          PROVE  [s \in SUBSET P |-> IF s = {} THEN 0 ELSE w(s) + i[s \ {Pick(s)}]]
                 = [s \in SUBSET P |-> IF s = {} THEN 0 ELSE g[Pick(s)] + i[s \ {Pick(s)}]]
      BY <1>2
    <2> QED BY <2>1 DEF FoldOf
  <1>4. Rec(iter)
    <2>1. \E i : Rec(i)
      BY <1>3, FoldIs
    <2> HIDE DEF Rec
    <2> QED BY <2>1
  <1> HIDE DEF Rec, iter
  <1> QED BY <1>1, <1>3, <1>4, FoldIs

-----------------------------------------------------------------------------
(* What calls cost *)

\* Whatever the card lists for a day of a log is a rate.
GoodCard(t) == \A m \in Models, d \in LogDays : t[m][d] # NoValue => IsRate(t[m][d])

\* Numbered calls, and a card for them
Fit(U, t) == Numbered(U) /\ (\A r \in U : IsCall(r)) /\ GoodCard(t)

\* What each call cost
Bills(U, t) == [r \in U |-> CostAt(r, RateOf(t, r))]

\* A call costs no less than what it was charged for the parts of its prompt.
LEMMA CostIs ==
    ASSUME NEW r, NEW e, IsCall(r), IsRate(e)
    PROVE  /\ PromptCost(r, e) \in Nat /\ CostAt(r, e) \in Nat
           /\ PromptCost(r, e) <= CostAt(r, e)
           /\ r.cached * e.read + r.written * e.write <= PromptCost(r, e)
           /\ r.cached = 0 /\ r.written = 0 => r.prompt * e.input <= PromptCost(r, e)
  <1>1. /\ r.prompt \in Nat /\ r.completion \in Nat /\ r.cached \in Nat /\ r.written \in Nat
        /\ e.input \in Nat /\ e.output \in Nat /\ e.read \in Nat /\ e.write \in Nat
    BY DEF IsCall, IsRate
  <1>2. Uncached(r) \in Nat /\ (r.cached = 0 /\ r.written = 0 => Uncached(r) = r.prompt)
    BY <1>1 DEF Uncached, NotNegative
  <1>3. /\ Uncached(r) * e.input \in Nat /\ r.cached * e.read \in Nat
        /\ r.written * e.write \in Nat /\ r.completion * e.output \in Nat
    BY <1>1, <1>2
  <1>4. r.cached = 0 /\ r.written = 0 => r.prompt * e.input = Uncached(r) * e.input
    BY <1>2
  <1> DEFINE a == Uncached(r) * e.input
             b == r.cached * e.read
             c == r.written * e.write
             d == r.completion * e.output
  <1>5. PromptCost(r, e) = a + b + c /\ CostAt(r, e) = PromptCost(r, e) + d
    BY DEF PromptCost, CostAt
  <1>6. a \in Nat /\ b \in Nat /\ c \in Nat /\ d \in Nat
    BY <1>3
  <1>7. r.cached = 0 /\ r.written = 0 => r.prompt * e.input = a
    BY <1>4
  <1>8. b + c <= PromptCost(r, e)
    <2> HIDE DEF a, b, c, d
    <2> QED BY <1>5, <1>6
  <1> HIDE DEF a, d
  <1> QED BY <1>5, <1>6, <1>7, <1>8

\* What prices a call is a rate.
LEMMA HasRate ==
    ASSUME NEW U, NEW t, Fit(U, t), NEW r \in U, RateOf(t, r) # NoValue
    PROVE  IsRate(RateOf(t, r))
  BY DEF Fit, GoodCard, RateOf, IsCall

\* Spend is the sum of the bills of the calls that have a price.
LEMMA SpendIs ==
    ASSUME NEW U, NEW t, Fit(U, t), NEW S \in SUBSET U
    PROVE  /\ Spend(S, t) = SumUp(Bills(U, t), Priced(S, t))
           /\ IsFiniteSet(Priced(S, t)) /\ Priced(S, t) \subseteq S
           /\ \A r \in Priced(S, t) : Bills(U, t)[r] \in Nat /\ Bills(U, t)[r] = CostAt(r, RateOf(t, r))
           /\ Spend(S, t) \in Nat
  <1> DEFINE P == Priced(S, t)
             g == Bills(U, t)
  <1>1. P \subseteq S /\ IsFiniteSet(P)
    <2>1. P \in SUBSET U
      BY DEF Priced
    <2> QED BY <2>1, FS_Subset DEF Fit, Numbered, Priced
  <1>2. \A r \in P : g[r] = CostAt(r, RateOf(t, r))
    BY <1>1 DEF Bills
  <1>3. \A r \in P : g[r] \in Nat
    BY <1>1, <1>2, CostIs, HasRate DEF Fit, Priced
  <1>4. Spend(S, t) = MapThenSumSet(LAMBDA r : CostAt(r, RateOf(t, r)), P)
    BY DEF Spend
  <1> HIDE DEF P, g
  <1>5. Weighs(g, P)
    BY <1>1, <1>3 DEF Weighs
  <1>6. MapThenSumSet(LAMBDA r : CostAt(r, RateOf(t, r)), P) = SumUp(g, P)
    BY <1>2, <1>5, CostsAddUp
  <1>7. SumUp(g, P) \in Nat
    BY <1>1, <1>3, SumUpCounts
  <1> QED BY <1>1, <1>2, <1>3, <1>4, <1>6, <1>7 DEF P, g

\* More calls cost no less.
LEMMA SpendOfPart ==
    ASSUME NEW U, NEW t, Fit(U, t), NEW S \in SUBSET U, NEW T \in SUBSET S
    PROVE  Spend(T, t) <= Spend(S, t)
  <1>1. T \in SUBSET U /\ Priced(T, t) \in SUBSET Priced(S, t)
    BY DEF Priced
  <1>2. Spend(S, t) = SumUp(Bills(U, t), Priced(S, t)) /\ IsFiniteSet(Priced(S, t))
          /\ \A r \in Priced(S, t) : Bills(U, t)[r] \in Nat
    BY SpendIs
  <1>3. Spend(T, t) = SumUp(Bills(U, t), Priced(T, t))
    BY <1>1, SpendIs
  <1> QED BY <1>1, <1>2, <1>3, SumOfPart

\* Calls of two sets that share none cost what the sets cost.
LEMMA SpendOfBoth ==
    ASSUME NEW U, NEW t, Fit(U, t), NEW S \in SUBSET U, NEW T \in SUBSET U, S \cap T = {}
    PROVE  Spend(S \cup T, t) = Spend(S, t) + Spend(T, t)
  <1>1. S \cup T \in SUBSET U /\ Priced(S \cup T, t) = Priced(S, t) \cup Priced(T, t)
          /\ Priced(S, t) \cap Priced(T, t) = {}
    BY DEF Priced
  <1>2. Spend(S, t) = SumUp(Bills(U, t), Priced(S, t))
          /\ Spend(T, t) = SumUp(Bills(U, t), Priced(T, t))
    BY SpendIs
  <1>3. Spend(S \cup T, t) = SumUp(Bills(U, t), Priced(S \cup T, t))
          /\ IsFiniteSet(Priced(S \cup T, t))
          /\ \A r \in Priced(S \cup T, t) : Bills(U, t)[r] \in Nat
    BY <1>1, SpendIs
  <1> DEFINE g == Bills(U, t)
             A == Priced(S, t)
             B == Priced(T, t)
  <1>4. Weighs(g, A \cup B) /\ A \cap B = {}
    BY <1>1, <1>3 DEF Weighs
  <1>5. SumUp(g, A \cup B) = SumUp(g, A) + SumUp(g, B)
    <2> HIDE DEF g, A, B
    <2> QED BY <1>4, SumSplit
  <1> QED BY <1>1, <1>2, <1>3, <1>5

-----------------------------------------------------------------------------
(* No detector of calls claims more than they cost *)

\* A claim is within what its calls cost.
Within(c, t) == c.waste <= Unit * Spend(c.rows, t)

\* A division rounds down, so it stays under a bound.
LEMMA DivBound ==
    ASSUME NEW a \in Int, NEW b \in Int, NEW n \in Nat, n > 0, a <= n * b
    PROVE  a \div n <= b /\ a \div n \in Int
  <1> DEFINE k == a \div n
  <1>1. k \in Int /\ n * k <= a
    OBVIOUS
  <1> HIDE DEF k
  <1>2. ASSUME k > b PROVE FALSE
    <2>1. n * k >= n * (b + 1) /\ n * (b + 1) = n * b + n
      BY <1>1, <1>2
    <2> QED BY <1>1, <2>1
  <1> QED BY <1>1, <1>2 DEF k

\* A pointer claims nothing.
LEMMA PointersWithin ==
    ASSUME NEW U, NEW t, Fit(U, t), NEW c, c.waste = 0, c.rows \in SUBSET U
    PROVE  Within(c, t)
  BY SpendIs DEF Within, Unit

\* D1: the claim is the cost less another, which is no less than nothing.
LEMMA D1Within ==
    ASSUME NEW U, NEW t, Fit(U, t), NEW c \in D1(U, t)
    PROVE  Within(c, t)
  <1> DEFINE cheap(g) == MapThenSumSet(LAMBDA r : CostAt(r, t[Downgrade[r.model]][DayOf(r)]), g)
             bill(g) == Unit * (Spend(g, t) - cheap(g))
             ones == {g \in D1Suspects(U) : Repriceable(g, t)}
             others == {g \in D1Suspects(U) : ~Repriceable(g, t)}
  <1>1. D1(U, t) = {k \in {[by |-> "d1", rows |-> g, waste |-> bill(g)] : g \in ones} : k.waste > 0}
                   \cup {[by |-> "d1", rows |-> g, waste |-> 0] : g \in others}
    BY DEF D1, Claims, Pointers, Claim
  <1>2. \A g \in ones \cup others : g \in SUBSET U
    BY DEF D1Suspects, Groups
  <1>3. \A g \in ones : Repriceable(g, t)
    OBVIOUS
  <1>4. ASSUME NEW g \in ones PROVE cheap(g) \in Nat
    <2> DEFINE w == [r \in g |-> CostAt(r, t[Downgrade[r.model]][DayOf(r)])]
    <2>1. g \in SUBSET U /\ IsFiniteSet(g)
      BY <1>2, FS_Subset DEF Fit, Numbered
    <2>2. \A r \in g : w[r] \in Nat
      <3> SUFFICES ASSUME NEW r \in g PROVE CostAt(r, t[Downgrade[r.model]][DayOf(r)]) \in Nat
        OBVIOUS
      <3>1. IsCall(r)
        BY <2>1 DEF Fit
      <3>2. Downgrade[r.model] \in Models /\ DayOf(r) \in LogDays
              /\ t[Downgrade[r.model]][DayOf(r)] # NoValue
        BY <1>3, <3>1, AuditsAssumption DEF Repriceable, IsCall
      <3>3. IsRate(t[Downgrade[r.model]][DayOf(r)])
        BY <3>2 DEF Fit, GoodCard
      <3> QED BY <3>1, <3>3, CostIs
    <2>3. \A r \in g : w[r] = CostAt(r, t[Downgrade[r.model]][DayOf(r)])
      OBVIOUS
    <2> HIDE DEF w
    <2>4. Weighs(w, g)
      BY <2>1, <2>2 DEF Weighs
    <2>5. cheap(g) = SumUp(w, g)
      BY <2>3, <2>4, CheaperCostsAddUp
    <2> QED BY <2>1, <2>2, <2>5, SumUpCounts
  <1> HIDE DEF cheap, ones, others
  <1>5. CASE c.rows \in others /\ c.waste = 0
    BY <1>2, <1>5, PointersWithin
  <1>6. CASE c.rows \in ones /\ c.waste = bill(c.rows)
    <2>1. Spend(c.rows, t) \in Nat /\ cheap(c.rows) \in Nat
      BY <1>2, <1>4, <1>6, SpendIs
    <2> QED BY <1>6, <2>1 DEF Within, Unit
  <1> QED BY <1>1, <1>5, <1>6

\* Min finds the smallest of a set of numbers.
LEMMA MinOfSet ==
    ASSUME NEW S, S \subseteq Nat, S # {}
    PROVE  Min(S) \in S /\ \A n \in S : Min(S) <= n
  BY SmallestNumber DEF Min

\* What caching a prefix of m tokens saves, over the rows that read it and those that
\* write it, is no more than the prompts have cost.
LEMMA CacheGain ==
    ASSUME NEW U, NEW t, Fit(U, t), NEW g \in SUBSET U, NEW W \in SUBSET g, Priced(g, t) = g,
           NEW m \in Nat, \A r \in g : r.cached = 0 /\ r.written = 0 /\ m <= r.prompt
    PROVE  LET gain == MapThenSumSet(LAMBDA r : RateOf(t, r).input - RateOf(t, r).read, g \ W)
               loss == MapThenSumSet(LAMBDA r : RateOf(t, r).write - RateOf(t, r).input, W)
           IN  gain - loss \in Int /\ m * (gain - loss) <= Spend(g, t)
  <1> DEFINE ki == [r \in g |-> RateOf(t, r).input]
             gi == [r \in g |-> RateOf(t, r).input - RateOf(t, r).read]
             li == [r \in g |-> RateOf(t, r).write - RateOf(t, r).input]
             R == g \ W
             gain == MapThenSumSet(LAMBDA r : RateOf(t, r).input - RateOf(t, r).read, R)
             loss == MapThenSumSet(LAMBDA r : RateOf(t, r).write - RateOf(t, r).input, W)
             b == Bills(U, t)
  <1>1. Spend(g, t) = SumUp(b, g) /\ IsFiniteSet(g)
          /\ \A r \in g : b[r] \in Nat /\ b[r] = CostAt(r, RateOf(t, r))
    BY SpendIs
  <1>2. \A r \in g : IsCall(r) /\ IsRate(RateOf(t, r))
    <2>1. \A r \in g : RateOf(t, r) # NoValue
      BY DEF Priced
    <2> QED BY <2>1, HasRate DEF Fit
  <1>3. \A r \in g : RateOf(t, r).input \in Nat /\ RateOf(t, r).read \in Nat /\ RateOf(t, r).write \in Nat
    BY <1>2 DEF IsRate
  <1>4. \A r \in g : /\ ki[r] \in Nat /\ gi[r] \in Int /\ li[r] \in Int
                     /\ 1 * gi[r] <= 1 * ki[r] /\ (-1) * li[r] <= 1 * ki[r]
    BY <1>3
  <1>5. \A r \in g : m * ki[r] <= 1 * b[r]
    <2> SUFFICES ASSUME NEW r \in g PROVE m * ki[r] <= 1 * b[r]
      OBVIOUS
    <2>1. r.prompt * RateOf(t, r).input <= b[r]
      <3>1. /\ r.prompt * RateOf(t, r).input <= PromptCost(r, RateOf(t, r))
            /\ PromptCost(r, RateOf(t, r)) <= CostAt(r, RateOf(t, r))
            /\ PromptCost(r, RateOf(t, r)) \in Nat /\ CostAt(r, RateOf(t, r)) \in Nat
        BY <1>2, CostIs
      <3>2. r.prompt * RateOf(t, r).input \in Nat
        BY <1>2, <1>3 DEF IsCall
      <3> QED BY <1>1, <3>1, <3>2
    <2> DEFINE p == r.prompt
               k == RateOf(t, r).input
    <2>2. p \in Nat /\ k \in Nat /\ m <= p /\ ki[r] = k
      BY <1>2, <1>3 DEF IsCall
    <2>3. b[r] \in Nat /\ p * k <= b[r]
      BY <1>1, <2>1
    <2> HIDE DEF p, k, ki, b
    <2>4. m * k <= p * k /\ m * k \in Nat /\ p * k \in Nat
      BY <2>2
    <2> QED BY <2>2, <2>3, <2>4
  <1>6. \A r \in R : gi[r] = RateOf(t, r).input - RateOf(t, r).read
    OBVIOUS
  <1>7. \A r \in W : li[r] = RateOf(t, r).write - RateOf(t, r).input
    OBVIOUS
  <1>8. R \cup W = g /\ R \cap W = {} /\ R \in SUBSET g
    OBVIOUS
  <1> HIDE DEF ki, gi, li, b, R
  <1>9. /\ Weighs(ki, R) /\ Weighs(ki, W) /\ Weighs(ki, g) /\ Weighs(gi, R) /\ Weighs(li, W)
        /\ Weighs(b, g)
    <2>1. IsFiniteSet(R) /\ IsFiniteSet(W)
      BY <1>1, <1>8, FS_Subset
    <2> QED BY <1>1, <1>4, <1>8, <2>1 DEF Weighs
  <1>10. gain = SumUp(gi, R)
    BY <1>6, <1>9, ReadsAddUp
  <1>11. loss = SumUp(li, W)
    BY <1>7, <1>9, WritesAddUp
  <1>12. 1 * SumUp(gi, R) <= 1 * SumUp(ki, R) /\ SumUp(gi, R) \in Int /\ SumUp(ki, R) \in Int
    <2>1. \A r \in R : 1 * gi[r] <= 1 * ki[r]
      BY <1>4, <1>8
    <2> QED BY <1>9, <2>1, SumOrder
  <1>13. (-1) * SumUp(li, W) <= 1 * SumUp(ki, W) /\ SumUp(li, W) \in Int /\ SumUp(ki, W) \in Int
    <2>1. \A r \in W : (-1) * li[r] <= 1 * ki[r]
      BY <1>4
    <2> QED BY <1>9, <2>1, SumOrder
  <1>14. m * SumUp(ki, g) <= 1 * SumUp(b, g) /\ SumUp(ki, g) \in Int /\ SumUp(b, g) \in Int
    BY <1>5, <1>9, SumOrder
  <1>15. SumUp(ki, g) = SumUp(ki, R) + SumUp(ki, W)
    BY <1>8, <1>9, SumSplit
  <1> DEFINE x == SumUp(gi, R) - SumUp(li, W)
             y == SumUp(ki, g)
  <1>16. x \in Int /\ y \in Int /\ x <= y
    BY <1>12, <1>13, <1>15
  <1>17. m * x <= m * y
    <2> HIDE DEF x, y
    <2> QED BY <1>16
  <1>18. m * y <= Spend(g, t)
    BY <1>1, <1>14
  <1>19. m * x \in Int /\ m * y \in Int /\ Spend(g, t) \in Int
    <2>1. SumUp(b, g) \in Int
      BY <1>14
    <2> HIDE DEF x, y
    <2> QED BY <1>1, <1>16, <2>1
  <1>20. gain - loss = x
    BY <1>10, <1>11
  <1> HIDE DEF x, y, gain, loss
  <1>21. m * x <= Spend(g, t)
    BY <1>17, <1>18, <1>19
  <1> QED BY <1>16, <1>20, <1>21 DEF gain, loss, R

\* D2: the claim is for as many tokens as the shortest prompt has, or fewer.
LEMMA D2Within ==
    ASSUME NEW U, NEW t, Fit(U, t), NEW c \in D2(U, t)
    PROVE  Within(c, t)
  <1> DEFINE gain(g) == MapThenSumSet(LAMBDA r : RateOf(t, r).input - RateOf(t, r).read, g \ Writes(g))
             loss(g) == MapThenSumSet(LAMBDA r : RateOf(t, r).write - RateOf(t, r).input, Writes(g))
             ones == {g \in D2Suspects(U) : g = Priced(g, t) /\ g # Writes(g)}
             net(g) == gain(g) - loss(g)
  <1>1. D2(U, t) = {k \in {[by |-> "d2", rows |-> g, waste |-> (Unit * Cacheable(g) * (gain(g) - loss(g))) \div 5] :
                              g \in ones} : k.waste > 0}
    BY DEF D2, Claims, Claim
  <1>2. PICK g \in ones : c.rows = g /\ c.waste = (Unit * Cacheable(g) * net(g)) \div 5
    <2> HIDE DEF gain, loss, ones
    <2> QED BY <1>1
  <1>3. g \in SUBSET U /\ g # {} /\ \A r \in g : r.cached = 0 /\ r.written = 0
    BY DEF D2Suspects, Groups
  <1>4. Priced(g, t) = g /\ Writes(g) \in SUBSET g
    BY DEF Writes
  <1> DEFINE m == Min({r.prompt : r \in g})
  <1>5. m \in Nat /\ \A r \in g : m <= r.prompt
    <2>1. {r.prompt : r \in g} \subseteq Nat /\ {r.prompt : r \in g} # {}
      BY <1>3 DEF Fit, IsCall
    <2> QED BY <2>1, MinOfSet
  <1>6. Cacheable(g) \in Nat /\ Cacheable(g) <= 5 * m
    <2> DEFINE two == {m, HashSpan}
    <2>1. two \subseteq Nat /\ two # {}
      BY <1>5, AuditsAssumption
    <2>2. Min(two) \in Nat /\ Min(two) <= m
      <3>1. m \in two
        OBVIOUS
      <3> HIDE DEF two
      <3> QED BY <2>1, <3>1, MinOfSet
    <2>3. Cacheable(g) = IF \A r \in g : r.hash # NoValue THEN 5 * Min(two) ELSE 4 * m
      BY DEF Cacheable
    <2> HIDE DEF two, m
    <2> QED BY <1>5, <2>2, <2>3
  <1> HIDE DEF m
  <1>7. net(g) \in Int /\ m * net(g) <= Spend(g, t)
    <2> HIDE DEF ones
    <2> QED BY <1>3, <1>4, <1>5, CacheGain
  <1>8. Spend(g, t) \in Nat
    BY <1>3, SpendIs
  <1> DEFINE a == Cacheable(g)
             x == net(g)
             s == Spend(g, t)
  <1>9. a \in Nat /\ x \in Int /\ s \in Nat /\ m \in Nat /\ a <= 5 * m /\ m * x <= s
    BY <1>5, <1>6, <1>7, <1>8
  <1>10. c.waste = (60 * a * x) \div 5
    BY <1>2 DEF Unit
  <1> HIDE DEF a, x, s
  <1>11. a * x <= 5 * s /\ a * x \in Int
    <2>1. CASE x <= 0
      BY <1>9, <2>1
    <2>2. CASE x > 0
      <3>1. a * x <= (5 * m) * x
        BY <1>9, <2>2
      <3>2. (5 * m) * x = 5 * (m * x) /\ m * x \in Int /\ a * x \in Int
        BY <1>9
      <3>3. 5 * (m * x) <= 5 * s
        BY <1>9, <3>2
      <3> QED BY <1>9, <3>1, <3>2, <3>3
    <2> QED BY <1>9, <2>1, <2>2
  <1>12. 60 * a * x = 60 * (a * x)
    BY <1>9
  <1>13. (60 * a * x) \div 5 <= 60 * s
    <2> DEFINE v == a * x
    <2>1. v \in Int /\ v <= 5 * s /\ 60 * a * x = 60 * v
      BY <1>11, <1>12
    <2> HIDE DEF v
    <2> QED BY <1>9, <2>1
  <1> QED BY <1>2, <1>10, <1>13 DEF Within, Unit, s

-----------------------------------------------------------------------------
(* D3 *)

\* The rows of S by the length of their prompts are rows of S.
LEMMA SortedByPrompt ==
    ASSUME NEW S, Numbered(S), \A r \in S : r.prompt \in Nat
    PROVE  LET s == Sorted(S, LAMBDA r : r.prompt)
           IN  Len(s) = Cardinality(S) /\ \A i \in 1 .. Cardinality(S) : s[i] \in S
  <1> DEFINE F == [r \in S |-> r.prompt]
             n == Cardinality(S)
             upTo(r) == {q \in S : q.prompt < r.prompt \/ (q.prompt = r.prompt /\ q.row <= r.row)}
             s == [i \in 1 .. n |-> CHOOSE r \in S : i = Cardinality(upTo(r))]
  <1>1. Sorted(S, LAMBDA r : r.prompt) = s
    BY DEF Sorted
  <1>2. \A r \in S : F[r] \in Int
    OBVIOUS
  <1>3. \A r \in S : UpToRow(S, F, r) = upTo(r)
    BY DEF UpToRow
  <1> HIDE DEF F, upTo
  <1>4. \A i \in 1 .. n : \E r \in S : i = Cardinality(upTo(r))
    BY <1>2, <1>3, EveryPlace
  <1>5. n \in Nat
    BY FS_CardinalityType DEF Numbered
  <1> HIDE DEF n
  <1>6. \A i \in 1 .. n : s[i] \in S
    BY <1>4
  <1>7. s \in Seq(S) /\ Len(s) = n
    BY <1>5, <1>6
  <1> HIDE DEF s
  <1> QED BY <1>1, <1>6, <1>7 DEF n

\* The place in the middle of n, between two or at one
LEMMA Middle ==
    ASSUME NEW n \in Nat, n > 0
    PROVE  LET at == 10 * (n - 1)
           IN  /\ 1 + at \div 20 \in 1 .. n
               /\ at % 20 \in 0 .. 19
               /\ at % 20 # 0 => 2 + at \div 20 \in 1 .. n
  OBVIOUS

\* A value between two numbers is no less than zero.
LEMMA Between ==
    ASSUME NEW lo \in Nat, NEW hi \in Nat, NEW k \in 0 .. 19
    PROVE  20 * lo + k * (hi - lo) \in Nat
  <1>1. k * (hi - lo) = k * hi - k * lo /\ k * hi \in Nat /\ k * lo \in Nat /\ k * lo <= 20 * lo
    OBVIOUS
  <1> DEFINE a == k * hi
             b == k * lo
  <1>2. a \in Nat /\ b \in Nat /\ b <= 20 * lo /\ k * (hi - lo) = a - b
    BY <1>1
  <1> HIDE DEF a, b
  <1> QED BY <1>2

\* The median of the prompts is not negative.
LEMMA MedianPrompt ==
    ASSUME NEW S, Numbered(S), S # {}, \A r \in S : r.prompt \in Nat
    PROVE  Quantile(S, LAMBDA r : r.prompt, 10) \in Nat
  <1> DEFINE s == Sorted(S, LAMBDA r : r.prompt)
             n == Cardinality(S)
             at == 10 * (Len(s) - 1)
             lo == s[1 + at \div 20].prompt
             hi == IF at % 20 = 0 THEN lo ELSE s[2 + at \div 20].prompt
  <1>1. Quantile(S, LAMBDA r : r.prompt, 10) = 20 * lo + (at % 20) * (hi - lo)
    BY DEF Quantile
  <1>2. Len(s) = n /\ \A i \in 1 .. n : s[i] \in S
    BY SortedByPrompt
  <1>3. n \in Nat /\ n > 0
    BY FS_CardinalityType, FS_EmptySet DEF Numbered
  <1> HIDE DEF s, n
  <1>4. 1 + at \div 20 \in 1 .. n /\ at % 20 \in 0 .. 19 /\ (at % 20 # 0 => 2 + at \div 20 \in 1 .. n)
    BY <1>2, <1>3, Middle
  <1> HIDE DEF at
  <1>5. lo \in Nat /\ hi \in Nat
    BY <1>2, <1>4
  <1> HIDE DEF lo, hi
  <1> QED BY <1>1, <1>4, <1>5, Between

\* What can be taken from a prompt is no more than it cost.
LEMMA RemovableBound ==
    ASSUME NEW U, NEW t, Fit(U, t), NEW r \in U, RateOf(t, r) # NoValue, Excess(U, r) > 0
    PROVE  Removable(U, r, t) \in Int /\ Removable(U, r, t) <= 60 * CostAt(r, RateOf(t, r))
  <1> DEFINE same == {q \in U : SizeBin(q) = SizeBin(r)}
             e == Excess(U, r)
             p == r.prompt
             v == PromptCost(r, RateOf(t, r))
  <1>1. same \in SUBSET U /\ r \in same
    OBVIOUS
  <1>2. Norm(U, r) = Quantile(same, LAMBDA q : q.prompt, 10)
    BY DEF Norm
  <1> HIDE DEF same
  <1>3. Numbered(same) /\ \A q \in same : q.prompt \in Nat
    BY <1>1, FS_Subset DEF Fit, Numbered, IsCall
  <1>4. Norm(U, r) \in Nat
    BY <1>1, <1>2, <1>3, MedianPrompt
  <1>5. p \in Nat
    BY DEF Fit, IsCall
  <1>6. e \in Nat /\ e <= 20 * p /\ p > 0
    BY <1>4, <1>5 DEF Excess, NotNegative
  <1>7. v \in Nat /\ v <= CostAt(r, RateOf(t, r)) /\ CostAt(r, RateOf(t, r)) \in Nat
    BY HasRate, CostIs DEF Fit
  <1>8. Removable(U, r, t) = (60 * e * v) \div (40 * p)
    BY DEF Removable, Unit
  <1> HIDE DEF e, p, v
  <1>9. 60 * e * v \in Int /\ 30 * v \in Int /\ 40 * p \in Nat /\ 40 * p > 0
    BY <1>5, <1>6, <1>7
  <1>10. 60 * e * v <= (40 * p) * (30 * v)
    <2>1. e * v <= (20 * p) * v
      BY <1>5, <1>6, <1>7
    <2>2. /\ (20 * p) * v = 20 * (p * v) /\ (40 * p) * (30 * v) = 1200 * (p * v)
          /\ 60 * e * v = 60 * (e * v) /\ p * v \in Nat /\ e * v \in Nat
      BY <1>5, <1>6, <1>7
    <2> DEFINE a == e * v
               b == p * v
    <2>3. a \in Nat /\ b \in Nat /\ a <= 20 * b /\ 60 * e * v = 60 * a /\ (40 * p) * (30 * v) = 1200 * b
      BY <2>1, <2>2
    <2> HIDE DEF a, b
    <2> QED BY <2>3
  <1>11. (60 * e * v) \div (40 * p) <= 30 * v /\ (60 * e * v) \div (40 * p) \in Int
    BY <1>9, <1>10, DivBound
  <1> QED BY <1>7, <1>8, <1>11

\* D3: the claim is a sum of such parts.
LEMMA D3Within ==
    ASSUME NEW U, NEW t, Fit(U, t), NEW c \in D3(U, t)
    PROVE  Within(c, t)
  <1> DEFINE above(g) == {r \in g : Excess(U, r) > 0}
             cut(g) == MapThenSumSet(LAMBDA r : Removable(U, r, t), above(g))
             bloated == {g \in Groups(U, LAMBDA r : <<r.tag, SizeBin(r)>>) :
                           \E r \in g : /\ Norm(U, r) > 0
                                        /\ Quantile(g, LAMBDA q : q.prompt, 18) > BloatMult * Norm(U, r)}
             ones == {g \in bloated : above(g) = Priced(above(g), t)}
  <1>1. D3(U, t) = {k \in {[by |-> "d3", rows |-> g, waste |-> cut(g)] : g \in ones} : k.waste > 0}
    BY DEF D3, Claims, Claim
  <1>2. \A g \in ones : g \in bloated /\ Priced(above(g), t) = above(g)
    OBVIOUS
  <1>3. \A g \in bloated : g \in Groups(U, LAMBDA r : <<r.tag, SizeBin(r)>>)
    OBVIOUS
  <1> HIDE DEF cut, ones, bloated
  <1>4. PICK g \in ones : c.rows = g /\ c.waste = cut(g)
    BY <1>1
  <1>5. g \in SUBSET U
    BY <1>2, <1>3 DEF Groups
  <1> DEFINE A == above(g)
             w == [r \in A |-> Removable(U, r, t)]
             b == Bills(U, t)
  <1>6. A \in SUBSET g /\ A \in SUBSET U /\ \A r \in A : Excess(U, r) > 0
    BY <1>5
  <1>7. Spend(A, t) = SumUp(b, A) /\ IsFiniteSet(A)
          /\ \A r \in A : b[r] \in Nat /\ b[r] = CostAt(r, RateOf(t, r)) /\ RateOf(t, r) # NoValue
    BY <1>2, <1>6, SpendIs DEF Priced
  <1>8. \A r \in A : w[r] \in Int /\ 1 * w[r] <= 60 * b[r]
    <2>1. \A r \in A : Removable(U, r, t) \in Int /\ Removable(U, r, t) <= 60 * CostAt(r, RateOf(t, r))
      BY <1>6, <1>7, RemovableBound
    <2> QED BY <1>7, <2>1
  <1>9. \A r \in A : w[r] = Removable(U, r, t)
    OBVIOUS
  <1>10. cut(g) = MapThenSumSet(LAMBDA r : Removable(U, r, t), A)
    BY DEF cut
  <1> HIDE DEF A, w, b
  <1>11. Weighs(w, A) /\ Weighs(b, A)
    BY <1>7, <1>8 DEF Weighs
  <1>12. cut(g) = SumUp(w, A)
    BY <1>9, <1>10, <1>11, RemovablesAddUp
  <1>13. 1 * SumUp(w, A) <= 60 * SumUp(b, A) /\ SumUp(w, A) \in Int /\ SumUp(b, A) \in Int
    <2>1. \A r \in A : 1 * w[r] <= 60 * b[r]
      BY <1>8
    <2> QED BY <1>11, <2>1, SumOrder
  <1>14. Spend(A, t) <= Spend(g, t) /\ Spend(g, t) \in Nat
    BY <1>5, <1>6, SpendOfPart, SpendIs
  <1> QED BY <1>4, <1>7, <1>12, <1>13, <1>14 DEF Within, Unit

-----------------------------------------------------------------------------
(* D9 *)

\* The claim is what was paid for writing and reading the cache, less something.
LEMMA D9Within ==
    ASSUME NEW U, NEW t, Fit(U, t), NEW c \in D9(U, t)
    PROVE  Within(c, t)
  <1> DEFINE active == {r \in U : r.written > 0}
             loss(g) == MapThenSumSet(LAMBDA r : LET e == RateOf(t, r)
                                                 IN  (e.write - e.input) * r.written
                                                       - (e.input - e.read) * r.cached, g)
             written(g) == MapThenSumSet(LAMBDA r : r.written, g)
             ones == {g \in Groups(active, LAMBDA r : <<r.model, r.tag>>) :
                        written(g) >= MinWritten /\ g = Priced(g, t)}
  <1>1. D9(U, t) = {k \in {[by |-> "d9", rows |-> g, waste |-> Unit * loss(g)] : g \in ones} : k.waste > 0}
    BY DEF D9, Claims, Claim
  <1> HIDE DEF written
  <1>2. \A g \in ones : g \in SUBSET U /\ Priced(g, t) = g
    BY DEF Groups
  <1> HIDE DEF ones, loss
  <1>3. PICK g \in ones : c.rows = g /\ c.waste = Unit * loss(g)
    BY <1>1
  <1> DEFINE w == [r \in g |-> LET e == RateOf(t, r)
                              IN  (e.write - e.input) * r.written - (e.input - e.read) * r.cached]
             b == Bills(U, t)
  <1>4. Spend(g, t) = SumUp(b, g) /\ IsFiniteSet(g)
          /\ \A r \in g : b[r] \in Nat /\ b[r] = CostAt(r, RateOf(t, r)) /\ RateOf(t, r) # NoValue
    BY <1>2, SpendIs DEF Priced
  <1>5. \A r \in g : w[r] = LET e == RateOf(t, r)
                            IN  (e.write - e.input) * r.written - (e.input - e.read) * r.cached
    OBVIOUS
  <1>6. \A r \in g : w[r] \in Int /\ 1 * w[r] <= 1 * b[r]
    <2> SUFFICES ASSUME NEW r \in g PROVE w[r] \in Int /\ 1 * w[r] <= 1 * b[r]
      OBVIOUS
    <2> DEFINE e == RateOf(t, r)
               a == e.write
               i == e.input
               d == e.read
               n == r.written
               k == r.cached
    <2>1. IsCall(r) /\ IsRate(e)
      BY <1>2, <1>4, HasRate DEF Fit
    <2>2. a \in Nat /\ i \in Nat /\ d \in Nat /\ n \in Nat /\ k \in Nat
      BY <2>1 DEF IsCall, IsRate
    <2>3. k * d + n * a <= b[r] /\ b[r] \in Nat
      <3>1. k * d + n * a <= PromptCost(r, e) /\ PromptCost(r, e) <= CostAt(r, e)
              /\ PromptCost(r, e) \in Nat /\ CostAt(r, e) \in Nat
        BY <2>1, CostIs
      <3>2. k * d + n * a \in Nat
        BY <2>2
      <3> HIDE DEF k, d, n, a, e
      <3> QED BY <1>4, <3>1, <3>2 DEF e
    <2>4. w[r] = (a - i) * n - (i - d) * k
      BY <1>5
    <2> HIDE DEF e, a, i, d, n, k, w
    <2>5. (a - i) * n - (i - d) * k = (k * d + n * a) - (i * n + i * k)
            /\ i * n \in Nat /\ i * k \in Nat /\ k * d + n * a \in Nat
      BY <2>2
    <2> QED BY <2>3, <2>4, <2>5
  <1> HIDE DEF w, b
  <1>7. Weighs(w, g) /\ Weighs(b, g)
    BY <1>4, <1>6 DEF Weighs
  <1>8. loss(g) = SumUp(w, g)
    BY <1>5, <1>7, LossesAddUp DEF loss
  <1>9. 1 * SumUp(w, g) <= 1 * SumUp(b, g) /\ SumUp(w, g) \in Int /\ SumUp(b, g) \in Int
    <2>1. \A r \in g : 1 * w[r] <= 1 * b[r]
      BY <1>6
    <2> QED BY <1>7, <2>1, SumOrder
  <1> QED BY <1>3, <1>4, <1>8, <1>9 DEF Within, Unit

-----------------------------------------------------------------------------
(* D4 *)

\* The rows of S by their time: each is at one place.
LEMMA SortedByTime ==
    ASSUME NEW S, Numbered(S), \A r \in S : r.ts \in Nat
    PROVE  LET s == Sorted(S, LAMBDA r : r.ts)
           IN  /\ \A i \in 1 .. Len(s) : s[i] \in S
               /\ \A i, j \in 1 .. Len(s) : s[i] = s[j] => i = j
  <1> DEFINE F == [r \in S |-> r.ts]
             n == Cardinality(S)
             upTo(r) == {q \in S : q.ts < r.ts \/ (q.ts = r.ts /\ q.row <= r.row)}
             s == [i \in 1 .. n |-> CHOOSE r \in S : i = Cardinality(upTo(r))]
  <1>1. Sorted(S, LAMBDA r : r.ts) = s
    BY DEF Sorted
  <1>2. \A r \in S : F[r] \in Int
    OBVIOUS
  <1>3. \A r \in S : UpToRow(S, F, r) = upTo(r)
    BY DEF UpToRow
  <1> HIDE DEF F, upTo
  <1>4. \A i \in 1 .. n : \E r \in S : i = Cardinality(upTo(r))
    BY <1>2, <1>3, EveryPlace
  <1>5. n \in Nat
    BY FS_CardinalityType DEF Numbered
  <1> HIDE DEF n
  <1>6. \A i \in 1 .. n : s[i] \in S /\ i = Cardinality(upTo(s[i]))
    BY <1>4
  <1>7. s \in Seq(S) /\ Len(s) = n
    BY <1>5, <1>6
  <1> HIDE DEF s
  <1> QED BY <1>1, <1>6, <1>7

\* Bursts are parts of S that share no row.
LEMMA BurstsApart ==
    ASSUME NEW S, NEW window, Numbered(S), \A r \in S : r.ts \in Nat
    PROVE  /\ \A b \in Bursts(S, window) : b \in SUBSET S
           /\ \A a, b \in Bursts(S, window) : a # b => a \cap b = {}
  <1> DEFINE s == Sorted(S, LAMBDA r : r.ts)
             head[i \in 1 .. Len(s)] ==
               IF i = 1 THEN 1
               ELSE IF s[i].ts - s[head[i - 1]].ts > window THEN i ELSE head[i - 1]
             places(h) == {j \in 1 .. Len(s) : head[j] = h}
  <1>1. Bursts(S, window) = {{s[i] : i \in places(h)} : h \in {head[i] : i \in 1 .. Len(s)}}
    BY DEF Bursts
  <1>2. /\ \A i \in 1 .. Len(s) : s[i] \in S
        /\ \A i, j \in 1 .. Len(s) : s[i] = s[j] => i = j
    BY SortedByTime
  <1> HIDE DEF s, head
  <1>3. \A b \in Bursts(S, window) : \E h : b = {s[i] : i \in places(h)}
    BY <1>1
  <1>4. \A b \in Bursts(S, window) : b \in SUBSET S
    BY <1>2, <1>3
  <1>5. ASSUME NEW a \in Bursts(S, window), NEW b \in Bursts(S, window), a # b
        PROVE  a \cap b = {}
    <2>1. PICK h : a = {s[i] : i \in places(h)}
      BY <1>3
    <2>2. PICK k : b = {s[i] : i \in places(k)}
      BY <1>3
    <2>3. h # k
      BY <1>5, <2>1, <2>2
    <2>4. ASSUME NEW x \in a \cap b PROVE FALSE
      <3>1. PICK i \in places(h) : x = s[i]
        BY <2>1, <2>4
      <3>2. PICK j \in places(k) : x = s[j]
        BY <2>2, <2>4
      <3> QED BY <1>2, <2>3, <3>1, <3>2
    <2> QED BY <2>4
  <1> QED BY <1>4, <1>5

\* A storm wastes less than it cost.
LEMMA StormBound ==
    ASSUME NEW U, NEW t, Fit(U, t), NEW b \in SUBSET U, Cardinality(Priced(b, t)) > 1
    PROVE  LET w == LET n == Cardinality(Priced(b, t)) IN (Unit * (n - 1) * Spend(b, t)) \div n
           IN  w \in Int /\ w <= 60 * Spend(b, t)
  <1> DEFINE n == Cardinality(Priced(b, t))
             v == Spend(b, t)
  <1>1. n \in Nat /\ n > 1 /\ v \in Nat
    BY SpendIs, FS_CardinalityType
  <1> HIDE DEF n, v
  <1>2. 60 * (n - 1) * v <= n * (60 * v) /\ 60 * (n - 1) * v \in Int /\ 60 * v \in Int
    <2>1. 60 * (n - 1) * v = 60 * (n * v) - 60 * v /\ n * (60 * v) = 60 * (n * v) /\ n * v \in Nat
      BY <1>1
    <2> DEFINE k == n * v
    <2> HIDE DEF k
    <2> QED BY <1>1, <2>1 DEF k
  <1>3. (60 * (n - 1) * v) \div n <= 60 * v /\ (60 * (n - 1) * v) \div n \in Int
    BY <1>1, <1>2, DivBound
  <1> QED BY <1>3 DEF n, v, Unit

\* Storms that share no call waste together less than their calls cost.
LEMMA StormsBound ==
    ASSUME NEW U, NEW t, Fit(U, t), NEW T, T \subseteq SUBSET U,
           \A a, b \in T : a # b => a \cap b = {},
           \A b \in T : Cardinality(Priced(b, t)) > 1
    PROVE  MapThenSumSet(LAMBDA b : LET n == Cardinality(Priced(b, t)) IN (Unit * (n - 1) * Spend(b, t)) \div n, T)
             <= 60 * Spend(UNION T, t)
  <1> DEFINE w == [b \in T |-> LET n == Cardinality(Priced(b, t)) IN (Unit * (n - 1) * Spend(b, t)) \div n]
             F == {V \in SUBSET T : SumUp(w, V) <= 60 * Spend(UNION V, t)}
  <1>1. IsFiniteSet(T)
    <2>1. IsFiniteSet(SUBSET U)
      BY FS_SUBSET DEF Fit, Numbered
    <2> QED BY <2>1, FS_Subset
  <1>2. \A b \in T : w[b] = LET n == Cardinality(Priced(b, t)) IN (Unit * (n - 1) * Spend(b, t)) \div n
    OBVIOUS
  <1>3. \A b \in T : w[b] \in Int /\ w[b] <= 60 * Spend(b, t)
    BY <1>2, StormBound
  <1> HIDE DEF w
  <1>4. Weighs(w, T)
    BY <1>1, <1>3 DEF Weighs
  <1>5. /\ SumUp(w, {}) = 0 /\ \A V \in SUBSET T : SumUp(w, V) \in Int
        /\ \A V \in SUBSET T : \A b \in T \ V : SumUp(w, V \cup {b}) = w[b] + SumUp(w, V)
    BY <1>4, SumUpRules
  <1>6. \A V \in SUBSET T : UNION V \in SUBSET U /\ Spend(UNION V, t) \in Nat
    <2> SUFFICES ASSUME NEW V \in SUBSET T PROVE UNION V \in SUBSET U /\ Spend(UNION V, t) \in Nat
      OBVIOUS
    <2>1. UNION V \in SUBSET U
      OBVIOUS
    <2> QED BY <2>1, SpendIs
  <1>7. {} \in F
    <2>1. {} \in SUBSET T
      OBVIOUS
    <2>2. Spend(UNION {}, t) \in Nat
      BY <1>6, <2>1
    <2> QED BY <1>5, <2>2
  <1>8. ASSUME NEW V \in SUBSET T, NEW b \in T \ V, V \in F PROVE V \cup {b} \in F
    <2>1. UNION (V \cup {b}) = (UNION V) \cup b /\ (UNION V) \cap b = {} /\ b \in SUBSET U
      BY <1>8
    <2>2. Spend(UNION (V \cup {b}), t) = Spend(UNION V, t) + Spend(b, t)
      BY <1>6, <2>1, SpendOfBoth
    <2>3. Spend(b, t) \in Nat /\ Spend(UNION V, t) \in Nat
      BY <1>6, <2>1, SpendIs
    <2>4. SumUp(w, V) <= 60 * Spend(UNION V, t) /\ SumUp(w, V) \in Int
      BY <1>5, <1>8
    <2>5. w[b] \in Int /\ w[b] <= 60 * Spend(b, t)
      BY <1>3
    <2>6. SumUp(w, V \cup {b}) = w[b] + SumUp(w, V)
      BY <1>5
    <2>7. SumUp(w, V \cup {b}) <= 60 * Spend(UNION (V \cup {b}), t)
      BY <2>2, <2>3, <2>4, <2>5, <2>6
    <2> QED BY <2>7
  <1>9. T \in F
    <2> HIDE DEF F
    <2> QED BY <1>1, <1>7, <1>8, SetInduction
  <1>10. MapThenSumSet(LAMBDA b : LET n == Cardinality(Priced(b, t)) IN (Unit * (n - 1) * Spend(b, t)) \div n, T)
           = SumUp(w, T)
    BY <1>2, <1>4, StormsAddUp
  <1> QED BY <1>9, <1>10

\* D4: bursts of different calls share no row, so the claim of a session is a sum
\* over storms that share none.
LEMMA D4Within ==
    ASSUME NEW U, NEW t, Fit(U, t), NEW c \in D4(U, t)
    PROVE  Within(c, t)
  <1> DEFINE identity(r) == IF r.hash # NoValue THEN <<r.model, "hash", r.hash>>
                            ELSE <<r.model, "size", r.prompt, r.completion>>
             waste(b) == LET n == Cardinality(Priced(b, t)) IN (Unit * (n - 1) * Spend(b, t)) \div n
             parts(x) == Groups(x, identity)
             storms(x) ==
               {b \in UNION {Bursts(g, StormWindow) : g \in parts(x)} :
                  Cardinality(b) >= DupMin /\ Cardinality(Priced(b, t)) > 1 /\ Spend(b, t) > 0}
             total(x) == MapThenSumSet(waste, storms(x))
  <1>1. D4(U, t) = {k \in {[by |-> "d4", rows |-> UNION storms(x), waste |-> total(x)] : x \in Sessions(Calls(U))} :
                       k.waste > 0}
    BY DEF D4, Claim
  <1>2. \A x : parts(x) = {{r \in x : identity(r) = k} : k \in {identity(r) : r \in x}}
    BY DEF Groups
  <1>3. \A x \in Sessions(Calls(U)) : x \in SUBSET U
    <2>1. Calls(U) \in SUBSET U
      BY DEF Calls
    <2>2. \A x \in Sessions(Calls(U)) : x \in SUBSET Calls(U)
      BY DEF Sessions, Groups
    <2> QED BY <2>1, <2>2
  <1>4. \A x : /\ \A g \in parts(x) : g \in SUBSET x
               /\ \A g, h \in parts(x) : g # h => g \cap h = {}
    <2> HIDE DEF identity, parts
    <2>1. \A x : \A g \in parts(x) : \E k : \A r : r \in g <=> r \in x /\ identity(r) = k
      BY <1>2
    <2>2. ASSUME NEW x, NEW g \in parts(x), NEW h \in parts(x), g # h PROVE g \cap h = {}
      <3>1. PICK k : \A r : r \in g <=> r \in x /\ identity(r) = k
        BY <2>1
      <3>2. PICK l : \A r : r \in h <=> r \in x /\ identity(r) = l
        BY <2>1
      <3>3. k # l
        BY <2>2, <3>1, <3>2
      <3> QED BY <3>1, <3>2, <3>3
    <2>3. \A x : \A g \in parts(x) : g \in SUBSET x
      BY <2>1
    <2> QED BY <2>2, <2>3
  <1> HIDE DEF total, parts
  <1>5. PICK x \in Sessions(Calls(U)) : c.rows = UNION storms(x) /\ c.waste = total(x)
    <2> HIDE DEF storms
    <2> QED BY <1>1
  <1> DEFINE T == storms(x)
  <1>6. \A g \in parts(x) : /\ g \in SUBSET U /\ Numbered(g) /\ \A r \in g : r.ts \in Nat
    <2> SUFFICES ASSUME NEW g \in parts(x)
                 PROVE  g \in SUBSET U /\ Numbered(g) /\ \A r \in g : r.ts \in Nat
      OBVIOUS
    <2>1. g \in SUBSET U
      BY <1>3, <1>4
    <2> QED BY <2>1, FS_Subset DEF Fit, Numbered, IsCall
  <1>7. \A b \in T : \E g \in parts(x) : b \in Bursts(g, StormWindow)
    OBVIOUS
  <1>8. \A b \in T : Cardinality(Priced(b, t)) > 1
    OBVIOUS
  <1> HIDE DEF storms, T
  <1>9. \A g \in parts(x) : /\ \A b \in Bursts(g, StormWindow) : b \in SUBSET g
                            /\ \A a, b \in Bursts(g, StormWindow) : a # b => a \cap b = {}
    BY <1>6, BurstsApart
  <1>10. T \subseteq SUBSET U
    BY <1>6, <1>7, <1>9
  <1>11. ASSUME NEW a \in T, NEW b \in T, a # b PROVE a \cap b = {}
    <2>1. PICK g \in parts(x) : a \in Bursts(g, StormWindow)
      BY <1>7
    <2>2. PICK h \in parts(x) : b \in Bursts(h, StormWindow)
      BY <1>7
    <2>3. CASE g = h
      BY <1>9, <1>11, <2>1, <2>2, <2>3
    <2>4. CASE g # h
      <3>1. a \subseteq g /\ b \subseteq h
        BY <1>9, <2>1, <2>2
      <3>2. g \cap h = {}
        BY <1>4, <2>4
      <3> QED BY <3>1, <3>2
    <2> QED BY <2>3, <2>4
  <1>12. MapThenSumSet(LAMBDA b : LET n == Cardinality(Priced(b, t)) IN (Unit * (n - 1) * Spend(b, t)) \div n, T)
           <= 60 * Spend(UNION T, t)
    BY <1>8, <1>10, <1>11, StormsBound
  <1>13. total(x) = MapThenSumSet(LAMBDA b : LET n == Cardinality(Priced(b, t)) IN (Unit * (n - 1) * Spend(b, t)) \div n, T)
    BY DEF total, T
  <1>14. c.rows = UNION T /\ c.waste <= 60 * Spend(UNION T, t)
    BY <1>5, <1>12, <1>13 DEF T
  <1> QED BY <1>14 DEF Within, Unit

\* The other detectors only point.
LEMMA PointersPoint ==
    ASSUME NEW U, NEW t, Fit(U, t), NEW c \in D5(U) \cup D8(U, t) \cup D10(U, t)
    PROVE  Within(c, t)
  <1>1. \A by, S, k : k \in Pointers(by, S) => k.rows \in S /\ k.waste = 0
    BY DEF Pointers, Claim
  <1>2. CASE c \in D5(U)
    <2>1. c.rows \in SUBSET U /\ c.waste = 0
      <3> DEFINE declared == {r \in U : r.max # NoValue}
                 most(g) == Quantile(g, LAMBDA r : r.completion, 19)
                 ones == {g \in Groups(declared, LAMBDA r : r.tag) :
                            most(g) > 0 /\ Quantile(g, LAMBDA r : r.max, 10) >= MaxRatio * most(g)}
      <3>1. D5(U) = Pointers("d5", ones)
        BY DEF D5
      <3>2. \A g \in ones : g \in Groups(declared, LAMBDA r : r.tag)
        OBVIOUS
      <3>3. \A g \in ones : g \in SUBSET U
        <4> HIDE DEF ones
        <4> QED BY <3>2 DEF Groups
      <3> HIDE DEF ones
      <3> QED BY <1>1, <1>2, <3>1, <3>3
    <2> QED BY <2>1, PointersWithin
  <1>3. CASE c \in D8(U, t)
    <2>1. c.rows \in SUBSET U /\ c.waste = 0
      <3> DEFINE routes == {g \in Groups(Priced(U, t), LAMBDA r : r.tag) : \A r \in g : r.tag # ""}
                 ones == {g \in routes : 100 * Spend(g, t) >= MinShare * Spend(U, t)}
      <3>1. D8(U, t) = IF Spend(U, t) = 0 \/ Cardinality(routes) < 2 THEN {} ELSE Pointers("d8", ones)
        BY DEF D8
      <3>2. \A g \in ones : g \in SUBSET U
        BY DEF Groups, Priced
      <3> HIDE DEF routes, ones
      <3> QED BY <1>1, <1>3, <3>1, <3>2
    <2> QED BY <2>1, PointersWithin
  <1>4. CASE c \in D10(U, t)
    <2>1. c.rows \in SUBSET U /\ c.waste = 0
      BY <1>1, <1>4 DEF D10, Priced
    <2> QED BY <2>1, PointersWithin
  <1> QED BY <1>2, <1>3, <1>4

\* Whatever a detector but D6 finds in calls stays within their cost.
LEMMA ClaimsOfCalls ==
    ASSUME NEW U, NEW t, Fit(U, t), NEW c \in Findings(U, t), c.by # "d6"
    PROVE  c.waste <= Unit * Spend(c.rows, t)
  <1>1. c \notin D6(U, t)
    <2>1. \A k \in D6(U, t) : k.by = "d6"
      <3> DEFINE saved(b) == Cardinality(b) - (Cardinality(b) + BatchSize - 1) \div BatchSize
                 rates(b) == {Effective(r, RateOf(t, r)) : r \in b}
                 least(b) == CHOOSE e \in rates(b) : \A d \in rates(b) : e[1] * d[2] <= d[1] * e[2]
                 shared(b) == saved(b) * Quantile(b, LAMBDA r : r.prompt, 10) * least(b)[1]
                 waste(b) == (Unit * shared(b)) \div (20 * least(b)[2])
                 runs(x) == {b \in Bursts({r \in x : r.completion < SmallCompletion}, RunWindow) :
                               Cardinality(b) >= LoopMin /\ b = Priced(b, t) /\ shared(b) > 0}
                 total(x) == MapThenSumSet(waste, runs(x))
      <3>1. D6(U, t) = {k \in {[by |-> "d6", rows |-> UNION runs(x), waste |-> total(x)] : x \in Sessions(U)} :
                          k.waste > 0}
        BY DEF D6, Claim
      <3> HIDE DEF runs, total
      <3> QED BY <3>1
    <2> QED BY <2>1
  <1>2. c \in D1(U, t) \cup D2(U, t) \cup D3(U, t) \cup D4(U, t) \cup D9(U, t)
          \cup (D5(U) \cup D8(U, t) \cup D10(U, t))
    BY <1>1 DEF Findings
  <1> QED BY <1>2, D1Within, D2Within, D3Within, D4Within, D9Within, PointersPoint DEF Within

-----------------------------------------------------------------------------
(* The sums of the totals of an account *)

\* The tokens of the calls of a day,
LEMMA PromptsAddUp ==
    ASSUME NEW P, NEW g, Weighs(g, P),
           \A q \in P : g[q] = q.prompt
    PROVE  MapThenSumSet(LAMBDA q : q.prompt, P) = SumUp(g, P)
  <1> DEFINE e(s) == Pick(s).prompt
             Rec(i) == i = [s \in SUBSET P |-> IF s = {} THEN 0 ELSE e(s) + i[s \ {Pick(s)}]]
             iter == CHOOSE i : Rec(i)
  <1>1. MapThenSumSet(LAMBDA q : q.prompt, P) = iter[P]
    BY DEF MapThenSumSet, MapThenFoldSet, Pick
  <1>2. \A s \in SUBSET P : s # {} => g[Pick(s)] = e(s)
    BY Picked
  <1> HIDE DEF e
  <1>3. \A i : Rec(i) <=> FoldOf(g, P, i)
    <2>1. ASSUME NEW i
          PROVE  [s \in SUBSET P |-> IF s = {} THEN 0 ELSE e(s) + i[s \ {Pick(s)}]]
                 = [s \in SUBSET P |-> IF s = {} THEN 0 ELSE g[Pick(s)] + i[s \ {Pick(s)}]]
      BY <1>2
    <2> QED BY <2>1 DEF FoldOf
  <1>4. Rec(iter)
    <2>1. \E i : Rec(i)
      BY <1>3, FoldIs
    <2> HIDE DEF Rec
    <2> QED BY <2>1
  <1> HIDE DEF Rec, iter
  <1> QED BY <1>1, <1>3, <1>4, FoldIs

\* those that were answered,
LEMMA CompletionsAddUp ==
    ASSUME NEW P, NEW g, Weighs(g, P),
           \A q \in P : g[q] = q.completion
    PROVE  MapThenSumSet(LAMBDA q : q.completion, P) = SumUp(g, P)
  <1> DEFINE e(s) == Pick(s).completion
             Rec(i) == i = [s \in SUBSET P |-> IF s = {} THEN 0 ELSE e(s) + i[s \ {Pick(s)}]]
             iter == CHOOSE i : Rec(i)
  <1>1. MapThenSumSet(LAMBDA q : q.completion, P) = iter[P]
    BY DEF MapThenSumSet, MapThenFoldSet, Pick
  <1>2. \A s \in SUBSET P : s # {} => g[Pick(s)] = e(s)
    BY Picked
  <1> HIDE DEF e
  <1>3. \A i : Rec(i) <=> FoldOf(g, P, i)
    <2>1. ASSUME NEW i
          PROVE  [s \in SUBSET P |-> IF s = {} THEN 0 ELSE e(s) + i[s \ {Pick(s)}]]
                 = [s \in SUBSET P |-> IF s = {} THEN 0 ELSE g[Pick(s)] + i[s \ {Pick(s)}]]
      BY <1>2
    <2> QED BY <2>1 DEF FoldOf
  <1>4. Rec(iter)
    <2>1. \E i : Rec(i)
      BY <1>3, FoldIs
    <2> HIDE DEF Rec
    <2> QED BY <2>1
  <1> HIDE DEF Rec, iter
  <1> QED BY <1>1, <1>3, <1>4, FoldIs

\* and those that came from the cache;
LEMMA CachedAddUp ==
    ASSUME NEW P, NEW g, Weighs(g, P),
           \A q \in P : g[q] = q.cached
    PROVE  MapThenSumSet(LAMBDA q : q.cached, P) = SumUp(g, P)
  <1> DEFINE e(s) == Pick(s).cached
             Rec(i) == i = [s \in SUBSET P |-> IF s = {} THEN 0 ELSE e(s) + i[s \ {Pick(s)}]]
             iter == CHOOSE i : Rec(i)
  <1>1. MapThenSumSet(LAMBDA q : q.cached, P) = iter[P]
    BY DEF MapThenSumSet, MapThenFoldSet, Pick
  <1>2. \A s \in SUBSET P : s # {} => g[Pick(s)] = e(s)
    BY Picked
  <1> HIDE DEF e
  <1>3. \A i : Rec(i) <=> FoldOf(g, P, i)
    <2>1. ASSUME NEW i
          PROVE  [s \in SUBSET P |-> IF s = {} THEN 0 ELSE e(s) + i[s \ {Pick(s)}]]
                 = [s \in SUBSET P |-> IF s = {} THEN 0 ELSE g[Pick(s)] + i[s \ {Pick(s)}]]
      BY <1>2
    <2> QED BY <2>1 DEF FoldOf
  <1>4. Rec(iter)
    <2>1. \E i : Rec(i)
      BY <1>3, FoldIs
    <2> HIDE DEF Rec
    <2> QED BY <2>1
  <1> HIDE DEF Rec, iter
  <1> QED BY <1>1, <1>3, <1>4, FoldIs

\* what the days cost, at the rates of their card ...
LEMMA BucketsAddUp ==
    ASSUME NEW t, NEW P, NEW g, Weighs(g, P),
           \A b \in P : g[b] = BucketCost(b, RateOf(t, b))
    PROVE  MapThenSumSet(LAMBDA b : BucketCost(b, RateOf(t, b)), P) = SumUp(g, P)
  <1> DEFINE e(s) == BucketCost(Pick(s), RateOf(t, Pick(s)))
             Rec(i) == i = [s \in SUBSET P |-> IF s = {} THEN 0 ELSE e(s) + i[s \ {Pick(s)}]]
             iter == CHOOSE i : Rec(i)
  <1>1. MapThenSumSet(LAMBDA b : BucketCost(b, RateOf(t, b)), P) = iter[P]
    BY DEF MapThenSumSet, MapThenFoldSet, Pick
  <1>2. \A s \in SUBSET P : s # {} => g[Pick(s)] = e(s)
    BY Picked
  <1> HIDE DEF e
  <1>3. \A i : Rec(i) <=> FoldOf(g, P, i)
    <2>1. ASSUME NEW i
          PROVE  [s \in SUBSET P |-> IF s = {} THEN 0 ELSE e(s) + i[s \ {Pick(s)}]]
                 = [s \in SUBSET P |-> IF s = {} THEN 0 ELSE g[Pick(s)] + i[s \ {Pick(s)}]]
      BY <1>2
    <2> QED BY <2>1 DEF FoldOf
  <1>4. Rec(iter)
    <2>1. \E i : Rec(i)
      BY <1>3, FoldIs
    <2> HIDE DEF Rec
    <2> QED BY <2>1
  <1> HIDE DEF Rec, iter
  <1> QED BY <1>1, <1>3, <1>4, FoldIs

\* ... and at those of the model one tier down;
LEMMA CheaperBucketsAddUp ==
    ASSUME NEW t, NEW P, NEW g, Weighs(g, P),
           \A b \in P : g[b] = BucketCost(b, t[Downgrade[b.model]][DayOf(b)])
    PROVE  MapThenSumSet(LAMBDA b : BucketCost(b, t[Downgrade[b.model]][DayOf(b)]), P) = SumUp(g, P)
  <1> DEFINE e(s) == BucketCost(Pick(s), t[Downgrade[Pick(s).model]][DayOf(Pick(s))])
             Rec(i) == i = [s \in SUBSET P |-> IF s = {} THEN 0 ELSE e(s) + i[s \ {Pick(s)}]]
             iter == CHOOSE i : Rec(i)
  <1>1. MapThenSumSet(LAMBDA b : BucketCost(b, t[Downgrade[b.model]][DayOf(b)]), P) = iter[P]
    BY DEF MapThenSumSet, MapThenFoldSet, Pick
  <1>2. \A s \in SUBSET P : s # {} => g[Pick(s)] = e(s)
    BY Picked
  <1> HIDE DEF e
  <1>3. \A i : Rec(i) <=> FoldOf(g, P, i)
    <2>1. ASSUME NEW i
          PROVE  [s \in SUBSET P |-> IF s = {} THEN 0 ELSE e(s) + i[s \ {Pick(s)}]]
                 = [s \in SUBSET P |-> IF s = {} THEN 0 ELSE g[Pick(s)] + i[s \ {Pick(s)}]]
      BY <1>2
    <2> QED BY <2>1 DEF FoldOf
  <1>4. Rec(iter)
    <2>1. \E i : Rec(i)
      BY <1>3, FoldIs
    <2> HIDE DEF Rec
    <2> QED BY <2>1
  <1> HIDE DEF Rec, iter
  <1> QED BY <1>1, <1>3, <1>4, FoldIs

\* D2 on totals: what the day b would save at the share of the day best
AtShare(t, best, b) ==
    LET e == RateOf(t, b)
    IN  (Unit * 4 * NotNegative(best.cached * b.prompt - b.cached * best.prompt) * (e.input - e.read))
          \div (5 * best.prompt)

\* D3 on totals: what the day b would save with prompts like those of the median day
AtMedian(t, base, b) ==
    ((20 * ((Unit * b.prompt) \div b.calls) - base) * b.calls * BucketPrompt(b, RateOf(t, b)))
      \div (20 * b.prompt)

\* These add up, too.
LEMMA SharesAddUp ==
    ASSUME NEW t, NEW best, NEW P, NEW g, Weighs(g, P),
           \A b \in P : g[b] = AtShare(t, best, b)
    PROVE  MapThenSumSet(LAMBDA b : AtShare(t, best, b), P) = SumUp(g, P)
  <1> DEFINE e(s) == AtShare(t, best, Pick(s))
             Rec(i) == i = [s \in SUBSET P |-> IF s = {} THEN 0 ELSE e(s) + i[s \ {Pick(s)}]]
             iter == CHOOSE i : Rec(i)
  <1>1. MapThenSumSet(LAMBDA b : AtShare(t, best, b), P) = iter[P]
    BY DEF MapThenSumSet, MapThenFoldSet, Pick
  <1>2. \A s \in SUBSET P : s # {} => g[Pick(s)] = e(s)
    BY Picked
  <1> HIDE DEF e
  <1>3. \A i : Rec(i) <=> FoldOf(g, P, i)
    <2>1. ASSUME NEW i
          PROVE  [s \in SUBSET P |-> IF s = {} THEN 0 ELSE e(s) + i[s \ {Pick(s)}]]
                 = [s \in SUBSET P |-> IF s = {} THEN 0 ELSE g[Pick(s)] + i[s \ {Pick(s)}]]
      BY <1>2
    <2> QED BY <2>1 DEF FoldOf
  <1>4. Rec(iter)
    <2>1. \E i : Rec(i)
      BY <1>3, FoldIs
    <2> HIDE DEF Rec
    <2> QED BY <2>1
  <1> HIDE DEF Rec, iter
  <1> QED BY <1>1, <1>3, <1>4, FoldIs

\* And these.
LEMMA AveragesAddUp ==
    ASSUME NEW t, NEW base, NEW P, NEW g, Weighs(g, P),
           \A b \in P : g[b] = AtMedian(t, base, b)
    PROVE  MapThenSumSet(LAMBDA b : AtMedian(t, base, b), P) = SumUp(g, P)
  <1> DEFINE e(s) == AtMedian(t, base, Pick(s))
             Rec(i) == i = [s \in SUBSET P |-> IF s = {} THEN 0 ELSE e(s) + i[s \ {Pick(s)}]]
             iter == CHOOSE i : Rec(i)
  <1>1. MapThenSumSet(LAMBDA b : AtMedian(t, base, b), P) = iter[P]
    BY DEF MapThenSumSet, MapThenFoldSet, Pick
  <1>2. \A s \in SUBSET P : s # {} => g[Pick(s)] = e(s)
    BY Picked
  <1> HIDE DEF e
  <1>3. \A i : Rec(i) <=> FoldOf(g, P, i)
    <2>1. ASSUME NEW i
          PROVE  [s \in SUBSET P |-> IF s = {} THEN 0 ELSE e(s) + i[s \ {Pick(s)}]]
                 = [s \in SUBSET P |-> IF s = {} THEN 0 ELSE g[Pick(s)] + i[s \ {Pick(s)}]]
      BY <1>2
    <2> QED BY <2>1 DEF FoldOf
  <1>4. Rec(iter)
    <2>1. \E i : Rec(i)
      BY <1>3, FoldIs
    <2> HIDE DEF Rec
    <2> QED BY <2>1
  <1> HIDE DEF Rec, iter
  <1> QED BY <1>1, <1>3, <1>4, FoldIs

-----------------------------------------------------------------------------
(* What the days of an account cost *)

\* A day of a model: its calls and their tokens
IsBucket(b) ==
    /\ b.row \in Int /\ b.model \in Models /\ DayOf(b) \in LogDays
    /\ b.calls \in Nat /\ b.calls > 0
    /\ b.prompt \in Nat /\ b.completion \in Nat /\ b.cached \in Nat /\ b.cached <= b.prompt

\* The days of every model, and a card for them
FitTotals(B, t) ==
    /\ IsFiniteSet(B) /\ \A b \in B : IsBucket(b)
    /\ \A b, c \in B : b.row = c.row /\ b.model = c.model => b = c
    /\ GoodCard(t)

\* What a day cost, and what of it its prompts did
LEMMA BucketIs ==
    ASSUME NEW b, NEW e, IsBucket(b), IsRate(e)
    PROVE  /\ BucketPrompt(b, e) \in Nat /\ BucketCost(b, e) \in Nat
           /\ BucketPrompt(b, e) <= BucketCost(b, e)
           /\ (b.prompt - b.cached) * e.input <= BucketPrompt(b, e)
  <1>1. /\ b.prompt \in Nat /\ b.completion \in Nat /\ b.cached \in Nat /\ b.cached <= b.prompt
        /\ e.input \in Nat /\ e.output \in Nat /\ e.read \in Nat
    BY DEF IsBucket, IsRate
  <1>2. NotNegative(b.prompt - b.cached) = b.prompt - b.cached
    BY <1>1 DEF NotNegative
  <1> DEFINE u == (b.prompt - b.cached) * e.input
             v == b.cached * e.read
             w == b.completion * e.output
  <1>3. BucketPrompt(b, e) = u + v /\ BucketCost(b, e) = BucketPrompt(b, e) + w
    BY <1>2 DEF BucketPrompt, BucketCost
  <1>4. u \in Nat /\ v \in Nat /\ w \in Nat
    BY <1>1
  <1> HIDE DEF v, w
  <1> QED BY <1>3, <1>4

\* What prices a day is a rate.
LEMMA BucketHasRate ==
    ASSUME NEW B, NEW t, FitTotals(B, t), NEW b \in B, RateOf(t, b) # NoValue
    PROVE  IsRate(RateOf(t, b))
  BY DEF FitTotals, GoodCard, RateOf, IsBucket

\* What each day cost
DayBills(B, t) == [b \in B |-> BucketCost(b, RateOf(t, b))]

\* AccountSpend is the sum of the bills of the days that have a price.
LEMMA AccountSpendIs ==
    ASSUME NEW B, NEW t, FitTotals(B, t), NEW S \in SUBSET B
    PROVE  /\ AccountSpend(S, t) = SumUp(DayBills(B, t), Priced(S, t))
           /\ IsFiniteSet(Priced(S, t)) /\ Priced(S, t) \subseteq S
           /\ \A b \in Priced(S, t) : /\ DayBills(B, t)[b] \in Nat
                                      /\ DayBills(B, t)[b] = BucketCost(b, RateOf(t, b))
                                      /\ RateOf(t, b) # NoValue
           /\ AccountSpend(S, t) \in Nat
  <1> DEFINE P == Priced(S, t)
             g == DayBills(B, t)
  <1>1. P \subseteq S /\ IsFiniteSet(P) /\ \A b \in P : RateOf(t, b) # NoValue
    <2>1. P \in SUBSET B
      BY DEF Priced
    <2> QED BY <2>1, FS_Subset DEF FitTotals, Priced
  <1>2. \A b \in P : g[b] = BucketCost(b, RateOf(t, b))
    BY <1>1 DEF DayBills
  <1>3. \A b \in P : g[b] \in Nat
    <2>1. \A b \in P : IsBucket(b) /\ IsRate(RateOf(t, b))
      BY <1>1, BucketHasRate DEF FitTotals
    <2> QED BY <1>2, <2>1, BucketIs
  <1>4. AccountSpend(S, t) = MapThenSumSet(LAMBDA b : BucketCost(b, RateOf(t, b)), P)
    BY DEF AccountSpend
  <1> HIDE DEF P, g
  <1>5. Weighs(g, P)
    BY <1>1, <1>3 DEF Weighs
  <1>6. MapThenSumSet(LAMBDA b : BucketCost(b, RateOf(t, b)), P) = SumUp(g, P)
    BY <1>2, <1>5, BucketsAddUp
  <1>7. SumUp(g, P) \in Nat
    BY <1>1, <1>3, SumUpCounts
  <1> QED BY <1>1, <1>2, <1>3, <1>4, <1>6, <1>7 DEF P, g

\* A sum over some priced days of what is bounded by their bills is bounded by the
\* bill of all.
LEMMA DaysBound ==
    ASSUME NEW B, NEW t, FitTotals(B, t), NEW S \in SUBSET B, NEW A \in SUBSET Priced(S, t),
           NEW w, \A b \in A : w[b] \in Int /\ w[b] <= 60 * BucketCost(b, RateOf(t, b))
    PROVE  Weighs(w, A) /\ SumUp(w, A) <= Unit * AccountSpend(S, t)
  <1> DEFINE k == DayBills(B, t)
             P == Priced(S, t)
  <1>1. /\ AccountSpend(S, t) = SumUp(k, P) /\ IsFiniteSet(P)
        /\ \A b \in P : k[b] \in Nat /\ k[b] = BucketCost(b, RateOf(t, b))
    BY AccountSpendIs
  <1> HIDE DEF k, P
  <1>2. A \in SUBSET P /\ IsFiniteSet(A)
    <2>1. A \in SUBSET P
      BY DEF P
    <2> QED BY <1>1, <2>1, FS_Subset
  <1>3. Weighs(w, A) /\ Weighs(k, A)
    BY <1>1, <1>2 DEF Weighs
  <1>4. \A b \in A : 1 * w[b] <= 60 * k[b]
    <2> SUFFICES ASSUME NEW b \in A PROVE 1 * w[b] <= 60 * k[b]
      OBVIOUS
    <2>1. w[b] \in Int /\ w[b] <= 60 * k[b]
      BY <1>1, <1>2
    <2> QED BY <2>1
  <1>5. 1 * SumUp(w, A) <= 60 * SumUp(k, A) /\ SumUp(w, A) \in Int /\ SumUp(k, A) \in Int
    BY <1>3, <1>4, SumOrder
  <1>6. SumUp(k, A) <= SumUp(k, P) /\ SumUp(k, P) \in Nat
    BY <1>1, <1>2, SumOfPart
  <1> QED BY <1>1, <1>3, <1>5, <1>6 DEF Unit

-----------------------------------------------------------------------------
(* No detector of totals claims more than the days have cost *)

\* The days of one model
ByModelIs(B, g) == g \in SUBSET B /\ g # {} /\ \A b, c \in g : b.model = c.model

\* ByModel makes such sets.
LEMMA GroupsByModel ==
    ASSUME NEW B, NEW g \in ByModel(B)
    PROVE  ByModelIs(B, g)
  BY DEF ByModel, Groups, ByModelIs

\* D1 on totals: the claim is the cost less another, which is no less than nothing.
LEMMA D1AWithin ==
    ASSUME NEW B, NEW t, FitTotals(B, t), NEW c \in D1A(B, t)
    PROVE  c.waste <= Unit * AccountSpend(c.rows, t)
  <1> DEFINE cheap(g) == MapThenSumSet(LAMBDA b : BucketCost(b, t[Downgrade[b.model]][DayOf(b)]), g)
             short(g) == MapThenSumSet(LAMBDA b : b.completion, g)
                           < ShortCompletion * MapThenSumSet(LAMBDA b : b.calls, g)
             ones == {g \in ByModel(B) : /\ \A b \in g : b.model \in DOMAIN Downgrade
                                         /\ short(g)
                                         /\ Repriceable(g, t)}
  <1>1. D1A(B, t) = {k \in {[by |-> "d1", rows |-> g, waste |-> Unit * (AccountSpend(g, t) - cheap(g))] :
                              g \in ones} : k.waste > 0}
    BY DEF D1A, Claims, Claim
  <1> HIDE DEF short
  <1>2. \A g \in ones : g \in ByModel(B) /\ Repriceable(g, t)
    OBVIOUS
  <1> HIDE DEF cheap, ones
  <1>3. PICK g \in ones : c.rows = g /\ c.waste = Unit * (AccountSpend(g, t) - cheap(g))
    BY <1>1
  <1>4. g \in SUBSET B /\ Repriceable(g, t)
    BY <1>2, GroupsByModel DEF ByModelIs
  <1> DEFINE w == [b \in g |-> BucketCost(b, t[Downgrade[b.model]][DayOf(b)])]
  <1>5. IsFiniteSet(g)
    BY <1>4, FS_Subset DEF FitTotals
  <1>6. \A b \in g : w[b] \in Nat
    <2> SUFFICES ASSUME NEW b \in g PROVE BucketCost(b, t[Downgrade[b.model]][DayOf(b)]) \in Nat
      OBVIOUS
    <2>1. IsBucket(b)
      BY <1>4 DEF FitTotals
    <2>2. Downgrade[b.model] \in Models /\ DayOf(b) \in LogDays
            /\ t[Downgrade[b.model]][DayOf(b)] # NoValue
      BY <1>4, <2>1, AuditsAssumption DEF Repriceable, IsBucket
    <2>3. IsRate(t[Downgrade[b.model]][DayOf(b)])
      BY <2>2 DEF FitTotals, GoodCard
    <2> QED BY <2>1, <2>3, BucketIs
  <1>7. \A b \in g : w[b] = BucketCost(b, t[Downgrade[b.model]][DayOf(b)])
    OBVIOUS
  <1> HIDE DEF w
  <1>8. Weighs(w, g)
    BY <1>5, <1>6 DEF Weighs
  <1>9. cheap(g) = SumUp(w, g)
    BY <1>7, <1>8, CheaperBucketsAddUp DEF cheap
  <1>10. cheap(g) \in Nat
    BY <1>5, <1>6, <1>9, SumUpCounts
  <1>11. AccountSpend(g, t) \in Nat
    BY <1>4, AccountSpendIs
  <1> QED BY <1>3, <1>10, <1>11 DEF Unit

\* Shares are ordered: a's is at most b's, b's at most d's.
LEMMA ShareOrder ==
    ASSUME NEW ac \in Nat, NEW ap \in Nat, NEW bc \in Nat, NEW bp \in Nat, NEW dc \in Nat, NEW dp \in Nat,
           bp > 0, ac * bp <= bc * ap, bc * dp <= dc * bp
    PROVE  ac * dp <= dc * ap
  <1>1. (ac * bp) * dp <= (bc * ap) * dp
    OBVIOUS
  <1>2. (bc * dp) * ap <= (dc * bp) * ap
    OBVIOUS
  <1>3. (ac * bp) * dp = bp * (ac * dp) /\ (bc * ap) * dp = (bc * dp) * ap
          /\ (dc * bp) * ap = bp * (dc * ap) /\ ac * dp \in Nat /\ dc * ap \in Nat /\ (bc * dp) * ap \in Nat
    OBVIOUS
  <1> DEFINE x == ac * dp
             y == dc * ap
  <1>4. x \in Nat /\ y \in Nat /\ bp * x <= bp * y
    BY <1>1, <1>2, <1>3
  <1> HIDE DEF x, y
  <1>5. ASSUME x > y PROVE FALSE
    <2>1. bp * x >= bp * (y + 1) /\ bp * (y + 1) = bp * y + bp
      BY <1>4, <1>5
    <2> QED BY <1>4, <2>1
  <1>6. x <= y
    BY <1>4, <1>5
  <1> QED BY <1>6 DEF x, y

\* Some day has the best share.
LEMMA BestShare ==
    ASSUME NEW A, IsFiniteSet(A), A # {},
           \A b \in A : b.cached \in Nat /\ b.prompt \in Nat /\ b.prompt > 0
    PROVE  \E b \in A : \A d \in A : d.cached * b.prompt <= b.cached * d.prompt
  <1> DEFINE F == {T \in SUBSET A : T = {} \/ \E b \in T : \A d \in T : d.cached * b.prompt <= b.cached * d.prompt}
  <1>1. {} \in F
    OBVIOUS
  <1>2. ASSUME NEW T \in SUBSET A, NEW x \in A \ T, T \in F PROVE T \cup {x} \in F
    <2>1. x.cached * x.prompt <= x.cached * x.prompt
      OBVIOUS
    <2>2. CASE T = {}
      BY <2>1, <2>2
    <2>3. ASSUME NEW b \in T, \A d \in T : d.cached * b.prompt <= b.cached * d.prompt
          PROVE  T \cup {x} \in F
      <3>0. x.cached * b.prompt \in Nat /\ b.cached * x.prompt \in Nat
        OBVIOUS
      <3>1. CASE x.cached * b.prompt <= b.cached * x.prompt
        BY <2>3, <3>1
      <3>2. CASE b.cached * x.prompt <= x.cached * b.prompt
        <4>1. ASSUME NEW d \in T PROVE d.cached * x.prompt <= x.cached * d.prompt
          <5>1. d.cached * b.prompt <= b.cached * d.prompt
            BY <2>3
          <5> QED BY <3>2, <5>1, ShareOrder
        <4> QED BY <2>1, <4>1
      <3> QED BY <3>0, <3>1, <3>2
    <2> QED BY <1>2, <2>2, <2>3
  <1>3. A \in F
    <2> HIDE DEF F
    <2> QED BY <1>1, <1>2, SetInduction
  <1> QED BY <1>3

\* What a day saves at another day's share is no more than its prompts cost.
LEMMA ShareGain ==
    ASSUME NEW b, NEW e, NEW best, IsBucket(b), IsRate(e), IsBucket(best), best.prompt > 0
    PROVE  LET w == (Unit * 4 * NotNegative(best.cached * b.prompt - b.cached * best.prompt) * (e.input - e.read))
                      \div (5 * best.prompt)
           IN  w \in Int /\ w <= 60 * BucketCost(b, e)
  <1> DEFINE p == b.prompt
             n == b.cached
             q == best.prompt
             m == best.cached
             i == e.input
             d == e.read
             s == NotNegative(m * p - n * q)
             v == BucketCost(b, e)
  <1>1. p \in Nat /\ n \in Nat /\ n <= p /\ q \in Nat /\ q > 0 /\ m \in Nat /\ m <= q /\ i \in Nat /\ d \in Nat
    BY DEF IsBucket, IsRate
  <1>2. (p - n) * i <= v /\ v \in Nat
    <2>1. /\ (p - n) * i <= BucketPrompt(b, e) /\ BucketPrompt(b, e) <= v
          /\ BucketPrompt(b, e) \in Nat /\ v \in Nat
      BY BucketIs
    <2>2. (p - n) * i \in Nat
      BY <1>1
    <2> HIDE DEF p, n, i, v
    <2> QED BY <2>1, <2>2
  <1>3. s = IF m * p - n * q > 0 THEN m * p - n * q ELSE 0
    BY DEF NotNegative
  <1> HIDE DEF p, n, q, m, i, d, s, v
  <1>4. s \in Nat /\ s <= q * (p - n)
    <2>1. m * p <= q * p /\ q * (p - n) = q * p - n * q /\ m * p \in Nat /\ n * q \in Nat /\ q * p \in Nat
            /\ q * (p - n) \in Nat
      BY <1>1
    <2> QED BY <1>3, <2>1
  <1>5. s * (i - d) <= q * v /\ s * (i - d) \in Int /\ q * v \in Nat
    <2>1. s * (i - d) <= s * i /\ s * (i - d) \in Int /\ s * i \in Nat
      BY <1>1, <1>4
    <2>2. s * i <= (q * (p - n)) * i
      BY <1>1, <1>4
    <2>3. (q * (p - n)) * i = q * ((p - n) * i) /\ (p - n) * i \in Nat
      BY <1>1
    <2>4. q * ((p - n) * i) <= q * v
      BY <1>1, <1>2, <2>3
    <2>5. q * v \in Nat /\ q * ((p - n) * i) \in Nat
      BY <1>1, <1>2, <2>3
    <2> QED BY <2>1, <2>2, <2>3, <2>4, <2>5
  <1> DEFINE x == s * (i - d)
             y == q * v
  <1>6. x \in Int /\ y \in Nat /\ x <= y
    BY <1>5
  <1>7. 60 * 4 * s * (i - d) = 240 * x /\ (5 * q) * (60 * v) = 300 * y
    BY <1>1, <1>2, <1>4
  <1> HIDE DEF x, y
  <1>8. 60 * 4 * s * (i - d) <= (5 * q) * (60 * v) /\ 60 * 4 * s * (i - d) \in Int
    BY <1>6, <1>7
  <1>9. 5 * q \in Nat /\ 5 * q > 0 /\ 60 * v \in Int
    BY <1>1, <1>2
  <1>10. (60 * 4 * s * (i - d)) \div (5 * q) <= 60 * v /\ (60 * 4 * s * (i - d)) \div (5 * q) \in Int
    BY <1>8, <1>9, DivBound
  <1> QED BY <1>10 DEF Unit, s, m, p, n, q, i, d, v

\* D2 on totals: no day claims more than its prompts cost.
LEMMA D2AWithin ==
    ASSUME NEW B, NEW t, FitTotals(B, t), NEW c \in D2A(B, t)
    PROVE  c.waste <= Unit * AccountSpend(c.rows, t)
  <1> DEFINE asked(g) == {b \in g : b.prompt > 0}
             best(g) == CHOOSE b \in asked(g) : \A d \in asked(g) : d.cached * b.prompt <= b.cached * d.prompt
             short(g, b) == NotNegative(best(g).cached * b.prompt - b.cached * best(g).prompt)
             gain(g, b) == LET e == RateOf(t, b)
                           IN  (Unit * 4 * short(g, b) * (e.input - e.read)) \div (5 * best(g).prompt)
             total(g) == MapThenSumSet(LAMBDA b : gain(g, b), Priced(asked(g), t))
             ones == {g \in ByModel(B) : asked(g) # {}}
  <1>1. D2A(B, t) = {k \in {[by |-> "d2", rows |-> g, waste |-> total(g)] : g \in ones} : k.waste > 0}
    BY DEF D2A, Claims, Claim
  <1>2. \A g \in ones : g \in ByModel(B) /\ asked(g) # {}
    OBVIOUS
  <1> HIDE DEF total, ones
  <1>3. PICK g \in ones : c.rows = g /\ c.waste = total(g)
    BY <1>1
  <1>4. g \in SUBSET B /\ asked(g) # {} /\ asked(g) \in SUBSET B
    BY <1>2, GroupsByModel DEF ByModelIs
  <1>5. \A b \in asked(g) : IsBucket(b) /\ b.prompt > 0
    BY <1>4 DEF FitTotals
  <1>6. best(g) \in asked(g)
    <2>1. IsFiniteSet(asked(g))
      BY <1>4, FS_Subset DEF FitTotals
    <2>2. \A b \in asked(g) : b.cached \in Nat /\ b.prompt \in Nat /\ b.prompt > 0
      BY <1>5 DEF IsBucket
    <2> HIDE DEF asked
    <2>3. \E b \in asked(g) : \A d \in asked(g) : d.cached * b.prompt <= b.cached * d.prompt
      BY <1>4, <2>1, <2>2, BestShare
    <2> QED BY <2>3
  <1> DEFINE A == Priced(asked(g), t)
             o == best(g)
             w == [b \in A |-> AtShare(t, o, b)]
  <1>7. total(g) = MapThenSumSet(LAMBDA b : AtShare(t, o, b), A)
    BY DEF total, AtShare
  <1>8. IsBucket(o) /\ o.prompt > 0
    BY <1>5, <1>6
  <1> HIDE DEF o, best
  <1>9. A \in SUBSET Priced(g, t) /\ \A b \in A : RateOf(t, b) # NoValue /\ b \in B
    BY <1>4 DEF Priced
  <1> HIDE DEF A
  <1>10. \A b \in A : w[b] = AtShare(t, o, b)
    OBVIOUS
  <1> HIDE DEF w
  <1>11. \A b \in A : w[b] \in Int /\ w[b] <= 60 * BucketCost(b, RateOf(t, b))
    <2> SUFFICES ASSUME NEW b \in A PROVE w[b] \in Int /\ w[b] <= 60 * BucketCost(b, RateOf(t, b))
      OBVIOUS
    <2>1. IsBucket(b) /\ IsRate(RateOf(t, b))
      BY <1>9, BucketHasRate DEF FitTotals
    <2> QED BY <1>8, <1>10, <2>1, ShareGain DEF AtShare
  <1>12. Weighs(w, A) /\ SumUp(w, A) <= Unit * AccountSpend(g, t)
    BY <1>4, <1>9, <1>11, DaysBound
  <1>13. total(g) = SumUp(w, A)
    BY <1>7, <1>10, <1>12, SharesAddUp
  <1> QED BY <1>3, <1>12, <1>13

-----------------------------------------------------------------------------
(* D3 on totals *)

\* The days of a model by their average prompt are days of the model.
LEMMA SortedByAverage ==
    ASSUME NEW S, Numbered(S), \A b \in S : (Unit * b.prompt) \div b.calls \in Nat
    PROVE  LET s == Sorted(S, LAMBDA b : (Unit * b.prompt) \div b.calls)
           IN  Len(s) = Cardinality(S) /\ \A i \in 1 .. Cardinality(S) : s[i] \in S
  <1> DEFINE average(b) == (Unit * b.prompt) \div b.calls
             F == [b \in S |-> average(b)]
             n == Cardinality(S)
             upTo(r) == {q \in S : average(q) < average(r) \/ (average(q) = average(r) /\ q.row <= r.row)}
             s == [i \in 1 .. n |-> CHOOSE r \in S : i = Cardinality(upTo(r))]
  <1>1. Sorted(S, LAMBDA b : (Unit * b.prompt) \div b.calls) = s
    BY DEF Sorted
  <1>2. \A b \in S : F[b] \in Int
    OBVIOUS
  <1>3. \A r \in S : UpToRow(S, F, r) = upTo(r)
    <2> HIDE DEF average
    <2> QED BY DEF UpToRow
  <1> HIDE DEF F, upTo
  <1>4. \A i \in 1 .. n : \E r \in S : i = Cardinality(upTo(r))
    BY <1>2, <1>3, EveryPlace
  <1>5. n \in Nat
    BY FS_CardinalityType DEF Numbered
  <1> HIDE DEF n
  <1>6. \A i \in 1 .. n : s[i] \in S
    BY <1>4
  <1>7. s \in Seq(S) /\ Len(s) = n
    BY <1>5, <1>6
  <1> HIDE DEF s
  <1> QED BY <1>1, <1>6, <1>7 DEF n

\* The median average is not negative.
LEMMA MedianAverage ==
    ASSUME NEW S, Numbered(S), S # {}, \A b \in S : (Unit * b.prompt) \div b.calls \in Nat
    PROVE  Quantile(S, LAMBDA b : (Unit * b.prompt) \div b.calls, 10) \in Nat
  <1> DEFINE average(b) == (Unit * b.prompt) \div b.calls
             s == Sorted(S, LAMBDA b : (Unit * b.prompt) \div b.calls)
             n == Cardinality(S)
             at == 10 * (Len(s) - 1)
             lo == average(s[1 + at \div 20])
             hi == IF at % 20 = 0 THEN lo ELSE average(s[2 + at \div 20])
  <1>1. Quantile(S, LAMBDA b : (Unit * b.prompt) \div b.calls, 10) = 20 * lo + (at % 20) * (hi - lo)
    BY DEF Quantile
  <1>2. Len(s) = n /\ \A i \in 1 .. n : s[i] \in S
    BY SortedByAverage
  <1>3. n \in Nat /\ n > 0
    BY FS_CardinalityType, FS_EmptySet DEF Numbered
  <1> HIDE DEF s, n
  <1>4. 1 + at \div 20 \in 1 .. n /\ at % 20 \in 0 .. 19 /\ (at % 20 # 0 => 2 + at \div 20 \in 1 .. n)
    BY <1>2, <1>3, Middle
  <1>5. \A b \in S : average(b) \in Nat
    OBVIOUS
  <1> HIDE DEF at, average
  <1>6. lo \in Nat /\ hi \in Nat
    BY <1>2, <1>4, <1>5
  <1> HIDE DEF lo, hi
  <1> QED BY <1>1, <1>4, <1>6, Between

\* What a day saves with shorter prompts is no more than they cost.
LEMMA MedianGain ==
    ASSUME NEW t, NEW b, NEW base \in Nat, IsBucket(b), IsRate(RateOf(t, b)), b.prompt > 0
    PROVE  AtMedian(t, base, b) \in Int /\ AtMedian(t, base, b) <= 60 * BucketCost(b, RateOf(t, b))
  <1> DEFINE p == b.prompt
             n == b.calls
             a == (60 * p) \div n
             v == BucketPrompt(b, RateOf(t, b))
             z == BucketCost(b, RateOf(t, b))
  <1>1. AtMedian(t, base, b) = ((20 * a - base) * n * v) \div (20 * p)
    BY DEF AtMedian, Unit
  <1>2. p \in Nat /\ p > 0 /\ n \in Nat /\ n > 0
    BY DEF IsBucket
  <1>3. v \in Nat /\ z \in Nat /\ v <= z
    BY BucketIs
  <1> HIDE DEF p, n, v, z
  <1>4. a \in Int /\ n * a <= 60 * p
    BY <1>2
  <1> HIDE DEF a
  <1>5. (20 * a - base) * n * v <= (20 * p) * (60 * v) /\ (20 * a - base) * n * v \in Int
    <2> DEFINE x == n * a
               y == x * v
               k == base * n
    <2>1. x \in Int /\ x <= 60 * p /\ k \in Nat
      BY <1>2, <1>4
    <2>2. (20 * a - base) * n = 20 * x - k
      BY <1>2, <1>4
    <2> HIDE DEF x, k
    <2>3. (20 * x - k) * v = 20 * (x * v) - k * v /\ k * v \in Nat /\ x * v \in Int
      BY <1>3, <2>1
    <2>4. x * v <= (60 * p) * v /\ (60 * p) * v = 60 * (p * v) /\ p * v \in Nat
      BY <1>2, <1>3, <2>1
    <2>5. (20 * p) * (60 * v) = 1200 * (p * v)
      BY <1>2, <1>3
    <2> DEFINE d == k * v
               q == p * v
    <2>6. y \in Int /\ d \in Nat /\ q \in Nat /\ y <= 60 * q
            /\ (20 * a - base) * n * v = 20 * y - d /\ (20 * p) * (60 * v) = 1200 * q
      BY <2>2, <2>3, <2>4, <2>5
    <2> HIDE DEF y, d, q
    <2> QED BY <2>6
  <1>6. 20 * p \in Nat /\ 20 * p > 0 /\ 60 * v \in Int
    BY <1>2, <1>3
  <1>7. ((20 * a - base) * n * v) \div (20 * p) <= 60 * v
          /\ ((20 * a - base) * n * v) \div (20 * p) \in Int
    BY <1>5, <1>6, DivBound
  <1>8. AtMedian(t, base, b) \in Int /\ AtMedian(t, base, b) <= 60 * z
    BY <1>1, <1>3, <1>7
  <1> QED BY <1>8 DEF z

\* D3 on totals: nor does this.
LEMMA D3AWithin ==
    ASSUME NEW B, NEW t, FitTotals(B, t), NEW c \in D3A(B, t)
    PROVE  c.waste <= Unit * AccountSpend(c.rows, t)
  <1> DEFINE average(b) == (Unit * b.prompt) \div b.calls
             base(g) == Quantile(g, average, 10)
             bloated(g) == {b \in Priced(g, t) : b.prompt > 0 /\ 20 * average(b) > BloatMult * base(g)}
             gain(g, b) == ((20 * average(b) - base(g)) * b.calls * BucketPrompt(b, RateOf(t, b)))
                             \div (20 * b.prompt)
             total(g) == MapThenSumSet(LAMBDA b : gain(g, b), bloated(g))
             ones == {g \in ByModel(B) : Cardinality(g) >= 3 /\ base(g) > 0}
  <1>1. D3A(B, t) = {k \in {[by |-> "d3", rows |-> g, waste |-> total(g)] : g \in ones} : k.waste > 0}
    BY DEF D3A, Claims, Claim
  <1> HIDE DEF base
  <1>2. \A g \in ones : g \in ByModel(B)
    OBVIOUS
  <1> HIDE DEF total, ones
  <1>3. PICK g \in ones : c.rows = g /\ c.waste = total(g)
    BY <1>1
  <1>4. g \in SUBSET B /\ g # {} /\ \A a, b \in g : a.model = b.model
    BY <1>2, GroupsByModel DEF ByModelIs
  <1>5. Numbered(g)
    <2>1. IsFiniteSet(g)
      BY <1>4, FS_Subset DEF FitTotals
    <2>2. \A b \in g : b.row \in Int
      BY <1>4 DEF FitTotals, IsBucket
    <2>3. \A a, b \in g : a.row = b.row => a = b
      BY <1>4 DEF FitTotals
    <2> QED BY <2>1, <2>2, <2>3 DEF Numbered
  <1>6. \A b \in g : average(b) \in Nat
    <2> SUFFICES ASSUME NEW b \in g PROVE average(b) \in Nat
      OBVIOUS
    <2> DEFINE p == b.prompt
               n == b.calls
    <2>1. p \in Nat /\ n \in Nat /\ n > 0
      BY <1>4 DEF FitTotals, IsBucket
    <2> HIDE DEF p, n
    <2>2. (60 * p) \div n \in Nat
      BY <2>1
    <2> QED BY <2>2 DEF p, n, Unit
  <1>7. base(g) \in Nat
    <2>1. base(g) = Quantile(g, LAMBDA b : (Unit * b.prompt) \div b.calls, 10)
      BY DEF base
    <2> QED BY <1>4, <1>5, <1>6, <2>1, MedianAverage
  <1> DEFINE A == bloated(g)
             o == base(g)
             w == [b \in A |-> AtMedian(t, o, b)]
  <1>8. total(g) = MapThenSumSet(LAMBDA b : AtMedian(t, o, b), A)
    BY DEF total, AtMedian
  <1>9. A \in SUBSET Priced(g, t) /\ \A b \in A : b \in B /\ b.prompt > 0 /\ RateOf(t, b) # NoValue
    BY <1>4 DEF Priced
  <1>10. o \in Nat
    BY <1>7
  <1> HIDE DEF A, o
  <1>11. \A b \in A : w[b] = AtMedian(t, o, b)
    OBVIOUS
  <1> HIDE DEF w
  <1>12. \A b \in A : w[b] \in Int /\ w[b] <= 60 * BucketCost(b, RateOf(t, b))
    <2> SUFFICES ASSUME NEW b \in A PROVE w[b] \in Int /\ w[b] <= 60 * BucketCost(b, RateOf(t, b))
      OBVIOUS
    <2>1. IsBucket(b) /\ IsRate(RateOf(t, b)) /\ b.prompt > 0
      BY <1>9, BucketHasRate DEF FitTotals
    <2> QED BY <1>10, <1>11, <2>1, MedianGain
  <1>13. Weighs(w, A) /\ SumUp(w, A) <= Unit * AccountSpend(g, t)
    BY <1>4, <1>9, <1>12, DaysBound
  <1>14. total(g) = SumUp(w, A)
    BY <1>8, <1>11, <1>13, AveragesAddUp
  <1> QED BY <1>3, <1>13, <1>14

\* Whatever a detector finds in totals stays within what the days cost.
LEMMA ClaimsOfTotals ==
    ASSUME NEW B, NEW t, FitTotals(B, t), NEW c \in AccountFindings(B, t, FALSE)
    PROVE  c.waste <= Unit * AccountSpend(c.rows, t)
  <1>1. c \in D1A(B, t) \cup D2A(B, t) \cup D3A(B, t)
    BY DEF AccountFindings
  <1> QED BY <1>1, D1AWithin, D2AWithin, D3AWithin

-----------------------------------------------------------------------------
(* The days of a log *)

\* What a division rounds down to.
LEMMA DivFloor ==
    ASSUME NEW a \in Int, NEW n \in Nat, n > 0
    PROVE  a \div n \in Int /\ n * (a \div n) <= a /\ a < n * ((a \div n) + 1)
  OBVIOUS

\* The day that starts at n times the length of a day is n.
LEMMA StartOfDay ==
    ASSUME NEW n \in Int, NEW d \in Nat, d > 0
    PROVE  (n * d) \div d = n
  <1> DEFINE k == (n * d) \div d
             x == n * d
  <1>1. x \in Int
    OBVIOUS
  <1>2. k \in Int /\ d * k <= x /\ x < d * (k + 1)
    <2> HIDE DEF x
    <2>1. x \div d \in Int /\ d * (x \div d) <= x /\ x < d * ((x \div d) + 1)
      BY <1>1, DivFloor
    <2>2. k = x \div d
      BY DEF x
    <2> QED BY <2>1, <2>2
  <1>3. x = d * n
    OBVIOUS
  <1> HIDE DEF k, x
  <1>4. ASSUME k > n PROVE FALSE
    <2>1. d * k >= d * (n + 1) /\ d * (n + 1) = d * n + d
      BY <1>2, <1>4
    <2> QED BY <1>2, <1>3, <2>1
  <1>5. ASSUME k < n PROVE FALSE
    <2>1. d * n >= d * (k + 1)
      BY <1>2, <1>5
    <2>2. d * n \in Int /\ d * (k + 1) \in Int
      BY <1>2
    <2> QED BY <1>1, <1>2, <1>3, <2>1, <2>2
  <1>6. k = n
    BY <1>2, <1>4, <1>5
  <1> QED BY <1>6 DEF k, x

\* The totals of a log are days that can be priced, one per day and model.
LEMMA TotalsFit ==
    ASSUME NEW U, NEW t, Fit(U, t), \A b \in Buckets(U) : b.cached <= b.prompt
    PROVE  FitTotals(Buckets(U), t)
  <1> DEFINE G == Groups(U, LAMBDA r : <<r.model, DayOf(r)>>)
             one(g) == CHOOSE r \in g : TRUE
             prompts(g) == MapThenSumSet(LAMBDA q : q.prompt, g)
             answers(g) == MapThenSumSet(LAMBDA q : q.completion, g)
             cached(g) == MapThenSumSet(LAMBDA q : q.cached, g)
             bucket(g) == [row |-> DayOf(one(g)), ts |-> DayOf(one(g)) * DayLength, model |-> one(g).model,
                           calls |-> Cardinality(g), prompt |-> prompts(g), completion |-> answers(g),
                           cached |-> cached(g)]
  <1>1. Buckets(U) = {bucket(g) : g \in G}
    BY DEF Buckets
  <1>2. G = {{r \in U : <<r.model, DayOf(r)>> = k} : k \in {<<r.model, DayOf(r)>> : r \in U}}
    BY DEF Groups
  <1>3. ASSUME NEW g \in G
        PROVE  /\ g \in SUBSET U /\ one(g) \in g /\ IsFiniteSet(g)
               /\ \A r \in U : r \in g <=> r.model = one(g).model /\ DayOf(r) = DayOf(one(g))
    <2> HIDE DEF G
    <2>1. PICK q \in U : g = {r \in U : <<r.model, DayOf(r)>> = <<q.model, DayOf(q)>>}
      BY <1>2
    <2>2. \A r : r \in g <=> r \in U /\ r.model = q.model /\ DayOf(r) = DayOf(q)
      BY <2>1
    <2>3. q \in g /\ g \in SUBSET U
      BY <2>2
    <2>4. one(g) \in g
      BY <2>3
    <2>5. IsFiniteSet(g)
      BY <2>3, FS_Subset DEF Fit, Numbered
    <2> HIDE DEF one
    <2> QED BY <2>2, <2>3, <2>4, <2>5
  <1>4. IsFiniteSet(G)
    <2>1. G \subseteq SUBSET U
      BY <1>3
    <2>2. IsFiniteSet(SUBSET U)
      BY FS_SUBSET DEF Fit, Numbered
    <2> HIDE DEF G
    <2> QED BY <2>1, <2>2, FS_Subset
  <1> HIDE DEF G
  <1>5. ASSUME NEW g \in G
        PROVE  prompts(g) \in Nat /\ answers(g) \in Nat /\ cached(g) \in Nat
    <2> DEFINE p == [q \in g |-> q.prompt]
               a == [q \in g |-> q.completion]
               k == [q \in g |-> q.cached]
    <2>1. IsFiniteSet(g) /\ \A q \in g : IsCall(q)
      BY <1>3 DEF Fit
    <2>2. \A q \in g : /\ p[q] \in Nat /\ a[q] \in Nat /\ k[q] \in Nat
                       /\ p[q] = q.prompt /\ a[q] = q.completion /\ k[q] = q.cached
      BY <2>1 DEF IsCall
    <2> HIDE DEF p, a, k
    <2>3. Weighs(p, g) /\ Weighs(a, g) /\ Weighs(k, g)
      BY <2>1, <2>2 DEF Weighs
    <2>4. prompts(g) = SumUp(p, g)
      BY <2>2, <2>3, PromptsAddUp
    <2>5. answers(g) = SumUp(a, g)
      BY <2>2, <2>3, CompletionsAddUp
    <2>6. cached(g) = SumUp(k, g)
      BY <2>2, <2>3, CachedAddUp
    <2>7. SumUp(p, g) \in Nat /\ SumUp(a, g) \in Nat /\ SumUp(k, g) \in Nat
      BY <2>1, <2>2, SumUpCounts
    <2> HIDE DEF prompts, answers, cached
    <2> QED BY <2>4, <2>5, <2>6, <2>7
  <1> HIDE DEF prompts, answers, cached
  <1>6. ASSUME NEW g \in G PROVE IsBucket(bucket(g))
    <2>1. IsCall(one(g))
      BY <1>3 DEF Fit
    <2> HIDE DEF one
    <2>2. DayOf(one(g)) \in LogDays /\ DayOf(one(g)) \in Int /\ one(g).model \in Models
      BY <2>1, AuditsAssumption DEF IsCall
    <2>3. DayOf(bucket(g)) = DayOf(one(g))
      <3> DEFINE n == DayOf(one(g))
      <3>1. DayOf(bucket(g)) = (n * DayLength) \div DayLength
        BY DEF DayOf
      <3>2. n \in Int
        BY <2>2
      <3> HIDE DEF n
      <3>3. (n * DayLength) \div DayLength = n
        BY <3>2, StartOfDay, AuditsAssumption
      <3> QED BY <3>1, <3>3 DEF n
    <2>4. Cardinality(g) \in Nat /\ Cardinality(g) > 0
      <3>1. IsFiniteSet(g) /\ g # {}
        BY <1>3
      <3> QED BY <3>1, FS_CardinalityType, FS_EmptySet
    <2>5. prompts(g) \in Nat /\ answers(g) \in Nat /\ cached(g) \in Nat
      BY <1>5
    <2>6. /\ bucket(g).row = DayOf(one(g)) /\ bucket(g).model = one(g).model
          /\ bucket(g).calls = Cardinality(g) /\ bucket(g).prompt = prompts(g)
          /\ bucket(g).completion = answers(g) /\ bucket(g).cached = cached(g)
      OBVIOUS
    <2> HIDE DEF bucket
    <2>7. bucket(g).cached <= bucket(g).prompt
      BY <1>1
    <2> QED BY <2>2, <2>3, <2>4, <2>5, <2>6, <2>7 DEF IsBucket
  <1>7. ASSUME NEW g \in G, NEW h \in G, bucket(g).row = bucket(h).row, bucket(g).model = bucket(h).model
        PROVE  g = h
    <2>1. DayOf(one(g)) = DayOf(one(h)) /\ one(g).model = one(h).model
      BY <1>7
    <2>2. \A r \in U : r \in g <=> r \in h
      BY <1>3, <2>1
    <2>3. g \in SUBSET U /\ h \in SUBSET U
      BY <1>3
    <2> QED BY <2>2, <2>3
  <1>8. IsFiniteSet(Buckets(U))
    <2> DEFINE f == [g \in G |-> bucket(g)]
    <2> HIDE DEF bucket
    <2>1. f \in Surjection(G, Buckets(U))
      BY <1>1 DEF Surjection
    <2> QED BY <1>4, <2>1, FS_Surjection
  <1> HIDE DEF bucket
  <1>9. \A b \in Buckets(U) : IsBucket(b)
    BY <1>1, <1>6
  <1>10. \A b, c \in Buckets(U) : b.row = c.row /\ b.model = c.model => b = c
    BY <1>1, <1>7
  <1> QED BY <1>8, <1>9, <1>10 DEF FitTotals, Fit

-----------------------------------------------------------------------------
(* Theorem about claims *)

\* What an audit of a log works with
WorkInv == Has("log") => over \in Overlays /\ work.of \in UsageLogs

\* An audit starts with one ...
LEMMA WorkStarts == AuditInit => WorkInv
  <1> SUFFICES ASSUME AuditInit, Has("log") PROVE over \in Overlays /\ work.of \in UsageLogs
    BY DEF WorkInv
  <1>1. work # NoValue /\ work.kind = "log"
    BY DEF Has
  <1> QED BY <1>1 DEF AuditInit

\* ... and keeps it.
LEMMA WorkStays == WorkInv /\ [AuditNext]_auditVars => WorkInv'
  <1> SUFFICES ASSUME WorkInv, [AuditNext]_auditVars PROVE WorkInv'
    OBVIOUS
  <1>1. CASE AuditNext
    BY <1>1 DEF AuditNext, WorkInv, Has
  <1>2. CASE UNCHANGED auditVars
    BY <1>2 DEF auditVars, pricingVars, WorkInv, Has
  <1> QED BY <1>1, <1>2

\* Every rate on the card is a rate.
LEMMA CardIsGood ==
    ASSUME over \in Overlays
    PROVE  GoodCard(Card)
  <1> DEFINE tab == Table(over)
  <1>1. \A m \in Models : \A r \in over[m] : r.from \in Int /\ r.rate # NoRate /\ IsRate(r.rate)
    BY AuditsAssumption
  <1>2. GoodTable(tab)
    BY <1>1, GoodTables DEF GoodRows
  <1>3. \A m \in Models : \A r \in tab[m] : IsRate(r.rate)
    BY <1>1, AuditsAssumption DEF Table
  <1> HIDE DEF tab
  <1>4. ASSUME NEW m \in Models, NEW d \in LogDays, Rate(tab, m, d) # NoRate
        PROVE  IsRate(Rate(tab, m, d))
    <2> DEFINE k == PricedBy(tab, m)
               seen == UpTo(tab[k], d)
    <2>1. d \in Int
      BY AuditsAssumption
    <2>2. seen # {} /\ Rate(tab, m, d) = (CHOOSE r \in LastRows(seen) : TRUE).rate
      BY <1>2, <1>4, <2>1, RateIs
    <2>3. k \in Models
      BY PricingAssumption DEF PricedBy
    <2>4. GoodRows(seen) /\ \A r \in seen : r.from <= d /\ r \in tab[k]
      BY <1>2, <2>3 DEF GoodTable, GoodRows, UpTo
    <2> HIDE DEF seen
    <2>5. LastRows(seen) # {} /\ LastRows(seen) \subseteq seen
      <3>1. LastRows(seen) # {}
        BY <2>1, <2>2, <2>4, LatestExists
      <3> QED BY <3>1 DEF LastRows
    <2>6. (CHOOSE r \in LastRows(seen) : TRUE) \in seen
      BY <2>5
    <2> QED BY <1>3, <2>2, <2>3, <2>4, <2>6
  <1>5. \A m \in Models : \A d \in LogDays : Card[m][d] = Rate(tab, m, d)
    BY DEF Card, tab
  <1>6. NoRate = NoValue
    BY AuditsAssumption
  <1> QED BY <1>4, <1>5, <1>6 DEF GoodCard

\* So no claim of an audit exceeds what its calls cost.
LEMMA ClaimsAreWithin == WorkInv => ClaimsWithinRows
  <1> SUFFICES ASSUME WorkInv, Has("log") PROVE ClaimsWithinRows
    BY DEF ClaimsWithinRows
  <1>1. over \in Overlays /\ work.of \in UsageLogs
    BY DEF WorkInv
  <1> DEFINE U == work.of
  <1>2. Fit(U, Card)
    <2>1. IsFiniteSet(U) /\ \A r \in U : IsCall(r) /\ \A q \in U : q.row = r.row => q = r
      BY <1>1, AuditsAssumption
    <2>2. GoodCard(Card)
      BY <1>1, CardIsGood
    <2>3. \A r \in U : r.row \in Int
      BY <2>1 DEF IsCall
    <2> QED BY <2>1, <2>2, <2>3 DEF Fit, Numbered
  <1>3. FitTotals(Buckets(U), Card)
    <2>1. \A b \in Buckets(U) : b.cached <= b.prompt
      BY <1>1, AuditsAssumption
    <2> QED BY <1>2, <2>1, TotalsFit
  <1>4. \A c \in Findings(U, Card) : c.by # "d6" => c.waste <= Unit * Spend(c.rows, Card)
    BY <1>2, ClaimsOfCalls
  <1>5. \A c \in AccountFindings(Buckets(U), Card, FALSE) : c.waste <= Unit * AccountSpend(c.rows, Card)
    BY <1>3, ClaimsOfTotals
  <1> QED BY <1>4, <1>5 DEF ClaimsWithinRows

\* No claim exceeds what the calls it names have cost, for every log and every table
\* of prices: those of the detectors D1 .. D10 but D6, and those made for the totals
\* of an account (ClaimsWithinRows).
THEOREM ClaimsStayWithinRows == AuditSpec => []ClaimsWithinRows
  <1>1. AuditSpec => []WorkInv
    BY WorkStarts, WorkStays, PTL DEF AuditSpec
  <1> QED BY <1>1, ClaimsAreWithin, PTL

-----------------------------------------------------------------------------
(* Medians *)

\* v is the k-th smallest number of F over S: fewer than k are smaller, and k or more
\* are not larger.
IsNth(S, F, k, v) ==
    /\ v \in Int
    /\ Cardinality({r \in S : F[r] < v}) < k
    /\ k <= Cardinality({r \in S : F[r] <= v})

\* v and w are in the middle of S, the same or next to each other.
AreMiddle(S, F, v, w) ==
    \E k, l \in 1 .. Cardinality(S) :
        /\ k + l = Cardinality(S) + 1 /\ k <= l /\ l <= k + 1
        /\ IsNth(S, F, k, v) /\ IsNth(S, F, l, w)

\* Who stands at place k has the k-th smallest number.
LEMMA NthOfRank ==
    ASSUME NEW S, NEW F, Numbered(S), \A r \in S : F[r] \in Int, NEW r \in S
    PROVE  IsNth(S, F, Cardinality(UpToRow(S, F, r)), F[r])
  <1> DEFINE low == {q \in S : F[q] < F[r]}
             upTo == UpToRow(S, F, r)
             high == {q \in S : F[q] <= F[r]}
  <1>1. IsFiniteSet(low) /\ IsFiniteSet(upTo) /\ IsFiniteSet(high)
    <2>1. IsFiniteSet(S) /\ low \subseteq S /\ upTo \subseteq S /\ high \subseteq S
      BY DEF Numbered, UpToRow
    <2> HIDE DEF low, upTo, high
    <2> QED BY <2>1, FS_Subset
  <1>2. low \cup {r} \subseteq upTo /\ r \notin low
    BY DEF UpToRow, Numbered
  <1>3. upTo \subseteq high
    BY DEF UpToRow
  <1> HIDE DEF low, upTo, high
  <1>4. Cardinality(low \cup {r}) = Cardinality(low) + 1 /\ IsFiniteSet(low \cup {r})
    BY <1>1, <1>2, FS_AddElement
  <1>5. Cardinality(low \cup {r}) <= Cardinality(upTo) /\ Cardinality(upTo) <= Cardinality(high)
    BY <1>1, <1>2, <1>3, FS_Subset
  <1>6. Cardinality(low) \in Nat /\ Cardinality(upTo) \in Nat /\ Cardinality(high) \in Nat
    BY <1>1, FS_CardinalityType
  <1> QED BY <1>4, <1>5, <1>6 DEF IsNth, low, upTo, high

\* What stands further up is no smaller.
LEMMA NthOrder ==
    ASSUME NEW S, NEW F, IsFiniteSet(S), \A r \in S : F[r] \in Int,
           NEW k \in Int, NEW l \in Int, k <= l,
           NEW v, NEW w, IsNth(S, F, k, v), IsNth(S, F, l, w)
    PROVE  v \in Int /\ w \in Int /\ v <= w
  <1> DEFINE A == {r \in S : F[r] <= w}
             B == {r \in S : F[r] < v}
  <1>1. v \in Int /\ w \in Int /\ Cardinality(B) < k /\ l <= Cardinality(A)
    BY DEF IsNth
  <1>2. IsFiniteSet(A) /\ IsFiniteSet(B)
    <2>1. A \subseteq S /\ B \subseteq S
      OBVIOUS
    <2> HIDE DEF A, B
    <2> QED BY <2>1, FS_Subset
  <1>3. ASSUME \A r \in A : r \in B
        PROVE  Cardinality(A) <= Cardinality(B)
    <2> HIDE DEF A, B
    <2> QED BY <1>2, <1>3, FS_Subset
  <1>4. Cardinality(A) \in Nat /\ Cardinality(B) \in Nat
    <2> HIDE DEF A, B
    <2> QED BY <1>2, FS_CardinalityType
  <1>5. ~(\A r \in A : r \in B)
    <2> HIDE DEF A, B
    <2> QED BY <1>1, <1>3, <1>4
  <1>6. PICK r \in S : F[r] <= w /\ ~(F[r] < v)
    BY <1>5
  <1> QED BY <1>1, <1>6

\* s lists S by F, the rows of one value by their number.
InOrder(S, F, s) ==
    /\ Len(s) = Cardinality(S)
    /\ \A i \in 1 .. Cardinality(S) : s[i] \in S /\ i = Cardinality(UpToRow(S, F, s[i]))

\* Interpolation at the middle takes ten times what stands there.
LEMMA MedianIs ==
    ASSUME NEW S, NEW F, Numbered(S), S # {}, \A r \in S : F[r] \in Int, NEW s, InOrder(S, F, s)
    PROVE  LET at == 10 * (Len(s) - 1)
               lo == F[s[1 + at \div 20]]
               hi == IF at % 20 = 0 THEN lo ELSE F[s[2 + at \div 20]]
           IN  \E v, w \in Int : /\ AreMiddle(S, F, v, w)
                                 /\ 20 * lo + (at % 20) * (hi - lo) = 10 * (v + w)
  <1> DEFINE n == Cardinality(S)
             k == (n + 1) \div 2
             l == n + 1 - k
  <1>1. n \in Nat /\ n > 0
    BY FS_CardinalityType, FS_EmptySet DEF Numbered
  <1>2. \A i \in 1 .. n : s[i] \in S /\ i = Cardinality(UpToRow(S, F, s[i]))
    BY DEF InOrder
  <1>3. Len(s) = n
    BY DEF InOrder
  <1>4. \A i \in 1 .. n : IsNth(S, F, i, F[s[i]]) /\ F[s[i]] \in Int
    BY <1>2, NthOfRank
  <1> HIDE DEF n
  <1>5. k \in 1 .. n /\ l \in 1 .. n /\ k + l = n + 1 /\ k <= l /\ l <= k + 1
    BY <1>1
  <1>6. AreMiddle(S, F, F[s[k]], F[s[l]])
    BY <1>4, <1>5 DEF AreMiddle, n
  <1> DEFINE at == 10 * (Len(s) - 1)
             v == F[s[k]]
             w == F[s[l]]
  <1>7. /\ 1 + at \div 20 = k
        /\ at % 20 = 0 => l = k
        /\ at % 20 # 0 => at % 20 = 10 /\ 2 + at \div 20 = l
    <2>1. at = 10 * (n - 1)
      BY <1>3
    <2> HIDE DEF at
    <2> QED BY <1>1, <2>1
  <1>8. v \in Int /\ w \in Int
    BY <1>4, <1>5
  <1>9. CASE at % 20 = 0
    <2>1. v = w
      BY <1>7, <1>9
    <2>2. 20 * v + (at % 20) * (v - v) = 10 * (v + w)
      <3> HIDE DEF at, v, w
      <3> QED BY <1>8, <1>9, <2>1
    <2> QED BY <1>6, <1>7, <1>8, <1>9, <2>2
  <1>10. CASE at % 20 # 0
    <2>1. 20 * v + (at % 20) * (w - v) = 10 * (v + w)
      <3>1. at % 20 = 10
        BY <1>7, <1>10
      <3> HIDE DEF at, v, w
      <3> QED BY <1>8, <3>1
    <2> QED BY <1>6, <1>7, <1>8, <1>10, <2>1
  <1> QED BY <1>9, <1>10

\* The typical day costs what the days in the middle cost.
LEMMA MiddleSpend ==
    ASSUME NEW S, Numbered(S), S # {}, \A r \in S : r.spend \in Int
    PROVE  \E v, w \in Int : /\ AreMiddle(S, [r \in S |-> r.spend], v, w)
                             /\ Typical(S) = 10 * (v + w)
  <1> DEFINE F == [r \in S |-> r.spend]
             n == Cardinality(S)
             upTo(r) == {q \in S : q.spend < r.spend \/ (q.spend = r.spend /\ q.row <= r.row)}
             s == [i \in 1 .. n |-> CHOOSE r \in S : i = Cardinality(upTo(r))]
  <1>1. Sorted(S, LAMBDA d : d.spend) = s
    BY DEF Sorted
  <1>2. \A r \in S : F[r] \in Int /\ F[r] = r.spend
    OBVIOUS
  <1>3. \A r \in S : UpToRow(S, F, r) = upTo(r)
    BY DEF UpToRow
  <1>4. LET at == 10 * (Len(s) - 1)
            lo == s[1 + at \div 20].spend
            hi == IF at % 20 = 0 THEN lo ELSE s[2 + at \div 20].spend
        IN  Typical(S) = 20 * lo + (at % 20) * (hi - lo)
    BY <1>1 DEF Quantile, Typical
  <1> HIDE DEF F, upTo
  <1>5. \A i \in 1 .. n : \E r \in S : i = Cardinality(upTo(r))
    BY <1>2, <1>3, EveryPlace
  <1>6. n \in Nat /\ n > 0
    BY FS_CardinalityType, FS_EmptySet DEF Numbered
  <1> HIDE DEF n
  <1>7. \A i \in 1 .. n : s[i] \in S /\ i = Cardinality(upTo(s[i]))
    BY <1>5
  <1>8. s \in Seq(S) /\ Len(s) = n
    BY <1>6, <1>7
  <1> HIDE DEF s
  <1>9. InOrder(S, F, s)
    BY <1>3, <1>7, <1>8 DEF InOrder, n
  <1> DEFINE at == 10 * (n - 1)
  <1>10. 1 + at \div 20 \in 1 .. n /\ (at % 20 # 0 => 2 + at \div 20 \in 1 .. n)
    BY <1>6, Middle
  <1> DEFINE i == 1 + at \div 20
             j == 2 + at \div 20
             lo == F[s[i]]
             hi == IF at % 20 = 0 THEN lo ELSE F[s[j]]
  <1>11. F[s[i]] = s[i].spend /\ (at % 20 # 0 => F[s[j]] = s[j].spend)
    BY <1>2, <1>7, <1>10
  <1>12. Typical(S) = 20 * lo + (at % 20) * (hi - lo)
    <2>1. LET klo == s[i].spend
              khi == IF at % 20 = 0 THEN klo ELSE s[j].spend
          IN  Typical(S) = 20 * klo + (at % 20) * (khi - klo)
      BY <1>4, <1>8
    <2> HIDE DEF at, i, j
    <2> QED BY <1>11, <2>1
  <1>13. \E v, w \in Int : AreMiddle(S, F, v, w) /\ 20 * lo + (at % 20) * (hi - lo) = 10 * (v + w)
    <2>1. Len(s) = n
      BY <1>8
    <2>2. LET e == 10 * (Len(s) - 1)
              a == F[s[1 + e \div 20]]
              b == IF e % 20 = 0 THEN a ELSE F[s[2 + e \div 20]]
          IN  \E v, w \in Int : AreMiddle(S, F, v, w) /\ 20 * a + (e % 20) * (b - a) = 10 * (v + w)
      <3> HIDE DEF at, i, j, lo, hi
      <3>1. \A r \in S : F[r] \in Int
        BY <1>2
      <3> QED BY <1>9, <3>1, MedianIs
    <2> QED BY <2>1, <2>2
  <1> QED BY <1>12, <1>13 DEF F

\* 400 times the median of how far the days are from the typical one
Spread(D) == Quantile(D, LAMBDA d : Deviation(D, d), 10)

\* The median of how far the days are from the typical one
LEMMA MiddleDeviation ==
    ASSUME NEW S, Numbered(S), S # {}, \A r \in S : Deviation(S, r) \in Int
    PROVE  \E v, w \in Int : /\ AreMiddle(S, [r \in S |-> Deviation(S, r)], v, w)
                             /\ Spread(S) = 10 * (v + w)
  <1> DEFINE F == [r \in S |-> Deviation(S, r)]
             n == Cardinality(S)
             upTo(r) == {q \in S : \/ Deviation(S, q) < Deviation(S, r)
                                   \/ Deviation(S, q) = Deviation(S, r) /\ q.row <= r.row}
             s == [i \in 1 .. n |-> CHOOSE r \in S : i = Cardinality(upTo(r))]
  <1>1. Sorted(S, LAMBDA d : Deviation(S, d)) = s
    BY DEF Sorted
  <1>2. \A r \in S : F[r] \in Int /\ F[r] = Deviation(S, r)
    OBVIOUS
  <1>3. \A r \in S : UpToRow(S, F, r) = upTo(r)
    BY DEF UpToRow
  <1>4. LET at == 10 * (Len(s) - 1)
            lo == Deviation(S, s[1 + at \div 20])
            hi == IF at % 20 = 0 THEN lo ELSE Deviation(S, s[2 + at \div 20])
        IN  Spread(S) = 20 * lo + (at % 20) * (hi - lo)
    BY <1>1 DEF Quantile, Spread
  <1> HIDE DEF F, upTo
  <1>5. \A i \in 1 .. n : \E r \in S : i = Cardinality(upTo(r))
    BY <1>2, <1>3, EveryPlace
  <1>6. n \in Nat /\ n > 0
    BY FS_CardinalityType, FS_EmptySet DEF Numbered
  <1> HIDE DEF n
  <1>7. \A i \in 1 .. n : s[i] \in S /\ i = Cardinality(upTo(s[i]))
    BY <1>5
  <1>8. s \in Seq(S) /\ Len(s) = n
    BY <1>6, <1>7
  <1> HIDE DEF s
  <1>9. InOrder(S, F, s)
    BY <1>3, <1>7, <1>8 DEF InOrder, n
  <1> DEFINE at == 10 * (n - 1)
  <1>10. 1 + at \div 20 \in 1 .. n /\ (at % 20 # 0 => 2 + at \div 20 \in 1 .. n)
    BY <1>6, Middle
  <1> DEFINE i == 1 + at \div 20
             j == 2 + at \div 20
             lo == F[s[i]]
             hi == IF at % 20 = 0 THEN lo ELSE F[s[j]]
  <1>11. F[s[i]] = Deviation(S, s[i]) /\ (at % 20 # 0 => F[s[j]] = Deviation(S, s[j]))
    BY <1>2, <1>7, <1>10
  <1>12. Spread(S) = 20 * lo + (at % 20) * (hi - lo)
    <2>1. LET klo == Deviation(S, s[i])
              khi == IF at % 20 = 0 THEN klo ELSE Deviation(S, s[j])
          IN  Spread(S) = 20 * klo + (at % 20) * (khi - klo)
      BY <1>4, <1>8
    <2> HIDE DEF at, i, j
    <2> QED BY <1>11, <2>1
  <1>13. \E v, w \in Int : AreMiddle(S, F, v, w) /\ 20 * lo + (at % 20) * (hi - lo) = 10 * (v + w)
    <2>1. Len(s) = n
      BY <1>8
    <2>2. LET e == 10 * (Len(s) - 1)
              a == F[s[1 + e \div 20]]
              b == IF e % 20 = 0 THEN a ELSE F[s[2 + e \div 20]]
          IN  \E v, w \in Int : AreMiddle(S, F, v, w) /\ 20 * a + (e % 20) * (b - a) = 10 * (v + w)
      <3> HIDE DEF at, i, j, lo, hi
      <3>1. \A r \in S : F[r] \in Int
        BY <1>2
      <3> QED BY <1>9, <3>1, MedianIs
    <2> QED BY <2>1, <2>2
  <1> QED BY <1>12, <1>13 DEF F

\* No number is between the two in the middle.
LEMMA MiddlesMeet ==
    ASSUME NEW S, NEW F, IsFiniteSet(S), \A r \in S : F[r] \in Int, NEW v, NEW w, AreMiddle(S, F, v, w)
    PROVE  /\ v \in Int /\ w \in Int /\ v <= w
           /\ \A r \in S : F[r] <= v \/ F[r] >= w
  <1> DEFINE n == Cardinality(S)
             A == {r \in S : F[r] <= v}
             B == {r \in S : F[r] < w}
  <1>1. PICK k, l \in 1 .. n : /\ k + l = n + 1 /\ k <= l /\ l <= k + 1
                               /\ IsNth(S, F, k, v) /\ IsNth(S, F, l, w)
    BY DEF AreMiddle
  <1>2. n \in Nat
    BY FS_CardinalityType
  <1> HIDE DEF n
  <1>3. v \in Int /\ w \in Int /\ v <= w
    <2>1. k \in Int /\ l \in Int /\ k <= l
      BY <1>1, <1>2
    <2>2. IsNth(S, F, k, v) /\ IsNth(S, F, l, w)
      BY <1>1
    <2> QED BY <2>1, <2>2, NthOrder
  <1>4. k <= Cardinality(A) /\ Cardinality(B) < l
    BY <1>1 DEF IsNth
  <1>5. IsFiniteSet(A) /\ IsFiniteSet(B) /\ Cardinality(A) \in Nat /\ Cardinality(B) \in Nat
    <2>1. A \subseteq S /\ B \subseteq S
      OBVIOUS
    <2> HIDE DEF A, B
    <2> QED BY <2>1, FS_Subset, FS_CardinalityType
  <1>6. ASSUME NEW r \in S, ~(F[r] <= v), ~(F[r] >= w)
        PROVE  FALSE
    <2>1. A \cup {r} \subseteq B /\ r \notin A
      BY <1>3, <1>6
    <2> HIDE DEF A, B
    <2>2. Cardinality(A \cup {r}) = Cardinality(A) + 1
      BY <1>5, <2>1, FS_AddElement
    <2>3. Cardinality(A \cup {r}) <= Cardinality(B)
      BY <1>5, <2>1, FS_Subset
    <2> QED BY <1>1, <1>2, <1>4, <1>5, <2>2, <2>3
  <1> QED BY <1>3, <1>6

\* What no number is below, the middle is not below either.
LEMMA MiddleBound ==
    ASSUME NEW S, NEW F, IsFiniteSet(S), \A r \in S : F[r] \in Int, NEW v, NEW w, AreMiddle(S, F, v, w),
           NEW a \in Int, \A r \in S : a <= F[r]
    PROVE  a <= v /\ a <= w
  <1> DEFINE n == Cardinality(S)
             A == {r \in S : F[r] <= v}
  <1>1. PICK k, l \in 1 .. n : k <= l /\ IsNth(S, F, k, v) /\ IsNth(S, F, l, w)
    BY DEF AreMiddle
  <1>2. n \in Nat
    BY FS_CardinalityType
  <1> HIDE DEF n
  <1>3. v \in Int /\ w \in Int /\ v <= w
    <2>1. k \in Int /\ l \in Int /\ k <= l
      BY <1>1, <1>2
    <2>2. IsNth(S, F, k, v) /\ IsNth(S, F, l, w)
      BY <1>1
    <2> QED BY <2>1, <2>2, NthOrder
  <1>4. k <= Cardinality(A)
    BY <1>1 DEF IsNth
  <1>5. A # {}
    <2> HIDE DEF A
    <2> QED BY <1>1, <1>2, <1>4, FS_EmptySet
  <1>6. PICK r \in S : F[r] <= v
    BY <1>5
  <1> QED BY <1>3, <1>6

\* What more than half are, is in the middle.
LEMMA MostIsMiddle ==
    ASSUME NEW S, NEW F, IsFiniteSet(S), \A r \in S : F[r] \in Int, NEW v, NEW w, AreMiddle(S, F, v, w),
           NEW c \in Int, NEW M \in SUBSET S, \A r \in M : F[r] = c, 2 * Cardinality(M) > Cardinality(S)
    PROVE  v = c /\ w = c
  <1> DEFINE n == Cardinality(S)
             m == Cardinality(M)
             A == {r \in S : F[r] <= c}
             B == {r \in S : F[r] < c}
  <1>1. PICK k, l \in 1 .. n : /\ k + l = n + 1 /\ k <= l /\ l <= k + 1
                               /\ IsNth(S, F, k, v) /\ IsNth(S, F, l, w)
    BY DEF AreMiddle
  <1>2. M \subseteq A /\ B \cap M = {} /\ A \subseteq S /\ B \cup M \subseteq S
    OBVIOUS
  <1>3. IsFiniteSet(A) /\ IsFiniteSet(B) /\ IsFiniteSet(M) /\ IsFiniteSet(B \cup M)
    <2> HIDE DEF A, B
    <2> QED BY <1>2, FS_Subset
  <1>4. /\ m <= Cardinality(A) /\ Cardinality(B) + m <= n
        /\ Cardinality(A) \in Nat /\ Cardinality(B) \in Nat /\ m \in Nat /\ n \in Nat
    <2> HIDE DEF A, B
    <2>1. Cardinality(B \cup M) = Cardinality(B) + Cardinality(M) - Cardinality(B \cap M)
      BY <1>3, FS_Union
    <2>2. Cardinality(B \cup M) <= n /\ m <= Cardinality(A)
      BY <1>2, <1>3, FS_Subset
    <2>3. Cardinality(B \cap M) = 0
      BY <1>2, FS_EmptySet
    <2>4. Cardinality(A) \in Nat /\ Cardinality(B) \in Nat /\ m \in Nat /\ n \in Nat
      BY <1>3, FS_CardinalityType
    <2> HIDE DEF m, n
    <2> QED BY <2>1, <2>2, <2>3, <2>4 DEF m
  <1>5. 2 * m > n
    OBVIOUS
  <1>6. IsNth(S, F, k, c) /\ IsNth(S, F, l, c)
    <2>1. Cardinality(B) < k /\ l <= Cardinality(A)
      <3> HIDE DEF A, B, m, n
      <3> QED BY <1>1, <1>4, <1>5
    <2>2. Cardinality(B) < l /\ k <= Cardinality(A)
      <3> HIDE DEF A, B, m, n
      <3> QED BY <1>1, <1>4, <2>1
    <2> QED BY <2>1, <2>2 DEF IsNth
  <1> HIDE DEF n
  <1>7. v <= c /\ c <= v /\ w <= c /\ c <= w /\ v \in Int /\ w \in Int
    <2>1. k \in Int /\ l \in Int
      BY <1>1, <1>4
    <2>2. v <= c /\ c <= v /\ v \in Int
      BY <1>1, <1>6, <2>1, NthOrder
    <2>3. w <= c /\ c <= w /\ w \in Int
      BY <1>1, <1>6, <2>1, NthOrder
    <2> QED BY <2>2, <2>3
  <1> QED BY <1>7

\* The middle is the same of two sets of one size that are alike up to there.
LEMMA MiddleStays ==
    ASSUME NEW S, NEW F, NEW T, NEW G, NEW v, NEW w, AreMiddle(S, F, v, w),
           Cardinality(T) = Cardinality(S),
           \A u \in {v, w} : /\ {r \in T : G[r] < u} = {r \in S : F[r] < u}
                             /\ {r \in T : G[r] <= u} = {r \in S : F[r] <= u}
    PROVE  AreMiddle(T, G, v, w)
  <1>1. \A i \in Int : \A u \in {v, w} : IsNth(S, F, i, u) => IsNth(T, G, i, u)
    BY DEF IsNth
  <1>2. PICK k, l \in 1 .. Cardinality(S) :
            /\ k + l = Cardinality(S) + 1 /\ k <= l /\ l <= k + 1
            /\ IsNth(S, F, k, v) /\ IsNth(S, F, l, w)
    BY DEF AreMiddle
  <1> QED BY <1>1, <1>2 DEF AreMiddle

\* There is one middle.
LEMMA OneMiddle ==
    ASSUME NEW S, NEW F, IsFiniteSet(S), \A r \in S : F[r] \in Int,
           NEW v, NEW w, NEW p, NEW q, AreMiddle(S, F, v, w), AreMiddle(S, F, p, q)
    PROVE  v = p /\ w = q
  <1> DEFINE n == Cardinality(S)
  <1>1. PICK k, l \in 1 .. n : k + l = n + 1 /\ k <= l /\ l <= k + 1 /\ IsNth(S, F, k, v) /\ IsNth(S, F, l, w)
    BY DEF AreMiddle
  <1>2. PICK i, j \in 1 .. n : i + j = n + 1 /\ i <= j /\ j <= i + 1 /\ IsNth(S, F, i, p) /\ IsNth(S, F, j, q)
    BY DEF AreMiddle
  <1>3. n \in Nat
    BY FS_CardinalityType
  <1> HIDE DEF n
  <1>4. k = i /\ l = j
    BY <1>1, <1>2, <1>3
  <1>5. v \in Int /\ p \in Int /\ v <= p /\ p <= v
    BY <1>1, <1>2, <1>4, NthOrder
  <1>6. w \in Int /\ q \in Int /\ w <= q /\ q <= w
    BY <1>1, <1>2, <1>4, NthOrder
  <1> QED BY <1>5, <1>6

-----------------------------------------------------------------------------
(* Days far above the typical one *)

IsDays(D) == Numbered(D) /\ D # {} /\ \A d \in D : d.spend \in Nat

\* SpikeDays, as days
Spikes(D) ==
    IF Cardinality(D) < MinDays THEN {}
    ELSE IF Typical(D) = 0 THEN {}
    ELSE {x \in D : /\ Above(D, x) > 0
                    /\ Spread(D) > 0 => 20000 * Above(D, x) >= 5189 * Spread(D)
                    /\ 20 * x.spend >= SpikeMult * Typical(D)}

Spends(D) == [d \in D |-> d.spend]
Deviations(D) == [d \in D |-> Deviation(D, d)]

\* v and w are in the middle of what the days cost, p and q of how far they deviate.
Middles(D, v, w, p, q) ==
    /\ v \in Int /\ w \in Int /\ p \in Int /\ q \in Int
    /\ AreMiddle(D, Spends(D), v, w) /\ Typical(D) = 10 * (v + w)
    /\ AreMiddle(D, Deviations(D), p, q) /\ Spread(D) = 10 * (p + q)

\* How far a day deviates is a number, and the days have their middles.
LEMMA DaysHaveMiddles ==
    ASSUME NEW D, IsDays(D)
    PROVE  /\ \E v, w, p, q \in Int : Middles(D, v, w, p, q)
           /\ \A d \in D : Above(D, d) \in Int /\ Deviation(D, d) \in Nat
  <1>1. PICK v, w \in Int : AreMiddle(D, Spends(D), v, w) /\ Typical(D) = 10 * (v + w)
    <2>1. \A d \in D : d.spend \in Int
      BY DEF IsDays
    <2> QED BY <2>1, MiddleSpend DEF IsDays, Spends
  <1>2. \A d \in D : Above(D, d) \in Int
    BY <1>1 DEF Above, IsDays
  <1>3. \A d \in D : Deviation(D, d) \in Nat
    BY <1>2 DEF Deviation
  <1>4. \E p, q \in Int : AreMiddle(D, Deviations(D), p, q) /\ Spread(D) = 10 * (p + q)
    <2>1. \A d \in D : Deviation(D, d) \in Int
      BY <1>3
    <2>2. Numbered(D) /\ D # {}
      BY DEF IsDays
    <2>3. \E p, q \in Int : /\ AreMiddle(D, [d \in D |-> Deviation(D, d)], p, q)
                            /\ Spread(D) = 10 * (p + q)
      BY <2>1, <2>2, MiddleDeviation
    <2>4. Deviations(D) = [d \in D |-> Deviation(D, d)]
      BY DEF Deviations
    <2> QED BY <2>3, <2>4
  <1> QED BY <1>1, <1>2, <1>3, <1>4 DEF Middles

\* A spike cost more than the days in the middle, and deviates more than those.
LEMMA SpikeIsFar ==
    ASSUME NEW D, IsDays(D), NEW v, NEW w, NEW p, NEW q, Middles(D, v, w, p, q), NEW x \in Spikes(D)
    PROVE  x.spend > v /\ x.spend > w /\ Above(D, x) > p /\ Above(D, x) > q
  <1> DEFINE t == x.spend
             a == Above(D, x)
  <1>1. /\ x \in D /\ a > 0 /\ (Spread(D) > 0 => 20000 * a >= 5189 * Spread(D))
    BY DEF Spikes
  <1>2. /\ v \in Int /\ w \in Int /\ p \in Int /\ q \in Int
        /\ Spread(D) = 10 * (p + q) /\ a = 20 * t - 10 * (v + w) /\ t \in Nat
    BY <1>1 DEF Middles, Above, IsDays
  <1>3. IsFiniteSet(D) /\ \A d \in D : Spends(D)[d] = d.spend /\ Spends(D)[d] \in Int
                                       /\ Deviations(D)[d] = Deviation(D, d) /\ Deviations(D)[d] \in Nat
    BY DaysHaveMiddles DEF IsDays, Numbered, Spends, Deviations
  <1>4. 0 <= p /\ 0 <= q
    <2>1. \A d \in D : Deviations(D)[d] \in Int /\ 0 <= Deviations(D)[d]
      BY <1>3
    <2>2. AreMiddle(D, Deviations(D), p, q) /\ IsFiniteSet(D)
      BY <1>3 DEF Middles
    <2> QED BY <2>1, <2>2, MiddleBound
  <1>5. v <= w /\ \A d \in D : d.spend <= v \/ d.spend >= w
    BY <1>3, MiddlesMeet DEF Middles
  <1>6. a > p /\ a > q
    <2> HIDE DEF a
    <2> QED BY <1>1, <1>2, <1>4
  <1>7. ASSUME t <= w
        PROVE  FALSE
    <2>1. \A d \in D : a <= Deviations(D)[d]
      <3> SUFFICES ASSUME NEW d \in D PROVE a <= Deviation(D, d)
        BY <1>3
      <3> DEFINE s == d.spend
      <3>1. s \in Nat /\ (s <= v \/ s >= w)
        BY <1>5 DEF IsDays
      <3>2. Above(D, d) = 20 * s - 10 * (v + w)
        BY DEF Above, Middles
      <3>3. Deviation(D, d) = IF Above(D, d) < 0 THEN -Above(D, d) ELSE Above(D, d)
        BY DEF Deviation
      <3> HIDE DEF s, t, a
      <3> QED BY <1>2, <1>5, <1>7, <3>1, <3>2, <3>3
    <2>2. a <= p /\ a <= q
      <3>1. a \in Int
        BY <1>2
      <3>2. AreMiddle(D, Deviations(D), p, q) /\ IsFiniteSet(D) /\ \A d \in D : Deviations(D)[d] \in Int
        BY <1>3 DEF Middles
      <3> HIDE DEF a
      <3> QED BY <2>1, <3>1, <3>2, MiddleBound
    <2> QED BY <1>2, <1>6, <2>2
  <1> QED BY <1>2, <1>5, <1>6, <1>7

\* The days D where x has become the day y
Costlier(D, x, y) == (D \ {x}) \cup {y}

\* Days stay days when one of them costs more.
LEMMA CostlierDays ==
    ASSUME NEW D, IsDays(D), NEW x \in D, NEW y, y.row = x.row, y.spend \in Nat
    PROVE  /\ IsDays(Costlier(D, x, y))
           /\ Cardinality(Costlier(D, x, y)) = Cardinality(D)
           /\ y \notin D \ {x}
  <1> DEFINE R == D \ {x}
  <1>1. IsFiniteSet(D) /\ IsFiniteSet(R) /\ R \subseteq D
    BY FS_Subset DEF IsDays, Numbered
  <1>2. y \notin R
    BY DEF IsDays, Numbered
  <1>3. D = R \cup {x} /\ x \notin R
    OBVIOUS
  <1> HIDE DEF R
  <1>4. Cardinality(R \cup {x}) = Cardinality(R) + 1 /\ Cardinality(R \cup {y}) = Cardinality(R) + 1
          /\ IsFiniteSet(R \cup {y})
    BY <1>1, <1>2, <1>3, FS_AddElement
  <1>5. IsDays(R \cup {y})
    <2>1. \A d \in R \cup {y} : d.row \in Int /\ d.spend \in Nat
      BY <1>1 DEF IsDays, Numbered
    <2>2. ASSUME NEW d \in R \cup {y}, NEW e \in R \cup {y}, d.row = e.row
          PROVE  d = e
      <3>1. \A f \in R : f.row # x.row
        BY <1>1, <1>3 DEF IsDays, Numbered
      <3> QED BY <1>1, <2>2, <3>1 DEF IsDays, Numbered
    <2> QED BY <1>4, <2>1, <2>2 DEF IsDays, Numbered
  <1> QED BY <1>2, <1>3, <1>4, <1>5 DEF Costlier, R

\* When a spike costs even more, the middles stay where they were.
LEMMA MiddlesStay ==
    ASSUME NEW D, IsDays(D), NEW v, NEW w, NEW p, NEW q, Middles(D, v, w, p, q), NEW x \in Spikes(D),
           NEW y, y.row = x.row, y.spend \in Nat, x.spend <= y.spend
    PROVE  /\ Typical(Costlier(D, x, y)) = Typical(D)
           /\ Spread(Costlier(D, x, y)) = Spread(D)
           /\ \A d \in D \ {x} : Above(Costlier(D, x, y), d) = Above(D, d)
           /\ Above(D, x) <= Above(Costlier(D, x, y), y)
           /\ Above(D, x) \in Int /\ Above(Costlier(D, x, y), y) \in Int
  <1> DEFINE E == Costlier(D, x, y)
  <1>1. x \in D
    BY DEF Spikes
  <1>2. IsDays(E) /\ Cardinality(E) = Cardinality(D) /\ y \notin D \ {x}
    BY <1>1, CostlierDays
  <1>3. E = (D \ {x}) \cup {y}
    BY DEF Costlier
  <1>4. x.spend > v /\ x.spend > w /\ Above(D, x) > p /\ Above(D, x) > q
    BY SpikeIsFar
  <1>5. /\ v \in Int /\ w \in Int /\ p \in Int /\ q \in Int
        /\ AreMiddle(D, Spends(D), v, w) /\ AreMiddle(D, Deviations(D), p, q)
        /\ Typical(D) = 10 * (v + w) /\ Spread(D) = 10 * (p + q)
    BY DEF Middles
  <1>6. PICK a, b, c, e \in Int : Middles(E, a, b, c, e)
    BY <1>2, DaysHaveMiddles
  <1>7. \A d \in D : d.spend \in Nat /\ Above(D, d) \in Int /\ Deviation(D, d) \in Nat
    BY DaysHaveMiddles DEF IsDays
  <1>8. \A d \in E : Above(E, d) \in Int /\ Deviation(E, d) \in Nat
    BY <1>2, DaysHaveMiddles
  <1>9. IsFiniteSet(E)
    BY <1>2 DEF IsDays, Numbered
  <1> HIDE DEF E
  <1>10. Typical(E) = Typical(D)
    <2>1. \A u \in {v, w} : /\ {d \in E : Spends(E)[d] < u} = {d \in D : Spends(D)[d] < u}
                            /\ {d \in E : Spends(E)[d] <= u} = {d \in D : Spends(D)[d] <= u}
      <3> SUFFICES ASSUME NEW u \in {v, w}
                   PROVE  /\ {d \in E : d.spend < u} = {d \in D : d.spend < u}
                          /\ {d \in E : d.spend <= u} = {d \in D : d.spend <= u}
        BY DEF Spends
      <3>1. u \in Int /\ ~(x.spend < u) /\ ~(x.spend <= u) /\ ~(y.spend < u) /\ ~(y.spend <= u)
        BY <1>1, <1>4, <1>5, <1>7
      <3> QED BY <1>1, <1>3, <3>1
    <2>2. AreMiddle(E, Spends(E), v, w)
      BY <1>2, <1>5, <2>1, MiddleStays
    <2>3. AreMiddle(E, Spends(E), a, b) /\ Typical(E) = 10 * (a + b)
      BY <1>6 DEF Middles
    <2>4. \A d \in E : Spends(E)[d] \in Int
      BY <1>2 DEF IsDays, Spends
    <2>5. a = v /\ b = w
      BY <1>9, <2>2, <2>3, <2>4, OneMiddle
    <2> QED BY <1>5, <2>3, <2>5
  <1>11. \A d \in D \ {x} : Above(E, d) = Above(D, d) /\ Deviation(E, d) = Deviation(D, d)
    BY <1>10 DEF Above, Deviation
  <1>12. Above(D, x) <= Above(E, y)
    <2>1. Above(D, x) = 20 * x.spend - 10 * (v + w) /\ Above(E, y) = 20 * y.spend - 10 * (v + w)
      BY <1>5, <1>10 DEF Above
    <2> QED BY <1>1, <1>5, <1>7, <2>1
  <1>13. Spread(E) = Spread(D)
    <2>1. /\ x \in D /\ y \in E
          /\ p < Deviation(D, x) /\ q < Deviation(D, x) /\ p < Deviation(E, y) /\ q < Deviation(E, y)
      <3>1. x \in D /\ y \in E
        BY <1>1, <1>3
      <3>2. Above(D, x) <= Deviation(D, x) /\ Above(E, y) <= Deviation(E, y)
        BY <1>7, <1>8, <3>1 DEF Deviation
      <3>3. Above(D, x) \in Int /\ Above(E, y) \in Int /\ Deviation(D, x) \in Int /\ Deviation(E, y) \in Int
        BY <1>7, <1>8, <3>1
      <3> QED BY <1>4, <1>5, <1>12, <3>1, <3>2, <3>3
    <2>2. \A u \in {p, q} : /\ {d \in E : Deviations(E)[d] < u} = {d \in D : Deviations(D)[d] < u}
                            /\ {d \in E : Deviations(E)[d] <= u} = {d \in D : Deviations(D)[d] <= u}
      <3> SUFFICES ASSUME NEW u \in {p, q}
                   PROVE  /\ {d \in E : Deviation(E, d) < u} = {d \in D : Deviation(D, d) < u}
                          /\ {d \in E : Deviation(E, d) <= u} = {d \in D : Deviation(D, d) <= u}
        BY DEF Deviations
      <3>1. u \in Int /\ ~(Deviation(D, x) < u) /\ ~(Deviation(D, x) <= u)
              /\ ~(Deviation(E, y) < u) /\ ~(Deviation(E, y) <= u)
        BY <1>5, <1>7, <1>8, <2>1
      <3>2. \A d : d \in E <=> (d \in D /\ d # x) \/ d = y
        BY <1>3
      <3> QED BY <1>11, <2>1, <3>1, <3>2
    <2>3. AreMiddle(E, Deviations(E), p, q)
      BY <1>2, <1>5, <2>2, MiddleStays
    <2>4. AreMiddle(E, Deviations(E), c, e) /\ Spread(E) = 10 * (c + e)
      BY <1>6 DEF Middles
    <2>5. \A d \in E : Deviations(E)[d] \in Int
      BY <1>8 DEF Deviations
    <2>6. c = p /\ e = q
      BY <1>9, <2>3, <2>4, <2>5, OneMiddle
    <2> QED BY <1>5, <2>4, <2>6
  <1>14. Above(D, x) \in Int /\ Above(E, y) \in Int
    BY <1>1, <1>3, <1>7, <1>8
  <1> QED BY <1>10, <1>11, <1>12, <1>13, <1>14 DEF E

\* All spikes stay spikes when one of them costs even more.
LEMMA SpikesStay ==
    ASSUME NEW D, IsDays(D), NEW x \in Spikes(D), SpikeMult \in Nat,
           NEW y, y.row = x.row, y.spend \in Nat, x.spend <= y.spend, NEW z \in Spikes(D)
    PROVE  \E u \in Spikes(Costlier(D, x, y)) : u.row = z.row
  <1> DEFINE E == Costlier(D, x, y)
  <1>1. x \in D /\ z \in D /\ Cardinality(E) = Cardinality(D)
    <2>1. x \in D /\ z \in D
      BY DEF Spikes
    <2> QED BY <2>1, CostlierDays
  <1>2. PICK v, w, p, q \in Int : Middles(D, v, w, p, q)
    BY DaysHaveMiddles
  <1>3. /\ Typical(E) = Typical(D) /\ Spread(E) = Spread(D)
        /\ \A d \in D \ {x} : Above(E, d) = Above(D, d)
        /\ Above(D, x) <= Above(E, y) /\ Above(D, x) \in Int /\ Above(E, y) \in Int
    BY <1>2, MiddlesStay
  <1>4. E = (D \ {x}) \cup {y}
    BY DEF Costlier
  <1> HIDE DEF E
  <1>5. /\ ~(Cardinality(D) < MinDays) /\ Typical(D) # 0
        /\ \A d \in Spikes(D) : /\ Above(D, d) > 0
                                /\ Spread(D) > 0 => 20000 * Above(D, d) >= 5189 * Spread(D)
                                /\ 20 * d.spend >= SpikeMult * Typical(D)
    BY DEF Spikes
  <1>6. \A d \in E : (/\ Above(E, d) > 0
                      /\ Spread(D) > 0 => 20000 * Above(E, d) >= 5189 * Spread(D)
                      /\ 20 * d.spend >= SpikeMult * Typical(D)) => d \in Spikes(E)
    BY <1>1, <1>3, <1>5 DEF Spikes
  <1>7. CASE z # x
    <2>1. z \in E /\ Above(E, z) = Above(D, z)
      BY <1>1, <1>3, <1>4, <1>7
    <2>2. /\ Above(D, z) > 0
          /\ Spread(D) > 0 => 20000 * Above(D, z) >= 5189 * Spread(D)
          /\ 20 * z.spend >= SpikeMult * Typical(D)
      BY <1>5
    <2>3. z \in Spikes(E)
      BY <1>6, <2>1, <2>2
    <2> QED BY <2>3 DEF E
  <1>8. CASE z = x
    <2>1. y \in E
      BY <1>4
    <2>2. Above(E, y) > 0 /\ (Spread(D) > 0 => 20000 * Above(E, y) >= 5189 * Spread(D))
      <3> DEFINE s == Spread(D)
                 a == Above(D, x)
                 b == Above(E, y)
      <3>1. s \in Int
        BY <1>2 DEF Middles
      <3>2. a > 0 /\ (s > 0 => 20000 * a >= 5189 * s) /\ a <= b /\ a \in Int /\ b \in Int
        BY <1>3, <1>5
      <3> HIDE DEF s, a, b
      <3>3. b > 0 /\ (s > 0 => 20000 * b >= 5189 * s)
        BY <3>1, <3>2
      <3> QED BY <3>3 DEF s, b
    <2>3. 20 * y.spend >= SpikeMult * Typical(D)
      <3>1. Typical(D) \in Int
        BY <1>2 DEF Middles
      <3>2. 20 * x.spend >= SpikeMult * Typical(D) /\ SpikeMult * Typical(D) \in Int
        BY <1>5, <3>1
      <3> DEFINE m == SpikeMult * Typical(D)
      <3>3. 20 * x.spend >= m /\ m \in Int /\ x.spend \in Nat
        BY <1>1, <3>2 DEF IsDays
      <3> HIDE DEF m
      <3>4. 20 * y.spend >= m
        BY <3>3
      <3> QED BY <3>4 DEF m
    <2>4. y \in Spikes(E)
      BY <1>6, <2>1, <2>2, <2>3
    <2> QED BY <1>8, <2>4 DEF E
  <1> QED BY <1>7, <1>8

\* Among days that mostly cost the same, every day of several times that is a spike.
LEMMA UsualSpikes ==
    ASSUME NEW D, IsDays(D), SpikeMult \in Nat, SpikeMult > 1, MinDays \in Nat,
           NEW c \in Nat, c > 0, 2 * Cardinality({d \in D : d.spend = c}) > Cardinality(D),
           Cardinality(D) >= MinDays, NEW x \in D, x.spend >= SpikeMult * c
    PROVE  x \in Spikes(D)
  <1> DEFINE M == {d \in D : d.spend = c}
  <1>1. PICK v, w, p, q \in Int : Middles(D, v, w, p, q)
    BY DaysHaveMiddles
  <1>2. IsFiniteSet(D) /\ Cardinality(D) \in Nat /\ M \in SUBSET D
    BY FS_CardinalityType DEF IsDays, Numbered
  <1>3. v = c /\ w = c /\ Typical(D) = 20 * c
    <2>1. /\ AreMiddle(D, Spends(D), v, w) /\ \A d \in D : Spends(D)[d] \in Int
          /\ \A d \in M : Spends(D)[d] = c
      BY <1>1 DEF Middles, Spends, IsDays
    <2>2. 2 * Cardinality(M) > Cardinality(D)
      OBVIOUS
    <2> HIDE DEF M
    <2>3. v = c /\ w = c
      BY <1>2, <2>1, <2>2, MostIsMiddle
    <2> QED BY <1>1, <2>3 DEF Middles
  <1>4. \A d \in M : Deviation(D, d) = 0
    BY <1>3 DEF Deviation, Above
  <1>5. Spread(D) = 0
    <2>1. /\ AreMiddle(D, Deviations(D), p, q) /\ \A d \in D : Deviations(D)[d] \in Int
          /\ \A d \in M : Deviations(D)[d] = 0
      BY <1>1, <1>4, DaysHaveMiddles DEF Middles, Deviations
    <2>2. 2 * Cardinality(M) > Cardinality(D)
      OBVIOUS
    <2> HIDE DEF M
    <2>3. p = 0 /\ q = 0
      BY <1>2, <2>1, <2>2, MostIsMiddle
    <2> QED BY <1>1, <2>3 DEF Middles
  <1>6. Above(D, x) > 0 /\ 20 * x.spend >= SpikeMult * Typical(D) /\ Typical(D) # 0
    <2> DEFINE m == SpikeMult * c
    <2>1. m \in Nat /\ m > c
      OBVIOUS
    <2>2. x.spend \in Nat /\ x.spend >= m
      BY DEF IsDays
    <2>3. SpikeMult * (20 * c) = 20 * m
      OBVIOUS
    <2> HIDE DEF m
    <2>4. 20 * x.spend >= 20 * m /\ 20 * x.spend - 20 * c > 0
      BY <2>1, <2>2
    <2> QED BY <1>3, <2>3, <2>4 DEF Above
  <1>7. ~(Cardinality(D) < MinDays)
    BY <1>2
  <1>8. ~(Spread(D) > 0)
    BY <1>5
  <1> QED BY <1>6, <1>7, <1>8 DEF Spikes

-----------------------------------------------------------------------------
(* The spikes of a log *)

DaysOf(U, t) == {DayOf(r) : r \in Priced(U, t)}
DayRows(U, t, k) == {r \in Priced(U, t) : DayOf(r) = k}
DayTotal(U, t, k) == [row |-> k, spend |-> Spend(DayRows(U, t, k), t)]

\* There is one total for each day that has a priced call.
LEMMA DailySpendIs ==
    ASSUME NEW U, NEW t
    PROVE  DailySpend(U, t) = {DayTotal(U, t, k) : k \in DaysOf(U, t)}
  <1> DEFINE G == {DayRows(U, t, k) : k \in DaysOf(U, t)}
             total(g) == [row |-> DayOf(CHOOSE r \in g : TRUE), spend |-> Spend(g, t)]
  <1>1. Groups(Priced(U, t), LAMBDA r : DayOf(r)) = G
    BY DEF Groups, DaysOf, DayRows
  <1>2. DailySpend(U, t) = {total(g) : g \in G}
    BY <1>1 DEF DailySpend
  <1>3. \A k \in DaysOf(U, t) : total(DayRows(U, t, k)) = DayTotal(U, t, k)
    <2> SUFFICES ASSUME NEW k \in DaysOf(U, t)
                 PROVE  DayOf(CHOOSE r \in DayRows(U, t, k) : TRUE) = k
      BY DEF DayTotal
    <2>1. \E r : r \in DayRows(U, t, k)
      BY DEF DaysOf, DayRows
    <2>2. (CHOOSE r \in DayRows(U, t, k) : TRUE) \in DayRows(U, t, k)
      BY <2>1
    <2> QED BY <2>2 DEF DayRows
  <1> HIDE DEF total
  <1> QED BY <1>2, <1>3

\* They are days.
LEMMA DailySpendFits ==
    ASSUME NEW U, NEW t, Fit(U, t), DaysOf(U, t) # {}
    PROVE  /\ IsDays(DailySpend(U, t))
           /\ DaysOf(U, t) \subseteq Int
  <1>1. DaysOf(U, t) \subseteq Int
    BY AuditsAssumption DEF DaysOf, Priced, Fit, IsCall
  <1>2. IsFiniteSet(DailySpend(U, t))
    <2>1. IsFiniteSet(Priced(U, t))
      BY SpendIs
    <2> DEFINE f == [r \in Priced(U, t) |-> DayTotal(U, t, DayOf(r))]
    <2>2. \A d \in DailySpend(U, t) : \E r \in Priced(U, t) : d = DayTotal(U, t, DayOf(r))
      BY DailySpendIs DEF DaysOf
    <2>3. \A r \in Priced(U, t) : DayTotal(U, t, DayOf(r)) \in DailySpend(U, t)
      BY DailySpendIs DEF DaysOf
    <2>4. f \in Surjection(Priced(U, t), DailySpend(U, t))
      BY <2>2, <2>3 DEF Surjection
    <2> QED BY <2>1, <2>4, FS_Surjection
  <1>3. \A k \in DaysOf(U, t) : DayTotal(U, t, k).row = k /\ DayTotal(U, t, k).spend \in Nat
    <2>1. \A k : DayRows(U, t, k) \in SUBSET U
      BY DEF DayRows, Priced
    <2>2. \A k : Spend(DayRows(U, t, k), t) \in Nat
      BY <2>1, SpendIs
    <2> QED BY <2>2 DEF DayTotal
  <1> QED BY <1>1, <1>2, <1>3, DailySpendIs DEF IsDays, Numbered

\* The days a detector names are those of the spikes.
LEMMA SpikeDaysAre ==
    ASSUME NEW U, NEW t
    PROVE  SpikeDays(U, t) = {d.row : d \in Spikes(DailySpend(U, t))}
  <1> DEFINE days == DailySpend(U, t)
             mad == Quantile(days, LAMBDA d : Deviation(days, d), 10)
  <1>1. SpikeDays(U, t) =
            IF Cardinality(days) < MinDays THEN {}
            ELSE IF Typical(days) = 0 THEN {}
            ELSE {d.row : d \in {x \in days : /\ Above(days, x) > 0
                                              /\ mad > 0 => 20000 * Above(days, x) >= 5189 * mad
                                              /\ 20 * x.spend >= SpikeMult * Typical(days)}}
    BY DEF SpikeDays
  <1>2. mad = Spread(days)
    BY DEF Spread
  <1> HIDE DEF days, mad
  <1> QED BY <1>1, <1>2 DEF Spikes, days

\* One more call with a price, on a day that has one, makes that day cost no less.
LEMMA OneMoreCall ==
    ASSUME NEW U, NEW t, Fit(U, t), NEW m, IsCall(m), \A r \in U : r.row # m.row,
           RateOf(t, m) # NoValue, DayOf(m) \in DaysOf(U, t)
    PROVE  LET x == DayTotal(U, t, DayOf(m))
               y == DayTotal(U \cup {m}, t, DayOf(m))
           IN  /\ y.row = x.row /\ y.spend \in Nat /\ x.spend <= y.spend
               /\ DailySpend(U \cup {m}, t) = Costlier(DailySpend(U, t), x, y)
  <1> DEFINE W == U \cup {m}
             d == DayOf(m)
             x == DayTotal(U, t, d)
             y == DayTotal(W, t, d)
  <1>1. Fit(W, t)
    <2>1. IsFiniteSet(W)
      BY FS_AddElement DEF Fit, Numbered
    <2>2. \A r \in W : IsCall(r) /\ r.row \in Int
      BY DEF Fit, IsCall
    <2>3. ASSUME NEW q \in W, NEW r \in W, q.row = r.row
          PROVE  q = r
      BY <2>3 DEF Fit, Numbered
    <2> QED BY <2>1, <2>2, <2>3 DEF Fit, Numbered
  <1>2. Priced(W, t) = Priced(U, t) \cup {m}
    BY DEF Priced
  <1>3. DaysOf(W, t) = DaysOf(U, t)
    BY <1>2 DEF DaysOf
  <1>4. \A k \in DaysOf(U, t) : k # d => DayTotal(W, t, k) = DayTotal(U, t, k)
    BY <1>2 DEF DayTotal, DayRows
  <1>5. DayRows(U, t, d) \in SUBSET DayRows(W, t, d) /\ DayRows(W, t, d) \in SUBSET W
    BY <1>2 DEF DayRows, Priced
  <1>6. y.row = x.row /\ y.spend \in Nat /\ x.spend <= y.spend
    <2>1. /\ x.row = d /\ x.spend = Spend(DayRows(U, t, d), t)
          /\ y.row = d /\ y.spend = Spend(DayRows(W, t, d), t)
      BY DEF DayTotal
    <2> HIDE DEF x, y, d, W
    <2>2. Spend(DayRows(U, t, d), t) <= Spend(DayRows(W, t, d), t)
      BY <1>1, <1>5, SpendOfPart
    <2>3. Spend(DayRows(W, t, d), t) \in Nat
      BY <1>1, <1>5, SpendIs
    <2> QED BY <2>1, <2>2, <2>3
  <1>7. DailySpend(W, t) = (DailySpend(U, t) \ {x}) \cup {y}
    <2>1. DailySpend(W, t) = {DayTotal(W, t, k) : k \in DaysOf(U, t)}
      BY <1>3, DailySpendIs
    <2>2. DailySpend(U, t) = {DayTotal(U, t, k) : k \in DaysOf(U, t)}
      BY DailySpendIs
    <2>3. \A k : DayTotal(U, t, k).row = k
      BY DEF DayTotal
    <2>4. \A k \in DaysOf(U, t) : k # d => DayTotal(U, t, k) # x
      BY <2>3
    <2>5. d \in DaysOf(U, t)
      OBVIOUS
    <2> HIDE DEF W, d
    <2> QED BY <1>4, <2>1, <2>2, <2>4, <2>5
  <1> QED BY <1>6, <1>7 DEF Costlier

\* Such a call hides no spike.
LEMMA SpikesAreSeen ==
    ASSUME NEW U, NEW t, Fit(U, t), NEW m, IsCall(m), \A r \in U : r.row # m.row, SpikeMult \in Nat,
           RateOf(t, m) # NoValue, DayOf(m) \in SpikeDays(U, t)
    PROVE  SpikeDays(U, t) \subseteq SpikeDays(U \cup {m}, t)
  <1> DEFINE d == DayOf(m)
             x == DayTotal(U, t, d)
             y == DayTotal(U \cup {m}, t, d)
             D == DailySpend(U, t)
  <1>1. PICK z \in Spikes(D) : z.row = d
    BY SpikeDaysAre
  <1>2. z \in D
    BY DEF Spikes
  <1>3. d \in DaysOf(U, t) /\ z = x
    BY <1>1, <1>2, DailySpendIs DEF DayTotal
  <1>4. IsDays(D)
    BY <1>3, DailySpendFits
  <1>5. /\ y.row = x.row /\ y.spend \in Nat /\ x.spend <= y.spend
        /\ DailySpend(U \cup {m}, t) = Costlier(D, x, y)
    BY <1>3, OneMoreCall
  <1>6. x \in Spikes(D)
    BY <1>1, <1>3
  <1> HIDE DEF D, x, y
  <1>7. \A u \in Spikes(D) : \E w \in Spikes(Costlier(D, x, y)) : w.row = u.row
    BY <1>4, <1>5, <1>6, SpikesStay
  <1>8. SpikeDays(U, t) = {u.row : u \in Spikes(D)}
    BY SpikeDaysAre DEF D
  <1>9. SpikeDays(U \cup {m}, t) = {u.row : u \in Spikes(Costlier(D, x, y))}
    BY <1>5, SpikeDaysAre
  <1> QED BY <1>7, <1>8, <1>9

\* A call that a log shows again under its request id, further down, is no call.
LEMMA EchoesAreNoCalls ==
    ASSUME NEW U, NEW r \in U, NEW e, e.id = r.id, e.cached = r.cached, e.written = r.written,
           \A q \in U : q.row \in Int /\ q.row < e.row, e.row \in Int
    PROVE  Calls(U \cup {e}) = Calls(U)
  <1> DEFINE blind(S) == {q \in S : q.cached = 0 /\ q.written = 0}
  <1>1. \A S : Calls(S) = {q \in blind(S) : ~\E p \in blind(S) : p.id = q.id /\ p.row < q.row}
    BY DEF Calls
  <1>2. e \notin Calls(U \cup {e})
    <2> SUFFICES ASSUME e \in blind(U \cup {e})
                 PROVE  r \in blind(U \cup {e}) /\ r.id = e.id /\ r.row < e.row
      BY <1>1
    <2> QED OBVIOUS
  <1>3. e \notin U
    OBVIOUS
  <1>4. ASSUME NEW q \in U
        PROVE  q \in Calls(U \cup {e}) <=> q \in Calls(U)
    <2>1. ~(e.row < q.row)
      OBVIOUS
    <2> QED BY <1>1, <2>1
  <1>5. Calls(U \cup {e}) \subseteq U \cup {e} /\ Calls(U) \subseteq U
    BY <1>1
  <1> HIDE DEF blind
  <1> QED BY <1>2, <1>3, <1>4, <1>5

\* D4 looks at nothing but the calls.
LEMMA StormsOfCalls ==
    ASSUME NEW U, NEW V, NEW t, Calls(U) = Calls(V)
    PROVE  D4(U, t) = D4(V, t)
  <1> DEFINE identity(r) == IF r.hash # NoValue THEN <<r.model, "hash", r.hash>>
                            ELSE <<r.model, "size", r.prompt, r.completion>>
             waste(b) == LET n == Cardinality(Priced(b, t)) IN (Unit * (n - 1) * Spend(b, t)) \div n
             storms(x) ==
               {b \in UNION {Bursts(g, StormWindow) : g \in Groups(x, identity)} :
                  Cardinality(b) >= DupMin /\ Cardinality(Priced(b, t)) > 1 /\ Spend(b, t) > 0}
             found(C) == {c \in {Claim("d4", UNION storms(x), MapThenSumSet(waste, storms(x))) : x \in Sessions(C)} :
                             c.waste > 0}
  <1>1. D4(U, t) = found(Calls(U))
    BY DEF D4
  <1>2. D4(V, t) = found(Calls(V))
    BY DEF D4
  <1> HIDE DEF found
  <1> QED BY <1>1, <1>2

\* What an audit of a log works with fits.
LEMMA LogsFit ==
    ASSUME WorkInv, Has("log")
    PROVE  Fit(work.of, Card) /\ \A r \in work.of : IsRecord(r)
  <1>1. over \in Overlays /\ work.of \in UsageLogs
    BY DEF WorkInv
  <1> DEFINE U == work.of
  <1>2. IsFiniteSet(U) /\ \A r \in U : IsRecord(r) /\ IsCall(r) /\ \A q \in U : q.row = r.row => q = r
    BY <1>1, AuditsAssumption
  <1>3. GoodCard(Card)
    BY <1>1, CardIsGood
  <1>4. \A r \in U : r.row \in Int
    BY <1>2 DEF IsCall
  <1> QED BY <1>2, <1>3, <1>4 DEF Fit, Numbered

\* The call r at place n, of model m and with an answer of c tokens
Instead(r, n, m, c) == [r EXCEPT !.row = n, !.model = m, !.completion = c]

\* A record stays one when its place, its model or its answer is another.
LEMMA ChangedRecord ==
    ASSUME NEW r, IsRecord(r), IsCall(r), NEW n \in Nat, NEW m \in Models, NEW c \in Nat
    PROVE  LET e == [r EXCEPT !.row = n, !.ts = r.ts + 1]
               o == Instead(r, n, m, c)
           IN  /\ e.row = n /\ e.id = r.id /\ e.cached = r.cached /\ e.written = r.written
               /\ IsCall(o) /\ o.row = n /\ o.model = m /\ DayOf(o) = DayOf(r)
  <1> DEFINE e == [r EXCEPT !.row = n, !.ts = r.ts + 1]
             o == Instead(r, n, m, c)
  <1>1. DOMAIN r = {"row", "ts", "model", "id", "tag", "hash", "max", "prompt", "completion",
                    "cached", "written"}
    BY DEF IsRecord
  <1>2. e.row = n /\ e.id = r.id /\ e.cached = r.cached /\ e.written = r.written
    BY <1>1
  <1>3. /\ o.row = n /\ o.model = m /\ o.completion = c /\ o.ts = r.ts /\ o.prompt = r.prompt
        /\ o.cached = r.cached /\ o.written = r.written
    BY <1>1 DEF Instead
  <1> HIDE DEF e, o
  <1>4. DayOf(o) = DayOf(r)
    BY <1>3 DEF DayOf
  <1>5. IsCall(o)
    BY <1>3, <1>4 DEF IsCall
  <1> QED BY <1>2, <1>3, <1>4, <1>5 DEF e, o

\* So no detector is misled by noise.
LEMMA NoiseIsHarmless == WorkInv => NoiseHidesNothing
  <1> SUFFICES ASSUME WorkInv, Has("log") PROVE NoiseHidesNothing
    BY DEF NoiseHidesNothing
  <1> DEFINE U == work.of
             next == 1 + Max({r.row : r \in U})
             echo(r) == [r EXCEPT !.row = next, !.ts = r.ts + 1]
             days == DailySpend(U, Card)
             spikes == SpikeDays(U, Card)
             usual(c) == 2 * Cardinality({d \in days : d.spend = c}) > Cardinality(days)
             model(d) == CHOOSE m \in Models : Card[m][d] # NoRate
             call(d) == CHOOSE r \in U : DayOf(r) = d
             more(d) == [call(d) EXCEPT !.row = next, !.model = model(d), !.completion = 90]
  <1>1. Fit(U, Card) /\ \A r \in U : IsRecord(r) /\ IsCall(r)
    BY LogsFit DEF Fit
  <1>2. ASSUME NEW r \in U
        PROVE  next \in Nat /\ \A q \in U : q.row \in Int /\ q.row < next
    <2> DEFINE R == {q.row : q \in U}
               f == [q \in U |-> q.row]
    <2>1. R \subseteq Nat /\ R # {}
      BY <1>1 DEF IsCall
    <2>2. IsFiniteSet(R)
      <3>1. f \in Surjection(U, R)
        BY DEF Surjection
      <3>2. IsFiniteSet(U)
        BY <1>1 DEF Fit, Numbered
      <3> HIDE DEF f, R
      <3> QED BY <3>1, <3>2, FS_Surjection
    <2>3. \A q \in U : q.row \in R
      OBVIOUS
    <2> HIDE DEF R
    <2>4. Max(R) \in R /\ \A n \in R : n <= Max(R)
      BY <2>1, <2>2, MaxIsLargest
    <2>5. Max(R) \in Nat /\ \A q \in U : q.row \in Nat /\ q.row <= Max(R)
      BY <2>1, <2>3, <2>4
    <2>6. next = 1 + Max(R)
      BY DEF R
    <2> HIDE DEF next
    <2> QED BY <2>5, <2>6
  <1> HIDE DEF next
  <1>3. ASSUME NEW r \in U
        PROVE  D4(U \cup {echo(r)}, Card) = D4(U, Card)
    <2>1. next \in Nat /\ \A q \in U : q.row \in Int /\ q.row < next
      BY <1>2
    <2>2. IsRecord(r) /\ IsCall(r) /\ r.model \in Models
      BY <1>1 DEF IsCall
    <2>3. /\ echo(r).row = next /\ echo(r).id = r.id
          /\ echo(r).cached = r.cached /\ echo(r).written = r.written
      BY <2>1, <2>2, ChangedRecord
    <2> HIDE DEF echo, U
    <2>4. Calls(U \cup {echo(r)}) = Calls(U)
      BY <2>1, <2>3, EchoesAreNoCalls
    <2> QED BY <2>4, StormsOfCalls
  <1>4. ASSUME NEW c \in {d.spend : d \in days}, usual(c), c > 0, Cardinality(days) >= MinDays,
               NEW x \in days, x.spend >= SpikeMult * c
        PROVE  x.row \in spikes
    <2>1. DaysOf(U, Card) # {}
      BY DailySpendIs
    <2>2. IsDays(days)
      BY <1>1, <2>1, DailySpendFits
    <2>3. c \in Nat
      BY <2>2 DEF IsDays
    <2>4. SpikeMult \in Nat /\ SpikeMult > 1 /\ MinDays \in Nat
      BY AuditsAssumption
    <2> HIDE DEF days
    <2>5. x \in Spikes(days)
      BY <1>4, <2>2, <2>3, <2>4, UsualSpikes
    <2> QED BY <2>5, SpikeDaysAre DEF days
  <1>5. ASSUME NEW d \in spikes
        PROVE  spikes \subseteq SpikeDays(U \cup {more(d)}, Card)
    <2>1. PICK z \in Spikes(days) : z.row = d
      BY SpikeDaysAre
    <2>2. d \in DaysOf(U, Card)
      BY <2>1, DailySpendIs DEF DayTotal, Spikes
    <2>3. PICK r \in U : DayOf(r) = d /\ RateOf(Card, r) # NoValue
      BY <2>2 DEF DaysOf, Priced
    <2>4. call(d) \in U /\ DayOf(call(d)) = d
      BY <2>3
    <2>5. model(d) \in Models /\ Card[model(d)][d] # NoValue
      <3>1. r.model \in Models /\ Card[r.model][d] # NoRate /\ NoRate = NoValue
        BY <1>1, <2>3, AuditsAssumption DEF RateOf, IsCall
      <3> QED BY <3>1
    <2> HIDE DEF call, model
    <2>6. IsRecord(call(d)) /\ IsCall(call(d)) /\ next \in Nat /\ 90 \in Nat
      BY <1>1, <1>2, <2>4
    <2>7. IsCall(more(d)) /\ more(d).row = next /\ more(d).model = model(d) /\ DayOf(more(d)) = DayOf(call(d))
      <3>1. more(d) = Instead(call(d), next, model(d), 90)
        BY DEF Instead
      <3> HIDE DEF more
      <3> QED BY <2>5, <2>6, <3>1, ChangedRecord
    <2> HIDE DEF more
    <2>8. \A q \in U : q.row # more(d).row
      BY <1>2, <2>4, <2>6, <2>7
    <2>9. RateOf(Card, more(d)) # NoValue /\ DayOf(more(d)) \in SpikeDays(U, Card) /\ SpikeMult \in Nat
      BY <2>4, <2>5, <2>7, AuditsAssumption DEF RateOf
    <2> HIDE DEF U
    <2> QED BY <1>1, <2>7, <2>8, <2>9, SpikesAreSeen
  <1>6. \A c \in {d.spend : d \in days} : (usual(c) /\ c > 0 /\ Cardinality(days) >= MinDays) =>
            {d.row : d \in {x \in days : x.spend >= SpikeMult * c}} \subseteq spikes
    <2> HIDE DEF usual, days, spikes
    <2> QED BY <1>4
  <1>7. (\A r \in U : D4(U \cup {echo(r)}, Card) = D4(U, Card))
          /\ \A d \in spikes : spikes \subseteq SpikeDays(U \cup {more(d)}, Card)
    <2> HIDE DEF echo, more, spikes, U
    <2> QED BY <1>3, <1>5
  <1> QED BY <1>6, <1>7 DEF NoiseHidesNothing, next

\* Noise hides nothing from a detector, in any log at any prices: a call that the log
\* shows again under its request id changes nothing that D4 finds, a day of several
\* times the usual is reported, and a reported day that costs even more hides neither
\* itself nor another (NoiseHidesNothing).
THEOREM NoiseNeverHides == AuditSpec => []NoiseHidesNothing
  <1>1. AuditSpec => []WorkInv
    BY WorkStarts, WorkStays, PTL DEF AuditSpec
  <1> QED BY <1>1, NoiseIsHarmless, PTL

-----------------------------------------------------------------------------
(* A log and its totals *)

\* One number of every call
Column(U, k) == [q \in U |-> q[k]]

\* The calls that b is the total of
RowsOf(U, b) == {r \in U : r.model = b.model /\ DayOf(r) = DayOf(b)}

\* A total is of the calls of its model and day, and every call is in one.
LEMMA TotalsOfCalls ==
    ASSUME NEW U, NEW t, Fit(U, t)
    PROVE  /\ \A b \in Buckets(U) :
                /\ b.prompt = SumUp(Column(U, "prompt"), RowsOf(U, b))
                /\ b.completion = SumUp(Column(U, "completion"), RowsOf(U, b))
                /\ b.cached = SumUp(Column(U, "cached"), RowsOf(U, b))
                /\ DayOf(b) = b.row
           /\ \A r \in U : \E b \in Buckets(U) : r \in RowsOf(U, b)
  <1> DEFINE G == Groups(U, LAMBDA r : <<r.model, DayOf(r)>>)
             one(g) == CHOOSE r \in g : TRUE
             prompts(g) == MapThenSumSet(LAMBDA q : q.prompt, g)
             answers(g) == MapThenSumSet(LAMBDA q : q.completion, g)
             cached(g) == MapThenSumSet(LAMBDA q : q.cached, g)
             bucket(g) == [row |-> DayOf(one(g)), ts |-> DayOf(one(g)) * DayLength, model |-> one(g).model,
                           calls |-> Cardinality(g), prompt |-> prompts(g), completion |-> answers(g),
                           cached |-> cached(g)]
  <1>1. Buckets(U) = {bucket(g) : g \in G}
    BY DEF Buckets
  <1>2. G = {{r \in U : <<r.model, DayOf(r)>> = k} : k \in {<<r.model, DayOf(r)>> : r \in U}}
    BY DEF Groups
  <1>3. ASSUME NEW g \in G
        PROVE  /\ g \in SUBSET U /\ one(g) \in g
               /\ g = {r \in U : r.model = one(g).model /\ DayOf(r) = DayOf(one(g))}
    <2> HIDE DEF G
    <2>1. PICK q \in U : g = {r \in U : <<r.model, DayOf(r)>> = <<q.model, DayOf(q)>>}
      BY <1>2
    <2>2. \A r : r \in g <=> r \in U /\ r.model = q.model /\ DayOf(r) = DayOf(q)
      BY <2>1
    <2>3. q \in g /\ g \in SUBSET U
      BY <2>2
    <2>4. one(g) \in g
      BY <2>3
    <2> HIDE DEF one
    <2> QED BY <2>2, <2>3, <2>4
  <1>4. ASSUME NEW r \in U
        PROVE  \E g \in G : r \in g
    <2> HIDE DEF G
    <2>1. {q \in U : <<q.model, DayOf(q)>> = <<r.model, DayOf(r)>>} \in G
      BY <1>2
    <2> QED BY <2>1
  <1> HIDE DEF G
  <1>5. ASSUME NEW g \in G
        PROVE  /\ RowsOf(U, bucket(g)) = g /\ DayOf(bucket(g)) = bucket(g).row
               /\ bucket(g).prompt = prompts(g) /\ bucket(g).completion = answers(g)
               /\ bucket(g).cached = cached(g)
    <2>1. IsCall(one(g))
      BY <1>3 DEF Fit
    <2> HIDE DEF prompts, answers, cached
    <2>2. /\ bucket(g).row = DayOf(one(g)) /\ bucket(g).ts = DayOf(one(g)) * DayLength
          /\ bucket(g).model = one(g).model /\ bucket(g).prompt = prompts(g)
          /\ bucket(g).completion = answers(g) /\ bucket(g).cached = cached(g)
      OBVIOUS
    <2> DEFINE n == DayOf(one(g))
    <2>3. n \in Int
      BY <2>1, AuditsAssumption DEF IsCall
    <2> HIDE DEF bucket
    <2>4. DayOf(bucket(g)) = n
      <3>1. DayOf(bucket(g)) = (n * DayLength) \div DayLength
        BY <2>2 DEF DayOf
      <3> HIDE DEF n
      <3>2. (n * DayLength) \div DayLength = n
        BY <2>3, StartOfDay, AuditsAssumption
      <3> QED BY <3>1, <3>2
    <2>5. RowsOf(U, bucket(g)) = g
      <3> HIDE DEF one
      <3> QED BY <1>3, <2>2, <2>4 DEF RowsOf
    <2> HIDE DEF one
    <2> QED BY <2>2, <2>4, <2>5
  <1>6. ASSUME NEW g \in G
        PROVE  /\ prompts(g) = SumUp(Column(U, "prompt"), g)
               /\ answers(g) = SumUp(Column(U, "completion"), g)
               /\ cached(g) = SumUp(Column(U, "cached"), g)
    <2> DEFINE p == Column(U, "prompt")
               a == Column(U, "completion")
               k == Column(U, "cached")
    <2>1. IsFiniteSet(g) /\ g \subseteq U /\ \A q \in g : IsCall(q)
      BY <1>3, FS_Subset DEF Fit, Numbered
    <2>2. \A q \in g : /\ p[q] \in Nat /\ a[q] \in Nat /\ k[q] \in Nat
                       /\ p[q] = q.prompt /\ a[q] = q.completion /\ k[q] = q.cached
      BY <2>1 DEF IsCall, Column
    <2> HIDE DEF p, a, k
    <2>3. Weighs(p, g) /\ Weighs(a, g) /\ Weighs(k, g)
      BY <2>1, <2>2 DEF Weighs
    <2>4. prompts(g) = SumUp(p, g)
      BY <2>2, <2>3, PromptsAddUp
    <2>5. answers(g) = SumUp(a, g)
      BY <2>2, <2>3, CompletionsAddUp
    <2>6. cached(g) = SumUp(k, g)
      BY <2>2, <2>3, CachedAddUp
    <2> HIDE DEF prompts, answers, cached
    <2> QED BY <2>4, <2>5, <2>6 DEF p, a, k
  <1> HIDE DEF bucket, prompts, answers, cached
  <1>7. \A b \in Buckets(U) : /\ b.prompt = SumUp(Column(U, "prompt"), RowsOf(U, b))
                              /\ b.completion = SumUp(Column(U, "completion"), RowsOf(U, b))
                              /\ b.cached = SumUp(Column(U, "cached"), RowsOf(U, b))
                              /\ DayOf(b) = b.row
    BY <1>1, <1>5, <1>6
  <1>8. \A r \in U : \E b \in Buckets(U) : r \in RowsOf(U, b)
    BY <1>1, <1>4, <1>5
  <1> QED BY <1>7, <1>8

\* Multiplication distributes.
LEMMA Distributes ==
    ASSUME NEW a \in Int, NEW b \in Int, NEW c \in Int
    PROVE  (a + b) * c = a * c + b * c /\ a * c \in Int /\ b * c \in Int
  OBVIOUS

\* At one price, without writes to the cache, calls cost what their tokens cost together.
LEMMA CallsAtOnePrice ==
    ASSUME NEW U, NEW t, Fit(U, t), \A r \in U : r.written = 0 /\ r.cached <= r.prompt,
           NEW g \in SUBSET U, NEW e, IsRate(e), \A r \in g : RateOf(t, r) = e
    PROVE  SumUp(Bills(U, t), g) =
             (SumUp(Column(U, "prompt"), g) - SumUp(Column(U, "cached"), g)) * e.input
               + SumUp(Column(U, "cached"), g) * e.read + SumUp(Column(U, "completion"), g) * e.output
  <1> DEFINE w == Bills(U, t)
             p == Column(U, "prompt")
             a == Column(U, "completion")
             k == Column(U, "cached")
             cost(T) == (SumUp(p, T) - SumUp(k, T)) * e.input + SumUp(k, T) * e.read + SumUp(a, T) * e.output
             F == {T \in SUBSET g : SumUp(w, T) = cost(T)}
  <1>1. IsFiniteSet(g)
    BY FS_Subset DEF Fit, Numbered
  <1>2. e.input \in Int /\ e.read \in Int /\ e.output \in Int /\ e.write \in Int
    BY DEF IsRate
  <1>3. ASSUME NEW r \in g
        PROVE  /\ p[r] \in Int /\ a[r] \in Int /\ k[r] \in Int /\ w[r] \in Int
               /\ w[r] = (p[r] - k[r]) * e.input + k[r] * e.read + a[r] * e.output
    <2>1. /\ r \in U /\ IsCall(r) /\ r.written = 0 /\ r.cached <= r.prompt
          /\ r.prompt \in Nat /\ r.cached \in Nat /\ r.completion \in Nat
      BY DEF Fit, IsCall
    <2>2. w[r] = CostAt(r, e) /\ p[r] = r.prompt /\ a[r] = r.completion /\ k[r] = r.cached
      BY <2>1 DEF Bills, Column
    <2>3. Uncached(r) = r.prompt - r.cached
      BY <2>1 DEF Uncached, NotNegative
    <2>4. CostAt(r, e) = (r.prompt - r.cached) * e.input + r.cached * e.read + 0 * e.write + r.completion * e.output
      BY <2>1, <2>3 DEF CostAt, PromptCost
    <2> DEFINE x == (r.prompt - r.cached) * e.input
               y == r.cached * e.read
               z == r.completion * e.output
    <2>5. x \in Int /\ y \in Int /\ z \in Int
      BY <1>2, <2>1
    <2>6. 0 * e.write = 0
      BY <1>2
    <2>7. CostAt(r, e) = x + y + z
      <3>1. CostAt(r, e) = x + y + 0 * e.write + z
        BY <2>4
      <3> HIDE DEF x, y, z
      <3> QED BY <2>5, <2>6, <3>1
    <2>8. CostAt(r, e) \in Int
      <3> HIDE DEF x, y, z
      <3> QED BY <2>5, <2>7
    <2> QED BY <2>1, <2>2, <2>7, <2>8
  <1> HIDE DEF w, p, a, k
  <1>4. Weighs(w, g) /\ Weighs(p, g) /\ Weighs(a, g) /\ Weighs(k, g)
    BY <1>1, <1>3 DEF Weighs
  <1>5. ASSUME NEW f, Weighs(f, g)
        PROVE  /\ SumUp(f, {}) = 0 /\ \A T \in SUBSET g : SumUp(f, T) \in Int
               /\ \A T \in SUBSET g : \A r \in g \ T : SumUp(f, T \cup {r}) = f[r] + SumUp(f, T)
    BY <1>5, SumUpRules
  <1>6. {} \in F
    <2>1. SumUp(w, {}) = 0 /\ SumUp(p, {}) = 0 /\ SumUp(a, {}) = 0 /\ SumUp(k, {}) = 0
      BY <1>4, <1>5
    <2>2. (0 - 0) * e.input + 0 * e.read + 0 * e.output = 0
      BY <1>2
    <2> QED BY <2>1, <2>2
  <1>7. ASSUME NEW T \in SUBSET g, NEW r \in g \ T, T \in F
        PROVE  T \cup {r} \in F
    <2> DEFINE P == SumUp(p, T)
               A == SumUp(a, T)
               K == SumUp(k, T)
               W == SumUp(w, T)
    <2>1. /\ SumUp(w, T \cup {r}) = w[r] + W /\ SumUp(p, T \cup {r}) = p[r] + P
          /\ SumUp(a, T \cup {r}) = a[r] + A /\ SumUp(k, T \cup {r}) = k[r] + K
          /\ P \in Int /\ A \in Int /\ K \in Int /\ W \in Int
      BY <1>4, <1>5
    <2>2. W = (P - K) * e.input + K * e.read + A * e.output
      BY <1>7
    <2>3. /\ p[r] \in Int /\ a[r] \in Int /\ k[r] \in Int /\ w[r] \in Int
          /\ w[r] = (p[r] - k[r]) * e.input + k[r] * e.read + a[r] * e.output
      BY <1>3
    <2> HIDE DEF P, A, K, W
    <2>4. ((p[r] + P) - (k[r] + K)) * e.input = (p[r] - k[r]) * e.input + (P - K) * e.input
            /\ (p[r] - k[r]) * e.input \in Int /\ (P - K) * e.input \in Int
      <3> DEFINE u == p[r] - k[r]
                 v == P - K
      <3>1. u \in Int /\ v \in Int /\ (p[r] + P) - (k[r] + K) = u + v
        BY <2>1, <2>3
      <3> HIDE DEF u, v
      <3>2. (u + v) * e.input = u * e.input + v * e.input /\ u * e.input \in Int /\ v * e.input \in Int
        BY <1>2, <3>1, Distributes
      <3> QED BY <3>1, <3>2 DEF u, v
    <2>5. (k[r] + K) * e.read = k[r] * e.read + K * e.read /\ k[r] * e.read \in Int /\ K * e.read \in Int
      BY <1>2, <2>1, <2>3, Distributes
    <2>6. (a[r] + A) * e.output = a[r] * e.output + A * e.output /\ a[r] * e.output \in Int /\ A * e.output \in Int
      BY <1>2, <2>1, <2>3, Distributes
    <2>7. w[r] + W = ((p[r] + P) - (k[r] + K)) * e.input + (k[r] + K) * e.read + (a[r] + A) * e.output
      BY <2>2, <2>3, <2>4, <2>5, <2>6
    <2>8. SumUp(w, T \cup {r}) = cost(T \cup {r})
      BY <2>1, <2>7
    <2> QED BY <2>8
  <1>8. g \in F
    <2> HIDE DEF F
    <2> QED BY <1>1, <1>6, <1>7, SetInduction
  <1> QED BY <1>8 DEF w, p, a, k

\* The totals of a log cost what its calls cost, when nothing was written to the cache.
LEMMA TotalsCostTheirCalls ==
    ASSUME NEW U, NEW t, Fit(U, t), FitTotals(Buckets(U), t),
           \A r \in U : r.written = 0 /\ r.cached <= r.prompt
    PROVE  Spend(U, t) = AccountSpend(Buckets(U), t)
  <1> DEFINE B == Buckets(U)
             w == Bills(U, t)
             v == DayBills(B, t)
             P == Priced(B, t)
             Q == Priced(U, t)
             of(T) == {r \in Q : \E b \in T : r \in RowsOf(U, b)}
             F == {T \in SUBSET P : SumUp(v, T) = SumUp(w, of(T))}
  <1>1. /\ \A b \in B : /\ b.prompt = SumUp(Column(U, "prompt"), RowsOf(U, b))
                        /\ b.completion = SumUp(Column(U, "completion"), RowsOf(U, b))
                        /\ b.cached = SumUp(Column(U, "cached"), RowsOf(U, b))
                        /\ DayOf(b) = b.row
        /\ \A r \in U : \E b \in B : r \in RowsOf(U, b)
    BY TotalsOfCalls
  <1>2. /\ AccountSpend(B, t) = SumUp(v, P) /\ IsFiniteSet(P) /\ P \subseteq B
        /\ \A b \in P : v[b] \in Nat /\ v[b] = BucketCost(b, RateOf(t, b)) /\ RateOf(t, b) # NoValue
    BY AccountSpendIs
  <1>3. /\ Spend(U, t) = SumUp(w, Q) /\ IsFiniteSet(Q) /\ Q \subseteq U
        /\ \A r \in Q : w[r] \in Nat
    BY SpendIs
  <1>4. \A b \in B : \A r \in RowsOf(U, b) : r \in U /\ RateOf(t, r) = RateOf(t, b)
    BY DEF RowsOf, RateOf
  <1>5. \A b \in P : RowsOf(U, b) \subseteq Q
    BY <1>2, <1>4 DEF Priced
  <1>6. \A b, c \in P : b # c => RowsOf(U, b) \cap RowsOf(U, c) = {}
    <2> SUFFICES ASSUME NEW b \in P, NEW c \in P, NEW r \in RowsOf(U, b), r \in RowsOf(U, c)
                 PROVE  b = c
      OBVIOUS
    <2>1. b.model = c.model /\ DayOf(b) = DayOf(c)
      BY DEF RowsOf
    <2> QED BY <1>1, <1>2, <2>1 DEF FitTotals
  <1>7. of(P) = Q
    <2>1. ASSUME NEW r \in Q
          PROVE  \E b \in P : r \in RowsOf(U, b)
      <3>1. r \in U /\ RateOf(t, r) # NoValue
        BY DEF Priced
      <3>2. PICK b \in B : r \in RowsOf(U, b)
        BY <1>1, <3>1
      <3>3. b \in P
        BY <1>4, <3>1, <3>2 DEF Priced
      <3> QED BY <3>2, <3>3
    <2> QED BY <2>1
  <1>8. ASSUME NEW b \in P
        PROVE  v[b] = SumUp(w, RowsOf(U, b))
    <2> DEFINE e == RateOf(t, b)
               g == RowsOf(U, b)
    <2>1. b \in B /\ IsBucket(b) /\ IsRate(e) /\ v[b] = BucketCost(b, e)
      BY <1>2, BucketHasRate DEF FitTotals
    <2>2. g \in SUBSET U /\ \A r \in g : RateOf(t, r) = e
      BY <1>4, <2>1
    <2>3. b.prompt - b.cached >= 0 /\ b.prompt \in Nat /\ b.cached \in Nat
      BY <2>1 DEF IsBucket
    <2>4. BucketCost(b, e) = (b.prompt - b.cached) * e.input + b.cached * e.read + b.completion * e.output
      <3>1. NotNegative(b.prompt - b.cached) = b.prompt - b.cached
        BY <2>3 DEF NotNegative
      <3> HIDE DEF e
      <3> QED BY <3>1 DEF BucketCost, BucketPrompt
    <2> HIDE DEF e, g, w
    <2>5. SumUp(Bills(U, t), g) =
            (SumUp(Column(U, "prompt"), g) - SumUp(Column(U, "cached"), g)) * e.input
               + SumUp(Column(U, "cached"), g) * e.read + SumUp(Column(U, "completion"), g) * e.output
      BY <2>1, <2>2, CallsAtOnePrice
    <2> QED BY <1>1, <2>1, <2>4, <2>5 DEF g, w
  <1> HIDE DEF B, w, v, P, Q
  <1>9. Weighs(v, P) /\ Weighs(w, Q)
    BY <1>2, <1>3 DEF Weighs
  <1>10. /\ SumUp(v, {}) = 0 /\ SumUp(w, {}) = 0
         /\ \A T \in SUBSET P : \A b \in P \ T : SumUp(v, T \cup {b}) = v[b] + SumUp(v, T)
         /\ \A T \in SUBSET Q : SumUp(w, T) \in Int
    BY <1>9, SumUpRules
  <1>11. {} \in F
    BY <1>10
  <1>12. ASSUME NEW T \in SUBSET P, NEW b \in P \ T, T \in F
         PROVE  T \cup {b} \in F
    <2> DEFINE R == RowsOf(U, b)
               L == of(T)
    <2>1. of(T \cup {b}) = L \cup R /\ L \cap R = {} /\ L \cup R \subseteq Q
      <3>1. R \subseteq Q
        BY <1>5
      <3>2. \A c \in T : RowsOf(U, c) \cap R = {}
        BY <1>6
      <3> QED BY <3>1, <3>2
    <2>2. Weighs(w, L \cup R)
      <3> HIDE DEF L, R
      <3> QED BY <1>9, <2>1, FS_Subset DEF Weighs
    <2>3. SumUp(w, L \cup R) = SumUp(w, L) + SumUp(w, R)
      <3> HIDE DEF L, R
      <3> QED BY <2>1, <2>2, SumSplit
    <2>4. SumUp(v, T \cup {b}) = v[b] + SumUp(v, T) /\ v[b] = SumUp(w, R) /\ SumUp(v, T) = SumUp(w, L)
      BY <1>8, <1>10, <1>12
    <2>5. SumUp(w, L) \in Int /\ SumUp(w, R) \in Int
      <3>1. L \in SUBSET Q /\ R \in SUBSET Q
        BY <2>1
      <3> HIDE DEF L, R
      <3> QED BY <1>10, <3>1
    <2>6. SumUp(v, T \cup {b}) = SumUp(w, of(T \cup {b}))
      <3>1. of(T \cup {b}) = L \cup R
        BY <2>1
      <3>2. SumUp(w, of(T \cup {b})) = SumUp(w, L) + SumUp(w, R)
        BY <2>3, <3>1
      <3> HIDE DEF R, L, of
      <3> QED BY <2>4, <2>5, <3>2
    <2> QED BY <2>6
  <1>13. P \in F
    <2> HIDE DEF F
    <2> QED BY <1>2, <1>11, <1>12, SetInduction
  <1>14. SumUp(v, P) = SumUp(w, of(P))
    BY <1>13
  <1> HIDE DEF of
  <1> QED BY <1>2, <1>3, <1>7, <1>14 DEF B

-----------------------------------------------------------------------------
(* One call in a file *)

\* A value of an export that holds a number
IsNumber(v, n) == n \in Int /\ \E k \in {"int", "text"} : v = [kind |-> k, n |-> n]

\* What cannot be read
Junk == [kind |-> "junk", n |-> 0]

\* A number is read as it is, what cannot be read as nothing.
LEMMA NumbersAreRead ==
    /\ \A v, n : IsNumber(v, n) =>
          v # NoValue /\ Coerced(v) = n /\ CacheField(v) = n /\ (v.kind = "int" => Intlike(v) = n /\ Part(v) = n)
    /\ Coerced(NoValue) = NoValue /\ CacheField(NoValue) = 0
    /\ Coerced(Junk) = NoValue /\ CacheField(Junk) = NoValue /\ Intlike(Junk) = NoValue /\ Part(Junk) = NoValue
  <1>1. ASSUME NEW v, NEW n, IsNumber(v, n)
        PROVE  v # NoValue /\ Coerced(v) = n /\ CacheField(v) = n /\ (v.kind = "int" => Intlike(v) = n /\ Part(v) = n)
    <2>1. PICK k \in {"int", "text"} : v = [kind |-> k, n |-> n] /\ n \in Int
      BY <1>1 DEF IsNumber
    <2>2. v \in [kind : {"int", "text", "null", "junk"}, n : Int]
      BY <2>1
    <2>3. v # NoValue /\ v.kind \in {"int", "text"} /\ v.n = n
      BY <2>1, <2>2, CallsAssumption
    <2> QED BY <2>3 DEF Coerced, CacheField, Present, Intlike, Part
  <1>2. Junk # NoValue /\ Junk.kind = "junk"
    <2>1. Junk \in [kind : {"int", "text", "null", "junk"}, n : Int]
      BY DEF Junk
    <2> QED BY <2>1, CallsAssumption DEF Junk
  <1>3. Coerced(Junk) = NoValue /\ CacheField(Junk) = NoValue /\ Intlike(Junk) = NoValue /\ Part(Junk) = NoValue
    BY <1>2 DEF Coerced, CacheField, Present, Intlike, Part
  <1>4. Coerced(NoValue) = NoValue /\ CacheField(NoValue) = 0
    BY DEF Coerced, CacheField, Present
  <1> QED BY <1>1, <1>3, <1>4

\* The row d tells of the call c.
Tells(d, c) ==
    /\ d.model = c.model /\ Coerced(d.ts) = c.ts /\ c.max = Coerced(d.max)
    /\ c.id = IF d.id = NoValue THEN <<"row", 1>> ELSE <<"id", d.id>>
    /\ c.tag = IF d.tag = NoValue THEN "" ELSE d.tag
    /\ c.hash = IF d.text # NoValue THEN d.text ELSE d.hash
    /\ Coerced(d.prompt) = c.prompt /\ Coerced(d.completion) = c.completion
    /\ CacheField(d.cached) = c.cached /\ CacheField(d.written) = c.written

\* A call that can be told
IsTold(c) ==
    /\ IsRecord(c) /\ c.row = 1 /\ c.ts \in Nat \ {0} /\ c.model # NoValue
    /\ {c.prompt, c.completion, c.cached, c.written} \subseteq Nat

\* A row that tells of a call becomes its record.
LEMMA TellingRows ==
    ASSUME NEW d, NEW c, Tells(d, c), IsTold(c)
    PROVE  ~Refused(d) /\ Record(d, 1) = c
  <1>1. NoValue \notin Int
    BY CallsAssumption
  <1>2. /\ c.ts \in Nat /\ c.ts > 0 /\ c.model # NoValue /\ c.prompt \in Nat /\ c.completion \in Nat
        /\ c.cached \in Nat /\ c.written \in Nat
    BY DEF IsTold
  <1>3. IsCount(c.prompt) /\ IsCount(c.completion) /\ IsCount(c.cached) /\ IsCount(c.written) /\ c.ts # NoValue
    BY <1>1, <1>2 DEF IsCount
  <1>4. ~Refused(d)
    <2>1. /\ Coerced(d.ts) = c.ts /\ d.model = c.model /\ Coerced(d.prompt) = c.prompt
          /\ Coerced(d.completion) = c.completion /\ CacheField(d.cached) = c.cached
          /\ CacheField(d.written) = c.written
      BY DEF Tells
    <2>2. ~(c.ts <= 0)
      BY <1>2
    <2> QED BY <1>2, <1>3, <2>1, <2>2 DEF Refused
  <1>5. c = [row |-> c.row, ts |-> c.ts, model |-> c.model, id |-> c.id, tag |-> c.tag, hash |-> c.hash,
             max |-> c.max, prompt |-> c.prompt, completion |-> c.completion, cached |-> c.cached,
             written |-> c.written] /\ c.row = 1
    BY DEF IsTold, IsRecord
  <1>6. Record(d, 1) = [row |-> 1, ts |-> c.ts, model |-> c.model, id |-> c.id, tag |-> c.tag, hash |-> c.hash,
                        max |-> c.max, prompt |-> c.prompt, completion |-> c.completion, cached |-> c.cached,
                        written |-> c.written]
    BY DEF Record, Tells
  <1> QED BY <1>4, <1>5, <1>6

\* A file of one line gives the record of that line, or refuses it.
LEMMA FileOfOneLine ==
    ASSUME NEW file, NEW l, file.lines = <<l>>, l.shape \in {"openai", "anthropic", "csv"},
           file.size = 1, file.ext = IF l.shape = "csv" THEN ".csv" ELSE ".jsonl"
    PROVE  /\ Reader(file) = l.shape
           /\ ~Refused(Parsed(l.shape, l)) => Load(file).records = {Record(Parsed(l.shape, l), 1)}
           /\ Refused(Parsed(l.shape, l)) => ~Enforced(Load(file))
  <1>1. DOMAIN file.lines = {1} /\ Len(file.lines) = 1 /\ file.lines[1] = l
    OBVIOUS
  <1>2. Sample(file) = {l.shape}
    <2> DEFINE seen == {i \in DOMAIN file.lines : file.lines[i].shape # "blank"}
    <2>1. seen = {1} /\ {j \in {1} : j <= 1} = {1}
      BY <1>1
    <2>2. Cardinality({1}) = 1 /\ 1 <= SampleSize
      <3>1. SampleSize \in Nat \ {0}
        BY CallsAssumption
      <3> QED BY <3>1, FS_Singleton
    <2>3. {k \in seen : Cardinality({j \in seen : j <= k}) <= SampleSize} = {1}
      <3> HIDE DEF seen
      <3>1. \A k \in {1} : {j \in {1} : j <= k} = {1}
        BY <2>1
      <3> QED BY <2>1, <2>2, <3>1
    <2>4. Sample(file) = {file.lines[i].shape : i \in {k \in seen : Cardinality({j \in seen : j <= k}) <= SampleSize}}
      BY DEF Sample
    <2> HIDE DEF seen
    <2> QED BY <1>1, <2>3, <2>4
  <1>3. Reader(file) = l.shape
    BY <1>2 DEF Reader
  <1>4. Acceptable(file) /\ l.shape # NoValue
    <2>1. MaxSize \in Nat \ {0} /\ NoValue \notin {"openai", "anthropic", "csv"}
      BY CallsAssumption
    <2>2. l.shape # NoValue
      BY <2>1
    <2>3. 1 \in 1 .. MaxSize
      BY <2>1
    <2>4. file.ext = ".csv" \/ file.ext = ".jsonl"
      OBVIOUS
    <2> QED BY <2>1, <2>2, <2>3, <2>4 DEF Acceptable
  <1> DEFINE lines == {i \in 1 .. Len(file.lines) : file.lines[i].shape # "blank"}
             bad == {i \in lines : file.lines[i].shape = "broken"
                                     \/ Refused(Parsed(l.shape, file.lines[i]))}
  <1>5. Load(file) = [ok |-> TRUE,
                      records |-> {Record(Parsed(l.shape, file.lines[i]), i) : i \in lines \ bad},
                      refused |-> bad]
    BY <1>3, <1>4 DEF Load
  <1>6. lines = {1} /\ (\A i \in lines : file.lines[i].shape # "broken" /\ file.lines[i] = l)
    BY <1>1
  <1>7. bad = IF Refused(Parsed(l.shape, l)) THEN {1} ELSE {}
    BY <1>6
  <1>8. Load(file).records = {Record(Parsed(l.shape, file.lines[i]), i) : i \in lines \ bad}
          /\ Load(file).refused = bad
    BY <1>5
  <1> HIDE DEF lines, bad
  <1>9. ASSUME ~Refused(Parsed(l.shape, l))
        PROVE  Load(file).records = {Record(Parsed(l.shape, l), 1)}
    <2>1. lines \ bad = {1}
      BY <1>6, <1>7, <1>9
    <2> QED BY <1>1, <1>8, <2>1
  <1>10. ASSUME Refused(Parsed(l.shape, l))
         PROVE  ~Enforced(Load(file))
    <2>1. Load(file).records = {} /\ Load(file).refused = {1}
      BY <1>6, <1>7, <1>8, <1>10
    <2>2. Cardinality({}) = 0 /\ Cardinality({1}) = 1
      BY FS_EmptySet, FS_Singleton
    <2> QED BY <2>1, <2>2 DEF Enforced, MinValidPct
  <1> QED BY <1>3, <1>9, <1>10

\* What is assumed of a call that was made
LEMMA MadeCalls ==
    ASSUME NEW c \in Made
    PROVE  /\ IsTold(c) /\ c.id = <<"id", c.id[2]>> /\ c.id[2] # NoValue /\ c.tag # NoValue
           /\ (c.max = NoValue \/ c.max \in Nat) /\ c.completion > 0
           /\ c.prompt \in Nat /\ c.completion \in Nat /\ c.cached \in Nat /\ c.written \in Nat
           /\ c.prompt - c.cached - c.written \in Nat
           /\ c.prompt \in 0 .. MaxCount /\ c.completion \in 0 .. MaxCount
           /\ c.cached \in 0 .. MaxCount /\ c.written \in 0 .. MaxCount
  <1>1. /\ IsRecord(c) /\ c.row = 1 /\ c.ts \in Nat \ {0}
        /\ c.id = <<"id", c.id[2]>> /\ c.id[2] # NoValue /\ c.model # NoValue /\ c.tag # NoValue
        /\ (c.max = NoValue \/ c.max \in Nat) /\ c.cached \in Nat /\ c.written \in Nat
        /\ c.prompt \in (c.cached + c.written) .. MaxCount /\ c.completion \in 1 .. MaxCount
        /\ MaxCount \in Nat
    BY CallsAssumption
  <1>2. /\ c.prompt \in Nat /\ c.completion \in Nat /\ c.completion > 0
        /\ c.prompt - c.cached - c.written \in Nat
        /\ c.prompt \in 0 .. MaxCount /\ c.completion \in 0 .. MaxCount
        /\ c.cached \in 0 .. MaxCount /\ c.written \in 0 .. MaxCount
    BY <1>1
  <1> QED BY <1>1, <1>2 DEF IsTold

\* An export tells of the call it holds,
LEMMA ExportsTell ==
    ASSUME NEW c \in Made, NEW s \in Shapes
    PROVE  Export(c, s).shape = s /\ Tells(Parsed(s, Export(c, s)), c)
  <1> DEFINE kind == IF s = "csv" THEN "text" ELSE "int"
             number(n) == [kind |-> kind, n |-> n]
             asked == IF s = "anthropic" THEN c.prompt - c.cached - c.written ELSE c.prompt
             max == IF c.max = NoValue THEN NoValue ELSE number(c.max)
             l == [shape |-> s, model |-> c.model, ts |-> number(c.ts), id |-> c.id[2], tag |-> c.tag,
                   hash |-> IF s = "csv" THEN c.hash ELSE NoValue,
                   text |-> IF s = "csv" THEN NoValue ELSE c.hash,
                   max |-> max, in |-> number(asked),
                   out |-> number(c.completion), cached |-> number(c.cached), written |-> number(c.written)]
  <1>1. Export(c, s) = l
    BY DEF Export
  <1>2. /\ c.ts \in Nat /\ c.id = <<"id", c.id[2]>> /\ c.id[2] # NoValue /\ c.tag # NoValue
        /\ (c.max = NoValue \/ c.max \in Nat)
        /\ c.prompt \in Nat /\ c.completion \in Nat /\ c.cached \in Nat /\ c.written \in Nat
        /\ asked \in Nat
    BY MadeCalls DEF IsTold
  <1>3. \A n \in Nat : IsNumber(number(n), n) /\ number(n).kind = kind
    BY DEF IsNumber
  <1>4. /\ \A n \in Nat : /\ Coerced(number(n)) = n /\ CacheField(number(n)) = n
                          /\ number(n) # NoValue
                          /\ s # "csv" => Intlike(number(n)) = n /\ Part(number(n)) = n
        /\ Coerced(max) = c.max
    <2>1. ASSUME NEW n \in Nat
          PROVE  /\ Coerced(number(n)) = n /\ CacheField(number(n)) = n /\ number(n) # NoValue
                 /\ s # "csv" => Intlike(number(n)) = n /\ Part(number(n)) = n
      <3>1. IsNumber(number(n), n) /\ number(n).kind = kind
        BY <1>3
      <3> HIDE DEF number
      <3> QED BY <3>1, NumbersAreRead
    <2>2. Coerced(max) = c.max
      <3> HIDE DEF number
      <3>1. Coerced(NoValue) = NoValue
        BY NumbersAreRead
      <3> QED BY <1>2, <2>1, <3>1
    <2> HIDE DEF number, max
    <2> QED BY <2>1, <2>2
  <1> HIDE DEF number, max, asked
  <1>5. /\ l.shape = s /\ l.model = c.model /\ l.ts = number(c.ts) /\ l.id = c.id[2] /\ l.tag = c.tag
        /\ l.max = max /\ l.in = number(asked) /\ l.out = number(c.completion)
        /\ l.cached = number(c.cached) /\ l.written = number(c.written)
        /\ l.hash = (IF s = "csv" THEN c.hash ELSE NoValue)
        /\ l.text = (IF s = "csv" THEN NoValue ELSE c.hash)
    OBVIOUS
  <1> HIDE DEF l
  <1>6. ASSUME s = "openai"
        PROVE  Tells(OpenAIRow(l), c)
    <2>1. asked = c.prompt
      BY <1>6 DEF asked
    <2> QED BY <1>2, <1>4, <1>5, <1>6, <2>1 DEF Tells, OpenAIRow, Wears
  <1>7. ASSUME s = "anthropic"
        PROVE  Tells(AnthropicRow(l), c)
    <2>1. Wears(l, "anthropic", l.in) = l.in /\ Wears(l, "anthropic", l.out) = l.out
      BY <1>5, <1>7 DEF Wears
    <2>2. Intlike(l.in) = asked /\ Part(l.cached) = c.cached /\ Part(l.written) = c.written
      BY <1>2, <1>4, <1>5, <1>7
    <2>3. NoValue \notin {asked, c.cached, c.written}
      <3>1. NoValue \notin Int
        BY CallsAssumption
      <3> QED BY <1>2, <3>1
    <2>4. PromptTotal(l) = Num(c.prompt)
      <3>1. asked + c.cached + c.written = c.prompt
        BY <1>2, <1>7 DEF asked
      <3> QED BY <2>1, <2>2, <2>3, <3>1 DEF PromptTotal
    <2>5. /\ AnthropicRow(l).prompt = Num(c.prompt) /\ AnthropicRow(l).completion = l.out
          /\ AnthropicRow(l).cached = Num(c.cached) /\ AnthropicRow(l).written = Num(c.written)
          /\ AnthropicRow(l).model = l.model /\ AnthropicRow(l).ts = l.ts /\ AnthropicRow(l).id = l.id
          /\ AnthropicRow(l).tag = l.tag /\ AnthropicRow(l).hash = l.hash /\ AnthropicRow(l).text = l.text
          /\ AnthropicRow(l).max = l.max
      BY <2>1, <2>2, <2>3, <2>4 DEF AnthropicRow, OpenAIRow
    <2>6. \A n \in Nat : Coerced(Num(n)) = n /\ CacheField(Num(n)) = n
      <3> SUFFICES ASSUME NEW n \in Nat PROVE Coerced(Num(n)) = n /\ CacheField(Num(n)) = n
        OBVIOUS
      <3>1. IsNumber(Num(n), n)
        BY DEF IsNumber, Num
      <3> QED BY <3>1, NumbersAreRead
    <2> QED BY <1>2, <1>4, <1>5, <1>7, <2>5, <2>6 DEF Tells
  <1>8. ASSUME s = "csv"
        PROVE  Tells(CsvRow(l), c)
    <2>1. asked = c.prompt
      BY <1>8 DEF asked
    <2>2. /\ CsvRow(l).prompt = l.in /\ CsvRow(l).completion = l.out /\ CsvRow(l).cached = l.cached
          /\ CsvRow(l).written = l.written /\ CsvRow(l).model = l.model /\ CsvRow(l).ts = l.ts
          /\ CsvRow(l).id = l.id /\ CsvRow(l).tag = l.tag /\ CsvRow(l).hash = l.hash
          /\ CsvRow(l).text = NoValue /\ CsvRow(l).max = l.max
      BY DEF CsvRow, OpenAIRow, Wears, l
    <2> QED BY <1>2, <1>4, <1>5, <1>8, <2>1, <2>2 DEF Tells
  <1>9. Tells(Parsed(s, l), c)
    BY <1>6, <1>7, <1>8 DEF Parsed, Shapes
  <1> QED BY <1>1, <1>5, <1>9

\* ... so its file gives the record of the call.
LEMMA ExportsAreRead ==
    ASSUME NEW c \in Made, NEW s \in Shapes
    PROVE  Load(FileOf(Export(c, s))).records = {c}
  <1> DEFINE l == Export(c, s)
             file == FileOf(l)
  <1>1. l.shape = s /\ Tells(Parsed(s, l), c) /\ s \in {"openai", "anthropic", "csv"}
    BY ExportsTell DEF Shapes
  <1>2. file.lines = <<l>> /\ file.size = 1 /\ file.ext = IF l.shape = "csv" THEN ".csv" ELSE ".jsonl"
    BY DEF FileOf
  <1>3. ~Refused(Parsed(s, l)) /\ Record(Parsed(s, l), 1) = c
    BY <1>1, MadeCalls, TellingRows
  <1> HIDE DEF l, file
  <1>4. Load(file).records = {Record(Parsed(s, l), 1)}
    BY <1>1, <1>2, <1>3, FileOfOneLine
  <1> QED BY <1>3, <1>4 DEF l, file

\* A line with all the keys
IsLine(l) ==
    DOMAIN l = {"shape", "model", "ts", "id", "tag", "hash", "text", "max", "in", "out", "cached", "written"}

\* The reader of CSV files finds every key of such a line.
LEMMA CsvRows ==
    ASSUME NEW l, IsLine(l)
    PROVE  /\ CsvRow(l).prompt = l.in /\ CsvRow(l).completion = l.out /\ CsvRow(l).cached = l.cached
           /\ CsvRow(l).written = l.written /\ CsvRow(l).model = l.model /\ CsvRow(l).ts = l.ts
           /\ CsvRow(l).id = l.id /\ CsvRow(l).tag = l.tag /\ CsvRow(l).hash = l.hash
           /\ CsvRow(l).text = NoValue /\ CsvRow(l).max = l.max
  <1> DEFINE o == [l EXCEPT !.shape = "openai"]
  <1>1. /\ o.shape = "openai" /\ o.in = l.in /\ o.out = l.out /\ o.cached = l.cached
        /\ o.written = l.written /\ o.model = l.model /\ o.ts = l.ts /\ o.id = l.id
        /\ o.tag = l.tag /\ o.hash = l.hash /\ o.max = l.max
    BY DEF IsLine
  <1>2. CsvRow(l) = [OpenAIRow(o) EXCEPT !.text = NoValue]
    BY DEF CsvRow
  <1> HIDE DEF o
  <1> QED BY <1>1, <1>2 DEF OpenAIRow, Wears

\* A count that cannot be read spoils the row,
LEMMA JunkIsRefused ==
    ASSUME NEW l, NEW s \in Shapes, l.shape = s, IsLine(l),
           \/ l.in = Junk
           \/ l.out = Junk
           \/ l.cached = Junk
           \/ l.written = Junk
    PROVE  Refused(Parsed(s, l))
  <1>1. /\ Coerced(NoValue) = NoValue /\ Coerced(Junk) = NoValue /\ CacheField(Junk) = NoValue
        /\ Intlike(Junk) = NoValue /\ Part(Junk) = NoValue
    BY NumbersAreRead
  <1>2. ~IsCount(NoValue)
    BY DEF IsCount
  <1>3. ASSUME s = "openai"
        PROVE  Refused(OpenAIRow(l))
    <2>1. /\ OpenAIRow(l).prompt = l.in /\ OpenAIRow(l).completion = l.out
          /\ OpenAIRow(l).cached = l.cached /\ OpenAIRow(l).written = l.written
      BY <1>3 DEF OpenAIRow, Wears
    <2> QED BY <1>1, <1>2, <2>1 DEF Refused
  <1>4. ASSUME s = "anthropic"
        PROVE  Refused(AnthropicRow(l))
    <2>1. AnthropicRow(l).prompt = PromptTotal(l) /\ AnthropicRow(l).completion = l.out
      BY <1>4 DEF AnthropicRow, OpenAIRow, Wears
    <2>2. ASSUME l.in = Junk \/ l.cached = Junk \/ l.written = Junk
          PROVE  PromptTotal(l) = NoValue
      BY <1>1, <1>4, <2>2 DEF PromptTotal, Wears
    <2> QED BY <1>1, <1>2, <2>1, <2>2 DEF Refused
  <1>5. ASSUME s = "csv"
        PROVE  Refused(CsvRow(l))
    <2>1. /\ CsvRow(l).prompt = l.in /\ CsvRow(l).completion = l.out
          /\ CsvRow(l).cached = l.cached /\ CsvRow(l).written = l.written
      BY CsvRows
    <2> QED BY <1>1, <1>2, <2>1 DEF Refused
  <1> QED BY <1>3, <1>4, <1>5 DEF Parsed, Shapes

\* ... and so the file of one row.
LEMMA JunkIsNotAudited ==
    ASSUME NEW c \in Made, NEW s \in Shapes, NEW k \in {"in", "out", "cached", "written"}
    PROVE  ~Enforced(Load(FileOf([Export(c, s) EXCEPT ![k] = [kind |-> "junk", n |-> 0]])))
  <1> DEFINE e == Export(c, s)
             l == [e EXCEPT ![k] = Junk]
             file == FileOf(l)
  <1>1. IsLine(e) /\ e.shape = s
    BY ExportsTell DEF Export, IsLine
  <1>2. l[k] = Junk /\ IsLine(l) /\ l.shape = s
    <2> HIDE DEF e
    <2> QED BY <1>1 DEF IsLine
  <1>3. file.lines = <<l>> /\ file.size = 1 /\ file.ext = IF l.shape = "csv" THEN ".csv" ELSE ".jsonl"
    BY DEF FileOf
  <1>4. [e EXCEPT ![k] = [kind |-> "junk", n |-> 0]] = l
    BY DEF Junk
  <1> HIDE DEF l, file, e
  <1>5. l.in = Junk \/ l.out = Junk \/ l.cached = Junk \/ l.written = Junk
    BY <1>2
  <1>6. Refused(Parsed(s, l))
    BY <1>2, <1>5, JunkIsRefused
  <1>7. s \in {"openai", "anthropic", "csv"}
    BY DEF Shapes
  <1>8. ~Enforced(Load(file))
    BY <1>2, <1>3, <1>6, <1>7, FileOfOneLine
  <1> QED BY <1>4, <1>8 DEF file, e

-----------------------------------------------------------------------------
(* One call as the SDK sees it *)

\* The record of the call c without what only its export tells
PlainRecord(c) == [c EXCEPT !.hash = NoValue, !.max = NoValue]

\* It is a record of a call,
LEMMA PlainRecords ==
    ASSUME NEW c \in Made
    PROVE  /\ IsTold(PlainRecord(c)) /\ PlainRecord(c).hash = NoValue /\ PlainRecord(c).max = NoValue
           /\ PlainRecord(c).ts = c.ts /\ PlainRecord(c).model = c.model
           /\ PlainRecord(c).id = c.id /\ PlainRecord(c).tag = c.tag
           /\ PlainRecord(c).prompt = c.prompt /\ PlainRecord(c).completion = c.completion
           /\ PlainRecord(c).cached = c.cached /\ PlainRecord(c).written = c.written
  <1>1. IsTold(c)
    BY MadeCalls
  <1>2. DOMAIN c = {"row", "ts", "model", "id", "tag", "hash", "max", "prompt", "completion", "cached", "written"}
    BY <1>1 DEF IsTold, IsRecord
  <1>3. /\ PlainRecord(c).hash = NoValue /\ PlainRecord(c).max = NoValue /\ PlainRecord(c).row = c.row
        /\ PlainRecord(c).ts = c.ts /\ PlainRecord(c).model = c.model
        /\ PlainRecord(c).id = c.id /\ PlainRecord(c).tag = c.tag
        /\ PlainRecord(c).prompt = c.prompt /\ PlainRecord(c).completion = c.completion
        /\ PlainRecord(c).cached = c.cached /\ PlainRecord(c).written = c.written
    BY <1>2 DEF PlainRecord
  <1>4. PlainRecord(c) = [k \in DOMAIN c |-> PlainRecord(c)[k]]
    BY DEF PlainRecord
  <1>5. IsRecord(PlainRecord(c))
    BY <1>2, <1>4 DEF IsRecord
  <1> QED BY <1>1, <1>3, <1>5 DEF IsTold

\* What the SDK knows of a call
Noticed(c, s) == [PlainRecord(c) EXCEPT !.id = <<"row", 1>>, !.written = IF s = "openai" THEN 0 ELSE @]

\* It is a record of a call too, with no hash and no limit.
LEMMA NoticedCalls ==
    ASSUME NEW c \in Made, NEW s
    PROVE  /\ IsTold(Noticed(c, s)) /\ Noticed(c, s).hash = NoValue /\ Noticed(c, s).max = NoValue
           /\ Noticed(c, s).ts = c.ts /\ Noticed(c, s).model = c.model /\ Noticed(c, s).tag = c.tag
           /\ Noticed(c, s).id = <<"row", 1>>
           /\ Noticed(c, s).prompt = c.prompt /\ Noticed(c, s).completion = c.completion
           /\ Noticed(c, s).cached = c.cached
           /\ Noticed(c, s).written = IF s = "openai" THEN 0 ELSE c.written
  <1> DEFINE d == PlainRecord(c)
             e == Noticed(c, s)
  <1>1. /\ IsTold(d) /\ d.hash = NoValue /\ d.max = NoValue /\ d.ts = c.ts /\ d.model = c.model
        /\ d.id = c.id /\ d.tag = c.tag /\ d.prompt = c.prompt /\ d.completion = c.completion
        /\ d.cached = c.cached /\ d.written = c.written
    BY PlainRecords
  <1>2. e = [d EXCEPT !.id = <<"row", 1>>, !.written = IF s = "openai" THEN 0 ELSE @]
    BY DEF Noticed
  <1> HIDE DEF d, e
  <1>3. DOMAIN d = {"row", "ts", "model", "id", "tag", "hash", "max", "prompt", "completion", "cached", "written"}
    BY <1>1 DEF IsTold, IsRecord
  <1>4. /\ e.hash = d.hash /\ e.max = d.max /\ e.row = d.row /\ e.ts = d.ts /\ e.model = d.model
        /\ e.id = <<"row", 1>> /\ e.tag = d.tag /\ e.prompt = d.prompt /\ e.completion = d.completion
        /\ e.cached = d.cached /\ e.written = IF s = "openai" THEN 0 ELSE d.written
    BY <1>2, <1>3
  <1>5. e = [k \in DOMAIN d |-> e[k]]
    BY <1>2
  <1>6. IsRecord(e)
    BY <1>3, <1>5 DEF IsRecord
  <1>7. IsTold(e)
    <2>1. e.written \in Nat
      BY <1>1, <1>4 DEF IsTold
    <2> QED BY <1>1, <1>4, <1>6, <2>1 DEF IsTold
  <1> QED BY <1>1, <1>4, <1>7 DEF e

\* A line of the SDK's is let in, and its file gives what the SDK knows of the call.
LEMMA SdkLinesAreRead ==
    ASSUME NEW c \in Made, NEW s \in {"openai", "anthropic"}
    PROVE  Received(<<Extracted(Export(c, s), c.ts, c.tag)>>).records = {Noticed(c, s)}
  <1> DEFINE l == Export(c, s)
             told == IF s = "anthropic" THEN Num(c.written) ELSE NoValue
             x == [shape |-> "sdk", model |-> c.model, ts |-> [kind |-> "text", n |-> c.ts], tag |-> c.tag,
                   id |-> NoValue, hash |-> NoValue, text |-> NoValue, max |-> NoValue,
                   in |-> Num(c.prompt), out |-> Num(c.completion), cached |-> Num(c.cached), written |-> told]
             y == [shape |-> "csv", model |-> c.model, ts |-> [kind |-> "text", n |-> c.ts], tag |-> c.tag,
                   id |-> NoValue, hash |-> NoValue, text |-> NoValue, max |-> NoValue,
                   in |-> Cell(Num(c.prompt)), out |-> Cell(Num(c.completion)), cached |-> Cell(Num(c.cached)),
                   written |-> Cell(told)]
             file == [ext |-> ".csv", size |-> 1, lines |-> <<y>>]
  <1>1. /\ c.ts \in Nat /\ c.model # NoValue /\ c.tag # NoValue
        /\ c.prompt \in Nat /\ c.completion \in Nat /\ c.cached \in Nat /\ c.written \in Nat
        /\ c.prompt - c.cached - c.written \in Nat
        /\ c.prompt \in 0 .. MaxCount /\ c.completion \in 0 .. MaxCount
        /\ c.cached \in 0 .. MaxCount /\ c.written \in 0 .. MaxCount
    BY MadeCalls DEF IsTold
  <1>2. NoValue \notin Int /\ NoValue \notin [kind : {"int", "text", "null", "junk"}, n : Int]
    BY CallsAssumption
  <1>3. \A n \in Nat : Tally([kind |-> "int", n |-> n]) = n
    <2> SUFFICES ASSUME NEW n \in Nat PROVE Tally([kind |-> "int", n |-> n]) = n
      OBVIOUS
    <2>1. IsNumber([kind |-> "int", n |-> n], n)
      BY DEF IsNumber
    <2>2. Coerced([kind |-> "int", n |-> n]) = n
      BY <2>1, NumbersAreRead
    <2> QED BY <1>2, <2>2 DEF Tally, IsCount
  <1>4. Extracted(l, c.ts, c.tag) = x
    <2> DEFINE asked == IF s = "anthropic" THEN c.prompt - c.cached - c.written ELSE c.prompt
    <2>1. /\ l.shape = s /\ l.model = c.model /\ l.in = [kind |-> "int", n |-> asked]
          /\ l.out = [kind |-> "int", n |-> c.completion]
          /\ l.cached = [kind |-> "int", n |-> c.cached] /\ l.written = [kind |-> "int", n |-> c.written]
      BY DEF Export
    <2>2. asked \in Nat
      BY <1>1
    <2> HIDE DEF l, asked
    <2>3. /\ Tally(l.in) = asked /\ Tally(l.out) = c.completion
          /\ Tally(l.cached) = c.cached /\ Tally(l.written) = c.written
      BY <1>1, <1>3, <2>1, <2>2
    <2>4. (IF l.shape = "anthropic" THEN Tally(l.cached) + Tally(l.written) ELSE 0) + Tally(l.in) = c.prompt
      BY <1>1, <2>1, <2>3 DEF asked
    <2>5. Tally(l.in) + (IF l.shape = "anthropic" THEN Tally(l.cached) + Tally(l.written) ELSE 0) = c.prompt
      BY <1>1, <2>1, <2>3 DEF asked
    <2> QED BY <2>1, <2>3, <2>5 DEF Extracted
  <1>5. Admitted(x)
    <2>1. ASSUME NEW n \in 0 .. MaxCount
          PROVE  Num(n) # NoValue /\ Num(n).kind = "int" /\ Num(n).n \in 0 .. MaxCount
      <3>1. Num(n) \in [kind : {"int", "text", "null", "junk"}, n : Int]
        BY DEF Num
      <3> QED BY <1>2, <3>1 DEF Num
    <2>2. [kind |-> "text", n |-> c.ts] # NoValue
      <3>1. [kind |-> "text", n |-> c.ts] \in [kind : {"int", "text", "null", "junk"}, n : Int]
        BY <1>1
      <3> QED BY <1>2, <3>1
    <2>3. /\ x.ts = [kind |-> "text", n |-> c.ts] /\ x.model = c.model /\ x.in = Num(c.prompt)
          /\ x.out = Num(c.completion) /\ x.cached = Num(c.cached) /\ x.written = told /\ x.max = NoValue
      OBVIOUS
    <2> HIDE DEF x
    <2> QED BY <1>1, <2>1, <2>2, <2>3 DEF Admitted
  <1>6. [x EXCEPT !.shape = "csv", !.in = Cell(@), !.out = Cell(@), !.cached = Cell(@), !.written = Cell(@),
                  !.max = Cell(@)] = y
    <2> DEFINE z == [x EXCEPT !.shape = "csv", !.in = Cell(@), !.out = Cell(@), !.cached = Cell(@),
                              !.written = Cell(@), !.max = Cell(@)]
    <2>1. /\ DOMAIN x = {"shape", "model", "ts", "tag", "id", "hash", "text", "max", "in", "out", "cached", "written"}
          /\ DOMAIN y = DOMAIN x
      OBVIOUS
    <2>2. Cell(NoValue) = NoValue
      BY DEF Cell
    <2>3. /\ x.model = y.model /\ x.ts = y.ts /\ x.tag = y.tag /\ x.id = y.id /\ x.hash = y.hash
          /\ x.text = y.text /\ Cell(x.max) = y.max /\ Cell(x.in) = y.in /\ Cell(x.out) = y.out
          /\ Cell(x.cached) = y.cached /\ Cell(x.written) = y.written /\ y.shape = "csv"
      BY <2>2
    <2>4. y = [k \in DOMAIN y |-> y[k]]
      OBVIOUS
    <2> HIDE DEF x, y
    <2>5. DOMAIN z = DOMAIN x /\ z = [k \in DOMAIN x |-> z[k]]
      OBVIOUS
    <2>6. \A k \in DOMAIN x : z[k] = y[k]
      <3>1. /\ z.shape = y.shape /\ z.model = y.model /\ z.ts = y.ts /\ z.tag = y.tag /\ z.id = y.id
            /\ z.hash = y.hash /\ z.text = y.text /\ z.max = y.max /\ z.in = y.in /\ z.out = y.out
            /\ z.cached = y.cached /\ z.written = y.written
        BY <2>1, <2>3
      <3> HIDE DEF z
      <3> QED BY <2>1, <3>1
    <2> HIDE DEF z
    <2>7. z = y
      BY <2>1, <2>4, <2>5, <2>6
    <2> QED BY <2>7 DEF z
  <1>7. Received(<<x>>) = Load(file)
    <2> DEFINE batch == <<x>>
               written(k) == [k EXCEPT !.shape = "csv", !.in = Cell(@), !.out = Cell(@),
                                       !.cached = Cell(@), !.written = Cell(@), !.max = Cell(@)]
    <2>1. DOMAIN batch = {1} /\ batch[1] = x
      OBVIOUS
    <2>2. Received(batch) =
             IF \A i \in DOMAIN batch : Admitted(batch[i])
             THEN Load([ext |-> ".csv", size |-> 1, lines |-> [i \in DOMAIN batch |-> written(batch[i])]])
             ELSE [ok |-> FALSE, records |-> {}, refused |-> {}]
      BY DEF Received
    <2>3. written(x) = y
      BY <1>6
    <2> HIDE DEF x, y, written, batch
    <2>4. [i \in DOMAIN batch |-> written(batch[i])] = <<y>>
      BY <2>1, <2>3
    <2> QED BY <1>5, <2>1, <2>2, <2>4 DEF batch
  <1>8. file.lines = <<y>> /\ file.size = 1 /\ file.ext = ".csv" /\ y.shape = "csv" /\ IsLine(y)
    BY DEF IsLine
  <1>9. Tells(CsvRow(y), Noticed(c, s))
    <2> DEFINE d == CsvRow(y)
               e == Noticed(c, s)
    <2>1. /\ d.prompt = Cell(Num(c.prompt)) /\ d.completion = Cell(Num(c.completion))
          /\ d.cached = Cell(Num(c.cached)) /\ d.written = Cell(told)
          /\ d.model = c.model /\ d.ts = [kind |-> "text", n |-> c.ts] /\ d.id = NoValue /\ d.tag = c.tag
          /\ d.hash = NoValue /\ d.text = NoValue /\ d.max = NoValue
      <3>1. /\ y.in = Cell(Num(c.prompt)) /\ y.out = Cell(Num(c.completion))
            /\ y.cached = Cell(Num(c.cached)) /\ y.written = Cell(told)
            /\ y.model = c.model /\ y.ts = [kind |-> "text", n |-> c.ts] /\ y.id = NoValue /\ y.tag = c.tag
            /\ y.hash = NoValue /\ y.max = NoValue
        OBVIOUS
      <3> HIDE DEF y
      <3> QED BY <1>8, <3>1, CsvRows
    <2>2. ASSUME NEW n \in Nat
          PROVE  Coerced(Cell(Num(n))) = n /\ CacheField(Cell(Num(n))) = n
      <3>1. Num(n) \in [kind : {"int", "text", "null", "junk"}, n : Int]
        BY DEF Num
      <3>2. Cell(Num(n)) = [kind |-> "text", n |-> n]
        BY <1>2, <3>1 DEF Cell, Num
      <3>3. IsNumber(Cell(Num(n)), n)
        BY <3>2 DEF IsNumber
      <3> QED BY <3>3, NumbersAreRead
    <2>3. Coerced([kind |-> "text", n |-> c.ts]) = c.ts /\ Coerced(NoValue) = NoValue /\ CacheField(NoValue) = 0
      <3>1. IsNumber([kind |-> "text", n |-> c.ts], c.ts)
        BY <1>1 DEF IsNumber
      <3> QED BY <3>1, NumbersAreRead
    <2>4. CacheField(d.written) = IF s = "openai" THEN 0 ELSE c.written
      BY <1>1, <2>1, <2>2, <2>3 DEF Cell
    <2>5. /\ e.hash = NoValue /\ e.max = NoValue /\ e.ts = c.ts /\ e.model = c.model /\ e.tag = c.tag
          /\ e.id = <<"row", 1>> /\ e.prompt = c.prompt /\ e.completion = c.completion
          /\ e.cached = c.cached /\ e.written = IF s = "openai" THEN 0 ELSE c.written
      BY NoticedCalls
    <2> HIDE DEF d, e, y
    <2>6. Tells(d, e)
      BY <1>1, <2>1, <2>2, <2>3, <2>4, <2>5 DEF Tells
    <2> QED BY <2>6 DEF d, e
  <1>10. ~Refused(CsvRow(y)) /\ Record(CsvRow(y), 1) = Noticed(c, s)
    BY <1>9, NoticedCalls, TellingRows
  <1>11. Parsed("csv", y) = CsvRow(y)
    BY DEF Parsed
  <1> HIDE DEF y, file
  <1>12. Load(file).records = {Record(Parsed("csv", y), 1)}
    BY <1>8, <1>10, <1>11, FileOfOneLine
  <1> QED BY <1>4, <1>7, <1>10, <1>11, <1>12

-----------------------------------------------------------------------------
(* One call in a transcript *)

\* Of the rows of one call the one that outranks all others stays.
LEMMA BestRowStays ==
    ASSUME NEW rows, NEW n \in Nat, DOMAIN rows = 1 .. n, NEW k \in 1 .. n,
           rows[k].id # NoValue,
           \A i \in 1 .. n : rows[i].id = rows[k].id /\ Completeness(rows[i]) \in Int,
           \A j \in (1 .. n) \ {k} : \/ Completeness(rows[k]) > Completeness(rows[j])
                                     \/ Completeness(rows[k]) = Completeness(rows[j]) /\ k > j
    PROVE  Deduped(rows) = <<rows[k]>>
  <1> DEFINE outranks(i, j) == \/ Completeness(rows[i]) > Completeness(rows[j])
                               \/ Completeness(rows[i]) = Completeness(rows[j]) /\ i > j
             kept == {i \in DOMAIN rows :
                         \/ rows[i].id = NoValue
                         \/ \A j \in DOMAIN rows \ {i} : rows[j].id = rows[i].id => outranks(i, j)}
  <1>1. Deduped(rows) = [m \in 1 .. Cardinality(kept) |->
                            rows[CHOOSE i \in kept : m = Cardinality({j \in kept : j <= i})]]
    BY DEF Deduped
  <1>2. k \in kept
    OBVIOUS
  <1>3. ASSUME NEW i \in kept, i # k
        PROVE  FALSE
    <2>1. i \in 1 .. n /\ outranks(i, k)
      BY <1>3
    <2>2. outranks(k, i)
      BY <1>3, <2>1
    <2>3. Completeness(rows[i]) \in Int /\ Completeness(rows[k]) \in Int
      BY <2>1
    <2> QED BY <2>1, <2>2, <2>3
  <1>4. kept = {k}
    BY <1>2, <1>3
  <1> HIDE DEF kept
  <1>5. k \in Int /\ k <= k
    OBVIOUS
  <1>6. Cardinality(kept) = 1 /\ {j \in kept : j <= k} = {k} /\ Cardinality({k}) = 1
    BY <1>4, <1>5, FS_Singleton
  <1> DEFINE pick(m) == CHOOSE i \in kept : m = Cardinality({j \in kept : j <= i})
  <1>7. pick(1) = k
    BY <1>4, <1>6
  <1>8. Deduped(rows) = [m \in 1 .. Cardinality(kept) |-> rows[pick(m)]]
    BY <1>1
  <1>9. 1 .. Cardinality(kept) = {1}
    BY <1>6
  <1> HIDE DEF pick
  <1>10. Deduped(rows) = [m \in {1} |-> rows[pick(m)]]
    BY <1>8, <1>9
  <1>11. [m \in {1} |-> rows[pick(m)]] = <<rows[k]>>
    BY <1>7
  <1> QED BY <1>10, <1>11

\* What a transcript holds of a call: the finished call, the call while it is streamed,
\* and that with its output still null
Whole(c) ==
    [model |-> c.model, ts |-> [kind |-> "text", n |-> c.ts], id |-> c.id[2], session |-> c.tag,
     in |-> Num(c.prompt - c.cached - c.written), out |-> Num(c.completion),
     cached |-> Num(c.cached), written |-> Num(c.written)]
Early(c) == [Whole(c) EXCEPT !.ts.n = @ - 1, !.out = Num(0)]
Empty(c) == [Early(c) EXCEPT !.out = [kind |-> "null", n |-> 0]]

\* The row of an event carries its counts; one that is null counts as zero.
LEMMA EventRows ==
    ASSUME NEW c \in Made
    PROVE  /\ EventRow(Whole(c)) =
                 [shape |-> "anthropic", model |-> c.model, ts |-> [kind |-> "text", n |-> c.ts],
                  id |-> c.id[2], tag |-> c.tag, hash |-> NoValue, text |-> NoValue, max |-> NoValue,
                  in |-> Num(c.prompt - c.cached - c.written), cached |-> Num(c.cached),
                  written |-> Num(c.written), out |-> Num(c.completion)]
           /\ EventRow(Whole(c)).id = c.id[2] /\ EventRow(Early(c)).id = c.id[2] /\ EventRow(Empty(c)).id = c.id[2]
           /\ Completeness(EventRow(Whole(c))) = c.prompt + c.completion
           /\ Completeness(EventRow(Early(c))) = c.prompt /\ Completeness(EventRow(Empty(c))) = c.prompt
           /\ ~Raises(Whole(c)) /\ ~Raises(Early(c)) /\ ~Raises(Empty(c))
  <1> DEFINE count(v) == Num(IF Present(v) THEN v.n ELSE 0)
             null == [kind |-> "null", n |-> 0]
             asked == c.prompt - c.cached - c.written
  <1>1. /\ c.prompt \in Nat /\ c.completion \in Nat /\ c.cached \in Nat /\ c.written \in Nat /\ asked \in Nat
    BY MadeCalls
  <1>2. \A n \in Nat : count(Num(n)) = Num(n) /\ Num(n).n = n
    <2> SUFFICES ASSUME NEW n \in Nat PROVE count(Num(n)) = Num(n) /\ Num(n).n = n
      OBVIOUS
    <2>1. Num(n) \in [kind : {"int", "text", "null", "junk"}, n : Int] /\ Num(n).kind = "int" /\ Num(n).n = n
      BY DEF Num
    <2>2. Num(n) # NoValue
      BY <2>1, CallsAssumption
    <2> QED BY <2>1, <2>2 DEF Present
  <1>3. count(null) = Num(0)
    BY DEF Present
  <1>4. /\ Whole(c).id = c.id[2] /\ Whole(c).model = c.model /\ Whole(c).ts = [kind |-> "text", n |-> c.ts]
        /\ Whole(c).session = c.tag /\ Whole(c).in = Num(asked) /\ Whole(c).out = Num(c.completion)
        /\ Whole(c).cached = Num(c.cached) /\ Whole(c).written = Num(c.written)
        /\ DOMAIN Whole(c) = {"model", "ts", "id", "session", "in", "out", "cached", "written"}
    BY DEF Whole
  <1>5. /\ Early(c).id = c.id[2] /\ Early(c).in = Num(asked) /\ Early(c).out = Num(0)
        /\ Early(c).cached = Num(c.cached) /\ Early(c).written = Num(c.written)
        /\ DOMAIN Early(c) = {"model", "ts", "id", "session", "in", "out", "cached", "written"}
    BY <1>4 DEF Early
  <1>6. /\ Empty(c).id = c.id[2] /\ Empty(c).in = Num(asked) /\ Empty(c).out = null
        /\ Empty(c).cached = Num(c.cached) /\ Empty(c).written = Num(c.written)
    BY <1>5 DEF Empty
  <1>11. ~Raises(Whole(c)) /\ ~Raises(Early(c)) /\ ~Raises(Empty(c))
    <2>1. \A n \in Nat : Coerced(Num(n)) # NoValue
      <3> SUFFICES ASSUME NEW n \in Nat PROVE Coerced(Num(n)) # NoValue
        OBVIOUS
      <3>1. IsNumber(Num(n), n)
        BY DEF IsNumber, Num
      <3> QED BY <3>1, NumbersAreRead, CallsAssumption
    <2>2. ~Present(null)
      BY DEF Present
    <2> HIDE DEF null
    <2> QED BY <1>1, <1>4, <1>5, <1>6, <2>1, <2>2 DEF Raises
  <1>7. \A e : EventRow(e) =
                 [shape |-> "anthropic", model |-> e.model, ts |-> e.ts, id |-> e.id, tag |-> e.session,
                  hash |-> NoValue, text |-> NoValue, max |-> NoValue,
                  in |-> count(e.in), cached |-> count(e.cached), written |-> count(e.written),
                  out |-> count(e.out)]
    BY DEF EventRow
  <1> HIDE DEF count, null
  <1>8. \A e : /\ EventRow(e).id = e.id /\ EventRow(e).in = count(e.in) /\ EventRow(e).cached = count(e.cached)
               /\ EventRow(e).written = count(e.written) /\ EventRow(e).out = count(e.out)
    BY <1>7
  <1>9. /\ Completeness(EventRow(Whole(c))) = c.prompt + c.completion
        /\ Completeness(EventRow(Early(c))) = c.prompt /\ Completeness(EventRow(Empty(c))) = c.prompt
    BY <1>1, <1>2, <1>3, <1>4, <1>5, <1>6, <1>8 DEF Completeness
  <1>10. EventRow(Whole(c)) =
                 [shape |-> "anthropic", model |-> c.model, ts |-> [kind |-> "text", n |-> c.ts],
                  id |-> c.id[2], tag |-> c.tag, hash |-> NoValue, text |-> NoValue, max |-> NoValue,
                  in |-> Num(asked), cached |-> Num(c.cached),
                  written |-> Num(c.written), out |-> Num(c.completion)]
    BY <1>1, <1>2, <1>4, <1>7
  <1> QED BY <1>4, <1>5, <1>6, <1>8, <1>9, <1>10, <1>11

\* However often a transcript repeats a call, the collector ships its finished row once.
LEMMA TranscriptsShipOnce ==
    ASSUME NEW c \in Made, NEW es \in Events(c)
    PROVE  Transcript(es) = [ext |-> ".jsonl", size |-> 1, lines |-> <<EventRow(Whole(c))>>]
  <1> DEFINE w == Whole(c)
             a == Early(c)
             b == Empty(c)
             rows == [i \in DOMAIN es |-> EventRow(es[i])]
  <1>1. /\ EventRow(w).id = c.id[2] /\ EventRow(a).id = c.id[2] /\ EventRow(b).id = c.id[2]
        /\ Completeness(EventRow(w)) = c.prompt + c.completion
        /\ Completeness(EventRow(a)) = c.prompt /\ Completeness(EventRow(b)) = c.prompt
        /\ ~Raises(w) /\ ~Raises(a) /\ ~Raises(b)
    BY EventRows
  <1>2. c.id[2] # NoValue /\ c.prompt \in Nat /\ c.completion \in Nat /\ c.completion > 0
    BY MadeCalls
  <1>3. \/ es = <<w>>
        \/ es = <<a, w>>
        \/ es = <<b, w, w>>
        \/ es = <<w, a>>
        \/ es = <<w, b, w>>
    BY DEF Events, Whole, Early, Empty
  <1> HIDE DEF w, a, b
  <1>4. \E n \in Nat : \E k \in 1 .. n :
            /\ DOMAIN es = 1 .. n /\ es[k] = w /\ \A i \in 1 .. n : es[i] \in {w, a, b}
            /\ \A i \in (1 .. n) \ {k} : es[i] = w => k > i
    <2>1. CASE es = <<w>>
      <3>1. DOMAIN es = 1 .. 1 /\ es[1] = w
        BY <2>1
      <3>2. 1 \in Nat /\ 1 \in 1 .. 1 /\ (\A i \in 1 .. 1 : i = 1)
        OBVIOUS
      <3> QED BY <3>1, <3>2
    <2>2. CASE es = <<a, w>>
      <3>1. DOMAIN es = 1 .. 2 /\ es[1] = a /\ es[2] = w
        BY <2>2
      <3>2. 2 \in Nat /\ 2 \in 1 .. 2 /\ (\A i \in 1 .. 2 : i = 1 \/ i = 2) /\ 2 > 1
        OBVIOUS
      <3> QED BY <3>1, <3>2
    <2>3. CASE es = <<b, w, w>>
      <3>1. DOMAIN es = 1 .. 3 /\ es[1] = b /\ es[2] = w /\ es[3] = w
        BY <2>3
      <3>2. 3 \in Nat /\ 3 \in 1 .. 3 /\ (\A i \in 1 .. 3 : i = 1 \/ i = 2 \/ i = 3) /\ 3 > 1 /\ 3 > 2
        OBVIOUS
      <3> QED BY <3>1, <3>2
    <2>4. CASE es = <<w, a>>
      <3>1. DOMAIN es = 1 .. 2 /\ es[1] = w /\ es[2] = a
        BY <2>4
      <3>2. 2 \in Nat /\ 1 \in 1 .. 2 /\ (\A i \in 1 .. 2 : i = 1 \/ i = 2)
        OBVIOUS
      <3>3. a # w
        BY <1>1, <1>2
      <3> QED BY <3>1, <3>2, <3>3
    <2>5. CASE es = <<w, b, w>>
      <3>1. DOMAIN es = 1 .. 3 /\ es[1] = w /\ es[2] = b /\ es[3] = w
        BY <2>5
      <3>2. 3 \in Nat /\ 3 \in 1 .. 3 /\ (\A i \in 1 .. 3 : i = 1 \/ i = 2 \/ i = 3) /\ 3 > 1 /\ 3 > 2
        OBVIOUS
      <3> QED BY <3>1, <3>2
    <2> QED BY <1>3, <2>1, <2>2, <2>3, <2>4, <2>5
  <1>5. PICK n \in Nat : \E k \in 1 .. n :
            /\ DOMAIN es = 1 .. n /\ es[k] = w /\ \A i \in 1 .. n : es[i] \in {w, a, b}
            /\ \A i \in (1 .. n) \ {k} : es[i] = w => k > i
    BY <1>4
  <1>6. PICK k \in 1 .. n :
            /\ DOMAIN es = 1 .. n /\ es[k] = w /\ \A i \in 1 .. n : es[i] \in {w, a, b}
            /\ \A i \in (1 .. n) \ {k} : es[i] = w => k > i
    BY <1>5
  <1>7. DOMAIN rows = 1 .. n /\ (\A i \in 1 .. n : rows[i] = EventRow(es[i])) /\ rows[k] = EventRow(w)
    BY <1>6
  <1> HIDE DEF rows
  <1>8. rows[k].id # NoValue /\ (\A i \in 1 .. n : rows[i].id = rows[k].id /\ Completeness(rows[i]) \in Int)
    BY <1>1, <1>2, <1>6, <1>7
  <1>9. \A j \in (1 .. n) \ {k} : \/ Completeness(rows[k]) > Completeness(rows[j])
                                  \/ Completeness(rows[k]) = Completeness(rows[j]) /\ k > j
    BY <1>1, <1>2, <1>6, <1>7
  <1>10. Deduped(rows) = <<EventRow(w)>>
    BY <1>7, <1>8, <1>9, BestRowStays
  <1>11. ~ \E i \in DOMAIN es : Raises(es[i])
    BY <1>1, <1>6
  <1> QED BY <1>10, <1>11 DEF Transcript, rows, w

\* A count that int cannot read ends the export, and nothing is shipped.
LEMMA JunkIsNotShipped ==
    ASSUME NEW c \in Made, NEW es \in Events(c), NEW i \in DOMAIN es,
           NEW k \in {"in", "out", "cached", "written"}
    PROVE  ~Enforced(Load(Transcript([es EXCEPT ![i] = [@ EXCEPT ![k] = [kind |-> "junk", n |-> 0]]])))
  <1> DEFINE e == [es[i] EXCEPT ![k] = Junk]
             fs == [es EXCEPT ![i] = e]
             file == Transcript(fs)
  <1>1. k \in DOMAIN es[i]
    <2>1. es[i] \in {Whole(c), Early(c), Empty(c)}
      BY DEF Events, Whole, Early, Empty
    <2>2. {"in", "out", "cached", "written"} \subseteq DOMAIN Whole(c)
      BY DEF Whole
    <2>3. DOMAIN Early(c) = DOMAIN Whole(c) /\ DOMAIN Empty(c) = DOMAIN Early(c)
      BY DEF Early, Empty
    <2> QED BY <2>1, <2>2, <2>3
  <1>2. e[k] = Junk /\ DOMAIN fs = DOMAIN es /\ fs[i] = e
    BY <1>1
  <1>3. Present(Junk) /\ Coerced(Junk) = NoValue
    <2>1. Junk \in [kind : {"int", "text", "null", "junk"}, n : Int] /\ Junk.kind = "junk"
      BY DEF Junk
    <2> QED BY <2>1, NumbersAreRead, CallsAssumption DEF Present
  <1> HIDE DEF e
  <1>4. Raises(e)
    BY <1>2, <1>3 DEF Raises
  <1> HIDE DEF fs
  <1>5. file.size = 0
    BY <1>2, <1>4 DEF Transcript
  <1> HIDE DEF file
  <1>6. ~Load(file).ok
    BY <1>5 DEF Load, Acceptable
  <1> QED BY <1>6 DEF Enforced, file, fs, e, Junk

\* ... and the file it ships gives the record of the call.
LEMMA TranscriptsAreRead ==
    ASSUME NEW c \in Made, NEW es \in Events(c)
    PROVE  Load(Transcript(es)).records = {PlainRecord(c)}
  <1> DEFINE l == EventRow(Whole(c))
             file == Transcript(es)
             d == AnthropicRow(l)
             e == PlainRecord(c)
             asked == c.prompt - c.cached - c.written
  <1>1. file = [ext |-> ".jsonl", size |-> 1, lines |-> <<l>>]
    BY TranscriptsShipOnce
  <1>2. /\ l.shape = "anthropic" /\ l.model = c.model /\ l.ts = [kind |-> "text", n |-> c.ts]
        /\ l.id = c.id[2] /\ l.tag = c.tag /\ l.hash = NoValue /\ l.text = NoValue /\ l.max = NoValue
        /\ l.in = Num(asked) /\ l.cached = Num(c.cached)
        /\ l.written = Num(c.written) /\ l.out = Num(c.completion)
    BY EventRows
  <1>3. /\ c.ts \in Nat /\ c.id = <<"id", c.id[2]>> /\ c.id[2] # NoValue /\ c.tag # NoValue
        /\ c.prompt \in Nat /\ c.completion \in Nat /\ c.cached \in Nat /\ c.written \in Nat /\ asked \in Nat
    BY MadeCalls DEF IsTold
  <1>4. /\ IsTold(e) /\ e.hash = NoValue /\ e.max = NoValue /\ e.ts = c.ts /\ e.model = c.model
        /\ e.id = c.id /\ e.tag = c.tag /\ e.prompt = c.prompt /\ e.completion = c.completion
        /\ e.cached = c.cached /\ e.written = c.written
    BY PlainRecords
  <1>5. \A n \in Nat : /\ Coerced(Num(n)) = n /\ CacheField(Num(n)) = n /\ Intlike(Num(n)) = n /\ Part(Num(n)) = n
    <2> SUFFICES ASSUME NEW n \in Nat
                 PROVE  Coerced(Num(n)) = n /\ CacheField(Num(n)) = n /\ Intlike(Num(n)) = n /\ Part(Num(n)) = n
      OBVIOUS
    <2>1. IsNumber(Num(n), n) /\ Num(n).kind = "int"
      BY DEF IsNumber, Num
    <2> QED BY <2>1, NumbersAreRead
  <1>6. Coerced([kind |-> "text", n |-> c.ts]) = c.ts /\ Coerced(NoValue) = NoValue
    <2>1. IsNumber([kind |-> "text", n |-> c.ts], c.ts)
      BY <1>3 DEF IsNumber
    <2> QED BY <2>1, NumbersAreRead
  <1> HIDE DEF l, file, asked
  <1>7. PromptTotal(l) = Num(c.prompt)
    <2>1. Wears(l, "anthropic", l.in) = Num(asked)
      BY <1>2 DEF Wears
    <2>2. Intlike(l.in) = asked /\ Part(l.cached) = c.cached /\ Part(l.written) = c.written
      BY <1>2, <1>3, <1>5
    <2>3. NoValue \notin {asked, c.cached, c.written}
      <3>1. NoValue \notin Int
        BY CallsAssumption
      <3> QED BY <1>3, <3>1
    <2>4. asked + c.cached + c.written = c.prompt
      BY <1>3 DEF asked
    <2> QED BY <1>2, <2>1, <2>2, <2>3, <2>4 DEF PromptTotal
  <1>8. /\ d.prompt = Num(c.prompt) /\ d.completion = Num(c.completion)
        /\ d.cached = Num(c.cached) /\ d.written = Num(c.written)
        /\ d.model = l.model /\ d.ts = l.ts /\ d.id = l.id /\ d.tag = l.tag
        /\ d.hash = l.hash /\ d.text = l.text /\ d.max = l.max
    <2>1. Wears(l, "anthropic", l.out) = Num(c.completion)
      BY <1>2 DEF Wears
    <2>2. Part(l.cached) = c.cached /\ Part(l.written) = c.written /\ c.cached # NoValue /\ c.written # NoValue
      <3>1. NoValue \notin Int
        BY CallsAssumption
      <3> QED BY <1>2, <1>3, <1>5, <3>1
    <2> QED BY <1>7, <2>1, <2>2 DEF AnthropicRow, OpenAIRow
  <1> HIDE DEF d, e
  <1>9. Tells(d, e)
    BY <1>2, <1>3, <1>4, <1>5, <1>6, <1>8 DEF Tells
  <1>10. ~Refused(d) /\ Record(d, 1) = e
    BY <1>4, <1>9, TellingRows
  <1>11. Parsed("anthropic", l) = d
    BY DEF Parsed, d
  <1>12. file.lines = <<l>> /\ file.size = 1 /\ file.ext = ".jsonl"
    BY <1>1
  <1>13. Load(file).records = {Record(Parsed("anthropic", l), 1)}
    BY <1>2, <1>10, <1>11, <1>12, FileOfOneLine
  <1> QED BY <1>10, <1>11, <1>13 DEF file, e

-----------------------------------------------------------------------------
(* Whoever reports a call, it is read the same *)

\* An audit of one call reads a call that was made.
MadeInv == Has("call") => work.of \in Made

\* An audit starts with such a call
LEMMA CallStarts == AuditInit => MadeInv
  <1> SUFFICES ASSUME AuditInit, Has("call") PROVE work.of \in Made
    BY DEF MadeInv
  <1>1. work # NoValue /\ work.kind = "call"
    BY DEF Has
  <1> QED BY <1>1 DEF AuditInit

\* ... and keeps it.
LEMMA CallStays == MadeInv /\ [AuditNext]_auditVars => MadeInv'
  <1> SUFFICES ASSUME MadeInv, [AuditNext]_auditVars PROVE MadeInv'
    OBVIOUS
  <1>1. CASE AuditNext
    BY <1>1 DEF AuditNext, MadeInv, Has
  <1>2. CASE UNCHANGED auditVars
    BY <1>2 DEF auditVars, MadeInv, Has
  <1> QED BY <1>1, <1>2

\* What the exports, the SDK and the transcripts say of it is read the same, and calls
\* without writes to the cache cost what the account's totals cost.
LEMMA AllReadAlike == MadeInv /\ WorkInv => ReadAlike
  <1> SUFFICES ASSUME MadeInv, WorkInv PROVE ReadAlike
    OBVIOUS
  <1>1. ASSUME Has("call")
        PROVE  LET c == work.of
                   counted == [c EXCEPT !.hash = NoValue, !.max = NoValue]
                   seen(shape) == [counted EXCEPT !.id = <<"row", 1>>,
                                                  !.written = IF shape = "openai" THEN 0 ELSE @]
                   junk(shape, k) == [Export(c, shape) EXCEPT ![k] = [kind |-> "junk", n |-> 0]]
                   unread(es, i, k) == [es EXCEPT ![i] = [@ EXCEPT ![k] = [kind |-> "junk", n |-> 0]]]
               IN  /\ \A s \in Shapes : Load(FileOf(Export(c, s))).records = {c}
                   /\ \A s \in {"openai", "anthropic"} :
                         Received(<<Extracted(Export(c, s), c.ts, c.tag)>>).records = {seen(s)}
                   /\ \A es \in Events(c) : Load(Transcript(es)).records = {counted}
                   /\ \A k \in {"in", "out", "cached", "written"} :
                         /\ \A s \in Shapes : ~Enforced(Load(FileOf(junk(s, k))))
                         /\ \A es \in Events(c) :
                               \A i \in DOMAIN es : ~Enforced(Load(Transcript(unread(es, i, k))))
    <2> DEFINE c == work.of
    <2>1. c \in Made
      BY <1>1 DEF MadeInv
    <2> HIDE DEF c
    <2>2. \A s \in Shapes : Load(FileOf(Export(c, s))).records = {c}
      BY <2>1, ExportsAreRead
    <2>3. \A s \in {"openai", "anthropic"} :
             Received(<<Extracted(Export(c, s), c.ts, c.tag)>>).records = {Noticed(c, s)}
      BY <2>1, SdkLinesAreRead
    <2>4. \A es \in Events(c) : Load(Transcript(es)).records = {PlainRecord(c)}
      BY <2>1, TranscriptsAreRead
    <2>5. \A s \in Shapes, k \in {"in", "out", "cached", "written"} :
             ~Enforced(Load(FileOf([Export(c, s) EXCEPT ![k] = [kind |-> "junk", n |-> 0]])))
      BY <2>1, JunkIsNotAudited
    <2>8. \A es \in Events(c) : \A i \in DOMAIN es : \A k \in {"in", "out", "cached", "written"} :
             ~Enforced(Load(Transcript([es EXCEPT ![i] = [@ EXCEPT ![k] = [kind |-> "junk", n |-> 0]]])))
      BY <2>1, JunkIsNotShipped
    <2>6. \A s : Noticed(c, s) = [[c EXCEPT !.hash = NoValue, !.max = NoValue]
                                     EXCEPT !.id = <<"row", 1>>, !.written = IF s = "openai" THEN 0 ELSE @]
      BY DEF Noticed, PlainRecord
    <2>7. PlainRecord(c) = [c EXCEPT !.hash = NoValue, !.max = NoValue]
      BY DEF PlainRecord
    <2> QED BY <2>2, <2>3, <2>4, <2>5, <2>6, <2>7, <2>8 DEF c
  <1>2. ASSUME Has("log"), \A r \in work.of : r.written = 0 /\ r.cached <= r.prompt
        PROVE  Spend(work.of, Card) = AccountSpend(Buckets(work.of), Card)
    <2> DEFINE U == work.of
               t == Card
    <2>1. Fit(U, t)
      BY <1>2, LogsFit
    <2>2. \A b \in Buckets(U) : b.cached <= b.prompt
      BY <1>2, AuditsAssumption DEF WorkInv
    <2>3. \A r \in U : r.written = 0 /\ r.cached <= r.prompt
      BY <1>2
    <2> HIDE DEF U, t
    <2>4. FitTotals(Buckets(U), t)
      BY <2>1, <2>2, TotalsFit
    <2>5. Spend(U, t) = AccountSpend(Buckets(U), t)
      BY <2>1, <2>3, <2>4, TotalsCostTheirCalls
    <2> QED BY <2>5 DEF U, t
  <1> QED BY <1>1, <1>2 DEF ReadAlike

\* Always: one call gives one record, the same whoever reports it; a count that cannot be
\* read is never taken for a zero; and the totals of an account cost what its calls cost
\* (ReadAlike).
THEOREM CallsReadAlike == AuditSpec => []ReadAlike
  <1>1. AuditSpec => []WorkInv
    BY WorkStarts, WorkStays, PTL DEF AuditSpec
  <1>2. AuditSpec => []MadeInv
    BY CallStarts, CallStays, PTL DEF AuditSpec
  <1> QED BY <1>1, <1>2, AllReadAlike, PTL

-----------------------------------------------------------------------------
(* The sums of a pull *)

\* What is the sum of three weights adds up to the sum of their sums.
LEMMA SumsTogether ==
    ASSUME NEW S, NEW g, NEW a, NEW b, NEW c, Weighs(a, S), Weighs(b, S), Weighs(c, S),
           \A x \in S : g[x] = a[x] + b[x] + c[x]
    PROVE  SumUp(g, S) = SumUp(a, S) + SumUp(b, S) + SumUp(c, S)
  <1> DEFINE F == {T \in SUBSET S : SumUp(g, T) = SumUp(a, T) + SumUp(b, T) + SumUp(c, T)}
  <1>1. Weighs(g, S) /\ IsFiniteSet(S)
    BY DEF Weighs
  <1>2. \A u \in {g, a, b, c} : /\ SumUp(u, {}) = 0 /\ (\A T \in SUBSET S : SumUp(u, T) \in Int)
                                /\ \A T \in SUBSET S : \A x \in S \ T : SumUp(u, T \cup {x}) = u[x] + SumUp(u, T)
    BY <1>1, SumUpRules
  <1>3. {} \in F
    BY <1>2
  <1>4. ASSUME NEW T \in SUBSET S, NEW x \in S \ T, T \in F PROVE T \cup {x} \in F
    <2>1. \A u \in {g, a, b, c} : SumUp(u, T) \in Int /\ u[x] \in Int
      BY <1>1, <1>2 DEF Weighs
    <2>2. \A u \in {g, a, b, c} : SumUp(u, T \cup {x}) = u[x] + SumUp(u, T)
      BY <1>2
    <2>3. g[x] = a[x] + b[x] + c[x] /\ SumUp(g, T) = SumUp(a, T) + SumUp(b, T) + SumUp(c, T)
      BY <1>4
    <2> QED BY <2>1, <2>2, <2>3
  <1>5. S \in F
    <2> HIDE DEF F
    <2> QED BY <1>1, <1>3, <1>4, SetInduction
  <1> QED BY <1>5

\* What is weighed under another name, one for each, weighs the same.
LEMMA SumMoved ==
    ASSUME NEW S, NEW T, NEW f \in [S -> T], NEW g, NEW k, IsFiniteSet(S), Weighs(k, T),
           \A x, y \in S : f[x] = f[y] => x = y,
           \A z \in T : \E x \in S : f[x] = z,
           \A x \in S : g[x] = k[f[x]]
    PROVE  SumUp(g, S) = SumUp(k, T)
  <1> DEFINE im(A) == {f[x] : x \in A}
             F == {A \in SUBSET S : SumUp(g, A) = SumUp(k, im(A))}
  <1>1. Weighs(g, S)
    BY DEF Weighs
  <1>2. /\ SumUp(g, {}) = 0 /\ SumUp(k, {}) = 0
        /\ \A A \in SUBSET S : \A x \in S \ A : SumUp(g, A \cup {x}) = g[x] + SumUp(g, A)
        /\ \A A \in SUBSET T : \A x \in T \ A : SumUp(k, A \cup {x}) = k[x] + SumUp(k, A)
    BY <1>1, SumUpRules
  <1>3. {} \in F
    <2>1. im({}) = {}
      OBVIOUS
    <2> HIDE DEF im
    <2> QED BY <1>2, <2>1
  <1>4. ASSUME NEW A \in SUBSET S, NEW x \in S \ A, A \in F PROVE A \cup {x} \in F
    <2>1. im(A \cup {x}) = im(A) \cup {f[x]} /\ im(A) \in SUBSET T /\ f[x] \in T \ im(A)
      OBVIOUS
    <2> HIDE DEF im
    <2>2. SumUp(g, A) = SumUp(k, im(A))
      BY <1>4
    <2>3. SumUp(g, A \cup {x}) = g[x] + SumUp(g, A)
      BY <1>2
    <2>4. SumUp(k, im(A) \cup {f[x]}) = k[f[x]] + SumUp(k, im(A))
      BY <1>2, <2>1
    <2> QED BY <2>1, <2>2, <2>3, <2>4
  <1>5. S \in F
    <2> HIDE DEF F
    <2> QED BY <1>3, <1>4, SetInduction
  <1>6. im(S) = T
    OBVIOUS
  <1> QED BY <1>5, <1>6

\* The figures of an answer are such a sum,
LEMMA FiguresAddUp ==
    ASSUME NEW P, NEW g, Weighs(g, P),
           \A h \in P : g[h] = h.figure.n
    PROVE  MapThenSumSet(LAMBDA h : h.figure.n, P) = SumUp(g, P)
  <1> DEFINE e(s) == Pick(s).figure.n
             Rec(i) == i = [s \in SUBSET P |-> IF s = {} THEN 0 ELSE e(s) + i[s \ {Pick(s)}]]
             iter == CHOOSE i : Rec(i)
  <1>1. MapThenSumSet(LAMBDA h : h.figure.n, P) = iter[P]
    BY DEF MapThenSumSet, MapThenFoldSet, Pick
  <1>2. \A s \in SUBSET P : s # {} => g[Pick(s)] = e(s)
    BY Picked
  <1> HIDE DEF e
  <1>3. \A i : Rec(i) <=> FoldOf(g, P, i)
    <2>1. ASSUME NEW i
          PROVE  [s \in SUBSET P |-> IF s = {} THEN 0 ELSE e(s) + i[s \ {Pick(s)}]]
                 = [s \in SUBSET P |-> IF s = {} THEN 0 ELSE g[Pick(s)] + i[s \ {Pick(s)}]]
      BY <1>2
    <2> QED BY <2>1 DEF FoldOf
  <1>4. Rec(iter)
    <2>1. \E i : Rec(i)
      BY <1>3, FoldIs
    <2> HIDE DEF Rec
    <2> QED BY <2>1
  <1> HIDE DEF Rec, iter
  <1> QED BY <1>1, <1>3, <1>4, FoldIs

\* and so are the calls of what was used,
LEMMA CallsAddUp ==
    ASSUME NEW P, NEW g, Weighs(g, P),
           \A u \in P : g[u] = u.calls
    PROVE  MapThenSumSet(LAMBDA u : u.calls, P) = SumUp(g, P)
  <1> DEFINE e(s) == Pick(s).calls
             Rec(i) == i = [s \in SUBSET P |-> IF s = {} THEN 0 ELSE e(s) + i[s \ {Pick(s)}]]
             iter == CHOOSE i : Rec(i)
  <1>1. MapThenSumSet(LAMBDA u : u.calls, P) = iter[P]
    BY DEF MapThenSumSet, MapThenFoldSet, Pick
  <1>2. \A s \in SUBSET P : s # {} => g[Pick(s)] = e(s)
    BY Picked
  <1> HIDE DEF e
  <1>3. \A i : Rec(i) <=> FoldOf(g, P, i)
    <2>1. ASSUME NEW i
          PROVE  [s \in SUBSET P |-> IF s = {} THEN 0 ELSE e(s) + i[s \ {Pick(s)}]]
                 = [s \in SUBSET P |-> IF s = {} THEN 0 ELSE g[Pick(s)] + i[s \ {Pick(s)}]]
      BY <1>2
    <2> QED BY <2>1 DEF FoldOf
  <1>4. Rec(iter)
    <2>1. \E i : Rec(i)
      BY <1>3, FoldIs
    <2> HIDE DEF Rec
    <2> QED BY <2>1
  <1> HIDE DEF Rec, iter
  <1> QED BY <1>1, <1>3, <1>4, FoldIs

\* its whole prompts,
LEMMA WholePromptsAddUp ==
    ASSUME NEW P, NEW g, Weighs(g, P),
           \A u \in P : g[u] = u.input + u.read + u.write
    PROVE  MapThenSumSet(LAMBDA u : u.input + u.read + u.write, P) = SumUp(g, P)
  <1> DEFINE e(s) == Pick(s).input + Pick(s).read + Pick(s).write
             Rec(i) == i = [s \in SUBSET P |-> IF s = {} THEN 0 ELSE e(s) + i[s \ {Pick(s)}]]
             iter == CHOOSE i : Rec(i)
  <1>1. MapThenSumSet(LAMBDA u : u.input + u.read + u.write, P) = iter[P]
    BY DEF MapThenSumSet, MapThenFoldSet, Pick
  <1>2. \A s \in SUBSET P : s # {} => g[Pick(s)] = e(s)
    BY Picked
  <1> HIDE DEF e
  <1>3. \A i : Rec(i) <=> FoldOf(g, P, i)
    <2>1. ASSUME NEW i
          PROVE  [s \in SUBSET P |-> IF s = {} THEN 0 ELSE e(s) + i[s \ {Pick(s)}]]
                 = [s \in SUBSET P |-> IF s = {} THEN 0 ELSE g[Pick(s)] + i[s \ {Pick(s)}]]
      BY <1>2
    <2> QED BY <2>1 DEF FoldOf
  <1>4. Rec(iter)
    <2>1. \E i : Rec(i)
      BY <1>3, FoldIs
    <2> HIDE DEF Rec
    <2> QED BY <2>1
  <1> HIDE DEF Rec, iter
  <1> QED BY <1>1, <1>3, <1>4, FoldIs

\* its outputs
LEMMA OutputsAddUp ==
    ASSUME NEW P, NEW g, Weighs(g, P),
           \A u \in P : g[u] = u.output
    PROVE  MapThenSumSet(LAMBDA u : u.output, P) = SumUp(g, P)
  <1> DEFINE e(s) == Pick(s).output
             Rec(i) == i = [s \in SUBSET P |-> IF s = {} THEN 0 ELSE e(s) + i[s \ {Pick(s)}]]
             iter == CHOOSE i : Rec(i)
  <1>1. MapThenSumSet(LAMBDA u : u.output, P) = iter[P]
    BY DEF MapThenSumSet, MapThenFoldSet, Pick
  <1>2. \A s \in SUBSET P : s # {} => g[Pick(s)] = e(s)
    BY Picked
  <1> HIDE DEF e
  <1>3. \A i : Rec(i) <=> FoldOf(g, P, i)
    <2>1. ASSUME NEW i
          PROVE  [s \in SUBSET P |-> IF s = {} THEN 0 ELSE e(s) + i[s \ {Pick(s)}]]
                 = [s \in SUBSET P |-> IF s = {} THEN 0 ELSE g[Pick(s)] + i[s \ {Pick(s)}]]
      BY <1>2
    <2> QED BY <2>1 DEF FoldOf
  <1>4. Rec(iter)
    <2>1. \E i : Rec(i)
      BY <1>3, FoldIs
    <2> HIDE DEF Rec
    <2> QED BY <2>1
  <1> HIDE DEF Rec, iter
  <1> QED BY <1>1, <1>3, <1>4, FoldIs

\* and what it read from the cache.
LEMMA CacheReadsAddUp ==
    ASSUME NEW P, NEW g, Weighs(g, P),
           \A u \in P : g[u] = u.read
    PROVE  MapThenSumSet(LAMBDA u : u.read, P) = SumUp(g, P)
  <1> DEFINE e(s) == Pick(s).read
             Rec(i) == i = [s \in SUBSET P |-> IF s = {} THEN 0 ELSE e(s) + i[s \ {Pick(s)}]]
             iter == CHOOSE i : Rec(i)
  <1>1. MapThenSumSet(LAMBDA u : u.read, P) = iter[P]
    BY DEF MapThenSumSet, MapThenFoldSet, Pick
  <1>2. \A s \in SUBSET P : s # {} => g[Pick(s)] = e(s)
    BY Picked
  <1> HIDE DEF e
  <1>3. \A i : Rec(i) <=> FoldOf(g, P, i)
    <2>1. ASSUME NEW i
          PROVE  [s \in SUBSET P |-> IF s = {} THEN 0 ELSE e(s) + i[s \ {Pick(s)}]]
                 = [s \in SUBSET P |-> IF s = {} THEN 0 ELSE g[Pick(s)] + i[s \ {Pick(s)}]]
      BY <1>2
    <2> QED BY <2>1 DEF FoldOf
  <1>4. Rec(iter)
    <2>1. \E i : Rec(i)
      BY <1>3, FoldIs
    <2> HIDE DEF Rec
    <2> QED BY <2>1
  <1> HIDE DEF Rec, iter
  <1> QED BY <1>1, <1>3, <1>4, FoldIs

-----------------------------------------------------------------------------
(* The pages a client reads *)

\* The first n pages, one after the other
Through(n) == [i \in 1 .. n |-> i]

\* What they are as a sequence
LEMMA ThroughIs ==
    ASSUME NEW n \in Nat, n > 0
    PROVE  /\ Through(n) \in Seq(Nat) /\ Len(Through(n)) = n /\ Last(Through(n)) = n
           /\ Range(Through(n)) = 1 .. n /\ Range(Tail(Through(n))) = 2 .. n
           /\ Append(Through(n), n + 1) = Through(n + 1) /\ Through(1) = <<1>>
  <1> DEFINE s == Through(n)
  <1>1. s \in Seq(Nat) /\ Len(s) = n /\ DOMAIN s = 1 .. n /\ \A i \in 1 .. n : s[i] = i
    BY DEF Through
  <1>2. Last(s) = n
    BY <1>1 DEF Last
  <1>3. Range(s) = 1 .. n
    BY <1>1 DEF Range
  <1>4. Range(Tail(s)) = 2 .. n
    <2> HIDE DEF s
    <2>1. s # << >>
      BY <1>1
    <2>2. DOMAIN Tail(s) = 1 .. n - 1 /\ \A i \in 1 .. n - 1 : Tail(s)[i] = i + 1
      <3>1. Tail(s) \in Seq(Nat) /\ Len(Tail(s)) = n - 1 /\ \A i \in 1 .. Len(s) - 1 : Tail(s)[i] = s[i + 1]
        BY <1>1, <2>1
      <3> QED BY <1>1, <3>1
    <2>3. \A v \in 2 .. n : v - 1 \in 1 .. n - 1 /\ (v - 1) + 1 = v
      OBVIOUS
    <2>4. \A i \in 1 .. n - 1 : i + 1 \in 2 .. n
      OBVIOUS
    <2> DEFINE t == Tail(s)
    <2>5. Range(t) = {t[i] : i \in DOMAIN t}
      BY DEF Range
    <2>6. DOMAIN t = 1 .. n - 1 /\ \A i \in 1 .. n - 1 : t[i] = i + 1
      BY <2>2
    <2> HIDE DEF t, s
    <2>7. ASSUME NEW v \in 2 .. n PROVE v \in Range(t)
      <3>1. v - 1 \in DOMAIN t /\ t[v - 1] = v
        BY <2>3, <2>6
      <3> QED BY <2>5, <3>1
    <2>8. ASSUME NEW v \in Range(t) PROVE v \in 2 .. n
      <3>1. PICK i \in 1 .. n - 1 : v = t[i]
        BY <2>5, <2>6, <2>8
      <3> QED BY <2>4, <2>6, <3>1
    <2>9. Range(t) = 2 .. n
      BY <2>7, <2>8
    <2> QED BY <2>9 DEF t
  <1>5. Append(s, n + 1) = Through(n + 1)
    <2> HIDE DEF s
    <2>1. /\ Append(s, n + 1) \in Seq(Nat) /\ Len(Append(s, n + 1)) = n + 1
          /\ \A i \in 1 .. n + 1 : Append(s, n + 1)[i] = i
      BY <1>1
    <2>2. /\ Through(n + 1) \in Seq(Nat) /\ Len(Through(n + 1)) = n + 1
          /\ \A i \in 1 .. n + 1 : Through(n + 1)[i] = i
      BY DEF Through
    <2> QED BY <2>1, <2>2
  <1>6. Through(1) = <<1>>
    BY DEF Through
  <1> QED BY <1>1, <1>2, <1>3, <1>4, <1>5, <1>6

\* What is assumed of the pages of a pull
LEMMA PulledPages ==
    ASSUME NEW x \in Pulls
    PROVE  /\ x.provider \in Providers /\ MaxPages \in Nat /\ MaxPages > 0 /\ NoToken \notin Int
           /\ Len(x.answers) \in Nat /\ Len(x.answers) \in 1 .. MaxPages
           /\ DOMAIN x.answers = 1 .. Len(x.answers)
           /\ x.provider = "azure" => Len(x.answers) = 1
           /\ \/ x.stray = NoToken
              \/ x.provider # "bedrock" /\ x.stray \in 2 .. Len(x.answers)
  <1>1. MaxPages \in Nat \ {0} /\ NoToken \notin Int
    BY PullsAssumption
  <1>2. /\ x.provider \in Providers
        /\ Len(x.answers) \in 1 .. MaxPages /\ DOMAIN x.answers = 1 .. Len(x.answers)
        /\ x.provider = "azure" => Len(x.answers) = 1
        /\ \/ x.stray = NoToken
           \/ x.provider # "bedrock" /\ x.stray \in 2 .. Len(x.answers)
    BY PullsAssumption
  <1> QED BY <1>1, <1>2

\* The pages that answer the pull x
Answers(x, pages) ==
    /\ DOMAIN pages = 1 .. Len(x.answers)
    /\ \A i \in 1 .. Len(x.answers) :
          /\ pages[i].answer = x.answers[i] /\ (pages[i].more <=> i < Len(x.answers))
          /\ pages[i].next = IF i < Len(x.answers) THEN i + 1 ELSE x.stray

\* A client goes from one page to the next, and nowhere from the last.
LEMMA GoingOn ==
    ASSUME NEW x \in Pulls, NEW pages, Answers(x, pages), NEW n \in 1 .. Len(x.answers)
    PROVE  /\ n < Len(x.answers) => GoesOn(x.provider, Through(n), pages[n]) /\ pages[n].next = n + 1
           /\ n = Len(x.answers) => ~GoesOn(x.provider, Through(n), pages[n])
  <1> DEFINE last == Len(x.answers)
             s == Through(n)
             page == pages[n]
  <1>1. /\ x.provider \in {"openai", "anthropic", "azure", "bedrock", "vertex"}
        /\ MaxPages \in Nat /\ NoToken \notin Int /\ last \in Nat /\ last <= MaxPages
        /\ x.provider = "azure" => last = 1
        /\ \/ x.stray = NoToken
           \/ x.provider # "bedrock" /\ x.stray \in 2 .. last
    BY PulledPages DEF Providers
  <1>2. n \in Nat /\ n > 0 /\ n <= last
    BY <1>1
  <1>3. (page.more <=> n < last) /\ page.next = IF n < last THEN n + 1 ELSE x.stray
    BY DEF Answers
  <1>4. Len(s) = n /\ Range(Tail(s)) = 2 .. n
    BY <1>2, ThroughIs
  <1> HIDE DEF last, s, page
  <1>5. ASSUME n < last
        PROVE  GoesOn(x.provider, s, page) /\ page.next = n + 1
    <2>1. page.next = n + 1 /\ n + 1 \notin 2 .. n /\ n < MaxPages /\ page.next # NoToken /\ page.more
      BY <1>1, <1>2, <1>3, <1>5
    <2>2. Unheard(s, page.next)
      BY <1>4, <2>1 DEF Unheard
    <2>3. x.provider # "azure"
      BY <1>1, <1>2, <1>5
    <2> QED BY <2>1, <2>2, <2>3 DEF GoesOn
  <1>6. ASSUME n = last
        PROVE  ~GoesOn(x.provider, s, page)
    <2>1. ~page.more /\ page.next = x.stray
      BY <1>1, <1>2, <1>3, <1>6
    <2>2. x.provider = "vertex" /\ x.stray # NoToken => ~Unheard(s, page.next)
      BY <1>1, <1>4, <1>6, <2>1 DEF Unheard
    <2> QED BY <1>1, <2>1, <2>2 DEF GoesOn, WholeTotals
  <1> QED BY <1>5, <1>6 DEF last, s, page

\* A client reads the pages in order, to the last or to the first that is an error.
LEMMA PagesAreWalked ==
    ASSUME NEW x \in Pulls, NEW pages, Answers(x, pages)
    PROVE  \E j \in 1 .. Len(x.answers) :
              /\ Seen(x.provider, pages) = Through(j)
              /\ j = Len(x.answers) \/ Answer(x.provider, x.answers[j]) # "read"
  <1> DEFINE last == Len(x.answers)
             ends(i) == i = last \/ Answer(x.provider, x.answers[i]) # "read"
             step(seen, k) == IF /\ Len(seen) = k - 1
                                 /\ Answer(x.provider, pages[Last(seen)].answer) = "read"
                                 /\ GoesOn(x.provider, seen, pages[Last(seen)])
                              THEN Append(seen, pages[Last(seen)].next) ELSE seen
             Walk(w) == w = [k \in 1 .. MaxPages |-> IF k = 1 THEN <<1>> ELSE step(w[k - 1], k)]
             walk == CHOOSE w : Walk(w)
  <1>1. /\ MaxPages \in Nat /\ MaxPages > 0 /\ last \in Nat /\ last > 0 /\ last <= MaxPages
    BY PulledPages
  <1>2. Seen(x.provider, pages) = walk[MaxPages]
    BY DEF Seen
  <1>3. \E j \in 1 .. last : ends(j) /\ \A i \in 1 .. j - 1 : ~ends(i)
    <2> DEFINE E == {i \in 1 .. last : ends(i)}
    <2>1. last \in E /\ E \subseteq Nat
      BY <1>1
    <2>2. PICK j \in E : \A i \in E : j <= i
      <3> HIDE DEF E
      <3> QED BY <2>1, SmallestNumber
    <2>3. \A i \in 1 .. j - 1 : i \notin E /\ i \in 1 .. last
      BY <1>1, <2>2
    <2> QED BY <2>2, <2>3
  <1>4. PICK j \in 1 .. last : ends(j) /\ \A i \in 1 .. j - 1 : ~ends(i)
    BY <1>3
  <1>5. j \in Nat /\ j > 0 /\ j <= last
    BY <1>1
  <1> DEFINE f == [k \in 1 .. MaxPages |-> IF k <= j THEN Through(k) ELSE Through(j)]
  <1>6. ASSUME NEW k \in 2 .. MaxPages
        PROVE  step(f[k - 1], k) = f[k] /\ k - 1 \in 1 .. MaxPages
    <2>1. k \in Nat /\ k - 1 \in Nat /\ k - 1 > 0 /\ k - 1 \in 1 .. MaxPages /\ k \in 1 .. MaxPages
      BY <1>1
    <2>2. ASSUME k <= j
          PROVE  step(f[k - 1], k) = f[k]
      <3> DEFINE n == k - 1
      <3>1. f[n] = Through(n) /\ f[k] = Through(k) /\ n + 1 = k /\ n \in 1 .. last /\ n < last /\ n \in 1 .. j - 1
        BY <1>1, <1>5, <2>1, <2>2
      <3>2. Len(Through(n)) = n /\ Last(Through(n)) = n /\ Append(Through(n), n + 1) = Through(n + 1)
        BY <2>1, ThroughIs
      <3>3. GoesOn(x.provider, Through(n), pages[n]) /\ pages[n].next = n + 1
        BY <3>1, GoingOn
      <3>4. Answer(x.provider, pages[n].answer) = "read"
        <4>1. pages[n].answer = x.answers[n]
          BY <3>1 DEF Answers
        <4> QED BY <1>4, <3>1, <4>1
      <3> HIDE DEF n, f
      <3> QED BY <3>1, <3>2, <3>3, <3>4 DEF n
    <2>3. ASSUME k = j + 1
          PROVE  step(f[k - 1], k) = f[k]
      <3>1. f[k - 1] = Through(j) /\ f[k] = Through(j)
        BY <1>5, <2>1, <2>3
      <3>2. Last(Through(j)) = j
        BY <1>5, ThroughIs
      <3>3. pages[j].answer = x.answers[j]
        BY DEF Answers
      <3>4. j = last => ~GoesOn(x.provider, Through(j), pages[j])
        BY GoingOn
      <3> HIDE DEF f
      <3> QED BY <1>4, <3>1, <3>2, <3>3, <3>4
    <2>4. ASSUME k > j + 1
          PROVE  step(f[k - 1], k) = f[k]
      <3>1. f[k - 1] = Through(j) /\ f[k] = Through(j)
        BY <1>5, <2>1, <2>4
      <3>2. Len(Through(j)) = j /\ j # k - 1
        BY <1>5, <2>1, <2>4, ThroughIs
      <3> HIDE DEF f
      <3> QED BY <3>1, <3>2
    <2> QED BY <1>5, <2>1, <2>2, <2>3, <2>4
  <1>7. f[1] = <<1>> /\ f[MaxPages] = Through(j) /\ DOMAIN f = 1 .. MaxPages
    <2>1. Through(1) = <<1>>
      BY ThroughIs
    <2>2. f[1] = Through(1)
      BY <1>1, <1>5
    <2>3. f[MaxPages] = Through(j)
      BY <1>1, <1>5
    <2> QED BY <2>1, <2>2, <2>3
  <1> HIDE DEF step, ends, last
  <1>8. Walk(f)
    <2>1. \A k \in 1 .. MaxPages : f[k] = IF k = 1 THEN <<1>> ELSE step(f[k - 1], k)
      <3> SUFFICES ASSUME NEW k \in 1 .. MaxPages PROVE f[k] = IF k = 1 THEN <<1>> ELSE step(f[k - 1], k)
        OBVIOUS
      <3>1. k = 1 \/ k \in 2 .. MaxPages
        BY <1>1
      <3> HIDE DEF f
      <3> QED BY <1>6, <1>7, <3>1
    <2>2. f = [k \in 1 .. MaxPages |-> f[k]]
      OBVIOUS
    <2> HIDE DEF f
    <2> QED BY <2>1, <2>2
  <1>9. Walk(walk)
    <2> HIDE DEF Walk
    <2> QED BY <1>8
  <1> HIDE DEF f, walk
  <1>10. \A k \in 1 .. MaxPages : walk[k] = f[k]
    <2> DEFINE A == {n \in Nat : n + 1 \in 1 .. MaxPages => walk[n + 1] = f[n + 1]}
    <2>1. DOMAIN walk = 1 .. MaxPages
            /\ \A k \in 1 .. MaxPages : walk[k] = IF k = 1 THEN <<1>> ELSE step(walk[k - 1], k)
      <3> DEFINE rhs == [k \in 1 .. MaxPages |-> IF k = 1 THEN <<1>> ELSE step(walk[k - 1], k)]
      <3>1. walk = rhs
        BY <1>9
      <3>2. /\ DOMAIN rhs = 1 .. MaxPages
            /\ \A k \in 1 .. MaxPages : rhs[k] = IF k = 1 THEN <<1>> ELSE step(walk[k - 1], k)
        OBVIOUS
      <3> HIDE DEF rhs
      <3> QED BY <3>1, <3>2
    <2>2. 0 \in A
      BY <1>7, <2>1
    <2>3. ASSUME NEW n \in Nat, n \in A PROVE n + 1 \in A
      <3> SUFFICES ASSUME n + 2 \in 1 .. MaxPages PROVE walk[n + 2] = f[n + 2]
        OBVIOUS
      <3>1. n + 1 \in 1 .. MaxPages /\ n + 2 \in 2 .. MaxPages /\ n + 2 # 1 /\ (n + 2) - 1 = n + 1
        BY <1>1
      <3>2. walk[n + 1] = f[n + 1]
        BY <2>3, <3>1
      <3>3. walk[n + 2] = step(walk[n + 1], n + 2)
        BY <2>1, <3>1
      <3>4. step(f[n + 1], n + 2) = f[n + 2]
        BY <1>6, <3>1
      <3> QED BY <3>2, <3>3, <3>4
    <2>4. \A n \in Nat : n \in A
      <3> HIDE DEF A
      <3> QED BY <2>2, <2>3, NatSetInduction
    <2>5. \A k \in 1 .. MaxPages : k - 1 \in Nat /\ (k - 1) + 1 = k
      BY <1>1
    <2> QED BY <2>4, <2>5
  <1>11. walk[MaxPages] = Through(j)
    BY <1>1, <1>7, <1>10
  <1> QED BY <1>2, <1>4, <1>11 DEF ends, last

-----------------------------------------------------------------------------
(* What a pull hears *)

\* A sequence made of a finite set goes through all of it.
LEMMA SequenceOfSet ==
    ASSUME NEW S, IsFiniteSet(S)
    PROVE  /\ Cardinality(S) \in Nat /\ SetToSeq(S) \in [1 .. Cardinality(S) -> S]
           /\ \A x \in S : \E i \in 1 .. Cardinality(S) : SetToSeq(S)[i] = x
  <1> DEFINE n == Cardinality(S)
             s == SetToSeq(S)
  <1>1. n \in Nat /\ ExistsBijection(1 .. n, S)
    BY FS_CardinalityType
  <1>2. \E f \in [1 .. n -> S] : IsInjective(f)
    BY <1>1 DEF ExistsBijection, Bijection, Injection
  <1>3. s = CHOOSE f \in [1 .. n -> S] : IsInjective(f)
    BY DEF SetToSeq
  <1> HIDE DEF s
  <1>4. s \in [1 .. n -> S] /\ IsInjective(s)
    BY <1>2, <1>3
  <1>5. s \in Injection(1 .. n, S)
    BY <1>4 DEF Injection
  <1>6. Cardinality(1 .. n) = n
    BY <1>1, FS_Interval
  <1> HIDE DEF n
  <1>7. s \in Surjection(1 .. n, S)
    BY <1>5, <1>6, FS_Injection DEF n
  <1> QED BY <1>1, <1>4, <1>7 DEF Surjection, n, s

\* However the queries are cut, every metric of every name is asked for.
LEMMA ChunksCover ==
    ASSUME NEW p, NEW ids, IsFiniteSet(ids), QueryLimit \in Nat \ {0}
    PROVE  /\ UNION Chunks(p, ids) = ids \X Range(Metrics)
           /\ Range(Metrics) = {"calls", "input", "output", "read", "write"}
  <1>1. /\ DOMAIN Metrics = 1 .. 5 /\ Metrics[1] = "calls" /\ Metrics[2] = "input"
        /\ Metrics[3] = "output" /\ Metrics[4] = "read" /\ Metrics[5] = "write"
    BY DEF Metrics
  <1>2. Range(Metrics) = {Metrics[i] : i \in 1 .. 5}
    BY <1>1 DEF Range
  <1>3. Range(Metrics) = {"calls", "input", "output", "read", "write"}
    <2>1. 1 .. 5 = {1, 2, 3, 4, 5}
      OBVIOUS
    <2> QED BY <1>1, <1>2, <2>1
  <1>4. ASSUME p # "bedrock"
        PROVE  UNION Chunks(p, ids) = ids \X Range(Metrics)
    BY <1>4 DEF Chunks
  <1>5. ASSUME p = "bedrock"
        PROVE  UNION Chunks(p, ids) = ids \X Range(Metrics)
    <2> DEFINE names == SetToSeq(ids)
               n == Cardinality(ids)
               query(i) == <<names[1 + i \div 5], Metrics[1 + (i % 5)]>>
               queries == 0 .. 5 * n - 1
               cut(j) == j \div QueryLimit
               chunk(c) == {query(i) : i \in {j \in queries : cut(j) = c}}
    <2>1. Chunks(p, ids) = {chunk(c) : c \in {cut(j) : j \in queries}}
      BY <1>5 DEF Chunks
    <2>2. UNION {chunk(c) : c \in {cut(j) : j \in queries}} = {query(i) : i \in queries}
      <3> HIDE DEF query, queries, cut
      <3>1. ASSUME NEW i \in queries
            PROVE  query(i) \in UNION {chunk(c) : c \in {cut(j) : j \in queries}}
        <4>1. query(i) \in chunk(cut(i)) /\ cut(i) \in {cut(j) : j \in queries}
          OBVIOUS
        <4> HIDE DEF chunk
        <4> QED BY <4>1
      <3>2. ASSUME NEW q \in UNION {chunk(c) : c \in {cut(j) : j \in queries}}
            PROVE  \E i \in queries : q = query(i)
        <4>1. PICK c \in {cut(j) : j \in queries} : q \in chunk(c)
          <5> HIDE DEF chunk
          <5> QED OBVIOUS
        <4> QED BY <4>1
      <3> HIDE DEF chunk
      <3> QED BY <3>1, <3>2
    <2>3. n \in Nat /\ names \in [1 .. n -> ids] /\ \A x \in ids : \E i \in 1 .. n : names[i] = x
      BY SequenceOfSet
    <2> HIDE DEF names, n
    <2>4. ASSUME NEW i \in queries
          PROVE  query(i) \in ids \X Range(Metrics)
      <3>1. 1 + i \div 5 \in 1 .. n /\ 1 + (i % 5) \in 1 .. 5
        BY <2>3
      <3> QED BY <1>2, <2>3, <3>1
    <2>5. ASSUME NEW x \in ids, NEW m \in Range(Metrics)
          PROVE  \E i \in queries : <<x, m>> = query(i)
      <3>1. PICK k \in 1 .. n : names[k] = x
        BY <2>3
      <3>2. PICK l \in 1 .. 5 : Metrics[l] = m
        BY <1>2
      <3> DEFINE i == 5 * (k - 1) + (l - 1)
      <3>3. k \in Int /\ l \in Int /\ 1 <= k /\ k <= n /\ 1 <= l /\ l <= 5
        BY <2>3
      <3>4. i \in queries /\ 1 + i \div 5 = k /\ 1 + (i % 5) = l
        BY <2>3, <3>3
      <3> HIDE DEF i, queries
      <3>5. <<x, m>> = query(i)
        BY <3>1, <3>2, <3>4
      <3> QED BY <3>4, <3>5
    <2> HIDE DEF query, queries
    <2>6. {query(i) : i \in queries} = ids \X Range(Metrics)
      BY <2>4, <2>5
    <2> QED BY <2>1, <2>2, <2>6
  <1> QED BY <1>3, <1>4, <1>5

\* The page that a figure of x is on
PageOf(x, f) == x.page[<<f.day, f.field = "output">>]

\* What is heard when every page is read: each figure once, on its page
AllHeard(x) == {[figure |-> f, at |-> PageOf(x, f)] : f \in Figures(x.provider, x.used)}

\* The pages of a chunk answer the pull.
LEMMA ChunksAreServed ==
    ASSUME NEW x \in Pulls, NEW c
    PROVE  /\ Answers(x, Served(x, c))
           /\ \A i \in 1 .. Len(x.answers) :
                 Served(x, c)[i].figures =
                    {f \in Figures(x.provider, x.used) : <<f.id, f.field>> \in c /\ PageOf(x, f) = i}
  <1> DEFINE last == Len(x.answers)
             figures == {f \in Figures(x.provider, x.used) : <<f.id, f.field>> \in c}
             page(i) == [figures |-> {f \in figures : PageOf(x, f) = i},
                         answer |-> x.answers[i],
                         next |-> IF i < last THEN i + 1 ELSE x.stray,
                         more |-> i < last]
  <1>1. Served(x, c) = [i \in 1 .. last |-> page(i)]
    BY DEF Served, PageOf
  <1>2. \A i : /\ page(i).answer = x.answers[i] /\ page(i).next = IF i < last THEN i + 1 ELSE x.stray
               /\ page(i).figures = {f \in figures : PageOf(x, f) = i}
    OBVIOUS
  <1>3. \A i \in 1 .. last : page(i).more <=> i < last
    <2> SUFFICES ASSUME NEW i \in 1 .. last PROVE page(i).more <=> i < last
      OBVIOUS
    <2>1. page(i).more = (i < last)
      OBVIOUS
    <2> QED BY <2>1
  <1> HIDE DEF page, figures
  <1>4. DOMAIN Served(x, c) = 1 .. last /\ \A i \in 1 .. last : Served(x, c)[i] = page(i)
    BY <1>1
  <1>5. Answers(x, Served(x, c))
    BY <1>2, <1>3, <1>4 DEF Answers
  <1>6. \A i \in 1 .. last : Served(x, c)[i].figures = {f \in figures : PageOf(x, f) = i}
    BY <1>2, <1>4
  <1> QED BY <1>5, <1>6 DEF figures

\* A pull that succeeds has read the pages of every chunk to the last.
LEMMA ReadToTheEnd ==
    ASSUME NEW x \in Pulls, Outcome(x) = "read", NEW c \in Chunks(x.provider, NamesListed(x))
    PROVE  Seen(x.provider, Served(x, c)) = Through(Len(x.answers))
  <1> DEFINE served(d) == Served(x, d)
             pages == UNION {{served(d)[i] : i \in Range(Seen(x.provider, served(d)))} :
                                d \in Chunks(x.provider, NamesListed(x))}
             answers == {Answer(x.provider, q.answer) : q \in pages}
  <1>1. Outcome(x) =
           IF ~(Required(x.provider) \subseteq x.credential) THEN "refused"
           ELSE IF Login(x.provider, x.login) # "read" THEN Login(x.provider, x.login)
           ELSE IF answers \subseteq {"read"} THEN "read" ELSE CHOOSE a \in answers : a # "read"
    BY DEF Outcome
  <1>2. answers \subseteq {"read"}
    <2> HIDE DEF answers
    <2> QED BY <1>1
  <1>3. PICK j \in 1 .. Len(x.answers) :
            /\ Seen(x.provider, served(c)) = Through(j)
            /\ j = Len(x.answers) \/ Answer(x.provider, x.answers[j]) # "read"
    BY ChunksAreServed, PagesAreWalked
  <1>4. Len(x.answers) \in Nat
    BY PulledPages
  <1>5. j \in Nat /\ j > 0 /\ j \in 1 .. j
    BY <1>4
  <1>6. Range(Through(j)) = 1 .. j
    BY <1>5, ThroughIs
  <1>7. served(c)[j] \in pages
    <2>1. served(c)[j] \in {served(c)[i] : i \in Range(Seen(x.provider, served(c)))}
      BY <1>3, <1>5, <1>6
    <2> HIDE DEF served
    <2> QED BY <2>1
  <1> HIDE DEF pages
  <1>8. Answer(x.provider, served(c)[j].answer) \in answers
    BY <1>7
  <1>9. served(c)[j].answer = x.answers[j]
    BY ChunksAreServed DEF Answers
  <1> HIDE DEF answers
  <1>10. Answer(x.provider, x.answers[j]) = "read"
    BY <1>2, <1>8, <1>9
  <1> QED BY <1>3, <1>10

\* What is assumed of the use that a pull reports
LEMMA ReportedUse ==
    ASSUME NEW x \in Pulls, NEW u \in x.used
    PROVE  /\ DOMAIN u = {"day", "id", "calls", "input", "read", "write", "output"}
           /\ u.calls \in Nat /\ u.input \in Nat /\ u.read \in Nat /\ u.write \in Nat /\ u.output \in Nat
           /\ u.input + u.read + u.write + u.output > 0
           /\ \A w \in x.used : w.day = u.day /\ w.id = u.id => w = u
           /\ \A b \in BOOLEAN : x.page[<<u.day, b>>] \in 1 .. Len(x.answers)
           /\ x.provider \in WholeTotals => x.page[<<u.day, TRUE>>] = x.page[<<u.day, FALSE>>]
  <1>1. /\ u = [day |-> u.day, id |-> u.id, calls |-> u.calls, input |-> u.input,
                read |-> u.read, write |-> u.write, output |-> u.output]
        /\ {u.calls, u.input, u.read, u.write, u.output} \subseteq Nat
        /\ u.input + u.read + u.write + u.output > 0
        /\ \A w \in x.used : w.day = u.day /\ w.id = u.id => w = u
        /\ \A b \in BOOLEAN : x.page[<<u.day, b>>] \in DOMAIN x.answers
        /\ x.provider \in WholeTotals => x.page[<<u.day, TRUE>>] = x.page[<<u.day, FALSE>>]
    BY PullsAssumption
  <1>2. DOMAIN x.answers = 1 .. Len(x.answers)
    BY PulledPages
  <1>3. DOMAIN u = {"day", "id", "calls", "input", "read", "write", "output"}
    BY <1>1
  <1> QED BY <1>1, <1>2, <1>3

\* What the provider shows of it
LEMMA ShownIs ==
    ASSUME NEW x \in Pulls, NEW u \in x.used
    PROVE  LET s == Shown(x.provider, u)
               apart == x.provider \in {"anthropic", "bedrock"}
           IN  /\ s["calls"] = IF x.provider = "vertex" THEN 0 ELSE u.calls
               /\ s["input"] = IF apart THEN u.input ELSE u.input + u.read + u.write
               /\ s["read"] = IF x.provider \in {"azure", "vertex"} THEN 0 ELSE u.read
               /\ s["write"] = IF apart THEN u.write ELSE 0
               /\ s["output"] = u.output
               /\ \A f \in Range(Metrics) : s[f] \in Nat
               /\ \E f \in Range(Metrics) : s[f] > 0
  <1> DEFINE s == Shown(x.provider, u)
             apart == x.provider \in {"anthropic", "bedrock"}
             whole == [u EXCEPT !.input = u.input + u.read + u.write, !.write = 0]
  <1>1. /\ DOMAIN u = {"day", "id", "calls", "input", "read", "write", "output"}
        /\ u.calls \in Nat /\ u.input \in Nat /\ u.read \in Nat /\ u.write \in Nat /\ u.output \in Nat
        /\ u.input + u.read + u.write + u.output > 0
    BY ReportedUse
  <1>2. /\ DOMAIN whole = DOMAIN u /\ whole.calls = u.calls /\ whole.read = u.read /\ whole.output = u.output
        /\ whole.input = u.input + u.read + u.write /\ whole.write = 0
    BY <1>1
  <1>3. x.provider \in {"openai", "anthropic", "azure", "bedrock", "vertex"}
    BY PulledPages DEF Providers
  <1>4. s = CASE x.provider = "openai" -> whole
              [] x.provider = "azure" -> [whole EXCEPT !.read = 0]
              [] x.provider = "vertex" -> [whole EXCEPT !.read = 0, !.calls = 0]
              [] OTHER -> u
    BY DEF Shown
  <1> HIDE DEF whole, s
  <1>5. /\ s.calls = IF x.provider = "vertex" THEN 0 ELSE u.calls
        /\ s.input = IF apart THEN u.input ELSE u.input + u.read + u.write
        /\ s.read = IF x.provider \in {"azure", "vertex"} THEN 0 ELSE u.read
        /\ s.write = IF apart THEN u.write ELSE 0
        /\ s.output = u.output
    <2>1. CASE x.provider = "openai"
      BY <1>1, <1>2, <1>4, <2>1
    <2>2. CASE x.provider = "azure"
      BY <1>1, <1>2, <1>4, <2>2
    <2>3. CASE x.provider = "vertex"
      BY <1>1, <1>2, <1>4, <2>3
    <2>4. CASE x.provider \in {"anthropic", "bedrock"}
      BY <1>1, <1>2, <1>4, <2>4
    <2> QED BY <1>3, <2>1, <2>2, <2>3, <2>4
  <1>6. Range(Metrics) = {"calls", "input", "output", "read", "write"}
    <2>1. QueryLimit \in Nat \ {0}
      BY PullsAssumption
    <2> QED BY <2>1, ChunksCover, FS_EmptySet
  <1>7. s.calls \in Nat /\ s.input \in Nat /\ s.output \in Nat /\ s.read \in Nat /\ s.write \in Nat
    BY <1>1, <1>5
  <1>8. \A f \in Range(Metrics) : s[f] \in Nat
    BY <1>6, <1>7
  <1>9. s.input > 0 \/ s.output > 0 \/ s.read > 0 \/ s.write > 0
    BY <1>1, <1>3, <1>5
  <1>10. \E f \in Range(Metrics) : s[f] > 0
    BY <1>6, <1>9
  <1> QED BY <1>5, <1>8, <1>10 DEF s

\* The figure f of the use u, and where it is heard
Told(x, u, f) == [day |-> u.day, id |-> u.id, field |-> f, n |-> Shown(x.provider, u)[f]]
HeardOf(x, u, f) == [figure |-> Told(x, u, f), at |-> PageOf(x, Told(x, u, f))]

\* All that is heard is figures of what was used, and tells which.
LEMMA HeardIs ==
    ASSUME NEW x \in Pulls
    PROVE  /\ AllHeard(x) = {HeardOf(x, u, f) : u \in x.used, f \in Range(Metrics)}
           /\ \A u, f : /\ HeardOf(x, u, f).figure.day = u.day /\ HeardOf(x, u, f).figure.id = u.id
                        /\ HeardOf(x, u, f).figure.field = f
                        /\ HeardOf(x, u, f).figure.n = Shown(x.provider, u)[f]
                        /\ HeardOf(x, u, f).at = x.page[<<u.day, f = "output">>]
           /\ Figures(x.provider, x.used) = {Told(x, u, f) : u \in x.used, f \in Range(Metrics)}
  <1>1. Range(Metrics) = {"calls", "input", "output", "read", "write"}
    <2>1. QueryLimit \in Nat \ {0}
      BY PullsAssumption
    <2> QED BY <2>1, ChunksCover, FS_EmptySet
  <1>2. Range(Metrics) = {"calls", "input", "read", "write", "output"}
    BY <1>1
  <1>3. Figures(x.provider, x.used) = {Told(x, u, f) : u \in x.used, f \in Range(Metrics)}
    BY <1>2 DEF Figures, Told
  <1>4. \A u, f : /\ Told(x, u, f).day = u.day /\ Told(x, u, f).id = u.id /\ Told(x, u, f).field = f
                  /\ Told(x, u, f).n = Shown(x.provider, u)[f]
    BY DEF Told
  <1>5. \A u, f : HeardOf(x, u, f).figure = Told(x, u, f) /\ HeardOf(x, u, f).at = PageOf(x, Told(x, u, f))
    BY DEF HeardOf
  <1>6. \A u, f : PageOf(x, Told(x, u, f)) = x.page[<<u.day, f = "output">>]
    BY <1>4 DEF PageOf
  <1>7. AllHeard(x) = {HeardOf(x, u, f) : u \in x.used, f \in Range(Metrics)}
    <2> DEFINE h(f) == [figure |-> f, at |-> PageOf(x, f)]
    <2>1. AllHeard(x) = {h(f) : f \in Figures(x.provider, x.used)}
      BY DEF AllHeard
    <2>2. \A u, f : HeardOf(x, u, f) = h(Told(x, u, f))
      BY DEF HeardOf
    <2> HIDE DEF h
    <2> QED BY <1>3, <2>1, <2>2
  <1> QED BY <1>3, <1>4, <1>5, <1>6, <1>7

\* A chunk read to the end is heard in full,
LEMMA ChunksAreHeard ==
    ASSUME NEW x \in Pulls, NEW c
    PROVE  Heard(Served(x, c), Through(Len(x.answers)))
              = {h \in AllHeard(x) : <<h.figure.id, h.figure.field>> \in c}
  <1> DEFINE last == Len(x.answers)
             S == Served(x, c)
             on(i) == {[figure |-> f, at |-> i] : f \in S[i].figures}
             F == Figures(x.provider, x.used)
  <1>1. last \in Nat /\ last > 0
    BY PulledPages
  <1>2. Len(Through(last)) = last /\ \A i \in 1 .. last : Through(last)[i] = i
    BY <1>1, ThroughIs DEF Through
  <1>3. \A i \in 1 .. last : S[i].figures = {f \in F : <<f.id, f.field>> \in c /\ PageOf(x, f) = i}
    BY ChunksAreServed
  <1>4. \A f \in F : PageOf(x, f) \in 1 .. last
    <2> SUFFICES ASSUME NEW f \in F PROVE PageOf(x, f) \in 1 .. last
      OBVIOUS
    <2>1. PICK u \in x.used, g \in Range(Metrics) : f = Told(x, u, g)
      BY HeardIs
    <2>2. PageOf(x, f) = x.page[<<u.day, g = "output">>]
      BY <2>1 DEF PageOf, Told
    <2>3. (g = "output") \in BOOLEAN
      OBVIOUS
    <2>4. \A b \in BOOLEAN : x.page[<<u.day, b>>] \in 1 .. last
      BY ReportedUse
    <2> HIDE DEF last
    <2> QED BY <2>2, <2>3, <2>4
  <1>5. Heard(S, Through(last)) = UNION {on(i) : i \in 1 .. last}
    <2>1. Heard(S, Through(last)) =
             UNION {{[figure |-> f, at |-> i] : f \in S[Through(last)[i]].figures} : i \in 1 .. Len(Through(last))}
      BY DEF Heard
    <2>2. \A i \in 1 .. last : {[figure |-> f, at |-> i] : f \in S[Through(last)[i]].figures} = on(i)
      BY <1>2
    <2> HIDE DEF on, S, last
    <2> QED BY <1>2, <2>1, <2>2
  <1> HIDE DEF S, last, F
  <1>6. ASSUME NEW h \in UNION {on(i) : i \in 1 .. last}
        PROVE  h \in AllHeard(x) /\ <<h.figure.id, h.figure.field>> \in c
    <2>1. PICK i \in 1 .. last : h \in on(i)
      <3> HIDE DEF on
      <3> QED OBVIOUS
    <2>2. PICK f \in F : <<f.id, f.field>> \in c /\ PageOf(x, f) = i /\ h = [figure |-> f, at |-> i]
      BY <1>3, <2>1
    <2> QED BY <2>2 DEF AllHeard, F
  <1>7. ASSUME NEW h \in AllHeard(x), <<h.figure.id, h.figure.field>> \in c
        PROVE  h \in UNION {on(i) : i \in 1 .. last}
    <2>1. PICK f \in F : h = [figure |-> f, at |-> PageOf(x, f)]
      BY DEF AllHeard, F
    <2>2. h \in on(PageOf(x, f)) /\ PageOf(x, f) \in 1 .. last
      BY <1>3, <1>4, <1>7, <2>1
    <2> HIDE DEF on
    <2> QED BY <2>2
  <1> HIDE DEF on
  <1> QED BY <1>5, <1>6, <1>7 DEF S, last

\* ... and so is everything, once.
LEMMA PullsHearAll ==
    ASSUME NEW x \in Pulls, Outcome(x) = "read"
    PROVE  UNION {LET served == Served(x, c)
                  IN  {[figure |-> h.figure, at |-> h.at] : h \in Heard(served, Seen(x.provider, served))} :
                     c \in Chunks(x.provider, NamesListed(x))} = AllHeard(x)
  <1> DEFINE C == Chunks(x.provider, NamesListed(x))
             got(c) == LET served == Served(x, c)
                       IN  {[figure |-> h.figure, at |-> h.at] : h \in Heard(served, Seen(x.provider, served))}
             wanted(c) == {h \in AllHeard(x) : <<h.figure.id, h.figure.field>> \in c}
  <1>1. \A h \in AllHeard(x) : h = [figure |-> h.figure, at |-> h.at]
    BY DEF AllHeard
  <1>2. ASSUME NEW c \in C
        PROVE  got(c) = wanted(c)
    <2>1. Heard(Served(x, c), Seen(x.provider, Served(x, c))) = wanted(c)
      BY ReadToTheEnd, ChunksAreHeard
    <2>2. got(c) = {[figure |-> h.figure, at |-> h.at] : h \in wanted(c)}
      BY <2>1
    <2> QED BY <1>1, <2>2
  <1>3. UNION C = NamesListed(x) \X Range(Metrics)
    <2>1. IsFiniteSet(NamesListed(x))
      <3>1. IsFiniteSet(x.used)
        BY PullsAssumption
      <3> DEFINE f == [u \in x.used |-> u.id]
      <3>2. f \in Surjection(x.used, NamesListed(x))
        BY DEF Surjection, NamesListed
      <3> HIDE DEF f
      <3> QED BY <3>1, <3>2, FS_Surjection
    <2>2. QueryLimit \in Nat \ {0}
      BY PullsAssumption
    <2> QED BY <2>1, <2>2, ChunksCover
  <1>4. ASSUME NEW h \in AllHeard(x)
        PROVE  \E c \in C : h \in wanted(c)
    <2>1. PICK u \in x.used, f \in Range(Metrics) : h = HeardOf(x, u, f)
      BY HeardIs
    <2>2. h.figure.id = u.id /\ h.figure.field = f
      BY <2>1 DEF HeardOf, Told
    <2>3. <<h.figure.id, h.figure.field>> \in UNION C
      BY <1>3, <2>2 DEF NamesListed
    <2> HIDE DEF C
    <2> QED BY <2>3
  <1>5. \A c \in C : wanted(c) \subseteq AllHeard(x)
    OBVIOUS
  <1> HIDE DEF C, got, wanted
  <1>6. UNION {got(c) : c \in C} = AllHeard(x)
    BY <1>2, <1>4, <1>5
  <1> QED BY <1>6 DEF C, got

-----------------------------------------------------------------------------
(* What a pull writes *)

\* What was used under the day and model k, and what is heard of it
UseOf(x, k) == {u \in x.used : <<u.day, Normal(x.provider, u.id)>> = k}
HeardFor(x, k) == {h \in AllHeard(x) : <<h.figure.day, Normal(x.provider, h.figure.id)>> = k}

\* The figures f of that use
Amounts(x, k, f) == [u \in UseOf(x, k) |-> Shown(x.provider, u)[f]]

\* Sums as the client makes them, and as a reader does who sees the use itself
SumOfFigures(P) == MapThenSumSet(LAMBDA h : h.figure.n, P)
SumOfCalls(P) == MapThenSumSet(LAMBDA u : u.calls, P)
SumOfPrompts(P) == MapThenSumSet(LAMBDA u : u.input + u.read + u.write, P)
SumOfOutputs(P) == MapThenSumSet(LAMBDA u : u.output, P)
SumOfReads(P) == MapThenSumSet(LAMBDA u : u.read, P)

\* The totals of that use, as far as the provider tells them
Totals(x, k) ==
    [calls |-> IF x.provider = "vertex" THEN 0 ELSE SumOfCalls(UseOf(x, k)),
     prompt |-> SumOfPrompts(UseOf(x, k)),
     completion |-> SumOfOutputs(UseOf(x, k)),
     cached |-> IF x.provider \in {"azure", "vertex"} THEN 0 ELSE SumOfReads(UseOf(x, k))]

\* Nothing that is heard of a day and model is superseded: whole totals are on one page.
LEMMA NothingIsSuperseded ==
    ASSUME NEW x \in Pulls, NEW k
    PROVE  Tallied(x.provider, HeardFor(x, k)) = HeardFor(x, k)
  <1> DEFINE H == HeardFor(x, k)
  <1>1. ASSUME x.provider \in WholeTotals, NEW h \in H, NEW g \in H
        PROVE  g.at <= h.at
    <2>1. PICK u \in x.used, f \in Range(Metrics) : h = HeardOf(x, u, f)
      BY HeardIs DEF HeardFor
    <2>2. PICK w \in x.used, e \in Range(Metrics) : g = HeardOf(x, w, e)
      BY HeardIs DEF HeardFor
    <2>3. /\ h.figure.day = u.day /\ h.figure.id = u.id /\ h.at = x.page[<<u.day, f = "output">>]
          /\ g.figure.day = w.day /\ g.figure.id = w.id /\ g.at = x.page[<<w.day, e = "output">>]
      BY <2>1, <2>2 DEF HeardOf, Told, PageOf
    <2>4. \A id : Normal(x.provider, id) = id
      BY <1>1 DEF Normal, WholeTotals
    <2>5. <<h.figure.day, h.figure.id>> = k /\ <<g.figure.day, g.figure.id>> = k
      BY <2>4 DEF HeardFor
    <2>6. w.day = u.day
      BY <2>3, <2>5
    <2>7. x.page[<<u.day, TRUE>>] = x.page[<<u.day, FALSE>>] /\ x.page[<<u.day, TRUE>>] \in 1 .. Len(x.answers)
      BY <1>1, ReportedUse
    <2>8. /\ (f = "output") = TRUE \/ (f = "output") = FALSE
          /\ (e = "output") = TRUE \/ (e = "output") = FALSE
      OBVIOUS
    <2>9. h.at = x.page[<<u.day, TRUE>>] /\ g.at = x.page[<<u.day, TRUE>>]
      BY <2>3, <2>6, <2>7, <2>8
    <2>10. Len(x.answers) \in Nat
      BY PulledPages
    <2> QED BY <2>7, <2>9, <2>10
  <1> HIDE DEF H
  <1> QED BY <1>1 DEF Tallied, H

\* So the figures add up to what the provider shows of the use.
LEMMA FigureSums ==
    ASSUME NEW x \in Pulls, NEW k, NEW f \in Range(Metrics)
    PROVE  /\ SumOfFigures({h \in Tallied(x.provider, HeardFor(x, k)) : h.figure.field = f})
                 = SumUp(Amounts(x, k, f), UseOf(x, k))
           /\ Weighs(Amounts(x, k, f), UseOf(x, k))
  <1> DEFINE S == UseOf(x, k)
             T == {h \in HeardFor(x, k) : h.figure.field = f}
             e == [u \in S |-> HeardOf(x, u, f)]
             w == [h \in T |-> h.figure.n]
             a == Amounts(x, k, f)
  <1>1. Tallied(x.provider, HeardFor(x, k)) = HeardFor(x, k)
    BY NothingIsSuperseded
  <1>2. IsFiniteSet(S) /\ S \subseteq x.used
    <2>1. IsFiniteSet(x.used)
      BY PullsAssumption
    <2> QED BY <2>1, FS_Subset DEF UseOf
  <1>3. \A u \in S : a[u] = Shown(x.provider, u)[f] /\ a[u] \in Nat
    <2> SUFFICES ASSUME NEW u \in S PROVE a[u] = Shown(x.provider, u)[f] /\ a[u] \in Nat
      OBVIOUS
    <2>1. u \in x.used
      BY <1>2
    <2>2. Shown(x.provider, u)[f] \in Nat
      BY <2>1, ShownIs
    <2> QED BY <2>2 DEF Amounts
  <1>4. Weighs(a, S)
    BY <1>2, <1>3 DEF Weighs
  <1>5. \A u \in S : /\ HeardOf(x, u, f) \in T
                     /\ HeardOf(x, u, f).figure.day = u.day /\ HeardOf(x, u, f).figure.id = u.id
                     /\ HeardOf(x, u, f).figure.n = Shown(x.provider, u)[f]
    <2> SUFFICES ASSUME NEW u \in S
                 PROVE  /\ HeardOf(x, u, f) \in T
                        /\ HeardOf(x, u, f).figure.day = u.day /\ HeardOf(x, u, f).figure.id = u.id
                        /\ HeardOf(x, u, f).figure.n = Shown(x.provider, u)[f]
      OBVIOUS
    <2>1. /\ HeardOf(x, u, f).figure.day = u.day /\ HeardOf(x, u, f).figure.id = u.id
          /\ HeardOf(x, u, f).figure.n = Shown(x.provider, u)[f] /\ HeardOf(x, u, f).figure.field = f
      BY DEF HeardOf, Told
    <2>2. HeardOf(x, u, f) \in AllHeard(x)
      <3>1. u \in x.used
        BY <1>2
      <3> QED BY <3>1, HeardIs
    <2>3. <<u.day, Normal(x.provider, u.id)>> = k
      BY DEF UseOf
    <2> QED BY <2>1, <2>2, <2>3 DEF HeardFor
  <1>6. \A h \in T : \E u \in S : HeardOf(x, u, f) = h
    <2> SUFFICES ASSUME NEW h \in T PROVE \E u \in S : HeardOf(x, u, f) = h
      OBVIOUS
    <2>1. h \in AllHeard(x) /\ <<h.figure.day, Normal(x.provider, h.figure.id)>> = k /\ h.figure.field = f
      BY DEF HeardFor
    <2>2. PICK u \in x.used, g \in Range(Metrics) : h = HeardOf(x, u, g)
      BY <2>1, HeardIs
    <2>3. h.figure.day = u.day /\ h.figure.id = u.id /\ h.figure.field = g
      BY <2>2 DEF HeardOf, Told
    <2>4. u \in S /\ g = f
      BY <2>1, <2>3 DEF UseOf
    <2> QED BY <2>2, <2>4
  <1>7. \A u, v \in S : HeardOf(x, u, f) = HeardOf(x, v, f) => u = v
    <2> SUFFICES ASSUME NEW u \in S, NEW v \in S, HeardOf(x, u, f) = HeardOf(x, v, f) PROVE u = v
      OBVIOUS
    <2>1. u.day = v.day /\ u.id = v.id
      BY <1>5
    <2>2. u \in x.used /\ v \in x.used
      BY <1>2
    <2> QED BY <2>1, <2>2, ReportedUse
  <1>8. /\ e \in [S -> T] /\ (\A u, v \in S : e[u] = e[v] => u = v)
        /\ (\A h \in T : \E u \in S : e[u] = h) /\ (\A u \in S : a[u] = w[e[u]])
    BY <1>3, <1>5, <1>6, <1>7
  <1>9. Weighs(w, T)
    <2>1. \A h \in T : w[h] \in Int
      BY <1>3, <1>5, <1>6
    <2>2. IsFiniteSet(T)
      <3>1. e \in Surjection(S, T)
        BY <1>8 DEF Surjection
      <3> HIDE DEF e, S, T
      <3> QED BY <1>2, <3>1, FS_Surjection
    <2> HIDE DEF w, T
    <2> QED BY <2>1, <2>2 DEF Weighs
  <1>10. \A h \in T : w[h] = h.figure.n
    OBVIOUS
  <1> HIDE DEF S, T, e, w, a
  <1>11. SumUp(a, S) = SumUp(w, T)
    BY <1>2, <1>8, <1>9, SumMoved
  <1>12. SumOfFigures(T) = SumUp(w, T)
    BY <1>9, <1>10, FiguresAddUp DEF SumOfFigures
  <1> QED BY <1>1, <1>4, <1>11, <1>12 DEF S, T, a

\* ... and a bucket holds the totals of that use.
LEMMA BucketHolds ==
    ASSUME NEW x \in Pulls, NEW k
    PROVE  Bucket(x.provider, HeardFor(x, k)) = Totals(x, k)
  <1> DEFINE p == x.provider
             O == UseOf(x, k)
             H == HeardFor(x, k)
             sum == [f \in Range(Metrics) |-> SumOfFigures({h \in Tallied(p, H) : h.figure.field = f})]
             a(f) == Amounts(x, k, f)
             whole == [u \in O |-> u.input + u.read + u.write]
  <1>1. Bucket(p, H) = CASE p = "openai" -> OpenAIBucket(sum)
                         [] p \in {"anthropic", "bedrock"} -> AnthropicBucket(sum)
                         [] p = "azure" -> AzureBucket(sum)
                         [] p = "vertex" -> VertexBucket(sum)
    BY DEF Bucket, SumOfFigures
  <1>2. Range(Metrics) = {"calls", "input", "output", "read", "write"}
    <2>1. QueryLimit \in Nat \ {0}
      BY PullsAssumption
    <2> QED BY <2>1, ChunksCover, FS_EmptySet
  <1>3. \A f \in Range(Metrics) : sum[f] = SumUp(a(f), O) /\ Weighs(a(f), O)
    <2> SUFFICES ASSUME NEW f \in Range(Metrics) PROVE sum[f] = SumUp(a(f), O) /\ Weighs(a(f), O)
      OBVIOUS
    <2> QED BY FigureSums
  <1>4. p \in {"openai", "anthropic", "azure", "bedrock", "vertex"}
    BY PulledPages DEF Providers
  <1>5. \A u \in O : \A f \in Range(Metrics) : a(f)[u] = Shown(p, u)[f]
    BY DEF Amounts
  <1>6. \A u \in O : u \in x.used
    BY DEF UseOf
  <1>7. ASSUME NEW u \in O
        PROVE  /\ a("calls")[u] = IF p = "vertex" THEN 0 ELSE u.calls
               /\ a("input")[u] = IF p \in {"anthropic", "bedrock"} THEN u.input ELSE u.input + u.read + u.write
               /\ a("read")[u] = IF p \in {"azure", "vertex"} THEN 0 ELSE u.read
               /\ a("write")[u] = IF p \in {"anthropic", "bedrock"} THEN u.write ELSE 0
               /\ a("output")[u] = u.output
               /\ u.input \in Nat /\ u.read \in Nat /\ u.write \in Nat
    <2>1. u \in x.used
      BY <1>6
    <2>2. /\ Shown(p, u)["calls"] = IF p = "vertex" THEN 0 ELSE u.calls
          /\ Shown(p, u)["input"] = IF p \in {"anthropic", "bedrock"} THEN u.input ELSE u.input + u.read + u.write
          /\ Shown(p, u)["read"] = IF p \in {"azure", "vertex"} THEN 0 ELSE u.read
          /\ Shown(p, u)["write"] = IF p \in {"anthropic", "bedrock"} THEN u.write ELSE 0
          /\ Shown(p, u)["output"] = u.output
      BY <2>1, ShownIs
    <2>3. u.input \in Nat /\ u.read \in Nat /\ u.write \in Nat
      BY <2>1, ReportedUse
    <2> HIDE DEF a, p, O
    <2> QED BY <1>2, <1>5, <2>2, <2>3
  <1> HIDE DEF p, a, sum, O, H
  <1>8. p # "vertex" => sum["calls"] = SumOfCalls(O)
    <2> SUFFICES ASSUME p # "vertex" PROVE sum["calls"] = SumOfCalls(O)
      OBVIOUS
    <2>1. \A u \in O : a("calls")[u] = u.calls
      BY <1>7
    <2>2. Weighs(a("calls"), O) /\ sum["calls"] = SumUp(a("calls"), O)
      BY <1>2, <1>3
    <2> QED BY <2>1, <2>2, CallsAddUp DEF SumOfCalls
  <1>9. sum["output"] = SumOfOutputs(O)
    <2>1. \A u \in O : a("output")[u] = u.output
      BY <1>7
    <2>2. Weighs(a("output"), O) /\ sum["output"] = SumUp(a("output"), O)
      BY <1>2, <1>3
    <2> QED BY <2>1, <2>2, OutputsAddUp DEF SumOfOutputs
  <1>10. p \notin {"azure", "vertex"} => sum["read"] = SumOfReads(O)
    <2> SUFFICES ASSUME p \notin {"azure", "vertex"} PROVE sum["read"] = SumOfReads(O)
      OBVIOUS
    <2>1. \A u \in O : a("read")[u] = u.read
      BY <1>7
    <2>2. Weighs(a("read"), O) /\ sum["read"] = SumUp(a("read"), O)
      BY <1>2, <1>3
    <2> QED BY <2>1, <2>2, CacheReadsAddUp DEF SumOfReads
  <1>11. p \notin {"anthropic", "bedrock"} => sum["input"] = SumOfPrompts(O)
    <2> SUFFICES ASSUME p \notin {"anthropic", "bedrock"} PROVE sum["input"] = SumOfPrompts(O)
      OBVIOUS
    <2>1. \A u \in O : a("input")[u] = u.input + u.read + u.write
      BY <1>7
    <2>2. Weighs(a("input"), O) /\ sum["input"] = SumUp(a("input"), O)
      BY <1>2, <1>3
    <2> QED BY <2>1, <2>2, WholePromptsAddUp DEF SumOfPrompts
  <1>12. p \in {"anthropic", "bedrock"} => sum["input"] + sum["read"] + sum["write"] = SumOfPrompts(O)
    <2> SUFFICES ASSUME p \in {"anthropic", "bedrock"}
                 PROVE  sum["input"] + sum["read"] + sum["write"] = SumOfPrompts(O)
      OBVIOUS
    <2>1. \A f \in {"input", "read", "write"} : Weighs(a(f), O) /\ sum[f] = SumUp(a(f), O)
      BY <1>2, <1>3
    <2>2. \A u \in O : /\ whole[u] = a("input")[u] + a("read")[u] + a("write")[u]
                       /\ whole[u] = u.input + u.read + u.write /\ whole[u] \in Int
      BY <1>7
    <2> HIDE DEF whole
    <2>3. Weighs(whole, O)
      BY <2>1, <2>2 DEF Weighs
    <2>4. SumUp(whole, O) = SumUp(a("input"), O) + SumUp(a("read"), O) + SumUp(a("write"), O)
      BY <2>1, <2>2, SumsTogether
    <2>5. SumUp(whole, O) = SumOfPrompts(O)
      BY <2>2, <2>3, WholePromptsAddUp DEF SumOfPrompts
    <2> QED BY <2>1, <2>4, <2>5
  <1>13. OpenAIBucket(sum) = [calls |-> sum["calls"], prompt |-> sum["input"],
                              completion |-> sum["output"], cached |-> sum["read"]]
    BY DEF OpenAIBucket
  <1> DEFINE goal == [calls |-> IF p = "vertex" THEN 0 ELSE SumOfCalls(O),
                      prompt |-> SumOfPrompts(O), completion |-> SumOfOutputs(O),
                      cached |-> IF p \in {"azure", "vertex"} THEN 0 ELSE SumOfReads(O)]
  <1>14. ASSUME p = "openai"
         PROVE  Bucket(p, H) = goal
    <2>1. Bucket(p, H) = OpenAIBucket(sum)
      BY <1>1, <1>14
    <2> QED BY <1>8, <1>9, <1>10, <1>11, <1>13, <1>14, <2>1
  <1>15. ASSUME p \in {"anthropic", "bedrock"}
         PROVE  Bucket(p, H) = goal
    <2>1. Bucket(p, H) = AnthropicBucket(sum)
      BY <1>1, <1>15
    <2>2. AnthropicBucket(sum) = [calls |-> sum["calls"], prompt |-> sum["input"] + sum["read"] + sum["write"],
                                  completion |-> sum["output"], cached |-> sum["read"]]
      BY <1>13 DEF AnthropicBucket
    <2> QED BY <1>8, <1>9, <1>10, <1>12, <1>15, <2>1, <2>2
  <1>16. ASSUME p = "azure"
         PROVE  Bucket(p, H) = goal
    <2>1. Bucket(p, H) = AzureBucket(sum)
      BY <1>1, <1>16
    <2>2. AzureBucket(sum) = [calls |-> sum["calls"], prompt |-> sum["input"],
                              completion |-> sum["output"], cached |-> 0]
      BY <1>13 DEF AzureBucket
    <2> QED BY <1>8, <1>9, <1>11, <1>16, <2>1, <2>2
  <1>17. ASSUME p = "vertex"
         PROVE  Bucket(p, H) = goal
    <2>1. Bucket(p, H) = VertexBucket(sum)
      BY <1>1, <1>17
    <2>2. VertexBucket(sum) = [calls |-> 0, prompt |-> sum["input"],
                               completion |-> sum["output"], cached |-> 0]
      <3>1. AzureBucket(sum) = [calls |-> sum["calls"], prompt |-> sum["input"],
                                completion |-> sum["output"], cached |-> 0]
        BY <1>13 DEF AzureBucket
      <3> QED BY <3>1 DEF VertexBucket
    <2> QED BY <1>9, <1>11, <1>17, <2>1, <2>2
  <1> HIDE DEF goal
  <1>18. Bucket(p, H) = goal
    BY <1>4, <1>14, <1>15, <1>16, <1>17
  <1>19. goal = Totals(x, k)
    BY DEF Totals, goal, p, O
  <1> QED BY <1>18, <1>19 DEF p, H

\* Every day and model that was used has its bucket.
LEMMA BucketsOfUse ==
    ASSUME NEW x \in Pulls, NEW v \in x.used
    PROVE  LET k == <<v.day, Normal(x.provider, v.id)>>
               B == BucketsOf(x.provider, AllHeard(x))
           IN  k \in DOMAIN B /\ B[k] = Bucket(x.provider, HeardFor(x, k))
  <1> DEFINE p == x.provider
             key(h) == <<h.figure.day, Normal(p, h.figure.id)>>
             k == <<v.day, Normal(p, v.id)>>
             T == Telling(p, AllHeard(x))
             B == BucketsOf(p, AllHeard(x))
             bucket(i) == Bucket(p, {h \in AllHeard(x) : key(h) = i})
  <1>1. B = [i \in {key(h) : h \in T} |-> bucket(i)]
    BY DEF BucketsOf
  <1>2. PICK f \in Range(Metrics) : Shown(p, v)[f] > 0
    BY ShownIs
  <1> DEFINE g == HeardOf(x, v, f)
  <1>3. g \in AllHeard(x) /\ g.figure.n > 0 /\ key(g) = k
    <2>1. g \in AllHeard(x)
      BY HeardIs
    <2>2. g.figure.day = v.day /\ g.figure.id = v.id /\ g.figure.n = Shown(p, v)[f]
      BY DEF HeardOf, Told
    <2> QED BY <1>2, <2>1, <2>2
  <1>4. k \in {key(h) : h \in T}
    <2>1. g \in T
      BY <1>3 DEF Telling
    <2> HIDE DEF g, k, T, key
    <2> QED BY <1>3, <2>1
  <1>5. bucket(k) = Bucket(p, HeardFor(x, k))
    BY DEF HeardFor
  <1> HIDE DEF B, bucket, k, T, key
  <1>6. k \in DOMAIN B /\ B[k] = bucket(k)
    BY <1>1, <1>4
  <1> QED BY <1>5, <1>6 DEF B, k

-----------------------------------------------------------------------------
(* Pulls count once *)

\* An audit of totals is one of the pulls.
PullInv == Has("pull") => work.of \in Pulls

\* An audit starts with such a pull
LEMMA PullStarts == AuditInit => PullInv
  <1> SUFFICES ASSUME AuditInit, Has("pull") PROVE work.of \in Pulls
    BY DEF PullInv
  <1>1. work # NoValue /\ work.kind = "pull"
    BY DEF Has
  <1> QED BY <1>1 DEF AuditInit

\* ... and keeps it.
LEMMA PullStays == PullInv /\ [AuditNext]_auditVars => PullInv'
  <1> SUFFICES ASSUME PullInv, [AuditNext]_auditVars PROVE PullInv'
    OBVIOUS
  <1>1. CASE AuditNext
    BY <1>1 DEF AuditNext, PullInv, Has
  <1>2. CASE UNCHANGED auditVars
    BY <1>2 DEF auditVars, PullInv, Has
  <1> QED BY <1>1, <1>2

\* So what a pull leaves is what was used.
LEMMA AllCountOnce == PullInv => PullsCountOnce
  <1> SUFFICES ASSUME PullInv, Has("pull"), Outcome(work.of) = "read" PROVE PullsCountOnce
    BY DEF PullsCountOnce
  <1> DEFINE x == work.of
             p == x.provider
             B == BucketsOf(p, AllHeard(x))
             after(rows) == [key \in DOMAIN B \cup DOMAIN rows |-> IF key \in DOMAIN B THEN B[key] ELSE rows[key]]
             new == after(x.rows)
  <1>1. x \in Pulls /\ Outcome(x) = "read"
    BY DEF PullInv
  <1> HIDE DEF x
  <1>2. \A rows : Pull(rows, x) = after(rows)
    <2> SUFFICES ASSUME NEW rows PROVE Pull(rows, x) = after(rows)
      OBVIOUS
    <2> DEFINE heard == UNION {LET served == Served(x, c)
                               IN  {[figure |-> h.figure, at |-> h.at] :
                                       h \in Heard(served, Seen(x.provider, served))} :
                                  c \in Chunks(x.provider, NamesListed(x))}
    <2>1. heard = AllHeard(x)
      BY <1>1, PullsHearAll
    <2>2. Pull(rows, x) = LET buckets == BucketsOf(p, heard)
                          IN  IF Outcome(x) # "read" THEN rows
                              ELSE [key \in DOMAIN buckets \cup DOMAIN rows |->
                                       IF key \in DOMAIN buckets THEN buckets[key] ELSE rows[key]]
      BY DEF Pull
    <2> HIDE DEF heard
    <2> QED BY <1>1, <2>1, <2>2
  <1> HIDE DEF B
  <1>3. after(new) = new
    <2>1. DOMAIN new = DOMAIN B \cup DOMAIN x.rows
      OBVIOUS
    <2>2. \A key \in DOMAIN B \cup DOMAIN new : (IF key \in DOMAIN B THEN B[key] ELSE new[key]) = new[key]
      BY <2>1
    <2>3. DOMAIN B \cup DOMAIN new = DOMAIN new /\ new = [key \in DOMAIN new |-> new[key]]
      BY <2>1
    <2> HIDE DEF new
    <2> QED BY <2>2, <2>3
  <1>4. \A k \in {<<u.day, Normal(p, u.id)>> : u \in x.used} : new[k] = Totals(x, k)
    <2> SUFFICES ASSUME NEW v \in x.used PROVE new[<<v.day, Normal(p, v.id)>>] = Totals(x, <<v.day, Normal(p, v.id)>>)
      OBVIOUS
    <2> DEFINE k == <<v.day, Normal(p, v.id)>>
    <2>1. k \in DOMAIN B /\ B[k] = Bucket(p, HeardFor(x, k))
      BY <1>1, BucketsOfUse DEF B
    <2> HIDE DEF k
    <2>2. Bucket(p, HeardFor(x, k)) = Totals(x, k)
      BY <1>1, BucketHolds
    <2>3. new[k] = B[k]
      BY <2>1
    <2> QED BY <2>1, <2>2, <2>3 DEF k
  <1>5. /\ Pull(Pull(x.rows, x), x) = Pull(x.rows, x)
        /\ \A k \in {<<u.day, Normal(p, u.id)>> : u \in x.used} : Pull(x.rows, x)[k] = Totals(x, k)
    <2> HIDE DEF after
    <2> QED BY <1>2, <1>3, <1>4 DEF after
  <1> QED BY <1>5 DEF PullsCountOnce, SumOfCalls, SumOfPrompts, SumOfOutputs, SumOfReads, UseOf, Totals, x

\* Always: a pull that succeeds leaves every day and model with the totals that were used,
\* however they were paged, named and cut into calls, and pulling again changes nothing
\* (PullsCountOnce).
THEOREM PullsAreCountedOnce == AuditSpec => []PullsCountOnce
  <1>1. AuditSpec => []PullInv
    BY PullStarts, PullStays, PTL DEF AuditSpec
  <1> QED BY <1>1, AllCountOnce, PTL

=============================================================================
