----------------------------- MODULE Statements -----------------------------
(***************************************************************************)
(* The monthly savings statement: the job that issues last month's         *)
(* statement on the 1st (scripts/monthly_statements.py, a process of its   *)
(* own), the owner who sends or resends one from the browser               *)
(* (web/routes_statements.py), and the archive both write to               *)
(* (services/statements/build.py).                                         *)
(*                                                                         *)
(* Each writer is one transaction under READ COMMITTED: what it has        *)
(* written is seen by others when it commits, a row it has written is      *)
(* locked until then, and an insert waits for another insert of its month. *)
(***************************************************************************)
EXTENDS Savings

CONSTANTS
    Clicks,             \* POSTs of the owner, besides the job
    Paid, OptedIn,      \* the owner's plan is a paid one; wants the mail
    ShortHistory        \* bound: statements are written in histories of so many events

ASSUME StatementsAssumption == "job" \notin Clicks

VARIABLES
    stmt,     \* month -> the archived statement, if there is one
    writer,   \* the job and the clicks: where their transactions are
    issued    \* the last month the job was started for

vars == <<savingsVars, stmt, writer, issued>>

Writers == Clicks \cup {"job"}
NoRow == [is |-> "none", doc |-> None]
Resting == [step |-> "idle", for |-> 0, doc |-> None, row |-> NoRow, writes |-> {}, sentBefore |-> FALSE]

Init ==
    /\ SavingsInit
    /\ stmt = [m \in Months |-> NoRow]
    /\ writer = [w \in Writers |-> Resting]
    /\ issued = 0

\* The figures of a statement; its spend is the run rate of the month's latest audit.
Doc(m) ==
    [savings |-> Compute(m), last |-> IF DoneIn(m) = {} THEN 0 ELSE Latest(DoneIn(m))]

\* R-STMT-GATING: a free account is mailed about a month in which something happened.
ShouldEmail(m) ==
    \/ Paid
    \/ \E i \in DOMAIN audits : audits[i].month = m
    \/ \E x \in DOMAIN fb : fb[x].month = m

Locked(m, w) == \E v \in Writers \ {w} : writer[v].for = m /\ writer[v].writes \cap {"row", "body"} # {}

Opens(w, step, m, doc, row) ==
    writer' = [writer EXCEPT ![w] = [step |-> step, for |-> m, doc |-> doc, row |-> row,
                                     writes |-> {}, sentBefore |-> stmt[m].is = "sent"]]

Proceeds(w, step, doc, row, writes) ==
    writer' = [writer EXCEPT ![w] = [step |-> step, for |-> @.for, doc |-> doc, row |-> row,
                                     writes |-> writes, sentBefore |-> @.sentBefore]]

Rest(w) == writer' = [writer EXCEPT ![w] = Resting]

-----------------------------------------------------------------------------
(* The steps of a transaction *)

\* build, as the job starts with it.
JobBuild ==
    /\ writer["job"].step = "idle" /\ clock <= ShortHistory
    /\ issued < month - 1
    /\ issued' = month - 1
    /\ Opens("job", "built", month - 1, Doc(month - 1), NoRow)
    /\ UNCHANGED <<savingsVars, stmt>>

\* send_statement: an archived statement is sent as it is, another one is built.
Click(w, m) ==
    /\ writer[w].step = "idle" /\ clock <= ShortHistory
    /\ IF stmt[m].is = "none" THEN Opens(w, "built", m, Doc(m), NoRow)
                              ELSE Opens(w, "held", m, stmt[m].doc, stmt[m])
    /\ UNCHANGED <<savingsVars, stmt, issued>>

\* archive: looks for the month's row ...
Look(w) ==
    /\ writer[w].step = "built"
    /\ Proceeds(w, "looked", writer[w].doc, stmt[writer[w].for], {})
    /\ UNCHANGED <<savingsVars, stmt, issued>>

\* Mutant of Changes: a rerun replaces what has been sent.
ChangesAlways(row, doc) ==
    IF row.is = "none" THEN {"row"} ELSE IF row.doc # doc THEN {"body"} ELSE {}

\* A month without a row gets one, a draft is replaced, a statement that was sent is not.
Changes(row, doc) ==
    IF row.is = "none" THEN {"row"}
    ELSE IF row.is = "draft" /\ row.doc # doc THEN {"body"}
    ELSE {}

\* ... and what it adds or changes is flushed.
Flush(w) ==
    LET t == writer[w]
        changes == Changes(t.row, t.doc)
    IN  /\ t.step = "looked"
        /\ changes # {} => ~Locked(t.for, w)
        /\ ~(t.row.is = "none" /\ stmt[t.for].is # "none")
        /\ Proceeds(w, "held", IF changes = {} THEN t.row.doc ELSE t.doc, t.row, changes)
        /\ UNCHANGED <<savingsVars, stmt, issued>>

\* uq_statement_period: the other writer's row came first; the transaction is rolled back.
Clash(w) ==
    /\ writer[w].step = "looked" /\ writer[w].row.is = "none" /\ stmt[writer[w].for].is # "none"
    /\ Rest(w)
    /\ UNCHANGED <<savingsVars, stmt, issued>>

\* The job mails what has not been sent, to who wants it.
JobMails ==
    LET t == writer["job"] IN t.row.is # "sent" /\ OptedIn /\ ShouldEmail(t.for)

\* A click resends what was sent before.
Mail(w) ==
    LET t == writer[w]
    IN  /\ t.step = "held"
        /\ w = "job" => JobMails
        /\ Proceeds(w, "mailed", t.doc, t.row,
                    IF t.row.is = "sent" THEN t.writes ELSE t.writes \cup {"sent"})
        /\ UNCHANGED <<savingsVars, stmt, issued>>

\* The job archives without mailing.
Withhold ==
    LET t == writer["job"]
    IN  /\ t.step = "held" /\ ~JobMails
        /\ Proceeds("job", "mailed", t.doc, t.row, t.writes)
        /\ UNCHANGED <<savingsVars, stmt, issued>>

\* A click whose mail fails keeps what it archived.
ClickMailFails(w) ==
    LET t == writer[w]
    IN  /\ w # "job" /\ t.step = "held"
        /\ Proceeds(w, "mailed", t.doc, t.row, t.writes)
        /\ UNCHANGED <<savingsVars, stmt, issued>>

\* The job's mail fails, or a process dies: its transaction is rolled back.
RollBack(w) ==
    /\ writer[w].step # "idle"
    /\ Rest(w)
    /\ UNCHANGED <<savingsVars, stmt, issued>>

Commit(w) ==
    LET t == writer[w]
    IN  /\ t.step = "mailed"
        /\ t.writes # {} => ~Locked(t.for, w)
        /\ stmt' = IF t.writes = {} THEN stmt
                   ELSE [stmt EXCEPT ![t.for] =
                           [is |-> IF "sent" \in t.writes \/ @.is = "sent" THEN "sent" ELSE "draft",
                            doc |-> IF t.writes = {"sent"} THEN @.doc ELSE t.doc]]
        /\ Rest(w)
        /\ UNCHANGED <<savingsVars, issued>>

-----------------------------------------------------------------------------

Money ==
    /\ clock < ShortHistory \/ \A m \in Months, w \in Writers : stmt[m] = NoRow /\ writer[w] = Resting
    /\ \/ \E s \in Sources : Start(s)
       \/ \E i \in DOMAIN audits : Finish(i)
       \/ \E i \in Done, v \in Verdicts : \E n \in DOMAIN Found(i) : Vote(i, n, v)
       \/ MonthPasses
    /\ UNCHANGED <<stmt, writer, issued>>

WriterStep(w) ==
    Look(w) \/ Flush(w) \/ Clash(w) \/ Mail(w) \/ ClickMailFails(w) \/ RollBack(w) \/ Commit(w)

Next ==
    \/ Money
    \/ JobBuild \/ Withhold
    \/ \E w \in Clicks, m \in 1 .. month : Click(w, m)
    \/ \E w \in Writers : WriterStep(w)

Spec == Init /\ [][Next]_vars

-----------------------------------------------------------------------------

\* A statement that was sent is changed by nobody who came after it was sent
\* (build.archive: "a statement already SENT is never rewritten"): only a writer
\* whose transaction began before that can still overwrite it.
SentIsFinal ==
    [][\A m \in Months :
          (stmt[m].is = "sent" /\ stmt'[m] # stmt[m]) =>
              \E w \in Writers : writer[w].for = m /\ ~writer[w].sentBefore /\ writer'[w] = Resting]_vars
=============================================================================
