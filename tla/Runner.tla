------------------------------- MODULE Runner -------------------------------
(***************************************************************************)
(* The life of an uploaded audit after its upload: the pipeline runs of    *)
(* services/runner.py on the server's thread pool, the operator's re-run   *)
(* and purge (web/routes_admin.py), the scheduled and the customer's purge *)
(* (services/lifecycle/purge.py), a crash of the server.                   *)
(*                                                                         *)
(* One run is one call of AuditRunner.run.  Each of its steps is one       *)
(* transaction, one file operation, or one statement of the last           *)
(* transaction; several runs may be in flight, even for the same audit.    *)
(* The rows a run derives (findings, call aggregates, stage events) and    *)
(* the files it renders carry the run's number.                            *)
(***************************************************************************)
EXTENDS Naturals, FiniteSets

CONSTANTS
    Audits,
    Cap,            \* max_concurrent_audits
    MaxRuns,        \* bound: runs are numbered 1 .. MaxRuns
    MaxCrashes,     \* bound: how often the server process dies
    NoAudit         \* the audit of a run that was not started

Runs == 1 .. MaxRuns
NoRun == 0

ASSUME RunnerAssumption ==
    /\ Cap \in Nat \ {0}
    /\ MaxRuns \in Nat
    /\ MaxCrashes \in Nat
    /\ NoAudit \notin Audits

VARIABLES
    status,       \* audits.status ("none": not uploaded yet)
    upload,       \* "none", "held" (upload_path is set), "purged" (purged_at is)
    raw,          \* audits whose raw upload is on disk
    rows,         \* audit -> runs whose derived rows are committed
    report,       \* audit -> run that last wrote its report files, or NoRun
    crossed,      \* audits re-run while a run of theirs was in flight (observation)
    run,          \* the runs
    purging,      \* audits whose purge has removed the file, not committed
    crashes

vars == <<status, upload, raw, rows, report, crossed, run, purging, crashes>>

Waiting == {"waiting", "admitted"}
Working == {"loading", "reading", "rendered", "deleted", "failing"}
Live == Waiting \cup Working \cup {"announcing"}
Over == {"ended", "timedOut", "killed"}

TypeOK ==
    /\ status \in [Audits -> {"none", "queued", "processing", "done", "failed"}]
    /\ upload \in [Audits -> {"none", "held", "purged"}]
    /\ raw \in SUBSET Audits
    /\ rows \in [Audits -> SUBSET Runs]
    /\ report \in [Audits -> Runs \cup {NoRun}]
    /\ crossed \in SUBSET Audits
    /\ run \in [Runs -> [pc    : {"unborn"} \cup Live \cup Over,
                         audit : Audits \cup {NoAudit},
                         old   : SUBSET Runs]]    \* rows its DELETEs have seen
    /\ purging \in SUBSET Audits
    /\ crashes \in 0 .. MaxCrashes

Init ==
    /\ status = [a \in Audits |-> "none"]
    /\ upload = [a \in Audits |-> "none"]
    /\ raw = {}
    /\ rows = [a \in Audits |-> {}]
    /\ report = [a \in Audits |-> NoRun]
    /\ crossed = {}
    /\ run = [w \in Runs |-> [pc |-> "unborn", audit |-> NoAudit, old |-> {}]]
    /\ purging = {}
    /\ crashes = 0

Of(w, a) == run[w].audit = a
Goto(w, step) == run' = [run EXCEPT ![w].pc = step]
GotoWith(w, step, old) == run' = [run EXCEPT ![w] = [@ EXCEPT !.pc = step, !.old = old]]

\* processing_count
Processing == Cardinality({a \in Audits : status[a] = "processing"})

-----------------------------------------------------------------------------
(* Where runs come from *)

\* background.add_task(runner.run, audit_id)
Spawn(w, a) ==
    /\ run[w].pc = "unborn"
    /\ \A v \in Runs : v < w => run[v].pc # "unborn"
    /\ run' = [run EXCEPT ![w] = [@ EXCEPT !.pc = "waiting", !.audit = a]]

\* The upload was committed (Upload.tla) and its first run is scheduled.
Uploaded(w, a) ==
    /\ status[a] = "none"
    /\ Spawn(w, a)
    /\ status' = [status EXCEPT ![a] = "queued"]
    /\ upload' = [upload EXCEPT ![a] = "held"]
    /\ raw' = raw \cup {a}
    /\ UNCHANGED <<rows, report, crossed, purging, crashes>>

\* rerun_audit asks only that the upload is held, whatever the status.
Rerun(w, a) ==
    /\ upload[a] = "held"
    /\ crossed' = IF \A v \in Runs : Of(v, a) => run[v].pc \in Over THEN crossed ELSE crossed \cup {a}
    /\ Spawn(w, a)
    /\ status' = [status EXCEPT ![a] = "queued"]
    /\ UNCHANGED <<upload, raw, rows, report, purging, crashes>>

-----------------------------------------------------------------------------
(* wait_for_slot: a poll in a transaction of its own *)

\* Mutant of SlotFree: queued audits, the caller's included, fill slots too.
SlotFreeOfQueue(w) ==
    /\ run[w].pc = "waiting"
    /\ Cardinality({a \in Audits : status[a] \in {"queued", "processing"}}) < Cap
    /\ Goto(w, "admitted")
    /\ UNCHANGED <<status, upload, raw, rows, report, crossed, purging, crashes>>

SlotFree(w) ==
    /\ run[w].pc = "waiting"
    /\ Processing < Cap
    /\ Goto(w, "admitted")
    /\ UNCHANGED <<status, upload, raw, rows, report, crossed, purging, crashes>>

\* An hour without a free slot: the run gives up, the audit stays queued.
SlotTimeout(w) ==
    /\ run[w].pc = "waiting"
    /\ Processing >= Cap
    /\ Goto(w, "timedOut")
    /\ UNCHANGED <<status, upload, raw, rows, report, crossed, purging, crashes>>

-----------------------------------------------------------------------------
(* run and _pipeline, for a run w of audit a *)

Begin(w, a) ==
    /\ run[w].pc = "admitted"
    /\ Goto(w, "loading")
    /\ status' = [status EXCEPT ![a] = "processing"]
    /\ UNCHANGED <<upload, raw, rows, report, crossed, purging, crashes>>

\* The path is read in one session; a purged audit fails the assertion.
OpenUpload(w, a) ==
    /\ run[w].pc = "loading"
    /\ Goto(w, IF upload[a] = "held" THEN "reading" ELSE "failing")
    /\ UNCHANGED <<status, upload, raw, rows, report, crossed, purging, crashes>>

\* The file is read later, and a purge may have removed it since; what comes of
\* it is analysed in memory, and the report files are rewritten in place before
\* anything is committed.
Render(w, a) ==
    /\ run[w].pc = "reading"
    /\ IF a \in raw
       THEN Goto(w, "rendered") /\ report' = [report EXCEPT ![a] = w]
       ELSE Goto(w, "failing") /\ UNCHANGED report
    /\ UNCHANGED <<status, upload, raw, rows, crossed, purging, crashes>>

\* Mutant of DeleteRows: the previous rows are not replaced.
DeleteNoRows(w, a) ==
    /\ run[w].pc = "rendered"
    /\ Goto(w, "deleted")
    /\ UNCHANGED <<status, upload, raw, rows, report, crossed, purging, crashes>>

\* DELETE of the previous derived rows: a statement sees the rows committed
\* when it starts, and never those another transaction commits later.
DeleteRows(w, a) ==
    /\ run[w].pc = "rendered"
    /\ GotoWith(w, "deleted", rows[a])
    /\ UNCHANGED <<status, upload, raw, rows, report, crossed, purging, crashes>>

\* Commit of the deletes, this run's rows and the status.
Complete(w, a) ==
    /\ run[w].pc = "deleted"
    /\ GotoWith(w, "announcing", {})
    /\ rows' = [rows EXCEPT ![a] = (@ \ run[w].old) \cup {w}]
    /\ status' = [status EXCEPT ![a] = "done"]
    /\ UNCHANGED <<upload, raw, report, crossed, purging, crashes>>

\* A file that does not parse, too few valid rows, an exception of a detector,
\* a renderer or the database: whatever is uncommitted is rolled back.
Break(w) ==
    /\ run[w].pc \in {"reading", "rendered", "deleted"}
    /\ GotoWith(w, "failing", {})
    /\ UNCHANGED <<status, upload, raw, rows, report, crossed, purging, crashes>>

\* _fail asks nothing of the status it overwrites.
Fail(w, a) ==
    /\ run[w].pc = "failing"
    /\ Goto(w, "ended")
    /\ status' = [status EXCEPT ![a] = "failed"]
    /\ UNCHANGED <<upload, raw, rows, report, crossed, purging, crashes>>

\* The signed link is mailed inside run's try block; after it come the customer's
\* webhooks, and the dispatcher swallows their failures.
Announce(w, a) ==
    /\ run[w].pc = "announcing"
    /\ Goto(w, "ended")
    /\ UNCHANGED <<status, upload, raw, rows, report, crossed, purging, crashes>>

\* The mail server refuses: an exception like any other.
MailFails(w) ==
    /\ run[w].pc = "announcing"
    /\ Goto(w, "failing")
    /\ UNCHANGED <<status, upload, raw, rows, report, crossed, purging, crashes>>

-----------------------------------------------------------------------------
(* purge_one: the directory goes first, the row is committed after *)

\* Mutant of PurgeFile: the row is stamped first, the directory goes later.
PurgeStamp(a) ==
    /\ upload[a] = "held"
    /\ upload' = [upload EXCEPT ![a] = "purged"]
    /\ purging' = purging \cup {a}
    /\ UNCHANGED <<status, raw, rows, report, crossed, run, crashes>>

PurgeFile(a) ==
    /\ upload[a] = "held"
    /\ raw' = raw \ {a}
    /\ purging' = purging \cup {a}
    /\ UNCHANGED <<status, upload, rows, report, crossed, run, crashes>>

PurgeCommit(a) ==
    /\ a \in purging
    /\ purging' = purging \ {a}
    /\ upload' = [upload EXCEPT ![a] = "purged"]
    /\ UNCHANGED <<status, raw, rows, report, crossed, run, crashes>>

\* The server dies: runs and open purges are gone, rows and files are not.
Crash ==
    /\ crashes < MaxCrashes
    /\ crashes' = crashes + 1
    /\ run' = [w \in Runs |->
                 IF run[w].pc \in Live THEN [run[w] EXCEPT !.pc = "killed", !.old = {}]
                 ELSE run[w]]
    /\ purging' = {}
    /\ UNCHANGED <<status, upload, raw, rows, report, crossed>>

-----------------------------------------------------------------------------
\* What the thread of run w does next.
RunStep(w) ==
    \/ SlotFree(w) \/ SlotTimeout(w) \/ Break(w) \/ MailFails(w)
    \/ \E a \in Audits :
          /\ Of(w, a)
          /\ \/ Begin(w, a) \/ OpenUpload(w, a) \/ Render(w, a)
             \/ DeleteRows(w, a) \/ Complete(w, a) \/ Fail(w, a) \/ Announce(w, a)

Next ==
    \/ \E w \in Runs, a \in Audits : Uploaded(w, a) \/ Rerun(w, a)
    \/ \E w \in Runs : RunStep(w)
    \/ \E a \in Audits : PurgeFile(a) \/ PurgeCommit(a)
    \/ Crash

Spec == Init /\ [][Next]_vars

\* A started run goes on: its thread is scheduled until run returns.
FairSpec == Spec /\ \A w \in Runs : WF_vars(RunStep(w))

-----------------------------------------------------------------------------
(* Properties *)

Abandoned(a) == \E w \in Runs : Of(w, a) /\ run[w].pc \in {"timedOut", "killed"}

\* A customer who polls a queued or a processing audit is waiting for a run
\* that is still there, unless a crash or the slot timeout took it away:
\* every exception of the pipeline ends in _fail.
SomebodyWorks ==
    \A a \in Audits :
        /\ status[a] = "queued" =>
              Abandoned(a) \/ \E w \in Runs : Of(w, a) /\ run[w].pc \in Waiting
        /\ status[a] = "processing" =>
              Abandoned(a) \/ \E w \in Runs : Of(w, a) /\ run[w].pc \in Working

\* What the dashboard reads of a finished audit (its rows) and what its signed
\* link serves (its files) come from one and the same run, also after re-runs,
\* failed re-runs and crashes in between.  Only a re-run beside a run in flight
\* mixes the two: rerun_audit asks nothing of the status.
DoneIsConsistent ==
    \A a \in Audits \ crossed : status[a] = "done" =>
        report[a] # NoRun /\ rows[a] = {report[a]}

\* An audit that says its upload is purged holds no raw file (FR-21): not after
\* a purge that died halfway, nor with a run reading the file meanwhile.
PurgeIsTruthful ==
    \A a \in Audits : upload[a] = "purged" => a \notin raw

\* Every audit that waits for a report gets one or is told it failed, unless
\* a crash or the slot timeout took its run away.
EveryAuditSettles ==
    \A a \in Audits :
        (status[a] \in {"queued", "processing"}) ~>
            (status[a] \in {"done", "failed"} \/ Abandoned(a))

=============================================================================
