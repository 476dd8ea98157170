------------------------------- MODULE Upload -------------------------------
(***************************************************************************)
(* The handlers that create audits, run concurrently by the web server's   *)
(* thread pool over one database:                                          *)
(*                                                                         *)
(*   Uploads   POST /api/v1/audits   (api/routes_upload.py), pays a credit *)
(*   Ingests   POST /api/v1/ingest   (web/routes_ingest.py), plan pays     *)
(*   Connects  the first audit of a connected account on the Free plan     *)
(*             (web/routes_sources.py), takes its credit at the end        *)
(*                                                                         *)
(* with the credit ledger (services/payments/base.py), the idempotency     *)
(* keys (persistence/repo.py) and the purge (services/lifecycle/purge.py). *)
(*                                                                         *)
(* A handler's steps are its database statements; what it has not yet      *)
(* committed is visible to nobody.  Statements read committed data (READ   *)
(* COMMITTED) and an UPDATE waits for the row lock of a transaction that   *)
(* has updated the same row and not ended.  The audit a request creates    *)
(* carries the request's name.                                             *)
(***************************************************************************)
EXTENDS Naturals, FiniteSets

CONSTANTS
    Users, Uploads, Ingests, Connects,
    Keys,         \* values of the Idempotency-Key header
    NoKey,        \* the header was not sent
    None,         \* SQL NULL
    MaxCredits,   \* bound: payments rows 1 .. MaxCredits, in order of ts
    MaxCrashes    \* bound: how often the server process dies

Requests == Uploads \cup Ingests \cup Connects
Credits == 1 .. MaxCredits
NoCredit == 0

ASSUME UploadAssumption ==
    /\ MaxCredits \in Nat
    /\ MaxCrashes \in Nat
    /\ None \notin Users \cup Requests
    /\ NoKey \notin Keys
    /\ Uploads \cap Ingests = {}
    /\ Uploads \cap Connects = {}
    /\ Ingests \cap Connects = {}

VARIABLES
    owner,        \* payments.user_id (None: the row does not exist yet)
    spent,        \* payments.audit_id
    idem,         \* idempotency_keys: (user, key) -> audit_id
    audit,        \* audits: "none", "stored", "connected", "purged"
    disk,         \* requests whose upload directory holds a raw file
    req,          \* the handler of each request
    crashes

tables == <<owner, spent, idem, audit>>
vars == <<owner, spent, idem, audit, disk, req, crashes>>

Ended == {"done", "refused", "rejected", "replayed", "conflict", "crashed"}

\* Mutant of Locking: a rejected upload's session is left open.
LockingLeaks == {"claimed", "stored", "rejected"}

\* Handlers that hold the row lock of the credit they have updated.
Locking == {"claimed", "stored"}

Steps == {"idle", "gated", "claiming", "updating", "committed"} \cup Locking \cup Ended

Handler == [pc     : Steps,
            user   : Users \cup {None},
            key    : Keys \cup {NoKey},
            seen   : SUBSET Credits,           \* credits its gate found unspent
            cand   : Credits \cup {NoCredit},  \* credit it is claiming
            answer : Requests \cup {None}]     \* audit it was replayed with

TypeOK ==
    /\ owner \in [Credits -> Users \cup {None}]
    /\ spent \in [Credits -> Requests \cup {None}]
    /\ idem \in [Users \X Keys -> Requests \cup {None}]
    /\ audit \in [Requests -> {"none", "stored", "connected", "purged"}]
    /\ disk \in SUBSET Requests
    /\ req \in [Requests -> Handler]
    /\ crashes \in 0 .. MaxCrashes

Init ==
    /\ owner = [c \in Credits |-> None]
    /\ spent = [c \in Credits |-> None]
    /\ idem = [slot \in Users \X Keys |-> None]
    /\ audit = [r \in Requests |-> "none"]
    /\ disk = {}
    /\ req = [r \in Requests |-> [pc |-> "idle", user |-> None, key |-> NoKey,
                                  seen |-> {}, cand |-> NoCredit,
                                  answer |-> None]]
    /\ crashes = 0

-----------------------------------------------------------------------------
(* The credit ledger *)

\* unconsumed_credit, over all rows it could return.
Unspent(u) == {c \in Credits : owner[c] = u /\ spent[c] = None}

Active(r) == req[r].pc \notin Ended \cup {"idle"}
Locks(r, c) == req[r].pc \in Locking /\ req[r].cand = c

\* A webhook, an operator or the first sign-in grants a credit: a new
\* payments row, later than every row before it.
GrantCredit(u) ==
    \E c \in Credits :
        /\ owner[c] = None
        /\ \A d \in Credits : d < c => owner[d] # None
        /\ owner' = [owner EXCEPT ![c] = u]
        /\ UNCHANGED <<spent, idem, audit, disk, req, crashes>>

-----------------------------------------------------------------------------
(* Arrival: payment gate, role, replay *)

Goto(r, step) == req' = [req EXCEPT ![r].pc = step]

Enter(r, step, u, k, credits) ==
    req' = [req EXCEPT ![r] = [@ EXCEPT !.pc = step, !.user = u, !.key = k,
                                        !.seen = credits]]

Answer(r, a) ==
    req' = [req EXCEPT ![r] = [@ EXCEPT !.pc = "replayed", !.answer = a]]

Consider(r, step, c) ==
    req' = [req EXCEPT ![r] = [@ EXCEPT !.pc = step, !.cand = c]]

\* payment_gate (uploads) or the credit check of the connect wizard: a
\* transaction of its own, before the handler's.  It remembers nothing but
\* that some credit was there; seen keeps which.
Gate(r) ==
    /\ r \in Uploads \cup Connects
    /\ req[r].pc = "idle"
    /\ \E u \in Users, k \in Keys \cup {NoKey} :
          /\ r \in Connects => k = NoKey
          /\ Enter(r, IF Unspent(u) = {} THEN "refused" ELSE "gated",
                   u, k, Unspent(u))
    /\ UNCHANGED <<owner, spent, idem, audit, disk, crashes>>

\* Ingest asks the plan, which may have lapsed, and not the ledger.
PlanGate(r) ==
    /\ r \in Ingests
    /\ req[r].pc = "idle"
    /\ \E u \in Users, k \in Keys \cup {NoKey}, step \in {"gated", "refused"} :
          Enter(r, step, u, k, {})
    /\ UNCHANGED <<owner, spent, idem, audit, disk, crashes>>

\* The key the request carries already answers with an audit.
KeyTaken(r) == req[r].key # NoKey /\ idem[<<req[r].user, req[r].key>>] # None

\* find_idempotent_audit hits: the first audit is the answer, nothing else.
Replay(r) ==
    /\ r \in Uploads \cup Ingests
    /\ req[r].pc = "gated"
    /\ KeyTaken(r)
    /\ Answer(r, idem[<<req[r].user, req[r].key>>])
    /\ UNCHANGED <<owner, spent, idem, audit, disk, crashes>>

\* A viewer's role (403) or the file's extension (400) ends the request.
Reject(r) ==
    /\ r \in Uploads
    /\ req[r].pc = "gated"
    /\ Goto(r, "rejected")
    /\ UNCHANGED <<owner, spent, idem, audit, disk, crashes>>

\* create_audit inserts the row, uncommitted: an upload must now claim its
\* credit, an ingest goes straight to its file.
OpenAudit(r) ==
    /\ r \in Uploads \cup Ingests
    /\ req[r].pc = "gated"
    /\ ~KeyTaken(r)
    /\ Goto(r, IF r \in Uploads THEN "claiming" ELSE "claimed")
    /\ UNCHANGED <<owner, spent, idem, audit, disk, crashes>>

\* _kickoff_first_pull commits the audit row before anything has run.
Kickoff(r) ==
    /\ r \in Connects
    /\ req[r].pc = "gated"
    /\ audit' = [audit EXCEPT ![r] = "connected"]
    /\ Goto(r, "claiming")
    /\ UNCHANGED <<owner, spent, idem, disk, crashes>>

\* _process_first_pull claims only after the pull and the audit have run; when
\* one of them raises, the row is marked failed and no credit is claimed.
FirstPullFails(r) ==
    /\ r \in Connects
    /\ req[r].pc = "claiming"
    /\ Goto(r, "rejected")
    /\ UNCHANGED <<owner, spent, idem, audit, disk, crashes>>

-----------------------------------------------------------------------------
(* claim_credit: SELECT the oldest unspent credit, UPDATE it where it is   *)
(* still unspent, and start over when the UPDATE matched no row.           *)

SelectCredit(r) ==
    /\ req[r].pc = "claiming"
    /\ \E c \in Unspent(req[r].user) :
          /\ \A d \in Unspent(req[r].user) : c <= d
          /\ Consider(r, "updating", c)
    /\ UNCHANGED <<owner, spent, idem, audit, disk, crashes>>

\* None left: 402 and a rollback; a connected account keeps its free audit.
NoCreditLeft(r) ==
    /\ req[r].pc = "claiming"
    /\ Unspent(req[r].user) = {}
    /\ Goto(r, IF r \in Uploads THEN "refused" ELSE "done")
    /\ UNCHANGED <<owner, spent, idem, audit, disk, crashes>>

\* Mutant of UpdateCredit: UPDATE without "audit_id IS NULL".
UpdateCreditBlindly(r) ==
    /\ req[r].pc = "updating"
    /\ \A s \in Requests \ {r} : ~Locks(s, req[r].cand)
    /\ Goto(r, "claimed")
    /\ UNCHANGED <<owner, spent, idem, audit, disk, crashes>>

\* Mutant of UpdateCredit: rowcount 0 is answered 402 instead of a retry.
UpdateCreditOnce(r) ==
    /\ req[r].pc = "updating"
    /\ \A s \in Requests \ {r} : ~Locks(s, req[r].cand)
    /\ Goto(r, IF spent[req[r].cand] = None THEN "claimed" ELSE "refused")
    /\ UNCHANGED <<owner, spent, idem, audit, disk, crashes>>

UpdateCredit(r) ==
    /\ req[r].pc = "updating"
    /\ \A s \in Requests \ {r} : ~Locks(s, req[r].cand)
    /\ IF spent[req[r].cand] = None
       THEN Goto(r, "claimed")
       ELSE Consider(r, "claiming", NoCredit)
    /\ UNCHANGED <<owner, spent, idem, audit, disk, crashes>>

-----------------------------------------------------------------------------
(* The file, the commit and the background task *)

\* The body is streamed to <upload_dir>/<audit id>/ inside the transaction.
WriteFile(r) ==
    /\ r \in Uploads \cup Ingests
    /\ req[r].pc = "claimed"
    /\ disk' = disk \cup {r}
    /\ Goto(r, "stored")
    /\ UNCHANGED <<owner, spent, idem, audit, crashes>>

\* Too large (413) or empty (400): the file is unlinked, the claim undone.
RejectFile(r) ==
    /\ r \in Uploads
    /\ req[r].pc = "stored"
    /\ disk' = disk \ {r}
    /\ Goto(r, "rejected")
    /\ UNCHANGED <<owner, spent, idem, audit, crashes>>

\* Mutant of Commit: no unique constraint on (user_id, key).
CommitAnyKey(r) ==
    /\ req[r].pc = "stored"
    /\ audit' = [audit EXCEPT ![r] = "stored"]
    /\ spent' = [spent EXCEPT ![req[r].cand] = r]
    /\ idem' = [idem EXCEPT ![<<req[r].user, req[r].key>>] = r]
    /\ Goto(r, "committed")
    /\ UNCHANGED <<owner, disk, crashes>>

\* One transaction: the claim, the audit row and the idempotency key.
Commit(r) ==
    /\ req[r].pc = "stored"
    /\ ~KeyTaken(r)
    /\ audit' = [audit EXCEPT ![r] = "stored"]
    /\ spent' = [c \in Credits |->
                   IF c = req[r].cand THEN r ELSE spent[c]]
    /\ idem' = [slot \in Users \X Keys |->
                  IF slot = <<req[r].user, req[r].key>> THEN r ELSE idem[slot]]
    /\ Goto(r, "committed")
    /\ UNCHANGED <<owner, disk, crashes>>

\* uq_idem_user_key: another request bound the key since Replay looked.  The
\* flush raises, everything is rolled back, and the file stays where it is.
KeyConflict(r) ==
    /\ req[r].pc = "stored"
    /\ KeyTaken(r)
    /\ Goto(r, "conflict")
    /\ UNCHANGED <<owner, spent, idem, audit, disk, crashes>>

\* The response is sent and the runner takes the audit over.
Dispatch(r) ==
    /\ req[r].pc = "committed"
    /\ Goto(r, "done")
    /\ UNCHANGED <<owner, spent, idem, audit, disk, crashes>>

\* A connected account's claim and its finished audit are one commit.
Settle(r) ==
    /\ r \in Connects
    /\ req[r].pc = "claimed"
    /\ spent' = [spent EXCEPT ![req[r].cand] = r]
    /\ Goto(r, "done")
    /\ UNCHANGED <<owner, idem, audit, disk, crashes>>

-----------------------------------------------------------------------------
(* Purge and crash *)

\* purge_one: file, upload_path and the audit's idempotency keys go together.
Purge(r) ==
    /\ audit[r] = "stored"
    /\ disk' = disk \ {r}
    /\ audit' = [audit EXCEPT ![r] = "purged"]
    /\ idem' = [slot \in Users \X Keys |->
                  IF idem[slot] = r THEN None ELSE idem[slot]]
    /\ UNCHANGED <<owner, spent, req, crashes>>

\* The server process dies: every open transaction rolls back, no unlink runs.
Crash ==
    /\ crashes < MaxCrashes
    /\ crashes' = crashes + 1
    /\ req' = [r \in Requests |->
                 IF Active(r) THEN [req[r] EXCEPT !.pc = "crashed"] ELSE req[r]]
    /\ UNCHANGED <<owner, spent, idem, audit, disk>>

-----------------------------------------------------------------------------
\* What the server does for a request that has arrived.
Step(r) ==
    \/ Replay(r) \/ Reject(r) \/ OpenAudit(r) \/ Kickoff(r)
    \/ FirstPullFails(r) \/ SelectCredit(r) \/ NoCreditLeft(r)
    \/ UpdateCredit(r) \/ WriteFile(r) \/ RejectFile(r) \/ Commit(r)
    \/ KeyConflict(r) \/ Dispatch(r) \/ Settle(r)

Next ==
    \/ \E u \in Users : GrantCredit(u)
    \/ \E r \in Requests : Gate(r) \/ PlanGate(r) \/ Step(r) \/ Purge(r)
    \/ Crash

Spec == Init /\ [][Next]_vars

\* A handler that can go on does: the thread pool runs it to its end.  Nobody
\* has to pay, to call, to purge or to crash.
FairSpec == Spec /\ \A r \in Requests : WF_vars(Step(r))

-----------------------------------------------------------------------------
(* Properties *)

\* Every upload that became an audit was paid by exactly one credit (FR-18;
\* claim_credit's rowcount check), a connected account's first audit by at most
\* one, an ingested batch by none: refused, rejected, replayed, conflicting and
\* crashed uploads cost nothing, and concurrent uploads never share a credit.
PaidExactlyOnce ==
    \A r \in Requests :
        LET paid == Cardinality({c \in Credits : spent[c] = r}) IN
        CASE r \in Uploads  -> paid = IF audit[r] = "none" THEN 0 ELSE 1
          [] r \in Connects -> paid <= 1
          [] r \in Ingests  -> paid = 0

\* A credit pays only for audits of the user it was granted to, and only for
\* audits that exist.
CreditStaysHome ==
    \A c \in Credits : spent[c] # None =>
        /\ owner[c] = req[spent[c]].user
        /\ audit[spent[c]] # "none"

\* A user's idempotency key stands for at most one audit whose upload is still
\* held, however many requests carry it at once (FR-26; uq_idem_user_key).
OneAuditPerKey ==
    \A r, s \in Requests :
        /\ audit[r] = "stored" /\ audit[s] = "stored"
        /\ req[r].user = req[s].user
        /\ req[r].key = req[s].key /\ req[r].key # NoKey
        => r = s

\* A key answers only with an audit that user really created under that key,
\* and whose upload is not purged: "a replayed key after purge is a fresh
\* upload, not a stale replay" (purge_one).
KeyIsFresh ==
    \A u \in Users, k \in Keys :
        LET r == idem[<<u, k>>] IN
        r # None => audit[r] = "stored" /\ req[r].user = u /\ req[r].key = k

\* Losing the race for a credit is not a reason to be turned away: an upload
\* that passed the gate is refused only when every credit the gate could see
\* has paid for some audit (claim_credit "moves to the next candidate").
RefusedOnlyWhenSpent ==
    \A r \in Uploads : req[r].pc = "refused" =>
        \A c \in req[r].seen : spent[c] # None

\* Every request that arrives is answered or dies with the process: the retry
\* loop and the row locks of claim_credit neither livelock nor deadlock.
EveryRequestEnds ==
    \A r \in Requests : (req[r].pc = "gated") ~> (req[r].pc \in Ended)

\* The handlers implement the one-step purchase of PaidOnce.
Abstract == INSTANCE PaidOnce
BuysAtomically == Abstract!Spec

=============================================================================
