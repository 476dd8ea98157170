------------------------------ MODULE PaidOnce ------------------------------
(***************************************************************************)
(* What an upload promises a customer, with no request in flight: buying   *)
(* an audit is ONE step that spends one credit of the buyer, stores the    *)
(* audit and binds the buyer's idempotency key to it.  Upload.tla shows    *)
(* the many-step handlers to implement this.                               *)
(*                                                                         *)
(* The four variables are the committed tables: payments.user_id,          *)
(* payments.audit_id, idempotency_keys.audit_id and the part of audits     *)
(* that says whether the raw upload is still held.                         *)
(***************************************************************************)
EXTENDS Naturals

CONSTANTS
    Users,        \* customers
    Requests,     \* requests; the audit a request creates has its name
    Keys,         \* values of the Idempotency-Key header
    NoKey,        \* the header was not sent
    None,         \* SQL NULL
    MaxCredits    \* bound: credits are granted with ids 1 .. MaxCredits

VARIABLES
    owner,        \* credit -> the user it was granted to, or None
    spent,        \* credit -> the audit it paid for, or None
    idem,         \* (user, key) -> the audit the key answers with, or None
    audit         \* request -> what became of its audit row

vars == <<owner, spent, idem, audit>>

Credits == 1 .. MaxCredits

Init ==
    /\ owner = [c \in Credits |-> None]
    /\ spent = [c \in Credits |-> None]
    /\ idem = [slot \in Users \X Keys |-> None]
    /\ audit = [r \in Requests |-> "none"]

\* A payment arrives: one more credit for u.
Grant(c, u) ==
    /\ owner[c] = None
    /\ owner' = [owner EXCEPT ![c] = u]
    /\ UNCHANGED <<spent, idem, audit>>

\* The key is bound to the new audit, and only if it answers with none yet.
Bind(r, u, k) ==
    \/ /\ k = NoKey
       /\ UNCHANGED idem
    \/ /\ k \in Keys
       /\ idem[<<u, k>>] = None
       /\ idem' = [idem EXCEPT ![<<u, k>>] = r]

\* The whole purchase: credit, audit and key in one step.
Buy(r, u, k, c) ==
    /\ audit[r] = "none"
    /\ owner[c] = u
    /\ spent[c] = None
    /\ spent' = [spent EXCEPT ![c] = r]
    /\ audit' = [audit EXCEPT ![r] = "stored"]
    /\ Bind(r, u, k)
    /\ UNCHANGED owner

\* A subscriber's batch: the plan pays, so no credit moves.
Stream(r, u, k) ==
    /\ audit[r] = "none"
    /\ audit' = [audit EXCEPT ![r] = "stored"]
    /\ Bind(r, u, k)
    /\ UNCHANGED <<owner, spent>>

\* A connected account's first audit exists before it is paid for ...
Connect(r) ==
    /\ audit[r] = "none"
    /\ audit' = [audit EXCEPT ![r] = "connected"]
    /\ UNCHANGED <<owner, spent, idem>>

\* ... and takes at most one credit once it has run.
Settle(r, u, c) ==
    /\ audit[r] = "connected"
    /\ \A d \in Credits : spent[d] # r
    /\ owner[c] = u
    /\ spent[c] = None
    /\ spent' = [spent EXCEPT ![c] = r]
    /\ UNCHANGED <<owner, idem, audit>>

\* The raw upload is deleted, and the keys that answered with it are free.
Expire(r) ==
    /\ audit[r] = "stored"
    /\ audit' = [audit EXCEPT ![r] = "purged"]
    /\ idem' = [slot \in Users \X Keys |->
                  IF idem[slot] = r THEN None ELSE idem[slot]]
    /\ UNCHANGED <<owner, spent>>

Next ==
    \/ \E c \in Credits, u \in Users : Grant(c, u)
    \/ \E r \in Requests, u \in Users, k \in Keys \cup {NoKey} :
          \/ \E c \in Credits : Buy(r, u, k, c)
          \/ Stream(r, u, k)
    \/ \E r \in Requests, u \in Users, c \in Credits : Settle(r, u, c)
    \/ \E r \in Requests : Connect(r) \/ Expire(r)

Spec == Init /\ [][Next]_vars
=============================================================================
