------------------------------- MODULE Connect ------------------------------
(***************************************************************************)
(* Connecting sources (web/routes_sources.py): the wizard, which checks    *)
(* plan and key, asks the provider, and checks again under a lock on the   *)
(* user's row before it inserts; the plain form, which does it all in one  *)
(* transaction; revoking; the backfill of the fingerprints of sources      *)
(* older than the check (services/connectors/pull.py).                     *)
(*                                                                         *)
(* All sources are of one provider.  A label is the number the wizard puts *)
(* in it, or OwnWords for what the customer typed into the plain form.     *)
(***************************************************************************)
EXTENDS Naturals, FiniteSets

CONSTANTS
    Owners,
    Keys,
    Forms,         \* posted forms
    Sources,       \* ids for rows of the sources table
    Legacy,        \* sources connected before keys had fingerprints
    FreeLimit, ProLimit, TeamLimit,    \* plan_source_limits
    MaxChanges,    \* bound: how often plans change
    Nobody, NoKey

ASSUME ConnectAssumption ==
    /\ Legacy \subseteq Sources
    /\ Nobody \notin Owners \cup Forms
    /\ NoKey \notin Keys
    /\ {FreeLimit, ProLimit, TeamLimit, MaxChanges} \subseteq Nat
    /\ IsFiniteSet(Sources)

OwnWords == 0
Labels == Nat
Limit == [free |-> FreeLimit, pro |-> ProLimit, team |-> TeamLimit]
Plans == DOMAIN Limit

VARIABLES
    plan,      \* user_plan: "free" without a subscription or after it
    source,    \* the sources table
    form,      \* the posted forms
    lock,      \* user -> form that holds the lock on the user's row
    changes

vars == <<plan, source, form, lock, changes>>

TypeOK ==
    /\ plan \in [Owners -> Plans]
    /\ source \in [Sources -> [status      : {"none", "active", "revoked"},
                               owner       : Owners \cup {Nobody},
                               key         : Keys \cup {NoKey},
                               fingerprint : Keys \cup {NoKey},
                               label       : Labels]]
    /\ form \in [Forms -> [pc    : {"blank", "checked", "validated", "inserting",
                                    "saved", "refused"},
                           kind  : {"wizard", "plain"},
                           user  : Owners \cup {Nobody},
                           key   : Keys \cup {NoKey},
                           limit : {0} \cup {Limit[p] : p \in Plans},
                           nth   : Labels]]
    /\ lock \in [Owners -> Forms \cup {Nobody}]
    /\ changes \in 0 .. MaxChanges

Unused == [status |-> "none", owner |-> Nobody, key |-> NoKey,
           fingerprint |-> NoKey, label |-> OwnWords]
Blank == [pc |-> "blank", kind |-> "plain", user |-> Nobody, key |-> NoKey,
          limit |-> 0, nth |-> 0]

Rows(u) == {s \in Sources : source[s].owner = u}
Active(u) == {s \in Rows(u) : source[s].status = "active"}

\* Legacy sources are one user's, with keys of their own.
Init ==
    /\ plan \in [Owners -> Plans]
    /\ \E u \in Owners : \E key \in [Legacy -> Keys] :
          /\ \A s, t \in Legacy : key[s] = key[t] => s = t
          /\ source = [s \in Sources |->
                          IF s \in Legacy
                          THEN [Unused EXCEPT !.status = "active", !.owner = u,
                                              !.key = key[s]]
                          ELSE Unused]
    /\ form = [f \in Forms |-> Blank]
    /\ lock = [u \in Owners |-> Nobody]
    /\ changes = 0

-----------------------------------------------------------------------------

Goto(f, step) == form' = [form EXCEPT ![f].pc = step]

Full(u, limit) == Cardinality(Active(u)) >= limit
Connected(u, k) == \E s \in Active(u) : source[s].fingerprint = k

Numbered(u) == Cardinality(Rows(u)) + 1

\* wizard_validate, first transaction: authorize before the provider is asked
Check(f, u, k) ==
    /\ form[f] = Blank
    /\ ~Full(u, Limit[plan[u]])
    /\ ~Connected(u, k)
    /\ form' = [form EXCEPT ![f] = [Blank EXCEPT !.pc = "checked",
                                                 !.kind = "wizard",
                                                 !.user = u,
                                                 !.key = k,
                                                 !.limit = Limit[plan[u]]]]
    /\ UNCHANGED <<plan, source, lock, changes>>

\* The verdicts ok and unreachable save, bad_key and no_scope do not.
Validate(f) ==
    /\ form[f].pc = "checked"
    /\ Goto(f, "validated") \/ Goto(f, "refused")
    /\ UNCHANGED <<plan, source, lock, changes>>

\* connect_source reads the plan, then waits for the row's lock.
PostPlain(f, u, k) ==
    /\ form[f] = Blank
    /\ form' = [form EXCEPT ![f] = [Blank EXCEPT !.pc = "validated",
                                                 !.user = u,
                                                 !.key = k,
                                                 !.limit = Limit[plan[u]]]]
    /\ UNCHANGED <<plan, source, lock, changes>>

\* Mutant of Free: the user's row is read without FOR UPDATE.
FreeAlways(u) == TRUE

\* SELECT ... FOR UPDATE of the user's row, by either form
Free(u) == lock[u] = Nobody

\* Mutant of StillFits: the count is trusted from before the provider's answer.
StillFitsBlindly(f) == ~Connected(form[f].user, form[f].key)

\* The second look, with the limit that was read first.
StillFits(f) ==
    /\ ~Full(form[f].user, form[f].limit)
    /\ ~Connected(form[f].user, form[f].key)

\* Under the lock: look again, count the user's sources for the label.
Recheck(f) ==
    /\ form[f].pc = "validated"
    /\ Free(form[f].user)
    /\ StillFits(f)
    /\ form' = [form EXCEPT ![f].pc = "inserting",
                            ![f].nth = IF form[f].kind = "wizard"
                                       THEN Numbered(form[f].user) ELSE OwnWords]
    /\ lock' = [lock EXCEPT ![form[f].user] = f]
    /\ UNCHANGED <<plan, source, changes>>

\* The 403 or 409 that Recheck raises releases the lock at once.
Refuse(f) ==
    /\ form[f].pc = "validated"
    /\ Free(form[f].user)
    /\ ~StillFits(f)
    /\ Goto(f, "refused")
    /\ UNCHANGED <<plan, source, lock, changes>>

Insert(f, s) ==
    /\ form[f].pc = "inserting"
    /\ source[s] = Unused
    /\ source' = [source EXCEPT ![s] = [status      |-> "active",
                                        owner       |-> form[f].user,
                                        key         |-> form[f].key,
                                        fingerprint |-> form[f].key,
                                        label       |-> form[f].nth]]
    /\ lock' = [lock EXCEPT ![form[f].user] = Nobody]
    /\ Goto(f, "saved")
    /\ UNCHANGED <<plan, changes>>

\* revoke_source takes no lock; the key is deleted, its fingerprint kept.
RevokeSource(s) ==
    /\ source[s].status = "active"
    /\ source' = [source EXCEPT ![s].status = "revoked", ![s].key = NoKey]
    /\ UNCHANGED <<plan, form, lock, changes>>

\* run_pull gives a source that lacks one its fingerprint.
BackfillFingerprint(s) ==
    /\ source[s].status = "active"
    /\ source[s].fingerprint = NoKey
    /\ source' = [source EXCEPT ![s].fingerprint = source[s].key]
    /\ UNCHANGED <<plan, form, lock, changes>>

PlanChanges(u) ==
    /\ changes < MaxChanges
    /\ changes' = changes + 1
    /\ \E new \in Plans \ {plan[u]} : plan' = [plan EXCEPT ![u] = new]
    /\ UNCHANGED <<source, form, lock>>

Next ==
    \/ \E f \in Forms :
          \/ \E u \in Owners, k \in Keys : Check(f, u, k) \/ PostPlain(f, u, k)
          \/ Validate(f) \/ Recheck(f) \/ Refuse(f)
          \/ \E s \in Sources : Insert(f, s)
    \/ \E s \in Sources : RevokeSource(s) \/ BackfillFingerprint(s)
    \/ \E u \in Owners : PlanChanges(u)

Spec == Init /\ [][Next]_vars

-----------------------------------------------------------------------------
(* Properties.                                                             *)

\* A form that connects a source leaves its user within the limit of the
\* plan it saw, however many forms are posted at once.
WithinLimit ==
    [][\A f \in Forms : form[f].pc # "saved" /\ form'[f].pc = "saved" =>
          Cardinality(Active(form[f].user)') <= form[f].limit]_vars

\* No two active sources of a user hold one key, which would count its usage
\* twice; a legacy source can, until it is pulled for the first time.
OneSourcePerKey ==
    \A u \in Owners : \A s, t \in Active(u) \ Legacy :
        source[s].key = source[t].key => s = t

\* The wizard never gives two sources of a user the same label, revoked
\* ones included.
LabelsDiffer ==
    \A u \in Owners : \A s, t \in Rows(u) :
        source[s].label = source[t].label /\ source[s].label # OwnWords => s = t
=============================================================================
