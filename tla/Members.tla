------------------------------ MODULE Members -------------------------------
(***************************************************************************)
(* Workspaces, members and invites (web/routes_members.py, web/authz.py,   *)
(* persistence/repo.py).  Every user owns a workspace of their own, named  *)
(* here by the user.  Managers invite by mail; who holds the code and the  *)
(* address joins; managers remove members and change their roles.          *)
(*                                                                         *)
(* Handlers run side by side in a thread pool.  Each looks (who asks, in   *)
(* which workspace, in which role, what the row is) and writes later; what *)
(* it looked at may be gone by then.  A handler's steps are its look, the  *)
(* mail between transactions, and each write that another can see or that  *)
(* waits for a row another has written.  READ COMMITTED.                   *)
(*                                                                         *)
(* Left out: names, rate limits, the audit log, sign-in (see Access).      *)
(***************************************************************************)
EXTENDS Naturals, FiniteSets

CONSTANTS
    Users,
    Billing,       \* users -> the subscription of their own workspace, or None
    Staff,         \* users who administer Founder's workspace from the start
    Founder,
    MaxRequests,   \* bound: requests, numbered in the order they come
    MaxInvites,    \* bound: rows of workspace_invites, numbered likewise
    Handed,        \* bound: the assignable roles that are handed out
    None

Requests == 1 .. MaxRequests
Invites == 1 .. MaxInvites
Roles == {"owner", "admin", "member", "viewer"}
Assignable == {"admin", "member", "viewer"}

SubRows == [plan : {"free", "pro", "team"}, currency : {"USD", "INR"},
            status : {"active", "past_due", "read_only", "cancelled"}]
MemberRows == [role : Roles, id : Invites \cup {0}]
InviteRows == [ws : Users, to : Users, role : Assignable, mailed : BOOLEAN,
               state : {"pending", "used", "gone"}, expired : BOOLEAN]
Handlers ==
    [kind : {"invite"}, pc : {"write", "mail"}, ws : Users, to : Users, role : Assignable,
     invite : Invites \cup {None}]
    \cup [kind : {"resend"}, pc : {"mail", "rotate"}, invite : Invites, sent : BOOLEAN]
    \cup [kind : {"cancel"}, pc : {"delete"}, invite : Invites]
    \cup [kind : {"revoke"}, pc : {"write"}, ws : Users, target : Users, id : Invites \cup {0}]
    \cup [kind : {"role"}, pc : {"write"}, ws : Users, target : Users, id : Invites \cup {0},
          role : Assignable]
    \cup [kind : {"accept"}, pc : {"claim", "add", "commit"}, invite : Invites, user : Users,
          new : BOOLEAN, add : BOOLEAN]
    \cup [kind : {"none"}, pc : {"done"}]

ASSUME MembersAssumption ==
    /\ Founder \in Users
    /\ Billing \in [Users -> SubRows \cup {None}]
    /\ Staff \subseteq Users \ {Founder}
    /\ MaxRequests \in Nat /\ MaxInvites \in Nat
    /\ Handed \subseteq Assignable
    /\ None \notin Users \cup Requests \cup Nat
    /\ None \notin Roles /\ None \notin {"USD", "INR"}
    /\ None \notin MemberRows /\ None \notin InviteRows /\ None \notin Handlers

VARIABLES
    known,       \* users with a row of users, and their own workspace
    row,         \* workspace -> user -> row of workspace_members, or None
    active,      \* user -> users.active_workspace_id
    invite,      \* invite -> row of workspace_invites, None before
    request      \* request -> the handler at work

membersVars == <<known, row, active, invite, request>>

\* A membership is known by the invite it came from: 0 for those of MembersInit.
Member(role, id) == [role |-> role, id |-> id]

MembersInit ==
    /\ known = {Founder} \cup Staff
    /\ row = [w \in Users |-> [u \in Users |->
          IF u = w /\ u \in known THEN Member("owner", 0)
          ELSE IF w = Founder /\ u \in Staff THEN Member("admin", 0) ELSE None]]
    /\ active = [u \in Users |-> IF u \in Staff THEN Founder ELSE u]
    /\ invite = [i \in Invites |-> None]
    /\ request = [r \in Requests |-> None]

-----------------------------------------------------------------------------
(* Roles: authz.py and repo.py *)

RoleIn(u, w) == IF row[w][u] = None THEN None ELSE row[w][u].role

\* Mutant of Acting: trusts the pointer.
ActingByPointer(u) == active[u]

\* active_workspace_id: the pointer if it names a live membership, else home
Acting(u) == IF RoleIn(u, active[u]) # None THEN active[u] ELSE u

\* _MATRIX: who has Perm.MANAGE_MEMBERS
Manages(role) == role \in {"owner", "admin"}

\* can_manage_member: any manager, and never over an owner
CanManage(actor, target) == Manages(actor) /\ target # "owner"

-----------------------------------------------------------------------------
(* What a user may do, by subscription *)

\* routes_sources.user_plan goes by the user's own subscription ...
UserPlan(u) ==
    IF Billing[u] = None THEN "free"
    ELSE IF Billing[u].status = "cancelled" THEN "free" ELSE Billing[u].plan

\* ... and _entitlements_from by a workspace's; read-only stops what is scheduled.
Entitlement(sub) ==
    LET status == IF sub = None THEN "active" ELSE sub.status
        plan == IF sub # None /\ status # "cancelled" THEN sub.plan ELSE "free"
    IN  [plan |-> plan, scheduled |-> plan # "free" /\ status # "read_only"]

\* subscriptions.entitlements: members inherit the plan of where they act.
EntitledTo(u) == Entitlement(Billing[Acting(u)])

\* _active_workspace_ids: the same for many users, from two queries
ActingOfAll(us) ==
    LET memberships == {m \in us \X Users : row[m[2]][m[1]] # None}
        home(u) == CHOOSE w \in Users : RoleIn(u, w) = "owner"
    IN  [u \in us |-> IF active[u] # home(u) /\ <<u, active[u]>> \in memberships
                      THEN active[u] ELSE home(u)]

\* _subs_by_workspace: one query for the subscriptions of many workspaces
SubsOf(ws) == [w \in ws |-> Billing[w]]

\* entitlements_for: one look at all the workspaces that users act in
EntitledAll(us) ==
    LET acting == ActingOfAll(us)
        subs == SubsOf({acting[u] : u \in us})
    IN  [u \in us |-> Entitlement(subs[acting[u]])]

\* plans.locked_currency, which spells "cancelled" out for itself
LockedCurrency(u) ==
    LET sub == Billing[Acting(u)]
    IN  IF sub = None THEN None ELSE IF sub.status = "cancelled" THEN None ELSE sub.currency

-----------------------------------------------------------------------------
(* Handlers *)

Comes(r, h) == request' = [request EXCEPT ![r] = h]

At(r, kind, pc) ==
    /\ request[r] # None
    /\ request[r].kind = kind
    /\ request[r].pc = pc
GoTo(r, pc) == request' = [request EXCEPT ![r].pc = pc]
Ends(r) == request' = [request EXCEPT ![r] = [kind |-> "none", pc |-> "done"]]

\* The row of an accepted invite stays locked until its handler commits.
Locked(i) == \E r \in Requests :
    /\ request[r] # None
    /\ request[r].kind = "accept"
    /\ request[r].pc \in {"add", "commit"}
    /\ request[r].invite = i
Pending(i) == invite[i] # None /\ invite[i].state = "pending"

\* Every handler of the members page begins by asking for the manager's role
\* in the workspace the caller acts in.
AsManager(u) == u \in known /\ Manages(RoleIn(u, Acting(u)))

\* invite_member: manager, Scale plan; the role is never owner
AskInvite(r, u, to, role) ==
    /\ AsManager(u)
    /\ UserPlan(u) = "team"
    /\ Comes(r, [kind |-> "invite", pc |-> "write", ws |-> Acting(u), to |-> to,
                 role |-> role, invite |-> None])
    /\ UNCHANGED <<known, row, active, invite>>

\* The invite is committed first.  Of its code, which alone finds it, the model
\* keeps whether it has reached the mailbox.
WriteInvite(r, i) ==
    /\ At(r, "invite", "write")
    /\ invite[i] = None
    /\ \A j \in Invites : j < i => invite[j] # None
    /\ invite' = [invite EXCEPT ![i] =
          [ws |-> request[r].ws, to |-> request[r].to, role |-> request[r].role,
           mailed |-> FALSE, state |-> "pending", expired |-> FALSE]]
    /\ request' = [request EXCEPT ![r].pc = "mail", ![r].invite = i]
    /\ UNCHANGED <<known, row, active>>

\* The mail goes out after the commit and may fail.
MailInvite(r, sent) ==
    /\ At(r, "invite", "mail")
    /\ invite' = IF sent THEN [invite EXCEPT ![request[r].invite].mailed = TRUE] ELSE invite
    /\ Ends(r)
    /\ UNCHANGED <<known, row, active>>

\* resend_invite, phase 1: reads a pending invite, writes nothing
AskResend(r, u, i) ==
    /\ AsManager(u)
    /\ UserPlan(u) = "team"
    /\ Pending(i)
    /\ invite[i].ws = Acting(u)
    /\ Comes(r, [kind |-> "resend", pc |-> "mail", invite |-> i, sent |-> FALSE])
    /\ UNCHANGED <<known, row, active, invite>>

\* phase 2: the new code is mailed before it is stored
MailResend(r, sent) ==
    /\ At(r, "resend", "mail")
    /\ IF sent
       THEN request' = [request EXCEPT ![r].pc = "rotate", ![r].sent = TRUE]
       ELSE Ends(r)
    /\ UNCHANGED <<known, row, active, invite>>

\* phase 3: if the invite is still pending its code and expiry are replaced
Rotate(r) ==
    LET i == request[r].invite
    IN  /\ At(r, "resend", "rotate")
        /\ ~Locked(i)
        /\ invite' = IF Pending(i)
                     THEN [invite EXCEPT ![i].mailed = request[r].sent, ![i].expired = FALSE]
                     ELSE invite
        /\ Ends(r)
        /\ UNCHANGED <<known, row, active>>

\* cancel_invite finds a pending invite ...
AskCancel(r, u, i) ==
    /\ AsManager(u)
    /\ Pending(i)
    /\ invite[i].ws = Acting(u)
    /\ Comes(r, [kind |-> "cancel", pc |-> "delete", invite |-> i])
    /\ UNCHANGED <<known, row, active, invite>>

\* ... and deletes its row by id, whatever has become of it.
Cancel(r) ==
    LET i == request[r].invite
    IN  /\ At(r, "cancel", "delete")
        /\ ~Locked(i)
        /\ invite' = [invite EXCEPT ![i].state = "gone"]
        /\ Ends(r)
        /\ UNCHANGED <<known, row, active>>

\* revoke_member and set_member_role: a row of the caller's workspace, not the
\* caller's own, not the owner's
MayGovern(u, target) ==
    LET w == Acting(u)
    IN  /\ AsManager(u)
        /\ target # u
        /\ row[w][target] # None
        /\ CanManage(RoleIn(u, w), RoleIn(target, w))

AskRevoke(r, u, target) ==
    /\ MayGovern(u, target)
    /\ Comes(r, [kind |-> "revoke", pc |-> "write", ws |-> Acting(u), target |-> target,
                 id |-> row[Acting(u)][target].id])
    /\ UNCHANGED <<known, row, active, invite>>

\* new_role is one of assignable_roles.
AskRole(r, u, target, role) ==
    /\ MayGovern(u, target)
    /\ Comes(r, [kind |-> "role", pc |-> "write", ws |-> Acting(u), target |-> target,
                 id |-> row[Acting(u)][target].id, role |-> role])
    /\ UNCHANGED <<known, row, active, invite>>

StillThere(h) == row[h.ws][h.target] # None /\ row[h.ws][h.target].id = h.id

\* The row that was looked at is deleted by id: if it is gone already, or the
\* user has come back with another row, nothing is.
Revoke(r) ==
    LET h == request[r]
    IN  /\ At(r, "revoke", "write")
        /\ row' = IF StillThere(h) THEN [row EXCEPT ![h.ws][h.target] = None] ELSE row
        /\ Ends(r)
        /\ UNCHANGED <<known, active, invite>>

SetRole(r) ==
    LET h == request[r]
    IN  /\ At(r, "role", "write")
        /\ row' = IF StillThere(h) THEN [row EXCEPT ![h.ws][h.target].role = h.role] ELSE row
        /\ Ends(r)
        /\ UNCHANGED <<known, active, invite>>

-----------------------------------------------------------------------------
(* Accepting *)

\* accept finds the invite by its code, unused, unexpired, for this address.
\* get_or_create_user remembers whether it inserts a user.
AskAccept(r, u, i) ==
    /\ Pending(i)
    /\ ~invite[i].expired
    /\ invite[i].mailed
    /\ invite[i].to = u
    /\ Comes(r, [kind |-> "accept", pc |-> "claim", invite |-> i, user |-> u,
                 new |-> u \notin known, add |-> FALSE])
    /\ UNCHANGED <<known, row, active, invite>>

\* Mutant of Claim: does not look at the UPDATE's rowcount.
ClaimBlindly(r) ==
    /\ At(r, "accept", "claim")
    /\ ~Locked(request[r].invite)
    /\ GoTo(r, "add")
    /\ UNCHANGED <<known, row, active, invite>>

\* UPDATE ... WHERE consumed_at IS NULL, and its rowcount; nothing is seen of
\* it before the commit.
Claim(r) ==
    /\ At(r, "accept", "claim")
    /\ ~Locked(request[r].invite)
    /\ IF Pending(request[r].invite) THEN GoTo(r, "add") ELSE Ends(r)
    /\ UNCHANGED <<known, row, active, invite>>

\* The membership is inserted unless there is one.
Add(r) ==
    LET h == request[r]
    IN  /\ At(r, "accept", "add")
        /\ request' = [request EXCEPT ![r].pc = "commit",
                          ![r].add = row[invite[h.invite].ws][h.user] = None]
        /\ UNCHANGED <<known, row, active, invite>>

\* The unique constraints on the address and on workspace and user
Conflicts(h) ==
    \/ h.new /\ h.user \in known
    \/ h.add /\ row[invite[h.invite].ws][h.user] # None

\* Everything is undone, the claim included.
AcceptConflicts(r) ==
    /\ At(r, "accept", "commit")
    /\ Conflicts(request[r])
    /\ Ends(r)
    /\ UNCHANGED <<known, row, active, invite>>

\* User, membership, claim and the new active workspace, in one commit
AcceptCommits(r) ==
    LET h == request[r]
        i == h.invite
        w == invite[i].ws
        u == h.user
    IN  /\ At(r, "accept", "commit")
        /\ ~Conflicts(h)
        /\ known' = known \cup {u}
        /\ row' = [x \in Users |-> [v \in Users |->
              IF h.add /\ x = w /\ v = u THEN Member(invite[i].role, i)
              ELSE IF h.new /\ x = u /\ v = u THEN Member("owner", 0)
              ELSE row[x][v]]]
        /\ invite' = [invite EXCEPT ![i].state = "used"]
        /\ active' = [active EXCEPT ![u] = w]
        /\ Ends(r)

-----------------------------------------------------------------------------
(* One-step operations, and time *)

\* get_or_create_user on a first visit; who loses the race is answered 500.
SignUp(u) ==
    /\ u \notin known
    /\ known' = known \cup {u}
    /\ row' = [row EXCEPT ![u][u] = Member("owner", 0)]
    /\ UNCHANGED <<active, invite, request>>

\* switch_workspace to another workspace the user is a member of
Switch(u, w) ==
    /\ u \in known
    /\ w # Acting(u)
    /\ RoleIn(u, w) # None
    /\ active' = [active EXCEPT ![u] = w]
    /\ UNCHANGED <<known, row, invite, request>>

\* INVITE_TTL_DAYS have passed.
Expire(i) ==
    /\ Pending(i)
    /\ ~invite[i].expired
    /\ invite' = [invite EXCEPT ![i].expired = TRUE]
    /\ UNCHANGED <<known, row, active, request>>

-----------------------------------------------------------------------------
Ask(r) ==
    /\ request[r] = None
    /\ \A q \in Requests : q < r => request[q] # None
    /\ \E u \in Users :
          \/ \E to \in Users \ {u}, role \in Handed : AskInvite(r, u, to, role)
          \/ \E i \in Invites : AskResend(r, u, i) \/ AskCancel(r, u, i) \/ AskAccept(r, u, i)
          \/ \E target \in Users :
                \/ AskRevoke(r, u, target)
                \/ \E role \in Handed : AskRole(r, u, target, role)

Step(r) ==
    /\ request[r] # None
    /\ \/ \E i \in Invites : WriteInvite(r, i)
       \/ \E sent \in BOOLEAN : MailInvite(r, sent) \/ MailResend(r, sent)
       \/ Rotate(r) \/ Cancel(r) \/ Revoke(r) \/ SetRole(r)
       \/ Claim(r) \/ Add(r) \/ AcceptConflicts(r) \/ AcceptCommits(r)

MembersNext ==
    \/ \E r \in Requests : Ask(r) \/ Step(r)
    \/ \E u \in Users : SignUp(u) \/ \E w \in Users : Switch(u, w)
    \/ \E i \in Invites : Expire(i)

MembersSpec == MembersInit /\ [][MembersNext]_membersVars

-----------------------------------------------------------------------------
(* Properties *)

MembersTypeOK ==
    /\ known \subseteq Users
    /\ row \in [Users -> [Users -> MemberRows \cup {None}]]
    /\ active \in [Users -> Users]
    /\ invite \in [Invites -> InviteRows \cup {None}]
    /\ request \in [Requests -> Handlers \cup {None}]

\* A workspace has its one owner, whatever admins and races do: nobody else
\* becomes one, and the owner is neither removed nor demoted
\* (can_manage_member, assignable_roles, get_or_create_workspace).
OwnerStays ==
    \A w, u \in Users : RoleIn(u, w) = "owner" <=> (w = u /\ u \in known)

\* active_workspace_id's two promises: the workspace in which a user reads and
\* acts is one they are a member of at that moment, and there always is one.  And
\* they are billed as they act: the digest, which resolves many users at once,
\* entitles each to the same, and whoever is on a paid plan is shown its currency
\* (_active_workspace_ids "mirrors", locked_currency).
ActsAsMember ==
    \A u \in known :
        /\ RoleIn(u, Acting(u)) # None
        /\ EntitledAll(known)[u] = EntitledTo(u)
        /\ EntitledTo(u).plan # "free" => LockedCurrency(u) # None

\* Who joins a workspace joins by an invite to their address that was pending until
\* that step, with the role it names.
JoinsByInvite ==
    \A w, u \in Users : w # u /\ row[w][u] = None /\ row'[w][u] # None =>
        \E i \in Invites :
            /\ Pending(i) /\ invite'[i].state = "used"
            /\ invite[i].ws = w /\ invite[i].to = u
            /\ row'[w][u] = Member(invite[i].role, i)

\* Whoever holds a link that works is never left with links of which none does.
LinksStay ==
    \A i \in Invites : Pending(i) /\ Pending(i)' /\ invite[i].mailed => invite'[i].mailed

\* An invite is worth what it says, once: nobody joins by a used or withdrawn one, a
\* second time or after having been removed (accept's claim).  And it is worth it
\* until then, whatever is resent: a new code is stored only after the mail with it
\* has left (resend_invite).
InvitesAreHonoured == [][JoinsByInvite /\ LinksStay]_membersVars
=============================================================================
