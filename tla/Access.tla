------------------------------- MODULE Access -------------------------------
(***************************************************************************)
(* One account's doors: sign-in by magic link or federation and the one    *)
(* free credit it brings (web/auth.py, web/routes_auth.py), and the        *)
(* credentials its owner gives to programs: API tokens, ingest keys, OAuth *)
(* apps, and the devices and access tokens bought with one-time codes      *)
(* (web/routes_developer.py, routes_ingest.py, routes_oauth.py,            *)
(* routes_devices.py), their uses (api_auth.py) and their revocations.     *)
(*                                                                         *)
(* Handlers run side by side in a thread pool: a handler looks, waits for  *)
(* the rows it locks, and commits; what it looked at may be gone by then.  *)
(* A handler may die at any of its steps, and nothing of an open           *)
(* transaction stays.  READ COMMITTED.                                     *)
(*                                                                         *)
(* Left out: signatures and hashes, scopes, redirect addresses and PKCE    *)
(* (each refuses before anything is written), rate limits, audit log.      *)
(***************************************************************************)
EXTENDS Naturals, FiniteSets

CONSTANTS
    Requests,      \* bound: requests at work at one time
    MaxTime,       \* bound: ticks of the clock
    LinkTTL,       \* ticks after which a magic link is refused
    MaxLinks,      \* bound: magic links requested
    MaxCodes,      \* bound: one-time codes issued
    MaxCreds,      \* bound: credentials made
    Cap,           \* MAX_API_TOKENS_PER_USER and its two siblings
    Capped,        \* bound: the capped kinds that occur
    None

Times == 0 .. MaxTime
Links == 1 .. MaxLinks
Codes == 1 .. MaxCodes
Creds == 1 .. MaxCreds

Kinds == {"token", "key", "app", "device", "access"}
CredRows == [kind : Kinds, app : Creds \cup {None}, code : Codes \cup {None}, live : BOOLEAN]
CodeRows == [app : Creds \cup {None}, used : BOOLEAN, expired : BOOLEAN]

ASSUME AccessAssumption ==
    /\ {MaxTime, LinkTTL, MaxLinks, MaxCodes, MaxCreds, Cap} \subseteq Nat
    /\ Capped \subseteq {"token", "key", "app"}
    /\ None \notin Nat
    /\ None \notin CodeRows /\ None \notin CredRows

VARIABLES
    clock,
    login,     \* last: users.last_login_at; cut: sessions_valid_from; comps: comp payments
    cookie,    \* the times at which the owner's session cookies were issued
    link,      \* magic link -> the time it was issued, None before
    code,      \* code -> row of link_codes or oauth_auth_codes, None before
    cred,      \* credential -> its row, None before
    gone,      \* the credentials the owner has revoked (observation)
    request    \* request -> the handler at work, or Idle

vars == <<clock, login, cookie, link, code, cred, gone, request>>

Idle == [kind |-> "none", pc |-> "done"]

Init ==
    /\ clock = 0
    /\ login = [last |-> None, cut |-> None, comps |-> 0]
    /\ cookie = {}
    /\ link = [l \in Links |-> None]
    /\ code = [c \in Codes |-> None]
    /\ cred = [k \in Creds |-> None]
    /\ gone = {}
    /\ request = [r \in Requests |-> Idle]

-----------------------------------------------------------------------------
(* Sessions and locks *)

\* resolve_session: a cookie issued before the epoch is refused, with a second
\* of grace because cookies are stamped in whole seconds.
Resolves(t) == login.cut # None => t + 1 >= login.cut
SignedIn == \E t \in cookie : Resolves(t)

At(r, kind, pc) == request[r].kind = kind /\ request[r].pc = pc
Ends(r) == request' = [request EXCEPT ![r] = Idle]
Open(kind, pc) == {r \in Requests : At(r, kind, pc)}

\* A login that has flushed its stamp and a mint that has counted hold the
\* row of users until they commit.
UserLocked == Open("login", "commit") \cup Open("mint", "commit") # {}

Numbered(row, n) == row[n] = None /\ \A m \in 1 .. n - 1 : row[m] # None

-----------------------------------------------------------------------------
(* Signing in *)

\* request_magic_link: the account is committed, the link is mailed.
RequestLink(l) ==
    /\ Numbered(link, l)
    /\ link' = [link EXCEPT ![l] = clock]
    /\ UNCHANGED <<clock, login, cookie, code, cred, gone, request>>

\* verify_magic_token: not expired, and issued after the last login
Accepted(l) ==
    /\ link[l] # None
    /\ clock <= link[l] + LinkTTL
    /\ login.last # None => link[l] > login.last

\* verify and _record_login up to the stamp: whether this is the first login
\* was read with the row.
Look(r) ==
    request' = [request EXCEPT ![r] =
        [kind |-> "login", pc |-> "flush", stamp |-> clock,
         first |-> login.last = None, grant |-> FALSE]]

AskVerify(r, l) ==
    /\ Accepted(l)
    /\ Look(r)
    /\ UNCHANGED <<clock, login, cookie, link, code, cred, gone>>

\* federation_callback, once the provider has vouched for the address
AskFederated(r) ==
    /\ Look(r)
    /\ UNCHANGED <<clock, login, cookie, link, code, cred, gone>>

\* Mutant of CompExists: no unique index on the comp payments of a user.
NoCompIndex == FALSE

\* uq_payments_one_comp_per_user
CompExists == login.comps > 0

\* The stamp is flushed, which takes the row of users.  On a first login the
\* credit is inserted in a savepoint; the index's refusal is swallowed.
Flush(r) ==
    /\ At(r, "login", "flush")
    /\ ~UserLocked
    /\ request' = [request EXCEPT ![r].pc = "commit",
                      ![r].grant = request[r].first /\ ~CompExists]
    /\ UNCHANGED <<clock, login, cookie, link, code, cred, gone>>

CommitLogin(r) ==
    /\ At(r, "login", "commit")
    /\ login' = [last |-> request[r].stamp, cut |-> login.cut,
                 comps |-> IF request[r].grant THEN login.comps + 1 ELSE login.comps]
    /\ request' = [request EXCEPT ![r].pc = "answer"]
    /\ UNCHANGED <<clock, cookie, link, code, cred, gone>>

\* The cookie is made after the commit.
Answer(r) ==
    /\ At(r, "login", "answer")
    /\ cookie' = cookie \cup {clock}
    /\ Ends(r)
    /\ UNCHANGED <<clock, login, link, code, cred, gone>>

\* The operator's mark_paid with provider comp meets the same index, and waits
\* for a grant that is not committed yet.
OperatorComp ==
    /\ ~CompExists
    /\ \A r \in Open("login", "commit") : ~request[r].grant
    /\ login' = [login EXCEPT !.comps = @ + 1]
    /\ UNCHANGED <<clock, cookie, link, code, cred, gone, request>>

\* close_account's part here: every cookie issued before now is dead.
CloseAccount ==
    /\ SignedIn
    /\ ~UserLocked
    /\ login' = [login EXCEPT !.cut = clock]
    /\ UNCHANGED <<clock, cookie, link, code, cred, gone, request>>

-----------------------------------------------------------------------------
(* Capped credentials *)

Minted(kind) == [kind |-> kind, app |-> None, code |-> None, live |-> TRUE]
Live(kind) == {k \in Creds : cred[k] # None /\ cred[k].kind = kind /\ cred[k].live}

\* SELECT ... FOR UPDATE of the row of users
MintWaits == ~UserLocked

\* mint_token, mint_key, register_app: who has Cap of them is refused.
AskMint(r, kind) ==
    /\ SignedIn
    /\ MintWaits
    /\ Cardinality(Live(kind)) < Cap
    /\ request' = [request EXCEPT ![r] = [kind |-> "mint", pc |-> "commit", what |-> kind]]
    /\ UNCHANGED <<clock, login, cookie, link, code, cred, gone>>

CommitMint(r, k) ==
    /\ At(r, "mint", "commit")
    /\ Numbered(cred, k)
    /\ cred' = [cred EXCEPT ![k] = Minted(request[r].what)]
    /\ Ends(r)
    /\ UNCHANGED <<clock, login, cookie, link, code, gone>>

\* revoke_token, revoke_key, revoke_app, revoke_device: the hash is deleted.
\* There is no such handler for an access token.
Revoke(k) ==
    /\ SignedIn
    /\ cred[k] # None
    /\ cred[k].kind # "access"
    /\ cred[k].live
    /\ cred' = [cred EXCEPT ![k].live = FALSE]
    /\ gone' = gone \cup {k}
    /\ UNCHANGED <<clock, login, cookie, link, code, request>>

-----------------------------------------------------------------------------
(* One-time codes *)

IssueCode(c, a) ==
    /\ SignedIn
    /\ Numbered(code, c)
    /\ code' = [code EXCEPT ![c] = [app |-> a, used |-> FALSE, expired |-> FALSE]]
    /\ UNCHANGED <<clock, login, cookie, link, cred, gone, request>>

\* issue_link_code: a code for a device
IssueLinkCode(c) == IssueCode(c, None)

\* authorize and authorize_decision: a code for an app that is not revoked
Authorize(c, a) == a \in Live("app") /\ IssueCode(c, a)

\* Unused and unexpired
Redeemable(c) == code[c] # None /\ ~code[c].used /\ ~code[c].expired

AskRedeem(r, c) ==
    /\ Redeemable(c)
    /\ request' = [request EXCEPT ![r] = [kind |-> "redeem", pc |-> "claim", code |-> c]]
    /\ UNCHANGED <<clock, login, cookie, link, code, cred, gone>>

\* link_device: anyone with the code, once the human at the machine has agreed
AskLink(r, c) == AskRedeem(r, c) /\ code[c].app = None

\* token: the app that the code was made for, with its secret
AskExchange(r, c) == AskRedeem(r, c) /\ code[c].app \in Live("app")

CodeLocked(c) == \E r \in Open("redeem", "commit") : request[r].code = c

\* Mutant of Claim: does not look at the UPDATE's rowcount.
ClaimBlindly(r) ==
    /\ At(r, "redeem", "claim")
    /\ ~CodeLocked(request[r].code)
    /\ request' = [request EXCEPT ![r].pc = "commit"]
    /\ UNCHANGED <<clock, login, cookie, link, code, cred, gone>>

\* UPDATE ... WHERE consumed_at IS NULL, and its rowcount
Claim(r) ==
    /\ At(r, "redeem", "claim")
    /\ ~CodeLocked(request[r].code)
    /\ IF code[request[r].code].used
       THEN Ends(r)
       ELSE request' = [request EXCEPT ![r].pc = "commit"]
    /\ UNCHANGED <<clock, login, cookie, link, code, cred, gone>>

\* The code is spent and its device or access token there, in one commit.
CommitRedeem(r, k) ==
    LET c == request[r].code
        a == code[c].app
    IN  /\ At(r, "redeem", "commit")
        /\ Numbered(cred, k)
        /\ code' = [code EXCEPT ![c].used = TRUE]
        /\ cred' = [cred EXCEPT ![k] =
              [kind |-> IF a = None THEN "device" ELSE "access",
               app |-> a, code |-> c, live |-> TRUE]]
        /\ Ends(r)
        /\ UNCHANGED <<clock, login, cookie, link, gone>>

-----------------------------------------------------------------------------
(* Programs *)

\* _key_from_bearer, _device: the hash of what is presented is there.
Present(k) == cred[k] # None /\ cred[k].live

\* What the owner has revoked, or was given to an app the owner has revoked
Barred(k) == k \in gone \/ cred[k].app \in gone

\* A program presents its token, key or device, whose row is read; whether it
\* should be turned away is noted for the property.
AskUse(r, k) ==
    /\ Present(k)
    /\ cred[k].kind # "app"
    /\ request' = [request EXCEPT ![r] =
          [kind |-> "use", pc |-> IF cred[k].app = None THEN "stamp" ELSE "app",
           cred |-> k, barred |-> Barred(k)]]
    /\ UNCHANGED <<clock, login, cookie, link, code, cred, gone>>

\* resolve_read_bearer then reads the app of an access token: 401 if revoked.
LookApp(r) ==
    /\ At(r, "use", "app")
    /\ IF Present(cred[request[r].cred].app)
       THEN request' = [request EXCEPT ![r].pc = "stamp"]
       ELSE Ends(r)
    /\ UNCHANGED <<clock, login, cookie, link, code, cred, gone>>

\* Mutant of Stamp: writes every column of the row it has read, the hash too.
StampRow(r) ==
    /\ At(r, "use", "stamp")
    /\ cred' = [cred EXCEPT ![request[r].cred].live = TRUE]
    /\ Ends(r)
    /\ UNCHANGED <<clock, login, cookie, link, code, gone>>

\* last_used_at, request_count, last_ship_at: the columns that changed are
\* written to the row, whatever became of it, and the program is served.
Stamp(r) ==
    /\ At(r, "use", "stamp")
    /\ Ends(r)
    /\ UNCHANGED <<clock, login, cookie, link, code, cred, gone>>

-----------------------------------------------------------------------------
(* Time and death *)

\* An access token's OAUTH days are over, or a code's minutes.
ExpireToken(k) ==
    /\ cred[k] # None
    /\ cred[k].kind = "access"
    /\ cred[k].live
    /\ cred' = [cred EXCEPT ![k].live = FALSE]
    /\ UNCHANGED <<clock, login, cookie, link, code, gone, request>>
ExpireCode(c) ==
    /\ code[c] # None
    /\ ~code[c].used /\ ~code[c].expired
    /\ code' = [code EXCEPT ![c].expired = TRUE]
    /\ UNCHANGED <<clock, login, cookie, link, cred, gone, request>>

Tick ==
    /\ clock < MaxTime
    /\ clock' = clock + 1
    /\ UNCHANGED <<login, cookie, link, code, cred, gone, request>>

\* The process dies, or the database goes away, under a handler.
Dies(r) ==
    /\ request[r] # Idle
    /\ Ends(r)
    /\ UNCHANGED <<clock, login, cookie, link, code, cred, gone>>

Ask(r) ==
    /\ request[r] = Idle
    /\ \/ \E l \in Links : AskVerify(r, l)
       \/ AskFederated(r)
       \/ \E kind \in Capped : AskMint(r, kind)
       \/ \E c \in Codes : AskLink(r, c) \/ AskExchange(r, c)
       \/ \E k \in Creds : AskUse(r, k)

Step(r) ==
    \/ Flush(r) \/ CommitLogin(r) \/ Answer(r)
    \/ Claim(r) \/ LookApp(r) \/ Stamp(r) \/ Dies(r)
    \/ \E k \in Creds : CommitMint(r, k) \/ CommitRedeem(r, k)

Next ==
    \/ \E r \in Requests : Ask(r) \/ Step(r)
    \/ \E l \in Links : RequestLink(l)
    \/ \E k \in Creds : Revoke(k) \/ ExpireToken(k)
    \/ \E c \in Codes : ExpireCode(c) \/ IssueLinkCode(c) \/ \E a \in Creds : Authorize(c, a)
    \/ OperatorComp \/ CloseAccount \/ Tick

Spec == Init /\ [][Next]_vars

-----------------------------------------------------------------------------
(* Properties *)

\* Every row and every handler at work has the fields its kind has, and a
\* handler's code is there.
Logins == [kind : {"login"}, pc : {"flush", "commit", "answer"}, stamp : Times,
           first : BOOLEAN, grant : BOOLEAN]
Mints == [kind : {"mint"}, pc : {"commit"}, what : {"token", "key", "app"}]
Redeems == [kind : {"redeem"}, pc : {"claim", "commit"}, code : Codes]
Uses == [kind : {"use"}, pc : {"app", "stamp"}, cred : Creds, barred : BOOLEAN]
Handlers == Logins \cup Mints \cup Redeems \cup Uses \cup {Idle}

TypeOK ==
    /\ clock \in Times
    /\ login \in [last : Times \cup {None}, cut : Times \cup {None}, comps : Nat]
    /\ cookie \subseteq Times
    /\ link \in [Links -> Times \cup {None}]
    /\ code \in [Codes -> CodeRows \cup {None}]
    /\ cred \in [Creds -> CredRows \cup {None}]
    /\ gone \subseteq Creds
    /\ request \in [Requests -> Handlers]
    /\ \A r \in Requests : request[r].kind = "redeem" => code[request[r].code] # None

\* The free audit's one meter: whatever doors are used side by side and
\* whatever dies on the way, nobody gets a second free credit and nobody is in
\* without the first (_record_login).
MeterOnce == login.comps <= 1 /\ (cookie # {} => login.comps = 1)

\* A code buys one device or one access token, though two exchanges of it have
\* both found it unused (link_device, token).
CodesWorkOnce ==
    \A j, k \in Creds :
        j # k /\ cred[j] # None /\ cred[k] # None /\ cred[j].code # None
            => cred[j].code # cred[k].code

\* Once the owner has revoked a credential, no program that comes afterwards is
\* served on it, whatever uses of it were under way; and none on what a revoked
\* app was given, be it by an exchange that found the app in place and made the
\* token after the revocation (revoke_token and its siblings, token,
\* resolve_read_bearer).
RevokedStaysOut == \A r \in Requests : At(r, "use", "stamp") => ~request[r].barred

=============================================================================
