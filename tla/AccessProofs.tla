----------------------------- MODULE AccessProofs -----------------------------
(***************************************************************************)
(* Proofs about Access: that handlers and rows keep their types, that a    *)
(* code buys once, that a revocation keeps out whoever comes after it, and *)
(* that the free credit is given once.                                     *)
(*                                                                         *)
(* Each property has an inductive invariant about the rows and the         *)
(* handlers under way, and a lemma (CodesQuiet, RevokedQuiet, MeterQuiet)  *)
(* for the steps that leave what it is about alone, so that the steps that *)
(* do not are the ones with a proof of their own.                          *)
(***************************************************************************)
EXTENDS Access, TLAPS

\* A handler's kind tells its fields.
LEMMA Kinded ==
    ASSUME TypeOK, NEW r \in Requests, NEW kind, NEW pc, At(r, kind, pc)
    PROVE  /\ request[r] \in Handlers
           /\ kind = "login" => request[r] \in Logins
           /\ kind = "mint" => request[r] \in Mints
           /\ kind = "redeem" => request[r] \in Redeems
           /\ kind = "use" => request[r] \in Uses
  BY DEF TypeOK, At, Handlers, Logins, Mints, Redeems, Uses, Idle

LEMMA InitTyped == Init => TypeOK
  BY AccessAssumption DEF Init, TypeOK, Times, Links, Codes, Creds, Handlers, Idle

\* One handler moves, and the codes stay.
LEMMA TypeHandler ==
    ASSUME TypeOK, NEW r \in Requests, NEW h \in Handlers,
           request' = [request EXCEPT ![r] = h],
           h.kind = "redeem" => code'[h.code] # None,
           \A c \in Codes : code[c] # None => code'[c] # None,
           clock' \in Times, cookie' \subseteq Times,
           login' \in [last : Times \cup {None}, cut : Times \cup {None}, comps : Nat],
           link' \in [Links -> Times \cup {None}], gone' \subseteq Creds,
           code' \in [Codes -> CodeRows \cup {None}],
           cred' \in [Creds -> CredRows \cup {None}]
    PROVE  TypeOK'
  <1>1. request' \in [Requests -> Handlers]
    BY DEF TypeOK
  <1>2. ASSUME NEW q \in Requests, request'[q].kind = "redeem" PROVE code'[request'[q].code] # None
    <2>1. CASE q = r
      BY <1>2, <2>1 DEF TypeOK
    <2>2. CASE q # r
      <3>1. request'[q] = request[q] /\ request[q] \in Handlers
        BY <2>2 DEF TypeOK
      <3>2. code[request[q].code] # None
        BY <1>2, <3>1 DEF TypeOK
      <3>3. request[q].code \in Codes
        BY <1>2, <3>1 DEF Handlers, Logins, Mints, Redeems, Uses, Idle
      <3> QED BY <3>1, <3>2, <3>3
    <2> QED BY <2>1, <2>2
  <1> QED BY <1>1, <1>2 DEF TypeOK

LEMMA TypeAsk ==
    ASSUME TypeOK, NEW r \in Requests, Ask(r) PROVE TypeOK'
  <1>0. UNCHANGED <<clock, login, cookie, link, code, cred, gone>>
    BY DEF Ask, AskVerify, AskFederated, AskMint, AskLink, AskExchange, AskRedeem, AskUse
  <1>1. ASSUME Look(r) PROVE TypeOK'
    <2> DEFINE h == [kind |-> "login", pc |-> "flush", stamp |-> clock,
                     first |-> login.last = None, grant |-> FALSE]
    <2>1. h \in Handlers /\ h.kind = "login"
      BY DEF Handlers, Logins, TypeOK
    <2>2. request' = [request EXCEPT ![r] = h]
      BY <1>1 DEF Look
    <2> HIDE DEF h
    <2> QED BY <1>0, <1>1, <2>1, <2>2, TypeHandler DEF TypeOK
  <1>2. CASE \E l \in Links : AskVerify(r, l)
    BY <1>1, <1>2 DEF AskVerify
  <1>3. CASE AskFederated(r)
    BY <1>1, <1>3 DEF AskFederated
  <1>4. CASE \E kind \in Capped : AskMint(r, kind)
    <2> PICK kind \in Capped : AskMint(r, kind)
      BY <1>4
    <2> DEFINE h == [kind |-> "mint", pc |-> "commit", what |-> kind]
    <2>1. h \in Handlers /\ h.kind = "mint"
      BY AccessAssumption DEF Handlers, Mints
    <2>2. request' = [request EXCEPT ![r] = h]
      BY DEF AskMint
    <2> HIDE DEF h
    <2> QED BY <1>0, <2>1, <2>2, TypeHandler DEF TypeOK
  <1>5. CASE \E c \in Codes : AskLink(r, c) \/ AskExchange(r, c)
    <2> PICK c \in Codes : AskRedeem(r, c)
      BY <1>5 DEF AskLink, AskExchange
    <2> DEFINE h == [kind |-> "redeem", pc |-> "claim", code |-> c]
    <2>1. h \in Handlers /\ h.kind = "redeem" /\ h.code = c
      BY DEF Handlers, Redeems
    <2>2. request' = [request EXCEPT ![r] = h] /\ code[c] # None
      BY DEF AskRedeem, Redeemable
    <2> HIDE DEF h
    <2> QED BY <1>0, <2>1, <2>2, TypeHandler DEF TypeOK
  <1>6. CASE \E k \in Creds : AskUse(r, k)
    <2> PICK k \in Creds : AskUse(r, k)
      BY <1>6
    <2> DEFINE h == [kind |-> "use", pc |-> IF cred[k].app = None THEN "stamp" ELSE "app",
                     cred |-> k, barred |-> Barred(k)]
    <2>1. h \in Handlers /\ h.kind = "use"
      BY DEF Handlers, Uses, Barred
    <2>2. request' = [request EXCEPT ![r] = h]
      BY DEF AskUse
    <2> HIDE DEF h
    <2> QED BY <1>0, <2>1, <2>2, TypeHandler DEF TypeOK
  <1> QED BY <1>2, <1>3, <1>4, <1>5, <1>6 DEF Ask

LEMMA TypeEnds ==
    ASSUME TypeOK, NEW r \in Requests, Ends(r),
           \A c \in Codes : code[c] # None => code'[c] # None,
           clock' \in Times, cookie' \subseteq Times,
           login' \in [last : Times \cup {None}, cut : Times \cup {None}, comps : Nat],
           link' \in [Links -> Times \cup {None}], gone' \subseteq Creds,
           code' \in [Codes -> CodeRows \cup {None}],
           cred' \in [Creds -> CredRows \cup {None}]
    PROVE  TypeOK'
  <1>1. Idle \in Handlers /\ Idle.kind = "none"
    BY DEF Handlers, Idle
  <1>2. request' = [request EXCEPT ![r] = Idle]
    BY DEF Ends
  <1> QED BY <1>1, <1>2, TypeHandler

\* What a handler's step makes of its record.
LEMMA NextRecord ==
    ASSUME TypeOK, NEW r \in Requests
    PROVE  /\ Flush(r) => \E h \in Logins :
                 /\ h.pc = "commit"
                 /\ h.first = request[r].first /\ h.stamp = request[r].stamp
                 /\ h.grant = (request[r].first /\ ~CompExists)
                 /\ request' = [request EXCEPT ![r] = h]
           /\ CommitLogin(r) => \E h \in Logins :
                 /\ h.pc = "answer"
                 /\ request' = [request EXCEPT ![r] = h]
           /\ Claim(r) /\ ~code[request[r].code].used => \E h \in Redeems :
                 /\ h.code = request[r].code /\ h.pc = "commit"
                 /\ request' = [request EXCEPT ![r] = h]
           /\ LookApp(r) /\ Present(cred[request[r].cred].app) => \E h \in Uses :
                 /\ h.cred = request[r].cred /\ h.barred = request[r].barred /\ h.pc = "stamp"
                 /\ request' = [request EXCEPT ![r] = h]
  <1>1. ASSUME Flush(r) PROVE \E h \in Logins :
                 /\ h.pc = "commit"
                 /\ h.first = request[r].first /\ h.stamp = request[r].stamp
                 /\ h.grant = (request[r].first /\ ~CompExists)
                 /\ request' = [request EXCEPT ![r] = h]
    <2> DEFINE q == request[r]
               p == [q EXCEPT !.pc = "commit"]
               h == [p EXCEPT !.grant = request[r].first /\ ~CompExists]
    <2>1. q \in Logins /\ q = request[r]
      BY <1>1, Kinded DEF Flush
    <2>2. p \in Logins /\ p.pc = "commit" /\ p.first = q.first /\ p.stamp = q.stamp
      BY <2>1 DEF Logins
    <2>3. request' = [request EXCEPT ![r] = h]
      BY <1>1 DEF Flush
    <2>4. (request[r].first /\ ~CompExists) \in BOOLEAN
      OBVIOUS
    <2> HIDE DEF q, p
    <2>5. h \in Logins /\ h.pc = "commit" /\ h.first = p.first /\ h.stamp = p.stamp
            /\ h.grant = (request[r].first /\ ~CompExists)
      BY <2>2, <2>4 DEF Logins
    <2> HIDE DEF h
    <2> QED BY <2>1, <2>2, <2>3, <2>5
  <1>2. ASSUME CommitLogin(r) PROVE \E h \in Logins :
                 /\ h.pc = "answer"
                 /\ request' = [request EXCEPT ![r] = h]
    <2>1. request[r] \in Logins
      BY <1>2, Kinded DEF CommitLogin
    <2>2. [request[r] EXCEPT !.pc = "answer"] \in Logins /\ [request[r] EXCEPT !.pc = "answer"].pc = "answer"
      BY <2>1 DEF Logins
    <2> QED BY <1>2, <2>2 DEF CommitLogin
  <1>3. ASSUME Claim(r), ~code[request[r].code].used PROVE \E h \in Redeems :
                 /\ h.code = request[r].code /\ h.pc = "commit"
                 /\ request' = [request EXCEPT ![r] = h]
    <2>1. request[r] \in Redeems
      BY <1>3, Kinded DEF Claim
    <2>2. [request[r] EXCEPT !.pc = "commit"] \in Redeems /\ [request[r] EXCEPT !.pc = "commit"].pc = "commit"
            /\ [request[r] EXCEPT !.pc = "commit"].code = request[r].code
      BY <2>1 DEF Redeems
    <2> QED BY <1>3, <2>2 DEF Claim
  <1>4. ASSUME LookApp(r), Present(cred[request[r].cred].app) PROVE \E h \in Uses :
                 /\ h.cred = request[r].cred /\ h.barred = request[r].barred /\ h.pc = "stamp"
                 /\ request' = [request EXCEPT ![r] = h]
    <2> DEFINE h == [request[r] EXCEPT !.pc = "stamp"]
    <2>1. request[r] \in Uses
      BY <1>4, Kinded DEF LookApp
    <2>2. h \in Uses /\ h.cred = request[r].cred /\ h.barred = request[r].barred /\ h.pc = "stamp"
      BY <2>1 DEF Uses
    <2>3. request' = [request EXCEPT ![r] = h]
      BY <1>4 DEF LookApp
    <2> HIDE DEF h
    <2> QED BY <2>2, <2>3
  <1> QED BY <1>1, <1>2, <1>3, <1>4

LEMMA TypeStep ==
    ASSUME TypeOK, NEW r \in Requests, Step(r) PROVE TypeOK'
  <1>0. /\ clock \in Times /\ cookie \subseteq Times
        /\ login \in [last : Times \cup {None}, cut : Times \cup {None}, comps : Nat]
        /\ link \in [Links -> Times \cup {None}] /\ gone \subseteq Creds /\ code \in [Codes -> CodeRows \cup {None}]
        /\ cred \in [Creds -> CredRows \cup {None}]
        /\ request[r] \in Handlers
        /\ request[r].kind = "redeem" => code[request[r].code] # None
    BY DEF TypeOK
  <1>1. CASE Flush(r)
    <2>1. PICK h \in Logins : request' = [request EXCEPT ![r] = h]
      BY <1>1, NextRecord
    <2>2. h \in Handlers /\ h.kind = "login"
      BY DEF Handlers, Logins
    <2>3. UNCHANGED <<clock, login, cookie, link, code, cred, gone>>
      BY <1>1 DEF Flush
    <2> QED BY <1>0, <2>1, <2>2, <2>3, TypeHandler
  <1>2. CASE CommitLogin(r)
    <2>1. PICK h \in Logins : request' = [request EXCEPT ![r] = h]
      BY <1>2, NextRecord
    <2>2. request[r] \in Logins
      BY <1>2, Kinded DEF CommitLogin
    <2>3. h \in Handlers /\ h.kind = "login"
      BY DEF Handlers, Logins
    <2>4. login' \in [last : Times \cup {None}, cut : Times \cup {None}, comps : Nat]
      BY <1>0, <1>2, <2>2 DEF CommitLogin, Logins
    <2>5. UNCHANGED <<clock, cookie, link, code, cred, gone>>
      BY <1>2 DEF CommitLogin
    <2> QED BY <1>0, <2>1, <2>3, <2>4, <2>5, TypeHandler
  <1>3. CASE Answer(r)
    BY <1>0, <1>3, TypeEnds DEF Answer
  <1>4. CASE Claim(r)
    <2>1. CASE code[request[r].code].used
      BY <1>0, <1>4, <2>1, TypeEnds DEF Claim
    <2>2. CASE ~code[request[r].code].used
      <3>1. PICK h \in Redeems : h.code = request[r].code /\ request' = [request EXCEPT ![r] = h]
        BY <1>4, <2>2, NextRecord
      <3>2. h \in Handlers /\ h.kind = "redeem" /\ code[request[r].code] # None
        BY <1>0, <1>4 DEF Claim, At, Handlers, Redeems
      <3> QED BY <1>0, <1>4, <3>1, <3>2, TypeHandler DEF Claim
    <2> QED BY <2>1, <2>2
  <1>5. CASE Dies(r)
    BY <1>0, <1>5, TypeEnds DEF Dies
  <1>6. ASSUME NEW k \in Creds, CommitMint(r, k) PROVE TypeOK'
    <2>1. request[r] \in Mints
      BY <1>0, <1>6, Kinded DEF CommitMint
    <2>2. Minted(request[r].what) \in CredRows
      BY <2>1 DEF Minted, CredRows, Mints, Kinds
    <2>3. cred' \in [Creds -> CredRows \cup {None}]
      BY <1>0, <1>6, <2>2 DEF CommitMint
    <2> QED BY <1>0, <1>6, <2>3, TypeEnds DEF CommitMint
  <1>7. ASSUME NEW k \in Creds, CommitRedeem(r, k) PROVE TypeOK'
    <2> DEFINE c == request[r].code
               spent == [code[c] EXCEPT !.used = TRUE]
               row == [kind |-> IF code[c].app = None THEN "device" ELSE "access",
                       app |-> code[c].app, code |-> c, live |-> TRUE]
    <2>1. c \in Codes /\ code[c] \in CodeRows
      BY <1>0, <1>7, Kinded DEF CommitRedeem, At, Redeems
    <2>2. spent \in CodeRows /\ spent # None
      BY <2>1, AccessAssumption DEF CodeRows
    <2>3. row \in CredRows
      BY <2>1 DEF CredRows, CodeRows, Kinds
    <2>4. cred' = [cred EXCEPT ![k] = row] /\ code' = [code EXCEPT ![c] = spent]
      BY <1>0, <1>7 DEF CommitRedeem
    <2> HIDE DEF c, spent, row
    <2>5. cred' \in [Creds -> CredRows \cup {None}]
      BY <1>0, <2>3, <2>4
    <2>6. /\ code' \in [Codes -> CodeRows \cup {None}]
          /\ \A d \in Codes : code[d] # None => code'[d] # None
      BY <1>0, <2>1, <2>2, <2>4
    <2> QED BY <1>0, <1>7, <2>5, <2>6, TypeEnds DEF CommitRedeem
  <1>8. CASE LookApp(r)
    <2>1. CASE ~Present(cred[request[r].cred].app)
      BY <1>0, <1>8, <2>1, TypeEnds DEF LookApp
    <2>2. CASE Present(cred[request[r].cred].app)
      <3>1. PICK h \in Uses : request' = [request EXCEPT ![r] = h]
        BY <1>8, <2>2, NextRecord
      <3>2. h \in Handlers /\ h.kind = "use"
        BY DEF Handlers, Uses
      <3> QED BY <1>0, <1>8, <3>1, <3>2, TypeHandler DEF LookApp
    <2> QED BY <2>1, <2>2
  <1>9. CASE Stamp(r)
    BY <1>0, <1>9, TypeEnds DEF Stamp
  <1> QED BY <1>1, <1>2, <1>3, <1>4, <1>5, <1>6, <1>7, <1>8, <1>9 DEF Step

\* The world: who else acts, and time.
LEMMA TypeRest ==
    ASSUME TypeOK, UNCHANGED request,
           \A c \in Codes : code[c] # None => code'[c] # None,
           clock' \in Times, cookie' \subseteq Times,
           login' \in [last : Times \cup {None}, cut : Times \cup {None}, comps : Nat],
           link' \in [Links -> Times \cup {None}], gone' \subseteq Creds,
           code' \in [Codes -> CodeRows \cup {None}],
           cred' \in [Creds -> CredRows \cup {None}]
    PROVE  TypeOK'
  <1>1. ASSUME NEW r \in Requests, request[r].kind = "redeem" PROVE request[r].code \in Codes
    BY <1>1 DEF TypeOK, Handlers, Logins, Mints, Redeems, Uses, Idle
  <1> QED BY <1>1 DEF TypeOK

\* A credential that dies keeps its other fields.
LEMMA Dying ==
    ASSUME TypeOK, NEW k \in Creds, cred[k] # None,
           cred' = [cred EXCEPT ![k].live = FALSE]
    PROVE  /\ cred' \in [Creds -> CredRows \cup {None}]
           /\ cred'[k] # None /\ ~cred'[k].live
           /\ cred'[k].kind = cred[k].kind /\ cred'[k].app = cred[k].app
           /\ cred'[k].code = cred[k].code
           /\ \A j \in Creds \ {k} : cred'[j] = cred[j]
  <1> DEFINE new == [cred[k] EXCEPT !.live = FALSE]
  <1>1. cred[k] \in CredRows /\ cred \in [Creds -> CredRows \cup {None}]
    BY DEF TypeOK
  <1>2. /\ new \in CredRows /\ ~new.live /\ new.kind = cred[k].kind
        /\ new.app = cred[k].app /\ new.code = cred[k].code
    BY <1>1 DEF CredRows
  <1>3. new # None
    BY <1>2, AccessAssumption
  <1>4. cred' = [cred EXCEPT ![k] = new]
    OBVIOUS
  <1> HIDE DEF new
  <1> QED BY <1>1, <1>2, <1>3, <1>4

LEMMA TypeOthers ==
    ASSUME TypeOK, UNCHANGED request,
           \/ \E l \in Links : RequestLink(l)
           \/ \E k \in Creds : Revoke(k) \/ ExpireToken(k)
           \/ \E c \in Codes : ExpireCode(c) \/ IssueLinkCode(c) \/ \E a \in Creds : Authorize(c, a)
           \/ OperatorComp \/ CloseAccount \/ Tick
    PROVE  TypeOK'
  <1>0. /\ clock \in Times /\ cookie \subseteq Times
        /\ login \in [last : Times \cup {None}, cut : Times \cup {None}, comps : Nat]
        /\ link \in [Links -> Times \cup {None}] /\ gone \subseteq Creds /\ code \in [Codes -> CodeRows \cup {None}]
        /\ cred \in [Creds -> CredRows \cup {None}]
    BY DEF TypeOK
  <1>1. ASSUME NEW l \in Links, RequestLink(l) PROVE TypeOK'
    <2>1. link' \in [Links -> Times \cup {None}]
      BY <1>0, <1>1 DEF RequestLink
    <2> QED BY <1>0, <1>1, <2>1, TypeRest DEF RequestLink
  <1>2. ASSUME NEW k \in Creds, Revoke(k) \/ ExpireToken(k) PROVE TypeOK'
    BY <1>0, <1>2, Dying, TypeRest DEF Revoke, ExpireToken
  <1>3. ASSUME NEW c \in Codes, ExpireCode(c) PROVE TypeOK'
    <2> DEFINE new == [code[c] EXCEPT !.expired = TRUE]
    <2>1. new \in CodeRows
      BY <1>0, <1>3 DEF ExpireCode, CodeRows
    <2>2. new # None
      BY <2>1, AccessAssumption
    <2>3. code' = [code EXCEPT ![c] = new]
      BY <1>3 DEF ExpireCode
    <2> HIDE DEF new
    <2> QED BY <1>0, <1>3, <2>1, <2>2, <2>3, TypeRest DEF ExpireCode
  <1>4. ASSUME NEW c \in Codes, NEW a \in Creds \cup {None}, IssueCode(c, a) PROVE TypeOK'
    <2> DEFINE new == [app |-> a, used |-> FALSE, expired |-> FALSE]
    <2>1. new \in CodeRows
      BY DEF CodeRows
    <2>2. new # None
      BY <2>1, AccessAssumption
    <2>3. code' = [code EXCEPT ![c] = new]
      BY <1>4 DEF IssueCode
    <2> HIDE DEF new
    <2> QED BY <1>0, <1>4, <2>1, <2>2, <2>3, TypeRest DEF IssueCode
  <1>5. CASE OperatorComp \/ CloseAccount
    <2>1. login' \in [last : Times \cup {None}, cut : Times \cup {None}, comps : Nat]
      BY <1>0, <1>5 DEF OperatorComp, CloseAccount
    <2> QED BY <1>0, <1>5, <2>1, TypeRest DEF OperatorComp, CloseAccount
  <1>6. CASE Tick
    <2>1. clock' \in Times
      BY <1>0, <1>6, AccessAssumption DEF Tick, Times
    <2> QED BY <1>0, <1>6, <2>1, TypeRest DEF Tick
  <1> QED BY <1>1, <1>2, <1>3, <1>4, <1>5, <1>6 DEF IssueLinkCode, Authorize

LEMMA TypeKept == TypeOK /\ [Next]_vars => TypeOK'
  <1> SUFFICES ASSUME TypeOK, [Next]_vars PROVE TypeOK'
    OBVIOUS
  <1>1. CASE \E r \in Requests : Ask(r) \/ Step(r)
    BY <1>1, TypeAsk, TypeStep
  <1>2. CASE \/ \E l \in Links : RequestLink(l)
             \/ \E k \in Creds : Revoke(k) \/ ExpireToken(k)
             \/ \E c \in Codes : ExpireCode(c) \/ IssueLinkCode(c) \/ \E a \in Creds : Authorize(c, a)
             \/ OperatorComp \/ CloseAccount \/ Tick
    <2>1. UNCHANGED request
      BY <1>2 DEF RequestLink, Revoke, ExpireToken, ExpireCode, IssueLinkCode, Authorize, IssueCode,
                  OperatorComp, CloseAccount, Tick
    <2> QED BY <1>2, <2>1, TypeOthers
  <1>3. CASE UNCHANGED vars
    BY <1>3, TypeRest DEF vars, TypeOK
  <1> QED BY <1>1, <1>2, <1>3 DEF Next

\* Every row and handler keeps its type, for any number of requests, codes,
\* credentials and ticks of the clock.
THEOREM TypeCorrect == Spec => []TypeOK
  <1> QED BY InitTyped, TypeKept, PTL DEF Spec

-----------------------------------------------------------------------------
(* One-time codes.  A code is spent by the commit that makes its credential, *)
(* and the row it locks keeps every other exchange out until then.           *)

Spent ==
    \A k \in Creds : cred[k] # None /\ cred[k].code # None =>
        code[cred[k].code] # None /\ code[cred[k].code].used

OneClaim ==
    \A r \in Requests : At(r, "redeem", "commit") =>
        /\ ~code[request[r].code].used
        /\ \A q \in Requests : At(q, "redeem", "commit") /\ request[q].code = request[r].code => q = r

CodesInv == Spent /\ OneClaim /\ CodesWorkOnce

\* What a step may do that has nothing to do with codes
Codeless ==
    /\ \A k \in Creds : cred'[k] # None /\ cred'[k].code # None =>
          cred[k] # None /\ cred[k].code = cred'[k].code
    /\ \A c \in Codes : code[c] # None => code'[c] # None /\ (code'[c].used <=> code[c].used)
    /\ \A r \in Requests : At(r, "redeem", "commit")' =>
          At(r, "redeem", "commit") /\ request'[r].code = request[r].code

LEMMA CodesQuiet ==
    ASSUME TypeOK, CodesInv, Codeless PROVE CodesInv'
  <1>1. \A k \in Creds : cred[k] # None => cred[k].code \in Codes \cup {None}
    BY DEF TypeOK, CredRows
  <1>2. \A r \in Requests : At(r, "redeem", "commit") =>
            request[r].code \in Codes /\ code[request[r].code] # None
    BY Kinded DEF TypeOK, At, Redeems
  <1>3. Spent'
    BY <1>1 DEF CodesInv, Spent, Codeless
  <1>4. OneClaim'
    BY <1>2 DEF CodesInv, OneClaim, Codeless
  <1>5. CodesWorkOnce'
    BY DEF CodesInv, CodesWorkOnce, Codeless
  <1> QED BY <1>3, <1>4, <1>5 DEF CodesInv

\* A handler that does not come to hold a code
LEMMA Elsewhere ==
    ASSUME TypeOK, NEW r \in Requests, NEW h, request' = [request EXCEPT ![r] = h],
           ~(h.kind = "redeem" /\ h.pc = "commit")
    PROVE  \A q \in Requests : At(q, "redeem", "commit")' =>
               At(q, "redeem", "commit") /\ request'[q].code = request[q].code
  BY DEF At, TypeOK

\* A handler that has just begun holds nothing.
LEMMA AskedRecord ==
    ASSUME NEW r \in Requests, Ask(r)
    PROVE  \E h : /\ request' = [request EXCEPT ![r] = h]
                  /\ \/ h.kind = "login" /\ h.pc = "flush" /\ (h.first <=> login.last = None)
                     \/ h.kind = "redeem" /\ h.pc = "claim"
                     \/ h.kind = "mint" /\ h.pc = "commit" /\ ~UserLocked
                     \/ h.kind = "use" /\ \E k \in Creds : AskUse(r, k)
                  /\ ~(h.kind = "redeem" /\ h.pc = "commit")
  <1>1. ASSUME Look(r)
        PROVE  \E h : /\ request' = [request EXCEPT ![r] = h]
                      /\ h.kind = "login" /\ h.pc = "flush" /\ (h.first <=> login.last = None)
    <2> DEFINE h == [kind |-> "login", pc |-> "flush", stamp |-> clock,
                     first |-> login.last = None, grant |-> FALSE]
    <2>1. h.kind = "login" /\ h.pc = "flush" /\ (h.first <=> login.last = None)
      OBVIOUS
    <2> QED BY <1>1, <2>1 DEF Look
  <1>2. ASSUME NEW kind, AskMint(r, kind)
        PROVE  \E h : /\ request' = [request EXCEPT ![r] = h]
                      /\ h.kind = "mint" /\ h.pc = "commit" /\ ~UserLocked
    <2> DEFINE h == [kind |-> "mint", pc |-> "commit", what |-> kind]
    <2>1. h.kind = "mint" /\ h.pc = "commit"
      OBVIOUS
    <2> QED BY <1>2, <2>1 DEF AskMint, MintWaits
  <1>3. ASSUME NEW c, AskRedeem(r, c)
        PROVE  \E h : request' = [request EXCEPT ![r] = h] /\ h.kind = "redeem" /\ h.pc = "claim"
    <2> DEFINE h == [kind |-> "redeem", pc |-> "claim", code |-> c]
    <2>1. h.kind = "redeem" /\ h.pc = "claim"
      OBVIOUS
    <2> QED BY <1>3, <2>1 DEF AskRedeem
  <1>4. ASSUME NEW k \in Creds, AskUse(r, k)
        PROVE  \E h : request' = [request EXCEPT ![r] = h] /\ h.kind = "use"
    <2> DEFINE h == [kind |-> "use", pc |-> IF cred[k].app = None THEN "stamp" ELSE "app",
                     cred |-> k, barred |-> Barred(k)]
    <2>1. h.kind = "use"
      OBVIOUS
    <2> QED BY <1>4, <2>1 DEF AskUse
  <1>5. Look(r) \/ (\E kind : AskMint(r, kind)) \/ (\E c : AskRedeem(r, c)) \/ (\E k \in Creds : AskUse(r, k))
    BY DEF Ask, AskVerify, AskFederated, AskLink, AskExchange
  <1> QED BY <1>1, <1>2, <1>3, <1>4, <1>5

LEMMA CodesAsk ==
    ASSUME TypeOK, CodesInv, NEW r \in Requests, Ask(r) PROVE CodesInv'
  <1>1. UNCHANGED <<code, cred>>
    BY DEF Ask, AskVerify, AskFederated, AskMint, AskLink, AskExchange, AskRedeem, AskUse
  <1>2. PICK h : request' = [request EXCEPT ![r] = h] /\ ~(h.kind = "redeem" /\ h.pc = "commit")
    BY AskedRecord
  <1>3. Codeless
    BY <1>1, <1>2, Elsewhere DEF Codeless
  <1> QED BY <1>3, CodesQuiet

LEMMA CodesStep ==
    ASSUME TypeOK, TypeOK', CodesInv, NEW r \in Requests, Step(r) PROVE CodesInv'
  <1>1. CASE Flush(r) \/ CommitLogin(r)
    <2>1. PICK h \in Logins : request' = [request EXCEPT ![r] = h]
      BY <1>1, NextRecord
    <2>2. Codeless
      BY <1>1, <2>1, Elsewhere DEF Codeless, Flush, CommitLogin, Logins
    <2> QED BY <2>2, CodesQuiet
  <1>2. CASE \/ Answer(r) \/ Dies(r) \/ Stamp(r)
             \/ Claim(r) /\ code[request[r].code].used
             \/ LookApp(r) /\ ~Present(cred[request[r].cred].app)
    <2>1. request' = [request EXCEPT ![r] = Idle] /\ Idle.kind = "none"
      BY <1>2 DEF Answer, Dies, Claim, Stamp, LookApp, Ends, Idle
    <2>2. UNCHANGED <<code, cred>>
      BY <1>2 DEF Answer, Dies, Claim, Stamp, LookApp
    <2>3. Codeless
      BY <2>1, <2>2, Elsewhere DEF Codeless
    <2> QED BY <2>3, CodesQuiet
  <1>3. CASE Claim(r) /\ ~code[request[r].code].used
    <2>1. PICK h \in Redeems : h.code = request[r].code /\ request' = [request EXCEPT ![r] = h]
      BY <1>3, NextRecord
    <2>2. UNCHANGED <<code, cred>>
      BY <1>3 DEF Claim
    <2>3. \A q \in Requests : At(q, "redeem", "commit") => request[q].code # h.code
      BY <1>3, <2>1 DEF Claim, CodeLocked, Open
    <2>4. \A q \in Requests : At(q, "redeem", "commit")' =>
             \/ q = r /\ request'[q].code = h.code
             \/ At(q, "redeem", "commit") /\ request'[q].code = request[q].code
      BY <2>1 DEF At, TypeOK
    <2>5. OneClaim'
      BY <1>3, <2>1, <2>2, <2>3, <2>4 DEF OneClaim, CodesInv
    <2>6. Spent' /\ CodesWorkOnce'
      BY <2>2 DEF CodesInv, Spent, CodesWorkOnce
    <2> QED BY <2>5, <2>6 DEF CodesInv
  <1>4. ASSUME NEW k \in Creds, CommitMint(r, k) PROVE CodesInv'
    <2>1. request' = [request EXCEPT ![r] = Idle] /\ Idle.kind = "none" /\ UNCHANGED code
      BY <1>4 DEF CommitMint, Ends, Idle
    <2>2. cred' = [cred EXCEPT ![k] = Minted(request[r].what)] /\ Minted(request[r].what).code = None
      BY <1>4 DEF CommitMint, Minted
    <2>3. Codeless
      BY <2>1, <2>2, Elsewhere DEF Codeless, TypeOK
    <2> QED BY <2>3, CodesQuiet
  <1>5. ASSUME NEW k \in Creds, CommitRedeem(r, k) PROVE CodesInv'
    <2> DEFINE c == request[r].code
               spent == [code[c] EXCEPT !.used = TRUE]
               row == [kind |-> IF code[c].app = None THEN "device" ELSE "access",
                       app |-> code[c].app, code |-> c, live |-> TRUE]
    <2>1. c \in Codes /\ code[c] \in CodeRows /\ At(r, "redeem", "commit")
      BY <1>5, Kinded DEF CommitRedeem, At, Redeems, TypeOK
    <2>2. /\ cred' = [cred EXCEPT ![k] = row] /\ code' = [code EXCEPT ![c] = spent]
          /\ request' = [request EXCEPT ![r] = Idle] /\ Idle.kind = "none"
          /\ cred[k] = None
      BY <1>5 DEF CommitRedeem, Ends, Idle, Numbered
    <2>3. spent \in CodeRows /\ spent.used /\ row.code = c
      BY <2>1 DEF CodeRows
    <2>4. ~code[c].used /\ \A q \in Requests \ {r} : At(q, "redeem", "commit") => request[q].code # c
      BY <2>1 DEF CodesInv, OneClaim
    <2>5. \A j \in Creds : cred[j] # None => cred[j].code # c /\ cred[j].code \in Codes \cup {None}
      <3>1. c # None
        BY <2>1, AccessAssumption DEF Codes
      <3> QED BY <2>4, <3>1 DEF CodesInv, Spent, TypeOK, CredRows
    <2>6. \A q \in Requests : At(q, "redeem", "commit")' =>
             q # r /\ At(q, "redeem", "commit") /\ request'[q].code = request[q].code
      BY <2>2 DEF At, TypeOK
    <2>7. spent # None
      BY <2>3, AccessAssumption
    <2> HIDE DEF c, spent, row
    <2>8. /\ cred'[k] = row /\ \A j \in Creds \ {k} : cred'[j] = cred[j]
          /\ code'[c] = spent /\ \A d \in Codes \ {c} : code'[d] = code[d]
      BY <2>1, <2>2 DEF TypeOK
    <2>9. Spent'
      BY <2>3, <2>5, <2>7, <2>8 DEF CodesInv, Spent
    <2>10. OneClaim'
      <3>1. \A q \in Requests : At(q, "redeem", "commit") => request[q].code \in Codes
        BY Kinded DEF Redeems
      <3> QED BY <2>4, <2>6, <2>8, <3>1 DEF CodesInv, OneClaim
    <2>11. CodesWorkOnce'
      BY <2>3, <2>5, <2>8 DEF CodesInv, CodesWorkOnce
    <2> QED BY <2>9, <2>10, <2>11 DEF CodesInv
  <1>6. CASE LookApp(r) /\ Present(cred[request[r].cred].app)
    <2>1. PICK h \in Uses : request' = [request EXCEPT ![r] = h]
      BY <1>6, NextRecord
    <2>2. h.kind = "use" /\ UNCHANGED <<code, cred>>
      BY <1>6 DEF LookApp, Uses
    <2>3. Codeless
      BY <2>1, <2>2, Elsewhere DEF Codeless
    <2> QED BY <2>3, CodesQuiet
  <1> QED BY <1>1, <1>2, <1>3, <1>4, <1>5, <1>6 DEF Step

LEMMA CodesOthers ==
    ASSUME TypeOK, CodesInv, UNCHANGED request,
           \/ \E l \in Links : RequestLink(l)
           \/ \E k \in Creds : Revoke(k) \/ ExpireToken(k)
           \/ \E c \in Codes : ExpireCode(c) \/ IssueLinkCode(c) \/ \E a \in Creds : Authorize(c, a)
           \/ OperatorComp \/ CloseAccount \/ Tick
    PROVE  CodesInv'
  <1>0. \A r \in Requests : At(r, "redeem", "commit")' =>
            At(r, "redeem", "commit") /\ request'[r].code = request[r].code
    BY DEF At
  <1>1. CASE (\E l \in Links : RequestLink(l)) \/ OperatorComp \/ CloseAccount \/ Tick
    BY <1>0, <1>1, CodesQuiet DEF Codeless, RequestLink, OperatorComp, CloseAccount, Tick
  <1>2. ASSUME NEW k \in Creds, Revoke(k) \/ ExpireToken(k) PROVE CodesInv'
    <2>1. cred[k] # None /\ cred' = [cred EXCEPT ![k].live = FALSE] /\ UNCHANGED code
      BY <1>2 DEF Revoke, ExpireToken
    <2>2. Codeless
      BY <1>0, <2>1, Dying DEF Codeless
    <2> QED BY <2>2, CodesQuiet
  <1>3. ASSUME NEW c \in Codes, ExpireCode(c) PROVE CodesInv'
    <2> DEFINE new == [code[c] EXCEPT !.expired = TRUE]
    <2>1. new \in CodeRows /\ (new.used <=> code[c].used)
      BY <1>3 DEF ExpireCode, CodeRows, TypeOK
    <2>2. new # None
      BY <2>1, AccessAssumption
    <2>3. code' = [code EXCEPT ![c] = new] /\ UNCHANGED cred
      BY <1>3 DEF ExpireCode
    <2> HIDE DEF new
    <2>4. Codeless
      BY <1>0, <2>1, <2>2, <2>3 DEF Codeless, TypeOK
    <2> QED BY <2>4, CodesQuiet
  <1>4. ASSUME NEW c \in Codes, NEW a \in Creds \cup {None}, IssueCode(c, a) PROVE CodesInv'
    <2>1. code[c] = None /\ UNCHANGED cred /\ \A d \in Codes \ {c} : code'[d] = code[d]
      BY <1>4 DEF IssueCode, Numbered, TypeOK
    <2>2. Codeless
      BY <1>0, <2>1 DEF Codeless
    <2> QED BY <2>2, CodesQuiet
  <1> QED BY <1>1, <1>2, <1>3, <1>4 DEF IssueLinkCode, Authorize

LEMMA CodesKept == TypeOK /\ TypeOK' /\ CodesInv /\ [Next]_vars => CodesInv'
  <1> SUFFICES ASSUME TypeOK, TypeOK', CodesInv, [Next]_vars PROVE CodesInv'
    OBVIOUS
  <1>1. CASE \E r \in Requests : Ask(r) \/ Step(r)
    BY <1>1, CodesAsk, CodesStep
  <1>2. CASE \/ \E l \in Links : RequestLink(l)
             \/ \E k \in Creds : Revoke(k) \/ ExpireToken(k)
             \/ \E c \in Codes : ExpireCode(c) \/ IssueLinkCode(c) \/ \E a \in Creds : Authorize(c, a)
             \/ OperatorComp \/ CloseAccount \/ Tick
    <2>1. UNCHANGED request
      BY <1>2 DEF RequestLink, Revoke, ExpireToken, ExpireCode, IssueLinkCode, Authorize, IssueCode,
                  OperatorComp, CloseAccount, Tick
    <2> QED BY <1>2, <2>1, CodesOthers
  <1>3. CASE UNCHANGED vars
    BY <1>3, CodesQuiet DEF vars, Codeless, At
  <1> QED BY <1>1, <1>2, <1>3 DEF Next

\* A code buys one credential: of two exchanges that both found it unused, the
\* UPDATE's rowcount turns the second away (link_device, token).
THEOREM CodesAreSpentOnce == Spec => []CodesWorkOnce
  <1>1. Init => CodesInv
    BY DEF Init, CodesInv, Spent, OneClaim, CodesWorkOnce, At, Idle
  <1>2. CodesInv => CodesWorkOnce
    BY DEF CodesInv
  <1> QED BY <1>1, <1>2, CodesKept, TypeCorrect, PTL DEF Spec

-----------------------------------------------------------------------------
(* Revocation.  What was revoked is there and dead for good, because no use   *)
(* of it writes its row back; what was made for an app stays the app's, so    *)
(* that whoever is to be turned away finds the credential or its app dead.    *)

RevokedInv ==
    /\ \A k \in gone : k \in Creds /\ cred[k] # None /\ ~cred[k].live
    /\ \A r \in Requests : request[r].kind = "use" =>
          /\ cred[request[r].cred] # None
          /\ request[r].pc = "app" /\ request[r].barred => cred[request[r].cred].app \in gone
    /\ RevokedStaysOut

\* Rows keep what they were made for, the dead stay dead, and only what is dead
\* counts as revoked.
Lasting ==
    /\ \A k \in Creds : cred[k] # None =>
          cred'[k] # None /\ cred'[k].app = cred[k].app /\ (cred'[k].live => cred[k].live)
    /\ gone \subseteq gone'
    /\ \A k \in gone' : k \in gone \/ (k \in Creds /\ cred'[k] # None /\ ~cred'[k].live)

\* A use that goes on as it was
SameUses ==
    \A r \in Requests : request'[r].kind = "use" => request'[r] = request[r]

LEMMA UsesNamed ==
    ASSUME TypeOK, NEW r \in Requests, request[r].kind = "use"
    PROVE  request[r] \in Uses
  BY DEF TypeOK, Handlers, Logins, Mints, Redeems, Uses, Idle

LEMMA RevokedQuiet ==
    ASSUME TypeOK, RevokedInv, Lasting, SameUses PROVE RevokedInv'
  <1>1. \A k \in gone' : k \in Creds /\ cred'[k] # None /\ ~cred'[k].live
    BY DEF RevokedInv, Lasting
  <1>2. ASSUME NEW r \in Requests, request'[r].kind = "use"
        PROVE  /\ cred'[request'[r].cred] # None
               /\ request'[r].pc = "app" /\ request'[r].barred => cred'[request'[r].cred].app \in gone'
    <2>1. request'[r] = request[r] /\ request[r].cred \in Creds
      BY <1>2, UsesNamed DEF SameUses, Uses
    <2> QED BY <1>2, <2>1 DEF RevokedInv, Lasting
  <1>3. RevokedStaysOut'
    BY DEF RevokedInv, RevokedStaysOut, SameUses, At
  <1> QED BY <1>1, <1>2, <1>3 DEF RevokedInv

\* A handler that is none of a use, or stops being one
LEMMA NoUse ==
    ASSUME TypeOK, NEW r \in Requests, NEW h, request' = [request EXCEPT ![r] = h], h.kind # "use"
    PROVE  SameUses
  BY DEF SameUses, TypeOK

LEMMA RevokedAsk ==
    ASSUME TypeOK, RevokedInv, NEW r \in Requests, Ask(r) PROVE RevokedInv'
  <1>1. UNCHANGED <<cred, gone>>
    BY DEF Ask, AskVerify, AskFederated, AskMint, AskLink, AskExchange, AskRedeem, AskUse
  <1>2. ASSUME NEW k \in Creds, AskUse(r, k) PROVE RevokedInv'
    <2> DEFINE h == [kind |-> "use", pc |-> IF cred[k].app = None THEN "stamp" ELSE "app",
                     cred |-> k, barred |-> Barred(k)]
    <2>1. request' = [request EXCEPT ![r] = h] /\ cred[k] # None /\ cred[k].live
      BY <1>2 DEF AskUse, Present
    <2>2. /\ h.kind = "use" /\ h.cred = k
          /\ h.barred <=> k \in gone \/ cred[k].app \in gone
          /\ h.pc = "stamp" => cred[k].app = None
      BY DEF Barred
    <2>3. k \notin gone
      BY <2>1 DEF RevokedInv
    <2>4. None \notin gone
      <3>1. gone \subseteq Creds
        BY DEF TypeOK
      <3>2. Creds \subseteq Nat
        BY AccessAssumption DEF Creds
      <3> QED BY <3>1, <3>2, AccessAssumption
    <2> HIDE DEF h
    <2>5. request'[r] = h /\ \A q \in Requests \ {r} : request'[q] = request[q]
      BY <2>1 DEF TypeOK
    <2>6. RevokedStaysOut'
      BY <2>2, <2>3, <2>4, <2>5 DEF RevokedInv, RevokedStaysOut, At
    <2>7. ASSUME NEW q \in Requests, request'[q].kind = "use"
          PROVE  /\ cred[request'[q].cred] # None
                 /\ request'[q].pc = "app" /\ request'[q].barred => cred[request'[q].cred].app \in gone
      BY <2>1, <2>2, <2>3, <2>5, <2>7 DEF RevokedInv
    <2> QED BY <1>1, <2>6, <2>7 DEF RevokedInv
  <1>3. CASE ~\E k \in Creds : AskUse(r, k)
    <2>1. PICK h : request' = [request EXCEPT ![r] = h] /\ h.kind # "use"
      BY <1>3, AskedRecord
    <2>2. SameUses
      BY <2>1, NoUse
    <2>3. Lasting
      BY <1>1 DEF Lasting, RevokedInv
    <2> QED BY <2>2, <2>3, RevokedQuiet
  <1> QED BY <1>2, <1>3

LEMMA RevokedStep ==
    ASSUME TypeOK, RevokedInv, NEW r \in Requests, Step(r) PROVE RevokedInv'
  <1>0. Idle.kind # "use"
    BY DEF Idle
  <1>1. CASE Flush(r) \/ CommitLogin(r)
    <2>1. PICK h \in Logins : request' = [request EXCEPT ![r] = h]
      BY <1>1, NextRecord
    <2>2. SameUses /\ UNCHANGED <<cred, gone>>
      BY <1>1, <2>1, NoUse DEF Logins, Flush, CommitLogin
    <2> QED BY <2>2, RevokedQuiet DEF Lasting, RevokedInv
  <1>2. CASE Claim(r) /\ ~code[request[r].code].used
    <2>1. PICK h \in Redeems : request' = [request EXCEPT ![r] = h]
      BY <1>2, NextRecord
    <2>2. SameUses /\ UNCHANGED <<cred, gone>>
      BY <1>2, <2>1, NoUse DEF Redeems, Claim
    <2> QED BY <2>2, RevokedQuiet DEF Lasting, RevokedInv
  <1>3. CASE \/ Answer(r) \/ Dies(r) \/ Stamp(r)
             \/ Claim(r) /\ code[request[r].code].used
             \/ LookApp(r) /\ ~Present(cred[request[r].cred].app)
    <2>1. request' = [request EXCEPT ![r] = Idle] /\ UNCHANGED <<cred, gone>>
      BY <1>3 DEF Answer, Dies, Claim, Stamp, LookApp, Ends
    <2>2. SameUses
      BY <1>0, <2>1, NoUse
    <2> QED BY <2>1, <2>2, RevokedQuiet DEF Lasting, RevokedInv
  <1>4. ASSUME NEW k \in Creds, CommitMint(r, k) \/ CommitRedeem(r, k) PROVE RevokedInv'
    <2>1. request' = [request EXCEPT ![r] = Idle] /\ cred[k] = None /\ UNCHANGED gone
      BY <1>4 DEF CommitMint, CommitRedeem, Ends, Numbered
    <2>2. \A j \in Creds \ {k} : cred'[j] = cred[j]
      BY <1>4 DEF CommitMint, CommitRedeem, TypeOK
    <2>3. SameUses
      BY <1>0, <2>1, NoUse
    <2>4. \A j \in Creds : cred[j] # None => cred'[j] = cred[j]
      BY <2>1, <2>2
    <2>5. Lasting
      BY <2>1, <2>4 DEF Lasting
    <2> QED BY <2>3, <2>5, RevokedQuiet
  <1>5. CASE LookApp(r) /\ Present(cred[request[r].cred].app)
    <2>1. PICK h \in Uses : /\ h.cred = request[r].cred /\ h.barred = request[r].barred /\ h.pc = "stamp"
                            /\ request' = [request EXCEPT ![r] = h]
      BY <1>5, NextRecord
    <2>2. request[r].kind = "use" /\ request[r].pc = "app" /\ UNCHANGED <<cred, gone>>
      BY <1>5 DEF LookApp, At
    <2>3. ~h.barred
      BY <1>5, <2>1, <2>2 DEF RevokedInv, Present
    <2>4. request'[r] = h /\ \A q \in Requests \ {r} : request'[q] = request[q]
      BY <2>1 DEF TypeOK
    <2>5. RevokedStaysOut'
      BY <2>3, <2>4 DEF RevokedInv, RevokedStaysOut, At
    <2>6. ASSUME NEW q \in Requests, request'[q].kind = "use"
          PROVE  /\ cred[request'[q].cred] # None
                 /\ request'[q].pc = "app" /\ request'[q].barred => cred[request'[q].cred].app \in gone
      BY <2>1, <2>2, <2>4, <2>6 DEF RevokedInv
    <2> QED BY <2>2, <2>5, <2>6 DEF RevokedInv
  <1> QED BY <1>1, <1>2, <1>3, <1>4, <1>5 DEF Step

LEMMA RevokedKept == TypeOK /\ RevokedInv /\ [Next]_vars => RevokedInv'
  <1> SUFFICES ASSUME TypeOK, RevokedInv, [Next]_vars PROVE RevokedInv'
    OBVIOUS
  <1>1. CASE \E r \in Requests : Ask(r) \/ Step(r)
    BY <1>1, RevokedAsk, RevokedStep
  <1>2. CASE UNCHANGED <<cred, gone, request>>
    BY <1>2, RevokedQuiet DEF Lasting, SameUses, RevokedInv
  <1>3. ASSUME NEW k \in Creds, Revoke(k) \/ ExpireToken(k) PROVE RevokedInv'
    <2>1. /\ cred[k] # None /\ cred' = [cred EXCEPT ![k].live = FALSE] /\ UNCHANGED request
          /\ gone \subseteq gone' /\ gone' \subseteq gone \cup {k}
      BY <1>3 DEF Revoke, ExpireToken
    <2>2. Lasting
      BY <2>1, Dying DEF Lasting
    <2> QED BY <2>1, <2>2, RevokedQuiet DEF SameUses
  <1>4. \/ \E r \in Requests : Ask(r) \/ Step(r)
        \/ UNCHANGED <<cred, gone, request>>
        \/ \E k \in Creds : Revoke(k) \/ ExpireToken(k)
    BY DEF Next, vars, RequestLink, ExpireCode, IssueLinkCode, Authorize, IssueCode,
           OperatorComp, CloseAccount, Tick
  <1> QED BY <1>1, <1>2, <1>3, <1>4

\* A revocation is final: whoever presents a revoked credential afterwards, or
\* one of a revoked app's, is not served, whatever uses and exchanges were under
\* way, for any number of them (resolve_read_bearer, token).
THEOREM RevocationsAreFinal == Spec => []RevokedStaysOut
  <1>1. Init => RevokedInv
    BY DEF Init, RevokedInv, RevokedStaysOut, At, Idle
  <1>2. RevokedInv => RevokedStaysOut
    BY DEF RevokedInv
  <1> QED BY <1>1, <1>2, RevokedKept, TypeCorrect, PTL DEF Spec

-----------------------------------------------------------------------------
(* The free credit.  A login that has flushed its stamp holds the row of     *)
(* users alone; whoever is past a first login has the credit.                *)

MeterInv ==
    /\ login.comps \in {0, 1}
    /\ login.last # None => login.comps = 1
    /\ cookie # {} => login.comps = 1
    /\ \A r \in Requests :
          /\ At(r, "login", "flush") /\ ~request[r].first => login.comps = 1
          /\ At(r, "login", "commit") => (request[r].grant <=> login.comps = 0)
          /\ At(r, "login", "answer") => login.comps = 1
    /\ \A r, q \in Requests : At(r, "login", "commit") /\ At(q, "login", "commit") => r = q

\* A step that leaves the credit and the account's logins as they are, and
\* takes no handler on
Unmetered ==
    /\ login'.comps = login.comps /\ login'.last = login.last /\ cookie' = cookie
    /\ \A r \in Requests : At(r, "login", "flush")' =>
          \/ At(r, "login", "flush") /\ request'[r].first = request[r].first
          \/ request'[r].first <=> login.last = None
    /\ \A r \in Requests : At(r, "login", "commit")' =>
          At(r, "login", "commit") /\ request'[r].grant = request[r].grant
    /\ \A r \in Requests : At(r, "login", "answer")' => At(r, "login", "answer")

LEMMA MeterQuiet == ASSUME MeterInv, Unmetered PROVE MeterInv'
  BY DEF MeterInv, Unmetered

LEMMA MeterStill ==
    ASSUME MeterInv, TypeOK, UNCHANGED <<login, cookie>>, NEW r \in Requests, NEW h,
           request' = [request EXCEPT ![r] = h],
           h.kind = "login" => h.pc = "flush" /\ (h.first <=> login.last = None)
    PROVE  MeterInv'
  <1>1. Unmetered
    BY DEF Unmetered, At, TypeOK
  <1> QED BY <1>1, MeterQuiet

LEMMA MeterStep ==
    ASSUME MeterInv, TypeOK, NEW r \in Requests, Step(r) PROVE MeterInv'
  <1>0. request \in [Requests -> Handlers]
    BY DEF TypeOK
  <1>1. CASE Flush(r)
    <2>1. PICK h \in Logins : /\ h.pc = "commit" /\ h.grant = (request[r].first /\ ~CompExists)
                              /\ request' = [request EXCEPT ![r] = h]
      BY <1>1, NextRecord
    <2>2. UNCHANGED <<login, cookie>> /\ At(r, "login", "flush") /\ ~UserLocked
      BY <1>1 DEF Flush
    <2>3. h.grant <=> login.comps = 0
      <3>1. CASE request[r].first
        <4>1. login.comps \in {0, 1}
          BY DEF MeterInv
        <4>2. CompExists <=> login.comps # 0
          BY <4>1 DEF CompExists
        <4>3. h.grant = ~CompExists
          BY <2>1, <3>1
        <4> QED BY <4>2, <4>3
      <3>2. CASE ~request[r].first
        <4>1. login.comps = 1
          BY <2>2, <3>2 DEF MeterInv
        <4>2. h.grant = FALSE
          BY <2>1, <3>2
        <4> QED BY <4>1, <4>2
      <3> QED BY <3>1, <3>2
    <2>4. \A q \in Requests : ~At(q, "login", "commit")
      BY <2>2 DEF UserLocked, Open
    <2>5. \A q \in Requests \ {r} : request'[q] = request[q]
      BY <2>1, <1>0
    <2>6. request'[r] = h /\ h.kind = "login"
      BY <2>1, <1>0 DEF Logins
    <2> QED BY <2>1, <2>2, <2>3, <2>4, <2>5, <2>6 DEF MeterInv, At
  <1>2. CASE CommitLogin(r)
    <2>1. PICK h \in Logins : h.pc = "answer" /\ request' = [request EXCEPT ![r] = h]
      BY <1>2, NextRecord
    <2>2. At(r, "login", "commit") /\ request[r] \in Logins /\ UNCHANGED cookie
      BY <1>2, Kinded DEF CommitLogin
    <2>3. login'.comps = 1
      BY <1>2, <2>2 DEF CommitLogin, MeterInv
    <2>4. \A q \in Requests : ~At(q, "login", "commit")'
      BY <2>1, <2>2, <1>0 DEF MeterInv, At
    <2> QED BY <2>3, <2>4 DEF MeterInv
  <1>3. CASE Answer(r)
    <2>1. login.comps = 1 /\ UNCHANGED login
      BY <1>3 DEF Answer, MeterInv
    <2>2. \A q \in Requests : \A pc : At(q, "login", pc)' => At(q, "login", pc) /\ request'[q] = request[q]
      BY <1>3, <1>0 DEF Answer, Ends, Idle, At
    <2> QED BY <2>1, <2>2 DEF MeterInv
  <1>4. CASE Claim(r) /\ ~code[request[r].code].used
    <2>1. PICK h \in Redeems : request' = [request EXCEPT ![r] = h]
      BY <1>4, NextRecord
    <2> QED BY <1>4, <2>1, MeterStill DEF Claim, Redeems
  <1>5. CASE \/ Dies(r) \/ Stamp(r)
             \/ Claim(r) /\ code[request[r].code].used
             \/ LookApp(r) /\ ~Present(cred[request[r].cred].app)
    BY <1>5, MeterStill DEF Dies, Stamp, Claim, LookApp, Ends, Idle
  <1>6. ASSUME NEW k \in Creds, CommitMint(r, k) \/ CommitRedeem(r, k) PROVE MeterInv'
    BY <1>6, MeterStill DEF CommitMint, CommitRedeem, Ends, Idle
  <1>7. CASE LookApp(r) /\ Present(cred[request[r].cred].app)
    <2>1. PICK h \in Uses : request' = [request EXCEPT ![r] = h]
      BY <1>7, NextRecord
    <2> QED BY <1>7, <2>1, MeterStill DEF LookApp, Uses
  <1> QED BY <1>1, <1>2, <1>3, <1>4, <1>5, <1>6, <1>7 DEF Step

LEMMA MeterKept == TypeOK /\ MeterInv /\ [Next]_vars => MeterInv'
  <1> SUFFICES ASSUME TypeOK, MeterInv, [Next]_vars PROVE MeterInv'
    OBVIOUS
  <1>1. ASSUME NEW r \in Requests, Ask(r) PROVE MeterInv'
    <2>1. UNCHANGED <<login, cookie>>
      BY <1>1 DEF Ask, AskVerify, AskFederated, AskMint, AskLink, AskExchange, AskRedeem, AskUse
    <2> QED BY <1>1, <2>1, AskedRecord, MeterStill
  <1>2. CASE OperatorComp
    <2>1. login.comps = 0 /\ UNCHANGED <<cookie, request>>
      BY <1>2 DEF OperatorComp, CompExists, MeterInv
    <2>2. login'.comps = 1
      BY <1>2, <2>1 DEF OperatorComp, TypeOK
    <2>3. \A r \in Requests : ~At(r, "login", "commit")
      BY <1>2, <2>1 DEF OperatorComp, Open, MeterInv
    <2> QED BY <2>1, <2>2, <2>3 DEF MeterInv, At
  <1>3. CASE CloseAccount
    <2>1. login'.comps = login.comps /\ login'.last = login.last /\ UNCHANGED <<cookie, request>>
      BY <1>3 DEF CloseAccount, TypeOK
    <2> QED BY <2>1, MeterQuiet DEF Unmetered, At
  <1>4. CASE UNCHANGED <<login, cookie, request>>
    BY <1>4, MeterQuiet DEF Unmetered, At
  <1>5. \/ \E r \in Requests : Ask(r) \/ Step(r)
        \/ OperatorComp \/ CloseAccount \/ UNCHANGED <<login, cookie, request>>
    BY DEF Next, vars, RequestLink, Revoke, ExpireToken, ExpireCode, IssueLinkCode, Authorize, IssueCode, Tick
  <1> QED BY <1>1, <1>2, <1>3, <1>4, <1>5, MeterStep

\* The free credit is given once, and nobody is in without it, whatever logins
\* and grants run side by side and die (_record_login, mark_paid).
THEOREM FreeCreditIsMetered == Spec => []MeterOnce
  <1>1. Init => MeterInv
    BY AccessAssumption DEF Init, MeterInv, At, Idle
  <1>2. MeterInv => MeterOnce
    BY DEF MeterInv, MeterOnce
  <1> QED BY <1>1, <1>2, MeterKept, TypeCorrect, PTL DEF Spec

=============================================================================
