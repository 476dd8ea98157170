---------------------------- MODULE UploadProofs ----------------------------
(***************************************************************************)
(* Proofs about Upload.tla, for every number of users, requests, keys,     *)
(* credits and crashes.  The inductive invariant IInv says what each       *)
(* handler knows between its gate and its commit; the safety properties    *)
(* and the step-by-step refinement of PaidOnce follow from it.             *)
(***************************************************************************)
EXTENDS Upload, FiniteSetTheorems, TLAPS

-----------------------------------------------------------------------------
(* The inductive invariant *)

\* A request that has arrived knows its user.
Arrived ==
    \A r \in Requests : req[r].pc # "idle" => req[r].user \in Users

\* The credit a handler is about to update belongs to its user; once it is
\* updated (the row is locked) it is still unspent.  Ingests hold no credit.
Claims ==
    \A r \in Requests :
        /\ r \in Ingests =>
              req[r].cand = NoCredit /\ req[r].pc \notin {"claiming", "updating"}
        /\ r \notin Ingests /\ req[r].pc \in {"updating"} \cup Locking =>
              req[r].cand \in Credits /\ owner[req[r].cand] = req[r].user
        /\ r \notin Ingests /\ req[r].pc \in Locking =>
              spent[req[r].cand] = None

\* No two handlers hold the same row.
Exclusion ==
    \A r, s \in Requests :
        /\ r # s
        /\ req[r].pc \in Locking /\ req[s].pc \in Locking
        /\ req[r].cand = req[s].cand
        => req[r].cand = NoCredit

\* What is committed of a request at each step of its handler.
Progress ==
    \A r \in Requests :
        /\ r \notin Connects =>
              /\ audit[r] # "connected"
              /\ audit[r] # "none" => req[r].pc \in {"committed", "done", "crashed"}
        /\ r \in Connects =>
              /\ audit[r] \in {"none", "connected"}
              /\ req[r].pc \notin {"stored", "committed"}
              /\ req[r].pc \in {"idle", "gated"} => audit[r] = "none"
              /\ req[r].pc \in {"claiming", "updating", "claimed"} =>
                    audit[r] = "connected"

\* A spent credit paid for a committed audit of its owner, and for that alone;
\* a connected account's audit is paid when its handler is done.
Ledger ==
    \A c \in Credits : spent[c] # None =>
        /\ spent[c] \notin Ingests
        /\ owner[c] = req[spent[c]].user
        /\ audit[spent[c]] # "none"
        /\ spent[c] \in Connects => req[spent[c]].pc = "done"
        /\ \A d \in Credits : spent[d] = spent[c] => c = d

\* An upload that was stored has been paid for.
Paid ==
    \A r \in Uploads : audit[r] # "none" => \E c \in Credits : spent[c] = r

\* The key of an upload that is still held is bound to it and to nothing else.
Bound ==
    \A r \in Requests :
        audit[r] = "stored" /\ req[r].key # NoKey => idem[<<req[r].user, req[r].key>>] = r

\* The invariants about several requests or tables ...
Rest ==
    /\ Arrived /\ Claims /\ Exclusion /\ Progress
    /\ Ledger /\ Paid /\ KeyIsFresh /\ Bound

\* ... and the types.
IInv == TypeOK /\ Rest

-----------------------------------------------------------------------------
(* Type correctness *)

\* What a handler does to its own record keeps the type of all of them.
LEMMA HandlerTypes ==
    ASSUME req \in [Requests -> Handler], NEW r \in Requests
    PROVE  /\ \A step \in Steps : Goto(r, step) => req' \in [Requests -> Handler]
           /\ \A step \in Steps, u \in Users, k \in Keys \cup {NoKey} :
                 \A S \in SUBSET Credits :
                    Enter(r, step, u, k, S) => req' \in [Requests -> Handler]
           /\ \A a \in Requests \cup {None} :
                 Answer(r, a) => req' \in [Requests -> Handler]
           /\ \A step \in Steps, c \in Credits \cup {NoCredit} :
                 Consider(r, step, c) => req' \in [Requests -> Handler]
<1> USE DEF Handler
<1>1. ASSUME NEW step \in Steps PROVE [req[r] EXCEPT !.pc = step] \in Handler
  OBVIOUS
<1>2. ASSUME NEW step \in Steps, NEW u \in Users, NEW k \in Keys \cup {NoKey},
             NEW S \in SUBSET Credits
      PROVE  [req[r] EXCEPT !.pc = step, !.user = u, !.key = k, !.seen = S]
                \in Handler
  OBVIOUS
<1>3. ASSUME NEW a \in Requests \cup {None}
      PROVE  [req[r] EXCEPT !.pc = "replayed", !.answer = a] \in Handler
  <2>1. "replayed" \in Steps
    BY DEF Steps, Ended
  <2> QED
    BY <2>1
<1>4. ASSUME NEW step \in Steps, NEW c \in Credits \cup {NoCredit}
      PROVE  [req[r] EXCEPT !.pc = step, !.cand = c] \in Handler
  OBVIOUS
<1> HIDE DEF Handler
<1>5. \A step \in Steps : Goto(r, step) => req' \in [Requests -> Handler]
  BY <1>1 DEF Goto
<1>6. \A step \in Steps, u \in Users, k \in Keys \cup {NoKey} :
         \A S \in SUBSET Credits :
            Enter(r, step, u, k, S) => req' \in [Requests -> Handler]
  <2> TAKE step \in Steps, u \in Users, k \in Keys \cup {NoKey}
  <2> TAKE S \in SUBSET Credits
  <2>1. [req[r] EXCEPT !.pc = step, !.user = u, !.key = k, !.seen = S] \in Handler
    BY <1>2
  <2> QED
    BY <2>1 DEF Enter
<1>7. \A a \in Requests \cup {None} :
         Answer(r, a) => req' \in [Requests -> Handler]
  BY <1>3 DEF Answer
<1>8. \A step \in Steps, c \in Credits \cup {NoCredit} :
         Consider(r, step, c) => req' \in [Requests -> Handler]
  BY <1>4 DEF Consider
<1> QED
  BY <1>5, <1>6, <1>7, <1>8

\* The types are kept by every action of every handler, by payments, purges
\* and crashes; a replay needs to know that its user is one.
LEMMA TypeStep == TypeOK /\ Arrived /\ [Next]_vars => TypeOK'
<1> SUFFICES ASSUME TypeOK, Arrived, [Next]_vars PROVE TypeOK'
  OBVIOUS
<1> USE UploadAssumption DEF TypeOK
<1>1. ASSUME NEW u \in Users, GrantCredit(u) PROVE TypeOK'
  BY <1>1 DEF GrantCredit
<1>2. ASSUME NEW r \in Requests, Gate(r) PROVE TypeOK'
  BY <1>2, HandlerTypes DEF Gate, Steps, Ended, Unspent
<1>3. ASSUME NEW r \in Requests, PlanGate(r) PROVE TypeOK'
  BY <1>3, HandlerTypes DEF PlanGate, Steps, Ended
<1>4. ASSUME NEW r \in Requests, Step(r) PROVE TypeOK'
  <2>1. CASE Replay(r)
    <3>1. req[r].user \in Users
      BY <2>1 DEF Replay, Arrived
    <3>2. req[r].key \in Keys
      BY <2>1 DEF Replay, KeyTaken, Handler
    <3>3. idem[<<req[r].user, req[r].key>>] \in Requests \cup {None}
      BY <3>1, <3>2
    <3> QED
      BY <2>1, <3>3, HandlerTypes DEF Replay
  <2>2. CASE SelectCredit(r)
    BY <2>2, HandlerTypes DEF SelectCredit, Unspent, Steps
  <2>3. CASE UpdateCredit(r)
    BY <2>3, HandlerTypes DEF UpdateCredit, Steps, Locking
  <2>4. CASE Commit(r)
    BY <2>4, HandlerTypes DEF Commit, Steps
  <2>5. CASE Kickoff(r)
    BY <2>5, HandlerTypes DEF Kickoff, Steps
  <2>6. CASE Settle(r)
    BY <2>6, HandlerTypes DEF Settle, Steps, Ended
  <2>7. CASE WriteFile(r)
    BY <2>7, HandlerTypes DEF WriteFile, Steps, Locking
  <2>8. CASE RejectFile(r)
    BY <2>8, HandlerTypes DEF RejectFile, Steps, Ended
  <2>9. CASE \/ Reject(r) \/ OpenAudit(r) \/ FirstPullFails(r)
             \/ NoCreditLeft(r) \/ KeyConflict(r) \/ Dispatch(r)
    BY <2>9, HandlerTypes
       DEF Reject, OpenAudit, FirstPullFails, NoCreditLeft, KeyConflict,
           Dispatch, Steps, Ended, Locking
  <2> QED
    BY <1>4, <2>1, <2>2, <2>3, <2>4, <2>5, <2>6, <2>7, <2>8, <2>9 DEF Step
<1>5. ASSUME NEW r \in Requests, Purge(r) PROVE TypeOK'
  BY <1>5 DEF Purge
<1>6. CASE Crash
  BY <1>6 DEF Crash, Handler, Steps, Ended
<1>7. CASE UNCHANGED vars
  BY <1>7 DEF vars
<1> QED
  BY <1>1, <1>2, <1>3, <1>4, <1>5, <1>6, <1>7 DEF Next

-----------------------------------------------------------------------------
(* Handlers that commit nothing *)

\* Handler r goes to a step with a candidate credit; nobody else moves.
Moved(r, step, c) ==
    /\ \A s \in Requests : req'[s].user = req[s].user /\ req'[s].key = req[s].key
    /\ \A s \in Requests \ {r} :
          req'[s].pc = req[s].pc /\ req'[s].cand = req[s].cand
    /\ req'[r].pc = step /\ req'[r].cand = c

LEMMA Moves ==
    ASSUME req \in [Requests -> Handler], NEW r \in Requests
    PROVE  /\ \A step : Goto(r, step) => Moved(r, step, req[r].cand)
           /\ \A step, c : Consider(r, step, c) => Moved(r, step, c)
           /\ \A a : Answer(r, a) => Moved(r, "replayed", req[r].cand)
<1>1. ASSUME NEW step, Goto(r, step) PROVE Moved(r, step, req[r].cand)
  BY <1>1 DEF Goto, Moved, Handler
<1>2. ASSUME NEW step, NEW c, Consider(r, step, c) PROVE Moved(r, step, c)
  BY <1>2 DEF Consider, Moved, Handler
<1>3. ASSUME NEW a, Answer(r, a) PROVE Moved(r, "replayed", req[r].cand)
  BY <1>3 DEF Answer, Moved, Handler
<1> QED
  BY <1>1, <1>2, <1>3

\* What must hold of a step and a candidate for r to be able to be there.
Sound(r, step, c) ==
    /\ step # "idle"
    /\ r \in Ingests => c = NoCredit /\ step \notin {"claiming", "updating"}
    /\ r \notin Ingests /\ step \in {"updating"} \cup Locking =>
          c \in Credits /\ owner[c] = req[r].user
    /\ r \notin Ingests /\ step \in Locking =>
          spent[c] = None /\ \A s \in Requests \ {r} : ~Locks(s, c)
    /\ r \notin Connects /\ audit[r] # "none" =>
          step \in {"committed", "done", "crashed"}
    /\ r \in Connects =>
          /\ step \notin {"stored", "committed", "idle", "gated"}
          /\ step \in {"claiming", "updating", "claimed"} => audit[r] = "connected"

\* A handler that reads, writes its file or gives up, and commits nothing,
\* keeps the invariant if where it goes is sound and it was not done.
LEMMA QuietStep ==
    ASSUME TypeOK, Rest, NEW r \in Requests, NEW step, NEW c,
           Moved(r, step, c), Sound(r, step, c), UNCHANGED tables,
           req[r].pc # "idle", r \in Connects => req[r].pc # "done"
    PROVE  Rest'
<1> USE DEF tables, Rest, Moved
<1>1. Arrived'
  BY DEF Arrived
<1>2. Claims'
  BY DEF Claims, Sound
<1>3. Exclusion'
  BY DEF Exclusion, Sound, Claims, Locks, NoCredit, Credits
<1>4. Progress'
  BY DEF Progress, Sound
<1>5. Ledger'
  BY DEF Ledger, TypeOK
<1>6. Paid' /\ KeyIsFresh' /\ Bound'
  BY DEF Paid, KeyIsFresh, Bound, TypeOK
<1> QED
  BY <1>1, <1>2, <1>3, <1>4, <1>5, <1>6

LEMMA QuietActions ==
    ASSUME TypeOK, Rest, NEW r \in Requests,
           \/ Replay(r) \/ Reject(r) \/ OpenAudit(r) \/ FirstPullFails(r)
           \/ SelectCredit(r) \/ NoCreditLeft(r) \/ UpdateCredit(r)
           \/ WriteFile(r) \/ RejectFile(r) \/ KeyConflict(r) \/ Dispatch(r)
    PROVE  Rest'
<1> USE UploadAssumption
<1> DEFINE Quiet(step, c) ==
       /\ Moved(r, step, c) /\ Sound(r, step, c) /\ UNCHANGED tables
       /\ req[r].pc # "idle" /\ (r \in Connects => req[r].pc # "done")
<1>1. \A step : Goto(r, step) => Moved(r, step, req[r].cand)
  BY Moves DEF TypeOK
<1>2. \A step, c : Consider(r, step, c) => Moved(r, step, c)
  BY Moves DEF TypeOK
<1>3. \A a : Answer(r, a) => Moved(r, "replayed", req[r].cand)
  BY Moves DEF TypeOK
<1>4. ASSUME Replay(r) PROVE Quiet("replayed", req[r].cand)
  BY <1>3, <1>4 DEF Replay, Sound, Rest, Claims, Progress, tables, Locking
<1>5. ASSUME Reject(r) PROVE Quiet("rejected", req[r].cand)
  BY <1>1, <1>5 DEF Reject, Sound, Rest, Claims, Progress, tables, Locking
<1>6. ASSUME OpenAudit(r)
      PROVE  Quiet(IF r \in Uploads THEN "claiming" ELSE "claimed", req[r].cand)
  BY <1>1, <1>6 DEF OpenAudit, Sound, Rest, Claims, Progress, tables, Locking
<1>7. ASSUME FirstPullFails(r) PROVE Quiet("rejected", req[r].cand)
  BY <1>1, <1>7 DEF FirstPullFails, Sound, Rest, Claims, Progress, tables, Locking
<1>8. ASSUME SelectCredit(r)
      PROVE  \E c \in Credits : Quiet("updating", c)
  BY <1>2, <1>8 DEF SelectCredit, Unspent, Sound, Rest, Claims, Progress, tables, Locking
<1>9. ASSUME NoCreditLeft(r)
      PROVE  Quiet(IF r \in Uploads THEN "refused" ELSE "done", req[r].cand)
  BY <1>1, <1>9 DEF NoCreditLeft, Sound, Rest, Claims, Progress, tables, Locking, Requests
<1>10. ASSUME UpdateCredit(r)
       PROVE  Quiet("claimed", req[r].cand) \/ Quiet("claiming", NoCredit)
  BY <1>1, <1>2, <1>10
     DEF UpdateCredit, Sound, Rest, Claims, Progress, tables, Locking
<1>11. ASSUME WriteFile(r) PROVE Quiet("stored", req[r].cand)
  BY <1>1, <1>11
     DEF WriteFile, Sound, Rest, Claims, Exclusion, Progress, Locks, tables,
         Locking, Requests, NoCredit, Credits
<1>12. ASSUME RejectFile(r) PROVE Quiet("rejected", req[r].cand)
  BY <1>1, <1>12 DEF RejectFile, Sound, Rest, Claims, Progress, tables, Locking
<1>13. ASSUME KeyConflict(r) PROVE Quiet("conflict", req[r].cand)
  BY <1>1, <1>13 DEF KeyConflict, Sound, Rest, Claims, Progress, tables, Locking
<1>14. ASSUME Dispatch(r) PROVE Quiet("done", req[r].cand)
  BY <1>1, <1>14 DEF Dispatch, Sound, Rest, Claims, Progress, tables, Locking
<1>15. \E step, c : Quiet(step, c)
  BY <1>4, <1>5, <1>6, <1>7, <1>8, <1>9, <1>10, <1>11, <1>12, <1>13, <1>14
<1> QED
  BY <1>15, QuietStep

-----------------------------------------------------------------------------
(* Actions that change the tables, the arrival of a request, the crash *)

\* A payments row appears: no claim or spent credit is touched.
LEMMA GrantStep ==
    ASSUME TypeOK, Rest, NEW u \in Users, GrantCredit(u) PROVE Rest'
<1> USE UploadAssumption DEF TypeOK, Rest
<1>1. PICK c \in Credits : owner[c] = None /\ owner' = [owner EXCEPT ![c] = u]
  BY DEF GrantCredit
<1>2. UNCHANGED <<spent, idem, audit, req>>
  BY DEF GrantCredit
<1>3. spent[c] = None
  BY <1>1 DEF Ledger, Handler, Arrived, Progress, Requests
<1>4. Arrived' /\ Exclusion' /\ Progress' /\ Paid' /\ KeyIsFresh' /\ Bound'
  BY <1>2 DEF Arrived, Exclusion, Progress, Paid, KeyIsFresh, Bound
<1>5. Claims'
  BY <1>1, <1>2 DEF Claims, Arrived, Locking
<1>6. Ledger'
  BY <1>1, <1>2, <1>3 DEF Ledger
<1> QED
  BY <1>4, <1>5, <1>6

\* A request arrives: it has no audit, no credit and no key bound to it yet.
LEMMA ArrivalStep ==
    ASSUME TypeOK, Rest, NEW r \in Requests, Gate(r) \/ PlanGate(r) PROVE Rest'
<1> USE UploadAssumption DEF TypeOK, Rest
<1>1. req[r].pc = "idle" /\ UNCHANGED tables
  BY DEF Gate, PlanGate, tables
<1>2. PICK step \in {"gated", "refused"}, u \in Users, k \in Keys \cup {NoKey} :
         \E S : Enter(r, step, u, k, S)
  BY DEF Gate, PlanGate
<1>3. \A s \in Requests \ {r} : req'[s] = req[s]
  BY <1>2 DEF Enter
<1>4. req'[r].pc = step /\ req'[r].user = u /\ req'[r].cand = req[r].cand
  BY <1>2 DEF Enter, Handler
<1>5. audit[r] = "none"
  BY <1>1 DEF Progress
<1> USE DEF tables
<1>6. Arrived'
  BY <1>1, <1>3, <1>4 DEF Arrived
<1>7. Claims'
  BY <1>1, <1>3, <1>4 DEF Claims, Locking
<1>8. Exclusion'
  BY <1>3, <1>4 DEF Exclusion, Locking
<1>9. Progress'
  BY <1>1, <1>3, <1>4, <1>5 DEF Progress
<1>10. Ledger'
  BY <1>1, <1>3, <1>5 DEF Ledger
<1>11. Paid' /\ KeyIsFresh' /\ Bound'
  BY <1>1, <1>3, <1>5 DEF Paid, KeyIsFresh, Bound
<1> QED
  BY <1>6, <1>7, <1>8, <1>9, <1>10, <1>11

\* The connected account's audit row appears, unpaid.
LEMMA KickoffStep ==
    ASSUME TypeOK, Rest, NEW r \in Requests, Kickoff(r) PROVE Rest'
<1> USE UploadAssumption DEF TypeOK, Rest
<1>1. Moved(r, "claiming", req[r].cand)
  BY Moves DEF Kickoff
<1>2. /\ r \in Connects /\ r \notin Ingests
      /\ req[r].pc = "gated" /\ audit[r] = "none"
      /\ audit' = [audit EXCEPT ![r] = "connected"]
      /\ UNCHANGED <<owner, spent, idem>>
  BY DEF Kickoff, Progress
<1> USE <1>1, <1>2 DEF Moved
<1>3. Arrived'
  BY DEF Arrived
<1>4. Claims'
  BY DEF Claims, Locking
<1>5. Exclusion'
  BY DEF Exclusion, Locking
<1>6. Progress'
  BY DEF Progress
<1>7. Ledger'
  BY DEF Ledger
<1>8. Paid'
  BY DEF Paid, Requests
<1>9. KeyIsFresh' /\ Bound'
  BY DEF KeyIsFresh, Bound
<1> QED
  BY <1>3, <1>4, <1>5, <1>6, <1>7, <1>8, <1>9

\* What is true of a handler about to commit.
LEMMA BeforeCommit ==
    ASSUME TypeOK, Rest, NEW r \in Requests, req[r].pc = "stored"
    PROVE  /\ r \notin Connects /\ audit[r] = "none" /\ req[r].user \in Users
           /\ r \in Ingests => req[r].cand = NoCredit
           /\ r \notin Ingests =>
                 /\ req[r].cand \in Credits
                 /\ spent[req[r].cand] = None
                 /\ owner[req[r].cand] = req[r].user
           /\ \A c \in Credits : spent[c] # r
           /\ \A slot \in Users \X Keys : idem[slot] # r
<1> USE UploadAssumption DEF TypeOK, Rest
<1>1. r \notin Connects /\ audit[r] = "none" /\ req[r].user \in Users
  BY DEF Progress, Arrived
<1>2. r \in Ingests => req[r].cand = NoCredit
  BY DEF Claims
<1>3. r \notin Ingests => /\ req[r].cand \in Credits
                          /\ spent[req[r].cand] = None
                          /\ owner[req[r].cand] = req[r].user
  BY DEF Claims, Locking
<1>4. \A c \in Credits : spent[c] # r
  BY <1>1 DEF Ledger
<1>5. ASSUME NEW slot \in Users \X Keys, idem[slot] = r PROVE FALSE
  <2>1. PICK u \in Users, k \in Keys : slot = <<u, k>>
    OBVIOUS
  <2> QED
    BY <1>1, <1>5, <2>1 DEF KeyIsFresh
<1> QED
  BY <1>1, <1>2, <1>3, <1>4, <1>5

\* Claim, audit and key become visible together.
LEMMA CommitStep ==
    ASSUME TypeOK, Rest, NEW r \in Requests, Commit(r) PROVE Rest'
<1> USE UploadAssumption DEF TypeOK, Rest
<1>1. Moved(r, "committed", req[r].cand)
  BY Moves DEF Commit
<1>2. /\ req[r].pc = "stored" /\ ~KeyTaken(r) /\ UNCHANGED owner
      /\ audit' = [audit EXCEPT ![r] = "stored"]
      /\ \A c \in Credits : spent'[c] = IF c = req[r].cand THEN r ELSE spent[c]
      /\ \A slot \in Users \X Keys :
            idem'[slot] = IF slot = <<req[r].user, req[r].key>> THEN r ELSE idem[slot]
  BY DEF Commit
<1>3. NoCredit \notin Credits
  BY DEF NoCredit, Credits
<1> USE <1>1, <1>2, <1>3, BeforeCommit DEF Moved
<1>4. Arrived'
  BY DEF Arrived
<1>5. Claims'
  <2>1. \A s \in Requests \ {r} :
           req[s].pc \in Locking /\ s \notin Ingests => req[s].cand # req[r].cand
    BY DEF Exclusion, Claims, Locking
  <2> QED
    BY <2>1 DEF Claims, Locking
<1>6. Exclusion'
  BY DEF Exclusion, Locking
<1>7. Progress'
  BY DEF Progress
<1>8. Ledger'
  BY DEF Ledger
<1>9. Paid'
  <2>1. ASSUME NEW s \in Uploads, audit'[s] # "none"
        PROVE  \E c \in Credits : spent'[c] = s
    <3>1. CASE s = r
      BY <3>1
    <3>2. CASE s # r
      BY <2>1, <3>2 DEF Paid, Requests
    <3> QED
      BY <3>1, <3>2
  <2> QED
    BY <2>1 DEF Paid
<1>10. \A u \in Users, k \in Keys : <<u, k>> \in Users \X Keys
  OBVIOUS
<1>11. KeyIsFresh'
  BY <1>10 DEF KeyIsFresh
<1>12. Bound'
  <2>1. ASSUME NEW s \in Requests, s # r, audit[s] = "stored", req[s].key # NoKey
        PROVE  /\ idem[<<req[s].user, req[s].key>>] = s
               /\ <<req[s].user, req[s].key>> # <<req[r].user, req[r].key>>
    BY <2>1 DEF Bound, KeyTaken
  <2>2. \A s \in Requests : audit[s] = "stored" /\ req[s].key # NoKey =>
           <<req[s].user, req[s].key>> \in Users \X Keys
    BY DEF Progress, Arrived, Handler
  <2>3. req[r].key # NoKey => <<req[r].user, req[r].key>> \in Users \X Keys
    BY DEF Handler
  <2> QED
    BY <2>1, <2>2, <2>3 DEF Bound
<1> QED
  BY <1>4, <1>5, <1>6, <1>7, <1>8, <1>9, <1>11, <1>12

\* A connected account's audit takes its credit, and no other had it.
LEMMA SettleStep ==
    ASSUME TypeOK, Rest, NEW r \in Requests, Settle(r) PROVE Rest'
<1> USE UploadAssumption DEF TypeOK, Rest
<1>1. Moved(r, "done", req[r].cand)
  BY Moves DEF Settle
<1>2. /\ req[r].pc = "claimed" /\ r \in Connects /\ r \notin Ingests
      /\ spent' = [spent EXCEPT ![req[r].cand] = r]
      /\ UNCHANGED <<owner, idem, audit>>
  BY DEF Settle
<1>3. /\ req[r].cand \in Credits /\ spent[req[r].cand] = None
      /\ owner[req[r].cand] = req[r].user /\ audit[r] = "connected"
  BY <1>2 DEF Claims, Progress, Locking
<1>4. \A c \in Credits : spent[c] # r
  BY <1>2 DEF Ledger
<1> USE <1>1, <1>2, <1>3, <1>4 DEF Moved
<1>5. Arrived'
  BY DEF Arrived
<1>6. Claims'
  <2>1. \A s \in Requests \ {r} :
           req[s].pc \in Locking /\ s \notin Ingests => req[s].cand # req[r].cand
    BY DEF Exclusion, Locking, NoCredit, Credits
  <2> QED
    BY <2>1 DEF Claims, Locking
<1>7. Exclusion'
  BY DEF Exclusion, Locking
<1>8. Progress'
  BY DEF Progress
<1>9. Ledger'
  BY DEF Ledger
<1>10. Paid'
  BY DEF Paid, Requests
<1>11. KeyIsFresh' /\ Bound'
  BY DEF KeyIsFresh, Bound
<1> QED
  BY <1>5, <1>6, <1>7, <1>8, <1>9, <1>10, <1>11

\* The purged upload's keys are free, everybody else's stay bound.
LEMMA PurgeStep ==
    ASSUME TypeOK, Rest, NEW r \in Requests, Purge(r) PROVE Rest'
<1> USE UploadAssumption DEF TypeOK, Rest
<1>1. /\ audit[r] = "stored" /\ audit' = [audit EXCEPT ![r] = "purged"]
      /\ \A slot \in Users \X Keys :
            idem'[slot] = IF idem[slot] = r THEN None ELSE idem[slot]
      /\ UNCHANGED <<owner, spent, req>>
  BY DEF Purge
<1> USE <1>1
<1>2. Arrived' /\ Claims' /\ Exclusion'
  BY DEF Arrived, Claims, Exclusion
<1>3. Progress'
  BY DEF Progress
<1>4. Ledger' /\ Paid'
  BY DEF Ledger, Paid
<1>5. \A u \in Users, k \in Keys : <<u, k>> \in Users \X Keys
  OBVIOUS
<1>6. KeyIsFresh'
  BY <1>5 DEF KeyIsFresh
<1>7. \A s \in Requests : audit[s] = "stored" /\ req[s].key # NoKey =>
         <<req[s].user, req[s].key>> \in Users \X Keys
  BY DEF Progress, Arrived, Handler
<1>8. Bound'
  BY <1>7 DEF Bound
<1> QED
  BY <1>2, <1>3, <1>4, <1>6, <1>8

\* A crash rolls back what was not committed, and that is all it does.
LEMMA CrashStep ==
    ASSUME TypeOK, Rest, Crash PROVE Rest'
<1> USE DEF TypeOK, Rest
<1>1. /\ UNCHANGED tables
      /\ \A r \in Requests :
            /\ req'[r].user = req[r].user /\ req'[r].key = req[r].key
            /\ req'[r].cand = req[r].cand
            /\ req'[r].pc = IF Active(r) THEN "crashed" ELSE req[r].pc
  BY DEF Crash, tables, Handler
<1> USE <1>1 DEF tables, Active, Ended
<1>2. Arrived'
  BY DEF Arrived
<1>3. Claims' /\ Exclusion'
  BY DEF Claims, Exclusion, Locking
<1>4. Progress'
  BY DEF Progress
<1>5. Ledger' /\ Paid'
  BY DEF Ledger, Paid
<1>6. KeyIsFresh' /\ Bound'
  BY DEF KeyIsFresh, Bound
<1> QED
  BY <1>2, <1>3, <1>4, <1>5, <1>6

LEMMA Inductive == IInv /\ [Next]_vars => IInv'
<1> SUFFICES ASSUME TypeOK, Rest, [Next]_vars PROVE IInv'
  BY DEF IInv
<1>1. TypeOK'
  BY TypeStep DEF Rest
<1>2. ASSUME NEW u \in Users, GrantCredit(u) PROVE Rest'
  BY <1>2, GrantStep
<1>3. ASSUME NEW r \in Requests, Gate(r) \/ PlanGate(r) PROVE Rest'
  BY <1>3, ArrivalStep
<1>4. ASSUME NEW r \in Requests, Step(r) PROVE Rest'
  BY <1>4, QuietActions, KickoffStep, CommitStep, SettleStep DEF Step
<1>5. ASSUME NEW r \in Requests, Purge(r) PROVE Rest'
  BY <1>5, PurgeStep
<1>6. ASSUME Crash PROVE Rest'
  BY <1>6, CrashStep
<1>7. ASSUME UNCHANGED vars PROVE Rest'
  BY <1>7 DEF vars, Rest, Arrived, Claims, Exclusion, Progress, Ledger, Paid,
              KeyIsFresh, Bound
<1> QED
  BY <1>1, <1>2, <1>3, <1>4, <1>5, <1>6, <1>7 DEF Next, IInv

LEMMA Initial == Init => IInv
<1> SUFFICES ASSUME Init PROVE IInv
  OBVIOUS
<1> USE UploadAssumption DEF Init
<1>1. TypeOK
  BY DEF TypeOK, Handler, Steps, NoCredit
<1>2. Arrived /\ Claims /\ Exclusion /\ Progress
  BY DEF Arrived, Claims, Exclusion, Progress, Locking
<1>3. Ledger /\ Paid /\ Bound
  BY DEF Ledger, Paid, Bound, Requests
<1>4. \A u \in Users, k \in Keys : <<u, k>> \in Users \X Keys
  OBVIOUS
<1>5. KeyIsFresh
  BY <1>4 DEF KeyIsFresh
<1> QED
  BY <1>1, <1>2, <1>3, <1>5 DEF IInv, Rest

LEMMA Invariance == Spec => []IInv
  BY Initial, Inductive, PTL DEF Spec

-----------------------------------------------------------------------------
(* What follows from the invariant *)

\* Every reachable state is of the declared types.
THEOREM TypeCorrect == Spec => []TypeOK
<1>1. IInv => TypeOK
  BY DEF IInv
<1> QED
  BY <1>1, Invariance, PTL

\* A credit pays only for existing audits of the user it was granted to.
THEOREM CreditsStayHome == Spec => []CreditStaysHome
<1>1. IInv => CreditStaysHome
  BY DEF IInv, Rest, Ledger, CreditStaysHome
<1> QED
  BY <1>1, Invariance, PTL

\* An idempotency key stands for at most one audit whose upload is held.
THEOREM KeysAreUnique == Spec => []OneAuditPerKey
<1>1. IInv => OneAuditPerKey
  BY DEF IInv, Rest, Bound, OneAuditPerKey
<1> QED
  BY <1>1, Invariance, PTL

\* A key answers only with its own user's audit, and never with a purged one.
THEOREM KeysAreFresh == Spec => []KeyIsFresh
<1>1. IInv => KeyIsFresh
  BY DEF IInv, Rest
<1> QED
  BY <1>1, Invariance, PTL

\* Every stored upload was paid by exactly one credit, a connected account's
\* first audit by at most one, everything else by none.
THEOREM UploadsArePaidOnce == Spec => []PaidExactlyOnce
<1>1. ASSUME TypeOK, Rest PROVE PaidExactlyOnce
  <2> SUFFICES ASSUME NEW r \in Requests
               PROVE  LET paid == Cardinality({c \in Credits : spent[c] = r}) IN
                      CASE r \in Uploads  -> paid = IF audit[r] = "none" THEN 0 ELSE 1
                        [] r \in Connects -> paid <= 1
                        [] r \in Ingests  -> paid = 0
    BY DEF PaidExactlyOnce
  <2> DEFINE payers == {c \in Credits : spent[c] = r}
  <2>1. r # None /\ (r \in Uploads \/ r \in Connects \/ r \in Ingests)
    BY UploadAssumption DEF Requests
  <2>2. audit[r] = "none" => payers = {}
    BY <1>1, <2>1 DEF Rest, Ledger
  <2>3. r \in Ingests => payers = {}
    BY <1>1, <2>1 DEF Rest, Ledger
  <2>4. \A c \in payers : payers = {c}
    BY <1>1, <2>1 DEF Rest, Ledger
  <2>5. r \in Uploads /\ audit[r] # "none" => payers # {}
    BY <1>1 DEF Rest, Paid
  <2>6. Cardinality(payers) = IF payers = {} THEN 0 ELSE 1
    <3>1. CASE payers = {}
      BY <3>1, FS_EmptySet
    <3>2. CASE payers # {}
      <4>1. PICK c \in payers : payers = {c}
        BY <3>2, <2>4
      <4> QED
        BY <3>2, <4>1, FS_Singleton
    <3> QED
      BY <3>1, <3>2
  <2> HIDE DEF payers
  <2>7. r \in Uploads => r \notin Ingests /\ r \notin Connects
    BY UploadAssumption
  <2>8. r \in Connects => r \notin Ingests
    BY UploadAssumption
  <2>9. CASE r \in Uploads
    <3>1. Cardinality(payers) = IF audit[r] = "none" THEN 0 ELSE 1
      BY <2>2, <2>5, <2>6, <2>9
    <3> QED
      BY <2>7, <2>9, <3>1 DEF payers
  <2>10. CASE r \in Connects
    <3>1. Cardinality(payers) <= 1
      BY <2>6
    <3> QED
      BY <2>7, <2>8, <2>10, <3>1 DEF payers
  <2>11. CASE r \in Ingests
    <3>1. Cardinality(payers) = 0
      BY <2>3, <2>6, <2>11
    <3> QED
      BY <2>7, <2>8, <2>11, <3>1 DEF payers
  <2> QED
    BY <2>1, <2>9, <2>10, <2>11
<1>2. IInv => PaidExactlyOnce
  BY <1>1 DEF IInv
<1> QED
  BY <1>2, Invariance, PTL

-----------------------------------------------------------------------------
(* Refused only when spent *)

\* What the gate has seen are credits of the request's user.
SeenAreOwn ==
    \A r \in Uploads : req[r].pc # "idle" =>
        \A c \in req[r].seen : c \in Credits /\ owner[c] = req[r].user

SeenInv == SeenAreOwn /\ RefusedOnlyWhenSpent

\* Credits stay with their user and stay spent, and a handler forgets nothing
\* its gate has seen and is not refused: then nothing changes for the property.
LEMMA SeenFrame ==
    ASSUME TypeOK, SeenInv,
           \A c \in Credits : /\ owner[c] # None => owner'[c] = owner[c]
                              /\ spent[c] # None => spent'[c] # None,
           Arrived,
           \A r \in Uploads :
              \/ req'[r].pc = "idle"
              \/ /\ req[r].pc # "idle"
                 /\ req'[r].user = req[r].user /\ req'[r].seen = req[r].seen
                 /\ req'[r].pc = "refused" =>
                       req[r].pc = "refused" \/ Unspent(req[r].user) = {}
    PROVE  SeenInv'
<1> USE DEF SeenInv
<1>1. ASSUME NEW r \in Uploads, req'[r].pc # "idle", NEW c \in req'[r].seen
      PROVE  c \in Credits /\ owner[c] = req[r].user /\ owner'[c] = req'[r].user
  <2>1. r \in Requests /\ req[r].user # None
    BY <1>1, UploadAssumption DEF Arrived, Requests
  <2> QED
    BY <1>1, <2>1 DEF SeenAreOwn
<1>2. ASSUME NEW r \in Uploads, req'[r].pc = "refused", NEW c \in req'[r].seen
      PROVE  spent'[c] # None
  <2>1. c \in Credits /\ owner[c] = req[r].user
    BY <1>1, <1>2
  <2>2. spent[c] # None
    BY <1>2, <2>1 DEF RefusedOnlyWhenSpent, Unspent
  <2> QED
    BY <2>1, <2>2
<1> QED
  BY <1>1, <1>2 DEF SeenAreOwn, RefusedOnlyWhenSpent

\* A handler's steps, as SeenFrame wants them.
LEMMA StepsSeen ==
    ASSUME TypeOK, NEW r \in Requests, Step(r)
    PROVE  /\ \A s \in Requests : req'[s].user = req[s].user /\ req'[s].seen = req[s].seen
           /\ \A s \in Requests \ {r} : req'[s].pc = req[s].pc
           /\ req[r].pc # "idle"
           /\ req'[r].pc = "refused" => Unspent(req[r].user) = {}
<1> DEFINE Keeps(step) ==
       /\ \A s \in Requests : req'[s].user = req[s].user /\ req'[s].seen = req[s].seen
       /\ \A s \in Requests \ {r} : req'[s].pc = req[s].pc
       /\ req'[r].pc = step
<1>1. ASSUME NEW step, Goto(r, step) PROVE Keeps(step)
  BY <1>1 DEF TypeOK, Goto, Handler
<1>2. ASSUME NEW step, NEW c, Consider(r, step, c) PROVE Keeps(step)
  BY <1>2 DEF TypeOK, Consider, Handler
<1>3. ASSUME NEW a, Answer(r, a) PROVE Keeps("replayed")
  BY <1>3 DEF TypeOK, Answer, Handler
<1> HIDE DEF Keeps
<1>4. req[r].pc # "idle"
  BY DEF Step, Replay, Reject, OpenAudit, Kickoff, FirstPullFails, SelectCredit, NoCreditLeft,
         UpdateCredit, WriteFile, RejectFile, Commit, KeyConflict, Dispatch, Settle
<1>5. CASE NoCreditLeft(r)
  <2>1. Keeps("refused") \/ Keeps("done")
    BY <1>1, <1>5 DEF NoCreditLeft
  <2> QED
    BY <1>4, <1>5, <2>1 DEF Keeps, NoCreditLeft
<1>6. ASSUME ~NoCreditLeft(r) PROVE \E step : step # "refused" /\ Keeps(step)
  BY <1>1, <1>2, <1>3, <1>6
     DEF Step, Replay, Reject, OpenAudit, Kickoff, FirstPullFails, SelectCredit,
         UpdateCredit, WriteFile, RejectFile, Commit, KeyConflict, Dispatch, Settle
<1> QED
  BY <1>4, <1>5, <1>6 DEF Keeps

LEMMA SeenKept == IInv /\ SeenInv /\ [Next]_vars => SeenInv'
<1> SUFFICES ASSUME TypeOK, Rest, SeenInv, [Next]_vars PROVE SeenInv'
  BY DEF IInv
<1> USE UploadAssumption
<1>0. Arrived
  BY DEF Rest
<1>1. ASSUME NEW u \in Users, GrantCredit(u) PROVE SeenInv'
  <2>1. \A c \in Credits : owner[c] # None => owner'[c] = owner[c]
    BY <1>1 DEF GrantCredit, TypeOK
  <2> QED
    BY <1>0, <1>1, <2>1, SeenFrame DEF GrantCredit
<1>2. ASSUME NEW r \in Requests, Gate(r) \/ PlanGate(r) PROVE SeenInv'
  <2>1. /\ req[r].pc = "idle" /\ UNCHANGED <<owner, spent>>
        /\ \A s \in Requests \ {r} : req'[s] = req[s]
    BY <1>2 DEF Gate, PlanGate, Enter, TypeOK
  <2>2. ASSUME r \in Uploads, NEW c \in req'[r].seen
        PROVE  c \in Credits /\ owner[c] = req'[r].user /\ req'[r].pc # "refused"
    <3>1. PICK u \in Users, k \in Keys \cup {NoKey} :
             Enter(r, IF Unspent(u) = {} THEN "refused" ELSE "gated", u, k, Unspent(u))
      BY <1>2, <2>2 DEF Gate, PlanGate
    <3>2. /\ req'[r].pc = IF Unspent(u) = {} THEN "refused" ELSE "gated"
          /\ req'[r].user = u /\ req'[r].seen = Unspent(u)
      BY <3>1 DEF Enter, TypeOK, Handler
    <3> QED
      BY <2>2, <3>2 DEF Unspent
  <2>3. Uploads \subseteq Requests
    BY DEF Requests
  <2> QED
    BY <2>1, <2>2, <2>3 DEF SeenInv, SeenAreOwn, RefusedOnlyWhenSpent
<1>3. ASSUME NEW r \in Requests, Step(r) PROVE SeenInv'
  <2>1. \A c \in Credits : spent[c] # None => spent'[c] # None
    <3>1. r # None
      OBVIOUS
    <3>2. CASE Commit(r) \/ Settle(r)
      BY <3>1, <3>2 DEF Commit, Settle, TypeOK
    <3>3. CASE ~(Commit(r) \/ Settle(r))
      BY <1>3, <3>3 DEF Step, Replay, Reject, OpenAudit, Kickoff, FirstPullFails, SelectCredit,
                        NoCreditLeft, UpdateCredit, WriteFile, RejectFile, KeyConflict, Dispatch
    <3> QED
      BY <3>2, <3>3
  <2>2. UNCHANGED owner
    BY <1>3 DEF Step, Replay, Reject, OpenAudit, Kickoff, FirstPullFails, SelectCredit,
                NoCreditLeft, UpdateCredit, WriteFile, RejectFile, Commit, KeyConflict,
                Dispatch, Settle
  <2>3. \A s \in Uploads : s \in Requests
    BY DEF Requests
  <2>4. \A s \in Uploads :
           \/ req'[s].pc = "idle"
           \/ /\ req[s].pc # "idle"
              /\ req'[s].user = req[s].user /\ req'[s].seen = req[s].seen
              /\ req'[s].pc = "refused" => req[s].pc = "refused" \/ Unspent(req[s].user) = {}
    BY <1>3, <2>3, StepsSeen
  <2> QED
    BY <1>0, <2>1, <2>2, <2>4, SeenFrame
<1>4. ASSUME (\E r \in Requests : Purge(r)) \/ UNCHANGED vars PROVE SeenInv'
  BY <1>4 DEF Purge, vars, SeenInv, SeenAreOwn, RefusedOnlyWhenSpent
<1>5. CASE Crash
  <2>1. \A r \in Requests : /\ req'[r].user = req[r].user /\ req'[r].seen = req[r].seen
                            /\ req'[r].pc = IF Active(r) THEN "crashed" ELSE req[r].pc
    BY <1>5 DEF Crash, TypeOK, Handler
  <2>2. \A r \in Uploads : r \in Requests
    BY DEF Requests
  <2> QED
    BY <1>5, <2>1, <2>2 DEF Crash, Active, SeenInv, SeenAreOwn, RefusedOnlyWhenSpent
<1> QED
  BY <1>1, <1>2, <1>3, <1>4, <1>5 DEF Next

\* An upload that passed the gate is refused only when every credit the gate
\* could see has paid for some audit, however many rivals it lost credits to.
THEOREM RefusalsAreFair == Spec => []RefusedOnlyWhenSpent
<1>1. Init => SeenInv
  BY DEF Init, SeenInv, SeenAreOwn, RefusedOnlyWhenSpent, Requests
<1>2. SeenInv => RefusedOnlyWhenSpent
  BY DEF SeenInv
<1> QED
  BY <1>1, <1>2, SeenKept, Invariance, PTL DEF Spec

-----------------------------------------------------------------------------
(* The handlers implement the one-step purchase: Commit is Buy or Stream,  *)
(* Kickoff is Connect, Settle is Settle, Purge is Expire, and everything   *)
(* else is a payment or changes no committed table.                        *)

LEMMA CommitBuys ==
    ASSUME TypeOK, Rest, NEW r \in Requests, Commit(r)
    PROVE  Abstract!Next
<1> USE UploadAssumption
<1> DEFINE u == req[r].user  k == req[r].key  c == req[r].cand
<1>1. /\ req[r].pc = "stored" /\ ~KeyTaken(r) /\ UNCHANGED owner
      /\ audit' = [audit EXCEPT ![r] = "stored"]
      /\ spent' = [d \in Credits |-> IF d = c THEN r ELSE spent[d]]
      /\ idem' = [slot \in Users \X Keys |-> IF slot = <<u, k>> THEN r ELSE idem[slot]]
  BY DEF Commit
<1>2. audit[r] = "none" /\ u \in Users /\ k \in Keys \cup {NoKey}
  BY <1>1, BeforeCommit DEF TypeOK, Handler
<1>3. Abstract!Bind(r, u, k)
  <2>1. CASE k = NoKey
    <3>1. \A slot \in Users \X Keys : slot # <<u, k>>
      BY <2>1
    <3>2. idem' = idem
      BY <1>1, <3>1 DEF TypeOK
    <3> QED
      BY <2>1, <3>2 DEF Abstract!Bind
  <2>2. CASE k \in Keys
    <3>1. idem[<<u, k>>] = None
      BY <1>1, <2>2 DEF KeyTaken
    <3>2. idem' = [idem EXCEPT ![<<u, k>>] = r]
      BY <1>1 DEF TypeOK
    <3> QED
      BY <2>2, <3>1, <3>2 DEF Abstract!Bind
  <2> QED
    BY <1>2, <2>1, <2>2
<1>4. CASE r \in Ingests
  <2>1. c \notin Credits
    BY <1>1, <1>4, BeforeCommit DEF NoCredit, Credits
  <2>2. spent' = spent
    BY <1>1, <2>1 DEF TypeOK
  <2>3. Abstract!Stream(r, u, k)
    BY <1>1, <1>2, <1>3, <2>2 DEF Abstract!Stream
  <2> QED
    BY <1>2, <2>3 DEF Abstract!Next
<1>5. CASE r \notin Ingests
  <2>1. c \in Credits /\ spent[c] = None /\ owner[c] = u
    BY <1>1, <1>5, BeforeCommit
  <2>2. spent' = [spent EXCEPT ![c] = r]
    BY <1>1, <2>1 DEF TypeOK
  <2>3. c \in Abstract!Credits
    BY <2>1 DEF Credits, Abstract!Credits
  <2>4. Abstract!Buy(r, u, k, c)
    BY <1>1, <1>2, <1>3, <2>1, <2>2 DEF Abstract!Buy
  <2> QED
    BY <1>2, <2>3, <2>4 DEF Abstract!Next
<1> QED
  BY <1>4, <1>5

LEMMA SettleSettles ==
    ASSUME TypeOK, Rest, NEW r \in Requests, Settle(r)
    PROVE  Abstract!Next
<1> USE UploadAssumption
<1> DEFINE c == req[r].cand
<1>1. /\ r \in Connects /\ req[r].pc = "claimed"
      /\ spent' = [spent EXCEPT ![c] = r] /\ UNCHANGED <<owner, idem, audit>>
  BY DEF Settle
<1>2. /\ c \in Credits /\ owner[c] = req[r].user /\ spent[c] = None
      /\ audit[r] = "connected" /\ req[r].user \in Users
  BY <1>1 DEF Rest, Claims, Progress, Arrived, Locking
<1>3. \A d \in Abstract!Credits : spent[d] # r
  BY <1>1 DEF Rest, Ledger, Abstract!Credits, Credits
<1>4. Abstract!Settle(r, req[r].user, c)
  BY <1>1, <1>2, <1>3 DEF Abstract!Settle
<1> QED
  BY <1>2, <1>4 DEF Abstract!Next, Abstract!Credits, Credits

\* Every step of every handler is one purchase step or changes no table.
LEMMA StepsImplement == IInv /\ [Next]_vars => [Abstract!Next]_(Abstract!vars)
<1> SUFFICES ASSUME TypeOK, Rest, [Next]_vars
             PROVE  Abstract!Next \/ UNCHANGED Abstract!vars
  BY DEF IInv
<1> USE DEF Abstract!vars
<1>1. ASSUME NEW u \in Users, GrantCredit(u) PROVE Abstract!Next
  BY <1>1 DEF GrantCredit, Abstract!Next, Abstract!Grant, Abstract!Credits, Credits
<1>2. ASSUME NEW r \in Requests, Gate(r) \/ PlanGate(r)
      PROVE  UNCHANGED Abstract!vars
  BY <1>2 DEF Gate, PlanGate
<1>3. ASSUME NEW r \in Requests, Kickoff(r) PROVE Abstract!Next
  <2>1. audit[r] = "none"
    BY <1>3 DEF Kickoff, Rest, Progress
  <2>2. Abstract!Connect(r)
    BY <1>3, <2>1 DEF Kickoff, Abstract!Connect
  <2> QED
    BY <2>2 DEF Abstract!Next
<1>4. ASSUME NEW r \in Requests, Step(r)
      PROVE  Abstract!Next \/ UNCHANGED Abstract!vars
  <2>1. CASE \/ Replay(r) \/ Reject(r) \/ OpenAudit(r) \/ FirstPullFails(r)
             \/ SelectCredit(r) \/ NoCreditLeft(r) \/ UpdateCredit(r)
             \/ WriteFile(r) \/ RejectFile(r) \/ KeyConflict(r) \/ Dispatch(r)
    BY <2>1 DEF Replay, Reject, OpenAudit, FirstPullFails, SelectCredit,
                NoCreditLeft, UpdateCredit, WriteFile, RejectFile, KeyConflict,
                Dispatch
  <2> QED
    BY <1>3, <1>4, <2>1, CommitBuys, SettleSettles DEF Step
<1>5. ASSUME NEW r \in Requests, Purge(r) PROVE Abstract!Next
  <2>1. Abstract!Expire(r)
    BY <1>5 DEF Purge, Abstract!Expire
  <2> QED
    BY <2>1 DEF Abstract!Next
<1>6. ASSUME Crash PROVE UNCHANGED Abstract!vars
  BY <1>6 DEF Crash
<1>7. ASSUME UNCHANGED vars PROVE UNCHANGED Abstract!vars
  BY <1>7 DEF vars
<1> QED
  BY <1>1, <1>2, <1>4, <1>5, <1>6, <1>7 DEF Next

\* The concurrent handlers implement the purchase in one step of PaidOnce.
THEOREM UploadBuysAtomically == Spec => BuysAtomically
<1>1. Init => Abstract!Init
  BY DEF Init, Abstract!Init, Abstract!Credits, Credits
<1> QED
  BY <1>1, StepsImplement, Invariance, PTL
     DEF Spec, BuysAtomically, Abstract!Spec
=============================================================================
