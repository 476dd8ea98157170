--------------------------- MODULE AccountProofs ----------------------------
(***************************************************************************)
(* Proofs about what belongs to an account: its sources (Connect.tla) and  *)
(* its workspace, members and invites (Members.tla), for every number of   *)
(* users, sources, requests and invites.  The first part's invariant says  *)
(* what a form that holds the lock on its owner's row may rely on until it *)
(* inserts; the second's, what a handler that has looked may rely on when  *)
(* it writes, and that an invite that is claimed stays pending for its one *)
(* claimant.                                                               *)
(***************************************************************************)
EXTENDS Connect, Members, FiniteSetTheorems, TLAPS

-----------------------------------------------------------------------------
(* The inductive invariant                                                 *)

RowsOf == [u \in Owners |-> Rows(u)]
ActiveOf == [u \in Owners |-> Active(u)]

\* A form that was posted has a user.
Posted ==
    \A f \in Forms : form[f].pc # "blank" => form[f].user \in Owners

\* A form that inserts holds its user's lock.
Holds ==
    \A f \in Forms : form[f].pc = "inserting" => lock[form[f].user] = f

\* An active source has its key's fingerprint.
Fingerprinted ==
    \A s \in Sources \ Legacy :
        source[s].status = "active" => source[s].fingerprint = source[s].key

\* What Recheck has seen stays true until Insert.
StillFree ==
    \A f \in Forms : form[f].pc = "inserting" =>
        /\ \A s \in ActiveOf[form[f].user] \ Legacy : source[s].key # form[f].key
        /\ Cardinality(ActiveOf[form[f].user]) < form[f].limit

StillNext ==
    \A f \in Forms : form[f].pc = "inserting" =>
        form[f].nth \in {OwnWords, Cardinality(RowsOf[form[f].user]) + 1}

\* Labels count upwards.
Numbering ==
    \A u \in Owners : \A s \in RowsOf[u] :
        source[s].label <= Cardinality(RowsOf[u])

Safe ==
    /\ Posted /\ Holds /\ Fingerprinted /\ StillFree /\ StillNext
    /\ OneSourcePerKey /\ Numbering /\ LabelsDiffer

IInv == TypeOK /\ Safe

-----------------------------------------------------------------------------
(* Limits, rows and how steps change them                                  *)

\* Every plan has a limit that can be counted to.
LEMMA LimitsAreNumbers == \A p \in Plans : Limit[p] \in Nat
BY ConnectAssumption DEF Plans, Limit

\* A user's rows are finitely many.
LEMMA Countable ==
    ASSUME NEW u \in Owners
    PROVE  /\ RowsOf[u] \subseteq Sources /\ ActiveOf[u] \subseteq RowsOf[u]
           /\ IsFiniteSet(RowsOf[u]) /\ Cardinality(RowsOf[u]) \in Nat
           /\ IsFiniteSet(ActiveOf[u]) /\ Cardinality(ActiveOf[u]) \in Nat
<1>1. RowsOf[u] \subseteq Sources /\ ActiveOf[u] \subseteq RowsOf[u]
  BY DEF RowsOf, ActiveOf, Rows, Active
<1>2. IsFiniteSet(RowsOf[u]) /\ IsFiniteSet(ActiveOf[u])
  BY <1>1, ConnectAssumption, FS_Subset
<1> QED
  BY <1>1, <1>2, FS_CardinalityType

\* The steps that move a form leave the rows alone.
LEMMA RowsStay ==
    ASSUME source' = source
    PROVE  RowsOf' = RowsOf /\ ActiveOf' = ActiveOf
BY DEF RowsOf, ActiveOf, Rows, Active

\* A revoked source remains a row; a backfilled one remains what it was.
LEMMA RowsAfterRevoke ==
    ASSUME TypeOK, NEW s \in Sources, RevokeSource(s)
    PROVE  /\ RowsOf' = RowsOf
           /\ \A u \in Owners : ActiveOf'[u] = ActiveOf[u] \ {s}
<1>1. source' = [source EXCEPT ![s] = [@ EXCEPT !.status = "revoked", !.key = NoKey]]
  BY DEF RevokeSource
<1>2. \A t \in Sources : /\ source'[t].owner = source[t].owner
                         /\ source'[t].status = IF t = s THEN "revoked"
                                                ELSE source[t].status
  BY <1>1 DEF TypeOK
<1> QED
  BY <1>2 DEF RowsOf, ActiveOf, Rows, Active

\* A source that is given its fingerprint remains what it was.
LEMMA RowsAfterBackfill ==
    ASSUME TypeOK, NEW s \in Sources, BackfillFingerprint(s)
    PROVE  RowsOf' = RowsOf /\ ActiveOf' = ActiveOf
<1>1. source' = [source EXCEPT ![s] = [@ EXCEPT !.fingerprint = source[s].key]]
  BY DEF BackfillFingerprint
<1>2. \A t \in Sources : /\ source'[t].owner = source[t].owner
                         /\ source'[t].status = source[t].status
  BY <1>1 DEF TypeOK
<1> QED
  BY <1>2 DEF RowsOf, ActiveOf, Rows, Active

\* An insert adds one row, for the form's user.
LEMMA RowsAfterInsert ==
    ASSUME TypeOK, Posted, NEW f \in Forms, NEW s \in Sources, Insert(f, s)
    PROVE  /\ form[f].user \in Owners
           /\ \A u \in Owners : s \notin RowsOf[u] /\ s \notin ActiveOf[u]
           /\ \A u \in Owners : u # form[f].user =>
                 RowsOf'[u] = RowsOf[u] /\ ActiveOf'[u] = ActiveOf[u]
           /\ RowsOf'[form[f].user] = RowsOf[form[f].user] \cup {s}
           /\ ActiveOf'[form[f].user] = ActiveOf[form[f].user] \cup {s}
<1>1. form[f].user \in Owners /\ source[s].owner = Nobody
  BY DEF Insert, Posted, Unused
<1>2. /\ source'[s].owner = form[f].user /\ source'[s].status = "active"
      /\ \A t \in Sources \ {s} : source'[t] = source[t]
  BY DEF Insert, TypeOK
<1>3. Nobody \notin Owners
  BY ConnectAssumption
<1> QED
  BY <1>1, <1>2, <1>3 DEF RowsOf, ActiveOf, Rows, Active

-----------------------------------------------------------------------------
(* Type correctness                                                        *)

\* What a posted form is: see TypeOK.
FormType ==
    [pc    : {"blank", "checked", "validated", "inserting", "saved", "refused"},
     kind  : {"wizard", "plain"},
     user  : Owners \cup {Nobody},
     key   : Keys \cup {NoKey},
     limit : {0} \cup {Limit[p] : p \in Plans},
     nth   : Labels]

\* What a row of the sources table is.
RowType ==
    [status      : {"none", "active", "revoked"},
     owner       : Owners \cup {Nobody},
     key         : Keys \cup {NoKey},
     fingerprint : Keys \cup {NoKey},
     label       : Labels]

\* The first state has the types.
LEMMA InitTyped == Init => TypeOK
<1> SUFFICES ASSUME Init PROVE TypeOK
  OBVIOUS
<1>1. Unused.status = "none" /\ Unused \in [status : {"none", "active", "revoked"},
           owner : Owners \cup {Nobody}, key : Keys \cup {NoKey},
           fingerprint : Keys \cup {NoKey}, label : Labels]
  BY DEF Unused, OwnWords, Labels
<1>2. PICK u \in Owners, key \in [Legacy -> Keys] :
          source = [s \in Sources |->
                       IF s \in Legacy
                       THEN [Unused EXCEPT !.status = "active", !.owner = u,
                                           !.key = key[s]]
                       ELSE Unused]
  BY DEF Init
<1>3. \A s \in Sources : s \in Legacy => source[s] =
          [status |-> "active", owner |-> u, key |-> key[s],
           fingerprint |-> NoKey, label |-> OwnWords]
  BY <1>2 DEF Unused
<1>4. /\ source = [s \in Sources |-> source[s]]
      /\ \A s \in Sources : source[s] \in
            [status : {"none", "active", "revoked"},
             owner : Owners \cup {Nobody}, key : Keys \cup {NoKey},
             fingerprint : Keys \cup {NoKey}, label : Labels]
  BY <1>1, <1>2, <1>3 DEF OwnWords, Labels
<1>5. plan \in [Owners -> Plans] /\ lock \in [Owners -> Forms \cup {Nobody}]
  BY DEF Init
<1>6. changes \in 0 .. MaxChanges
  <2>1. MaxChanges \in Nat
    BY ConnectAssumption
  <2>2. changes = 0
    BY DEF Init
  <2> QED
    BY <2>1, <2>2
<1>7. form \in [Forms -> {Blank}]
  BY DEF Init
<1> QED
  BY <1>4, <1>5, <1>6, <1>7 DEF TypeOK, Blank, Labels

\* The form as the two entry points leave it.
LEMMA EntryForm ==
    ASSUME NEW f \in Forms, NEW u \in Owners, NEW k \in Keys,
           form \in [Forms -> FormType], plan \in [Owners -> Plans],
           Check(f, u, k) \/ PostPlain(f, u, k)
    PROVE  /\ form' \in [Forms -> FormType]
           /\ form'[f].pc \in {"checked", "validated"}
           /\ form'[f].user = u
           /\ \A g \in Forms \ {f} : form'[g] = form[g]
<1> DEFINE limit == Limit[plan[u]]
<1>1. limit \in {0} \cup {Limit[p] : p \in Plans}
  OBVIOUS
<1>2. Blank \in FormType
  BY DEF Blank, FormType, Labels
<1> HIDE DEF limit
<1>3. \/ form' = [form EXCEPT ![f] =
                     [Blank EXCEPT !.pc = "checked", !.kind = "wizard",
                                   !.user = u, !.key = k, !.limit = limit]]
      \/ form' = [form EXCEPT ![f] =
                     [Blank EXCEPT !.pc = "validated", !.user = u, !.key = k,
                                   !.limit = limit]]
  BY DEF Check, PostPlain, limit
<1>4. /\ [Blank EXCEPT !.pc = "checked", !.kind = "wizard",
                       !.user = u, !.key = k, !.limit = limit] \in FormType
      /\ [Blank EXCEPT !.pc = "validated", !.user = u, !.key = k,
                       !.limit = limit] \in FormType
  BY <1>1, <1>2 DEF FormType
<1>5. form' \in [Forms -> FormType] /\ \A g \in Forms \ {f} : form'[g] = form[g]
  BY <1>3, <1>4
<1>6. form'[f].pc \in {"checked", "validated"} /\ form'[f].user = u
  <2>1. \/ form'[f] = [Blank EXCEPT !.pc = "checked", !.kind = "wizard",
                                    !.user = u, !.key = k, !.limit = limit]
        \/ form'[f] = [Blank EXCEPT !.pc = "validated", !.user = u, !.key = k,
                                    !.limit = limit]
    BY <1>3
  <2> QED
    BY <2>1 DEF Blank
<1> QED
  BY <1>5, <1>6

\* Every step keeps them.
LEMMA NextTyped == TypeOK /\ [Next]_vars => TypeOK'
<1> SUFFICES ASSUME TypeOK, [Next]_vars PROVE TypeOK'
  OBVIOUS
<1> USE DEF TypeOK
<1>1. ASSUME NEW f \in Forms, NEW u \in Owners, NEW k \in Keys,
             Check(f, u, k) \/ PostPlain(f, u, k)
      PROVE  TypeOK'
  <2>1. form \in [Forms -> FormType]
    BY DEF FormType
  <2>2. form' \in [Forms -> FormType]
    BY <1>1, <2>1, EntryForm
  <2>3. UNCHANGED <<plan, source, lock, changes>>
    BY <1>1 DEF Check, PostPlain
  <2> QED
    BY <2>2, <2>3 DEF FormType
<1>2. ASSUME NEW f \in Forms, Validate(f) \/ Refuse(f) PROVE TypeOK'
  BY <1>2 DEF Validate, Refuse, Goto
<1>3. ASSUME NEW f \in Forms, Recheck(f) PROVE TypeOK'
  <2> DEFINE u == form[f].user
  <2>1. IsFiniteSet(Rows(u))
    BY ConnectAssumption, FS_Subset DEF Rows
  <2>2. Numbered(u) \in Labels /\ OwnWords \in Labels
    BY <2>1, FS_CardinalityType DEF Numbered, Labels, OwnWords
  <2> DEFINE n == IF form[f].kind = "wizard" THEN Numbered(u) ELSE OwnWords
  <2>3. n \in Labels
    BY <2>2
  <2>4. form' = [form EXCEPT ![f] = [@ EXCEPT !.pc = "inserting", !.nth = n]]
    BY <1>3 DEF Recheck
  <2>5. lock' \in [Owners -> Forms \cup {Nobody}] /\ UNCHANGED <<plan, source, changes>>
    BY <1>3 DEF Recheck
  <2> HIDE DEF n
  <2>6. [form[f] EXCEPT !.pc = "inserting", !.nth = n] \in FormType
    BY <2>3 DEF FormType
  <2>7. form' \in [Forms -> FormType]
    <3> HIDE DEF TypeOK
    <3>1. form \in [Forms -> FormType]
      BY DEF TypeOK, FormType
    <3> QED
      BY <2>4, <2>6, <3>1
  <2> QED
    BY <2>5, <2>7 DEF FormType
<1>4. ASSUME NEW f \in Forms, NEW s \in Sources, Insert(f, s) PROVE TypeOK'
  <2>1. /\ form[f].user \in Owners \cup {Nobody} /\ form[f].key \in Keys \cup {NoKey}
        /\ form[f].nth \in Labels
    OBVIOUS
  <2>2. form' = [form EXCEPT ![f] = [@ EXCEPT !.pc = "saved"]]
    BY <1>4 DEF Insert, Goto
  <2>3. lock' \in [Owners -> Forms \cup {Nobody}]
    BY <1>4 DEF Insert
  <2>4. source' \in [Sources -> [status : {"none", "active", "revoked"},
             owner : Owners \cup {Nobody}, key : Keys \cup {NoKey},
             fingerprint : Keys \cup {NoKey}, label : Labels]]
    BY <1>4, <2>1 DEF Insert
  <2>5. form' \in [Forms -> FormType]
    <3>1. [form[f] EXCEPT !.pc = "saved"] \in FormType
      BY DEF FormType
    <3>2. form \in [Forms -> FormType]
      BY DEF FormType
    <3> HIDE DEF TypeOK
    <3> QED
      BY <2>2, <3>1, <3>2
  <2>6. UNCHANGED <<plan, changes>>
    BY <1>4 DEF Insert
  <2> QED
    BY <2>3, <2>4, <2>5, <2>6 DEF FormType
<1>5. ASSUME NEW s \in Sources, RevokeSource(s) PROVE TypeOK'
  <2>1. source' = [source EXCEPT ![s] = [@ EXCEPT !.status = "revoked", !.key = NoKey]]
    BY <1>5 DEF RevokeSource
  <2>2. source' \in [Sources -> RowType]
    <3>1. source \in [Sources -> RowType]
      BY DEF RowType
    <3> HIDE DEF TypeOK
    <3>2. source[s] \in RowType
      BY <3>1
    <3>3. [source[s] EXCEPT !.status = "revoked", !.key = NoKey] \in RowType
      BY <3>2 DEF RowType
    <3> QED
      BY <2>1, <3>1, <3>3
  <2>3. UNCHANGED <<plan, form, lock, changes>>
    BY <1>5 DEF RevokeSource
  <2> QED
    BY <2>2, <2>3 DEF RowType
<1>6. ASSUME NEW s \in Sources, BackfillFingerprint(s) PROVE TypeOK'
  <2>1. source' = [source EXCEPT ![s] = [@ EXCEPT !.fingerprint = source[s].key]]
    BY <1>6 DEF BackfillFingerprint
  <2> QED
    BY <1>6, <2>1 DEF BackfillFingerprint
<1>7. ASSUME NEW u \in Owners, PlanChanges(u) PROVE TypeOK'
  BY <1>7, ConnectAssumption DEF PlanChanges
<1>8. ASSUME UNCHANGED vars PROVE TypeOK'
  BY <1>8 DEF vars
<1> QED
  BY <1>1, <1>2, <1>3, <1>4, <1>5, <1>6, <1>7, <1>8 DEF Next

\* Fields keep their types.
THEOREM TypeCorrect == Spec => []TypeOK
BY InitTyped, NextTyped, PTL DEF Spec

-----------------------------------------------------------------------------
(* The inductive invariant holds                                           *)

\* No form has been posted, and all active sources are legacy ones.
LEMMA InitSafe == Init => Safe
<1> SUFFICES ASSUME Init PROVE Safe
  OBVIOUS
<1>1. TypeOK
  BY InitTyped
<1>2. \A f \in Forms : form[f].pc = "blank"
  BY DEF Init, Blank
<1>3. PICK u \in Owners, key \in [Legacy -> Keys] :
          source = [s \in Sources |->
                       IF s \in Legacy
                       THEN [Unused EXCEPT !.status = "active", !.owner = u,
                                           !.key = key[s]]
                       ELSE Unused]
  BY DEF Init
<1>4. \A s \in Sources : /\ source[s].label = OwnWords
                         /\ s \notin Legacy => source[s].status = "none"
  BY <1>3 DEF Unused
<1>5. Posted /\ Holds /\ StillFree /\ StillNext
  BY <1>2 DEF Posted, Holds, StillFree, StillNext
<1>6. Fingerprinted /\ OneSourcePerKey /\ LabelsDiffer
  BY <1>4 DEF Fingerprinted, OneSourcePerKey, LabelsDiffer, Active, Rows
<1>7. Numbering
  BY <1>4, Countable DEF Numbering, OwnWords
<1> QED
  BY <1>5, <1>6, <1>7 DEF Safe

\* Steps that leave the rows, the locks and every inserting form alone.
LEMMA AwayFromRows ==
    ASSUME IInv, source' = source, lock' = lock,
           Posted',
           \A f \in Forms : form'[f].pc = "inserting" => form'[f] = form[f]
    PROVE  Safe'
<1>1. RowsOf' = RowsOf /\ ActiveOf' = ActiveOf
  BY RowsStay
<1>2. Holds'
  BY DEF IInv, Safe, Holds
<1>3. Fingerprinted' /\ OneSourcePerKey' /\ LabelsDiffer'
  BY DEF IInv, Safe, Fingerprinted, OneSourcePerKey, LabelsDiffer, Active, Rows
<1>4. StillFree'
  BY <1>1 DEF IInv, Safe, StillFree
<1>5. StillNext' /\ Numbering'
  BY <1>1 DEF IInv, Safe, StillNext, Numbering
<1> QED
  BY <1>2, <1>3, <1>4, <1>5 DEF Safe

\* The second look under the lock establishes what Insert relies on.
LEMMA RecheckSafe ==
    ASSUME IInv, NEW f \in Forms, Recheck(f)
    PROVE  Safe'
<1> DEFINE u == form[f].user
<1>1. u \in Owners
  BY DEF IInv, Safe, Posted, Recheck
<1>2. RowsOf' = RowsOf /\ ActiveOf' = ActiveOf
  BY RowsStay DEF Recheck
<1>3. /\ form'[f].user = u /\ form'[f].key = form[f].key
      /\ form'[f].limit = form[f].limit /\ form'[f].pc = "inserting"
      /\ form'[f].nth = IF form[f].kind = "wizard" THEN Numbered(u) ELSE OwnWords
      /\ \A g \in Forms \ {f} : form'[g] = form[g]
  BY DEF Recheck, IInv, TypeOK
<1>4. lock[u] = Nobody /\ lock' = [lock EXCEPT ![u] = f] /\ source' = source
  BY DEF Recheck, Free
<1>5. Posted'
  BY <1>1, <1>3 DEF IInv, Safe, Posted
<1>6. Holds'
  <2>1. SUFFICES ASSUME NEW g \in Forms, form'[g].pc = "inserting"
                 PROVE  lock'[form'[g].user] = g
    BY DEF Holds
  <2>2. CASE g = f
    BY <1>1, <1>3, <1>4, <2>2 DEF IInv, TypeOK
  <2>3. CASE g # f
    <3>1. form[g].pc = "inserting" /\ form'[g] = form[g]
      BY <1>3, <2>1, <2>3
    <3>2. lock[form[g].user] = g /\ form[g].user \in Owners
      BY <3>1 DEF IInv, Safe, Holds, Posted
    <3>3. form[g].user # u
      BY <1>4, <3>2, ConnectAssumption
    <3> QED
      BY <1>4, <3>1, <3>2, <3>3 DEF IInv, TypeOK
  <2> QED
    BY <2>2, <2>3
<1>7. Fingerprinted' /\ OneSourcePerKey' /\ LabelsDiffer'
  BY <1>4 DEF IInv, Safe, Fingerprinted, OneSourcePerKey, LabelsDiffer, Active, Rows
<1>8. /\ \A s \in ActiveOf[u] \ Legacy : source[s].key # form[f].key
      /\ Cardinality(ActiveOf[u]) < form[f].limit
  <2>1. \A s \in ActiveOf[u] \ Legacy : source[s].key # form[f].key
    BY <1>1 DEF Recheck, StillFits, Connected, IInv, Safe, Fingerprinted,
                ActiveOf, Active, Rows
  <2>2. ~ (Cardinality(ActiveOf[u]) >= form[f].limit)
    BY <1>1 DEF Recheck, StillFits, Full, ActiveOf
  <2>3. form[f].limit \in Nat
    BY LimitsAreNumbers DEF IInv, TypeOK
  <2>4. Cardinality(ActiveOf[u]) \in Nat
    BY <1>1, Countable
  <2>5. Cardinality(ActiveOf[u]) < form[f].limit
    BY <2>2, <2>3, <2>4
  <2> QED
    BY <2>1, <2>5
<1>9. StillFree'
  BY <1>2, <1>3, <1>4, <1>8 DEF IInv, Safe, StillFree
<1>10. Numbered(u) = Cardinality(RowsOf[u]) + 1
  BY <1>1 DEF Numbered, RowsOf
<1>11. StillNext'
  BY <1>2, <1>3, <1>10 DEF IInv, Safe, StillNext
<1>12. Numbering'
  BY <1>2, <1>4 DEF IInv, Safe, Numbering
<1> QED
  BY <1>5, <1>6, <1>7, <1>9, <1>11, <1>12 DEF Safe

\* An insert keeps keys and labels apart; other inserting forms are other
\* users', whose rows it leaves alone.
LEMMA InsertSafe ==
    ASSUME IInv, NEW f \in Forms, NEW s \in Sources, Insert(f, s)
    PROVE  Safe'
<1> DEFINE u == form[f].user
           n == Cardinality(RowsOf[u])
<1>1. /\ u \in Owners
      /\ \A w \in Owners : s \notin RowsOf[w] /\ s \notin ActiveOf[w]
      /\ \A w \in Owners : w # u => RowsOf'[w] = RowsOf[w] /\ ActiveOf'[w] = ActiveOf[w]
      /\ RowsOf'[u] = RowsOf[u] \cup {s}
      /\ ActiveOf'[u] = ActiveOf[u] \cup {s}
  BY RowsAfterInsert DEF IInv, Safe
<1>2. /\ form[f].pc = "inserting" /\ form'[f].pc = "saved" /\ form'[f].user = u
      /\ \A g \in Forms \ {f} : form'[g] = form[g]
  BY DEF Insert, Goto, IInv, TypeOK
<1>3. /\ source'[s].status = "active" /\ source'[s].owner = u
      /\ source'[s].key = form[f].key /\ source'[s].fingerprint = form[f].key
      /\ source'[s].label = form[f].nth
      /\ \A t \in Sources \ {s} : source'[t] = source[t]
  BY DEF Insert, IInv, TypeOK
<1>4. lock[u] = f /\ lock' = [lock EXCEPT ![u] = Nobody]
  BY <1>2 DEF Insert, IInv, Safe, Holds
<1>5. \A g \in Forms : form'[g].pc = "inserting" =>
         /\ form[g].pc = "inserting" /\ form'[g] = form[g]
         /\ form[g].user \in Owners \ {u} /\ lock[form[g].user] = g
  BY <1>2, <1>4 DEF IInv, Safe, Holds, Posted
<1>6. Posted'
  BY <1>1, <1>2 DEF IInv, Safe, Posted
<1>7. Holds'
  BY <1>4, <1>5 DEF Holds, IInv, TypeOK
<1>8. Fingerprinted'
  BY <1>3 DEF IInv, Safe, Fingerprinted
<1>9. StillFree' /\ StillNext'
  <2>1. StillFree'
    <3> SUFFICES ASSUME NEW g \in Forms, form'[g].pc = "inserting"
                 PROVE  /\ \A t \in ActiveOf'[form'[g].user] \ Legacy :
                              source'[t].key # form'[g].key
                        /\ Cardinality(ActiveOf'[form'[g].user]) < form'[g].limit
      BY DEF StillFree
    <3>1. ActiveOf'[form'[g].user] = ActiveOf[form[g].user] /\ form'[g] = form[g]
      BY <1>1, <1>5
    <3>2. \A t \in ActiveOf[form[g].user] : t \in Sources \ {s}
      BY <1>1, <1>5, Countable
    <3> QED
      BY <1>3, <1>5, <3>1, <3>2 DEF IInv, Safe, StillFree
  <2>2. StillNext'
    BY <1>1, <1>5 DEF IInv, Safe, StillNext
  <2> QED
    BY <2>1, <2>2
<1>10. Cardinality(RowsOf'[u]) = n + 1 /\ n \in Nat
  <2>1. IsFiniteSet(RowsOf[u]) /\ n \in Nat
    BY <1>1, Countable
  <2>2. Cardinality(RowsOf[u] \cup {s}) = n + 1
    <3>1. s \notin RowsOf[u]
      BY <1>1
    <3> QED
      BY <2>1, <3>1, FS_AddElement
  <2> QED
    BY <1>1, <2>1, <2>2
<1>11. form[f].nth \in {OwnWords, n + 1}
  BY <1>2 DEF IInv, Safe, StillNext
<1>12. \A w \in Owners : \A t \in RowsOf[w] : t \in Sources \ {s}
  BY <1>1, Countable
<1>13. \A t \in RowsOf[u] : source'[t].label \in Nat /\ source'[t].label <= n
  BY <1>1, <1>3, <1>12 DEF IInv, Safe, Numbering, TypeOK, Labels
<1>14. Numbering'
  <2> SUFFICES ASSUME NEW w \in Owners, NEW t \in RowsOf'[w]
               PROVE  source'[t].label <= Cardinality(RowsOf'[w])
    BY DEF Numbering
  <2>1. CASE w # u
    BY <1>1, <1>3, <1>12, <2>1 DEF IInv, Safe, Numbering
  <2>2. CASE w = u /\ t = s
    BY <1>3, <1>10, <1>11, <2>2 DEF OwnWords
  <2>3. CASE w = u /\ t # s
    <3>1. t \in RowsOf[u]
      BY <1>1, <2>3
    <3>2. source'[t].label \in Nat /\ source'[t].label <= n
      BY <1>13, <3>1
    <3>3. source'[t].label <= n + 1
      BY <1>10, <3>2
    <3> QED
      BY <1>10, <2>3, <3>3
  <2> QED
    BY <2>1, <2>2, <2>3
<1>15. OneSourcePerKey'
  <2>1. \A t \in ActiveOf[u] \ Legacy : source'[t].key # form[f].key
    BY <1>1, <1>2, <1>3, Countable DEF IInv, Safe, StillFree
  <2>2. OneSourcePerKey =>
          \A w \in Owners : \A t, v \in ActiveOf[w] \ Legacy :
             source[t].key = source[v].key => t = v
    BY DEF OneSourcePerKey, ActiveOf
  <2>3. \A w \in Owners : \A t, v \in ActiveOf'[w] \ Legacy :
           source'[t].key = source'[v].key => t = v
    BY <1>1, <1>3, <2>1, <2>2, Countable DEF IInv, Safe
  <2> QED
    BY <2>3 DEF OneSourcePerKey, ActiveOf
<1>16. LabelsDiffer'
  <2>1. LabelsDiffer =>
          \A w \in Owners : \A t, v \in RowsOf[w] :
             source[t].label = source[v].label /\ source[v].label # OwnWords => t = v
    BY DEF LabelsDiffer, RowsOf
  <2>2. \A t \in RowsOf[u] :
           source'[t].label = form[f].nth => form[f].nth = OwnWords
    BY <1>10, <1>11, <1>13
  <2>3. \A w \in Owners : \A t, v \in RowsOf'[w] :
           source'[t].label = source'[v].label /\ source'[v].label # OwnWords => t = v
    BY <1>1, <1>3, <1>12, <2>1, <2>2 DEF IInv, Safe
  <2> QED
    BY <2>3 DEF LabelsDiffer, RowsOf
<1> QED
  BY <1>6, <1>7, <1>8, <1>9, <1>14, <1>15, <1>16 DEF Safe

\* Revoking takes no lock: it can only make room under a form that inserts.
LEMMA RevokeSafe ==
    ASSUME IInv, NEW s \in Sources, RevokeSource(s)
    PROVE  Safe'
<1>1. /\ RowsOf' = RowsOf
      /\ \A u \in Owners : ActiveOf'[u] = ActiveOf[u] \ {s}
  BY RowsAfterRevoke DEF IInv
<1>2. form' = form /\ lock' = lock
  BY DEF RevokeSource
<1>3. source' = [source EXCEPT ![s] = [@ EXCEPT !.status = "revoked", !.key = NoKey]]
  BY DEF RevokeSource
<1>4. /\ \A t \in Sources : source'[t].label = source[t].label
      /\ \A t \in Sources \ {s} : source'[t] = source[t]
      /\ source'[s].status = "revoked"
  BY <1>3 DEF IInv, TypeOK
<1>5. Posted' /\ Holds' /\ StillNext'
  BY <1>1, <1>2 DEF IInv, Safe, Posted, Holds, StillNext
<1>6. Fingerprinted'
  BY <1>4 DEF IInv, Safe, Fingerprinted
<1>7. StillFree'
  <2> SUFFICES ASSUME NEW f \in Forms, form[f].pc = "inserting"
               PROVE  /\ \A t \in ActiveOf'[form[f].user] \ Legacy :
                            source'[t].key # form[f].key
                      /\ Cardinality(ActiveOf'[form[f].user]) < form[f].limit
    BY <1>2 DEF StillFree
  <2> DEFINE u == form[f].user
             before == Cardinality(ActiveOf[u])
             after == Cardinality(ActiveOf'[u])
  <2>1. u \in Owners /\ ActiveOf'[u] = ActiveOf[u] \ {s}
    BY <1>1 DEF IInv, Safe, Posted
  <2>2. /\ \A t \in ActiveOf[u] \ Legacy : source[t].key # form[f].key
        /\ before < form[f].limit
    BY DEF IInv, Safe, StillFree
  <2>3. after \in Nat /\ before \in Nat /\ after <= before
    BY <2>1, Countable, FS_Subset, FS_CardinalityType
  <2>4. form[f].limit \in Nat
    BY LimitsAreNumbers DEF IInv, TypeOK
  <2>5. after < form[f].limit
    BY <2>2, <2>3, <2>4
  <2>6. \A t \in ActiveOf'[u] \ Legacy : source'[t].key # form[f].key
    BY <1>4, <2>1, <2>2, Countable
  <2> QED
    BY <2>5, <2>6
<1>8. Numbering'
  BY <1>1, <1>4, Countable DEF IInv, Safe, Numbering
<1>9. OneSourcePerKey'
  <2>1. OneSourcePerKey =>
          \A w \in Owners : \A t, v \in ActiveOf[w] \ Legacy :
             source[t].key = source[v].key => t = v
    BY DEF OneSourcePerKey, ActiveOf
  <2>2. \A w \in Owners : \A t, v \in ActiveOf'[w] \ Legacy :
           source'[t].key = source'[v].key => t = v
    BY <1>1, <1>4, <2>1, Countable DEF IInv, Safe
  <2> QED
    BY <2>2 DEF OneSourcePerKey, ActiveOf
<1>10. LabelsDiffer'
  <2>1. LabelsDiffer =>
          \A w \in Owners : \A t, v \in RowsOf[w] :
             source[t].label = source[v].label /\ source[v].label # OwnWords => t = v
    BY DEF LabelsDiffer, RowsOf
  <2>2. \A w \in Owners : \A t, v \in RowsOf'[w] :
           source'[t].label = source'[v].label /\ source'[v].label # OwnWords => t = v
    BY <1>1, <1>4, <2>1, Countable DEF IInv, Safe
  <2> QED
    BY <2>2 DEF LabelsDiffer, RowsOf
<1> QED
  BY <1>5, <1>6, <1>7, <1>8, <1>9, <1>10 DEF Safe

\* A backfill takes no lock either, and changes no key.
LEMMA BackfillSafe ==
    ASSUME IInv, NEW s \in Sources, BackfillFingerprint(s)
    PROVE  Safe'
<1>1. RowsOf' = RowsOf /\ ActiveOf' = ActiveOf
  BY RowsAfterBackfill DEF IInv
<1>2. form' = form /\ lock' = lock
  BY DEF BackfillFingerprint
<1>3. source' = [source EXCEPT ![s] = [@ EXCEPT !.fingerprint = source[s].key]]
  BY DEF BackfillFingerprint
<1>4. /\ \A t \in Sources : /\ source'[t].label = source[t].label
                            /\ source'[t].key = source[t].key
                            /\ source'[t].status = source[t].status
                            /\ source'[t].owner = source[t].owner
      /\ \A t \in Sources \ {s} : source'[t] = source[t]
      /\ source'[s].fingerprint = source[s].key
  BY <1>3 DEF IInv, TypeOK
<1>5. Posted' /\ Holds' /\ StillNext'
  BY <1>1, <1>2 DEF IInv, Safe, Posted, Holds, StillNext
<1>6. Fingerprinted'
  BY <1>4 DEF IInv, Safe, Fingerprinted
<1>7. StillFree'
  BY <1>1, <1>2, <1>4, Countable DEF IInv, Safe, StillFree, Posted
<1>8. Numbering'
  BY <1>1, <1>4, Countable DEF IInv, Safe, Numbering
<1>9. OneSourcePerKey' /\ LabelsDiffer'
  BY <1>4 DEF IInv, Safe, OneSourcePerKey, LabelsDiffer, Active, Rows
<1> QED
  BY <1>5, <1>6, <1>7, <1>8, <1>9 DEF Safe

\* Every step keeps the invariant.
LEMMA NextSafe == IInv /\ [Next]_vars => Safe'
<1> SUFFICES ASSUME IInv, [Next]_vars PROVE Safe'
  OBVIOUS
<1>1. ASSUME NEW f \in Forms, NEW u \in Owners, NEW k \in Keys,
             Check(f, u, k) \/ PostPlain(f, u, k)
      PROVE  Safe'
  <2>1. /\ form'[f].pc \in {"checked", "validated"} /\ form'[f].user = u
        /\ \A g \in Forms \ {f} : form'[g] = form[g]
    <3>1. form \in [Forms -> FormType] /\ plan \in [Owners -> Plans]
      BY DEF IInv, TypeOK, FormType
    <3> QED
      BY <1>1, <3>1, EntryForm
  <2>2. Posted'
    BY <2>1 DEF IInv, Safe, Posted
  <2>3. source' = source /\ lock' = lock
    BY <1>1 DEF Check, PostPlain
  <2>4. \A g \in Forms : form'[g].pc = "inserting" => form'[g] = form[g]
    BY <2>1
  <2> QED
    BY <2>2, <2>3, <2>4, AwayFromRows
<1>2. ASSUME NEW f \in Forms, Validate(f) \/ Refuse(f) PROVE Safe'
  <2>1. /\ form[f].pc \in {"checked", "validated"}
        /\ form'[f].pc \in {"validated", "refused"}
        /\ form'[f].user = form[f].user
        /\ \A g \in Forms \ {f} : form'[g] = form[g]
    BY <1>2 DEF Validate, Refuse, Goto, IInv, TypeOK
  <2>2. Posted'
    BY <2>1 DEF IInv, Safe, Posted
  <2>3. source' = source /\ lock' = lock
    BY <1>2 DEF Validate, Refuse
  <2>4. \A g \in Forms : form'[g].pc = "inserting" => form'[g] = form[g]
    BY <2>1
  <2> QED
    BY <2>2, <2>3, <2>4, AwayFromRows
<1>3. ASSUME NEW u \in Owners, PlanChanges(u) PROVE Safe'
  BY <1>3, AwayFromRows DEF PlanChanges, IInv, Safe, Posted
<1>4. ASSUME UNCHANGED vars PROVE Safe'
  BY <1>4, AwayFromRows DEF vars, IInv, Safe, Posted
<1> QED
  BY <1>1, <1>2, <1>3, <1>4, RecheckSafe, InsertSafe, RevokeSafe, BackfillSafe
     DEF Next

\* The invariant holds in every state of every behaviour.
THEOREM Invariance == Spec => []IInv
<1>1. Init => IInv
  BY InitTyped, InitSafe DEF IInv
<1>2. IInv /\ [Next]_vars => IInv'
  BY NextTyped, NextSafe DEF IInv
<1> QED
  BY <1>1, <1>2, PTL DEF Spec

-----------------------------------------------------------------------------
(* The properties                                                          *)

\* However many forms are posted at once, a user's active sources with
\* fingerprints hold different keys.
THEOREM KeysConnectOnce == Spec => []OneSourcePerKey
BY Invariance, PTL DEF IInv, Safe

\* The wizard's labels of a user's sources differ.
THEOREM LabelsStayDistinct == Spec => []LabelsDiffer
BY Invariance, PTL DEF IInv, Safe

\* An insert keeps the number of active sources within the form's limit.
LEMMA InsertWithinLimit ==
    ASSUME IInv, NEW f \in Forms, NEW s \in Sources, Insert(f, s)
    PROVE  Cardinality(ActiveOf'[form[f].user]) <= form[f].limit
<1> DEFINE u == form[f].user
           before == Cardinality(ActiveOf[u])
           after == Cardinality(ActiveOf'[u])
<1>1. u \in Owners /\ ActiveOf'[u] = ActiveOf[u] \cup {s} /\ s \notin ActiveOf[u]
  BY RowsAfterInsert DEF IInv, Safe
<1>2. after = before + 1 /\ before \in Nat
  BY <1>1, Countable, FS_AddElement
<1>3. before < form[f].limit /\ form[f].pc = "inserting"
  BY DEF Insert, IInv, Safe, StillFree
<1>4. form[f].limit \in Nat
  BY LimitsAreNumbers DEF IInv, TypeOK
<1> QED
  BY <1>2, <1>3, <1>4

\* Only an insert saves a form.
LEMMA OnlyInsertSaves ==
    ASSUME IInv, [Next]_vars, NEW f \in Forms,
           form[f].pc # "saved", form'[f].pc = "saved"
    PROVE  \E s \in Sources : Insert(f, s)
<1> USE DEF IInv, TypeOK
<1>1. ASSUME NEW g \in Forms, NEW u \in Owners, NEW k \in Keys,
             Check(g, u, k) \/ PostPlain(g, u, k)
      PROVE  FALSE
  <2>1. /\ form'[g].pc \in {"checked", "validated"}
        /\ \A h \in Forms \ {g} : form'[h] = form[h]
    <3>1. form \in [Forms -> FormType] /\ plan \in [Owners -> Plans]
      BY DEF FormType
    <3> QED
      BY <1>1, <3>1, EntryForm
  <2> QED
    BY <2>1
<1>2. ASSUME NEW g \in Forms, Validate(g) \/ Refuse(g) \/ Recheck(g) PROVE FALSE
  BY <1>2 DEF Validate, Refuse, Recheck, Goto
<1>3. ASSUME NEW g \in Forms, NEW s \in Sources, Insert(g, s) PROVE g = f
  BY <1>3 DEF Insert, Goto
<1>4. ASSUME NEW s \in Sources, RevokeSource(s) \/ BackfillFingerprint(s) PROVE FALSE
  BY <1>4 DEF RevokeSource, BackfillFingerprint
<1>5. ASSUME NEW u \in Owners, PlanChanges(u) PROVE FALSE
  BY <1>5 DEF PlanChanges
<1>6. ASSUME UNCHANGED vars PROVE FALSE
  BY <1>6 DEF vars
<1> QED
  BY <1>1, <1>2, <1>3, <1>4, <1>5, <1>6 DEF Next

\* A form that connects a source leaves its user within the plan's limit it
\* read, whatever other forms did since.
THEOREM LimitIsKept == Spec => WithinLimit
<1>1. ASSUME IInv, [Next]_vars
      PROVE  [\A f \in Forms : form[f].pc # "saved" /\ form'[f].pc = "saved" =>
                 Cardinality(Active(form[f].user)') <= form[f].limit]_vars
  <2> SUFFICES ASSUME NEW f \in Forms, form[f].pc # "saved", form'[f].pc = "saved"
               PROVE  Cardinality(Active(form[f].user)') <= form[f].limit
    BY <1>1
  <2>1. PICK s \in Sources : Insert(f, s)
    BY <1>1, OnlyInsertSaves
  <2>2. form'[f].user = form[f].user /\ form[f].user \in Owners
    BY <1>1, <2>1 DEF Insert, Goto, IInv, TypeOK, Safe, Posted
  <2>3. Active(form[f].user)' = ActiveOf'[form[f].user]
    BY <2>2 DEF ActiveOf, Active, Rows
  <2> QED
    BY <1>1, <2>1, <2>3, InsertWithinLimit
<1> QED
  BY <1>1, Invariance, PTL DEF Spec, WithinLimit

-----------------------------------------------------------------------------
(* Members: the inductive invariant                                        *)

\* Rows and invites are of users that are there.
RowsInv == \A w, u \in Users : row[w][u] # None => w \in known /\ u \in known
InvitesInv == \A i \in Invites : invite[i] # None => invite[i].ws \in known

\* What a handler that has looked may rely on when it writes
HandlerOK(h) ==
    /\ h.kind = "invite" => h.ws \in known
    /\ h.kind = "invite" /\ h.pc = "mail" => h.invite \in Invites /\ invite[h.invite] # None
    /\ h.kind \in {"revoke", "role"} => h.ws # h.target
    /\ h.kind = "resend" /\ h.pc = "rotate" => h.sent
    /\ h.kind \in {"resend", "cancel", "accept"} => invite[h.invite] # None
    /\ h.kind = "accept" => invite[h.invite].to = h.user /\ (h.new \/ h.user \in known)
HandlersInv == \A r \in Requests : request[r] # None => HandlerOK(request[r])

\* An invite that is claimed stays pending for its one claimant.
HasClaimed(h, i) == h # None /\ h.kind = "accept" /\ h.pc \in {"add", "commit"} /\ h.invite = i
LockInv ==
    \A r \in Requests, i \in Invites : HasClaimed(request[r], i) =>
        Pending(i) /\ \A q \in Requests : HasClaimed(request[q], i) => q = r

MembersInv ==
    MembersTypeOK /\ OwnerStays /\ RowsInv /\ InvitesInv /\ HandlersInv /\ LockInv

-----------------------------------------------------------------------------
(* Acting *)

LEMMA OwnersAreAtHome ==
    ASSUME MembersTypeOK, OwnerStays, NEW u \in known
    PROVE  u \in Users /\ row[u][u] # None /\ RoleIn(u, u) = "owner"
  <1>1. u \in Users
    BY DEF MembersTypeOK
  <1>2. RoleIn(u, u) = "owner"
    BY <1>1 DEF OwnerStays
  <1>3. row[u][u] # None
    BY <1>2, MembersAssumption DEF RoleIn, Roles
  <1> QED BY <1>1, <1>2, <1>3

LEMMA RolesTell ==
    ASSUME MembersTypeOK, NEW u \in Users, NEW w \in Users
    PROVE  RoleIn(u, w) # None <=> row[w][u] # None
  <1>1. row[w][u] \in MemberRows \cup {None}
    BY DEF MembersTypeOK
  <1> QED BY <1>1, MembersAssumption DEF RoleIn, MemberRows

\* Whom active_workspace_id names is a member there, in a workspace that is there.
LEMMA ActingIsMember ==
    ASSUME MembersTypeOK, OwnerStays, RowsInv, NEW u \in known
    PROVE  /\ Acting(u) \in known /\ RoleIn(u, Acting(u)) # None
           /\ row[Acting(u)][u] # None
  <1>1. u \in Users /\ active[u] \in Users /\ row[u][u] # None
    BY OwnersAreAtHome DEF MembersTypeOK
  <1>2. Acting(u) \in Users /\ row[Acting(u)][u] # None
    BY <1>1, RolesTell DEF Acting
  <1> QED BY <1>1, <1>2, RolesTell DEF RowsInv

\* The batched resolution takes everybody where the single one takes them.
LEMMA BatchesActAlike ==
    ASSUME MembersTypeOK, OwnerStays, RowsInv, NEW u \in known
    PROVE  ActingOfAll(known)[u] = Acting(u)
  <1> DEFINE home == CHOOSE w \in Users : RoleIn(u, w) = "owner"
             memberships == {m \in known \X Users : row[m[2]][m[1]] # None}
  <1>1. u \in Users /\ active[u] \in Users /\ RoleIn(u, u) = "owner"
    BY OwnersAreAtHome DEF MembersTypeOK
  <1>2. home = u
    BY <1>1 DEF OwnerStays
  <1>3. <<u, active[u]>> \in memberships <=> row[active[u]][u] # None
    BY <1>1
  <1>4. ActingOfAll(known)[u] = IF active[u] # home /\ <<u, active[u]>> \in memberships
                                THEN active[u] ELSE home
    BY DEF ActingOfAll
  <1> HIDE DEF home, memberships
  <1>5. RoleIn(u, active[u]) # None <=> row[active[u]][u] # None
    BY <1>1, RolesTell
  <1> QED BY <1>2, <1>3, <1>4, <1>5 DEF Acting

LEMMA BatchesEntitleAlike ==
    ASSUME MembersTypeOK, OwnerStays, RowsInv, NEW u \in known
    PROVE  EntitledAll(known)[u] = EntitledTo(u)
  <1> DEFINE acting == ActingOfAll(known)
             subs == SubsOf({acting[v] : v \in known})
  <1>1. EntitledAll(known)[u] = Entitlement(subs[acting[u]])
    BY DEF EntitledAll
  <1>2. subs[acting[u]] = Billing[acting[u]]
    BY DEF SubsOf
  <1>3. acting[u] = Acting(u)
    BY BatchesActAlike
  <1> HIDE DEF acting, subs
  <1> QED BY <1>1, <1>2, <1>3 DEF EntitledTo

LEMMA MembersAct == MembersInv => ActsAsMember
  <1> SUFFICES ASSUME MembersInv, NEW u \in known
               PROVE  /\ RoleIn(u, Acting(u)) # None
                      /\ EntitledAll(known)[u] = EntitledTo(u)
                      /\ EntitledTo(u).plan # "free" => LockedCurrency(u) # None
    BY DEF ActsAsMember
  <1>1. RoleIn(u, Acting(u)) # None /\ Acting(u) \in Users
    BY ActingIsMember DEF MembersInv, MembersTypeOK
  <1>2. EntitledAll(known)[u] = EntitledTo(u)
    BY BatchesEntitleAlike DEF MembersInv
  <1>3. Billing[Acting(u)] \in SubRows \cup {None}
    BY <1>1, MembersAssumption
  <1>4. EntitledTo(u).plan # "free" => LockedCurrency(u) # None
    BY <1>3, MembersAssumption DEF EntitledTo, Entitlement, LockedCurrency, SubRows
  <1> QED BY <1>1, <1>2, <1>4

-----------------------------------------------------------------------------
(* Handlers *)

\* What other handlers rely on: invites stay what they were and, while one
\* other than r has claimed them, pending.
Steady(r) ==
    /\ known \subseteq known'
    /\ \A i \in Invites : invite[i] # None =>
          /\ invite'[i] # None
          /\ invite'[i].ws = invite[i].ws /\ invite'[i].to = invite[i].to
          /\ invite'[i].role = invite[i].role
    /\ \A q \in Requests \ {r}, i \in Invites :
          HasClaimed(request[q], i) /\ Pending(i) => Pending(i)'
    /\ \A q \in Requests \ {r} : request'[q] = request[q]

LEMMA HandlersGoOn ==
    ASSUME MembersInv, NEW r, NEW h \in Handlers, Steady(r),
           r \in Requests => request'[r] = h,
           HandlerOK(h)',
           \A i \in Invites : HasClaimed(h, i) =>
               Pending(i)' /\ \A q \in Requests \ {r} : ~HasClaimed(request[q], i)
    PROVE  HandlersInv' /\ LockInv'
  <1>1. ASSUME NEW q \in Requests \ {r}, NEW g \in Handlers, g = request[q] PROVE HandlerOK(g)'
    <2>1. HandlerOK(g)
      BY <1>1, MembersAssumption DEF MembersInv, HandlersInv
    <2>2. /\ known \subseteq known'
          /\ \A i \in Invites : invite[i] # None =>
                invite'[i] # None /\ invite'[i].to = invite[i].to
      BY DEF Steady
    <2>3. /\ g.kind \in {"resend", "cancel", "accept"} => g.invite \in Invites
          /\ g.kind = "accept" => g.user \in Users
      BY <1>1 DEF Handlers
    <2> QED BY <2>1, <2>2, <2>3 DEF HandlerOK
  <1>2. HandlersInv'
    <2> SUFFICES ASSUME NEW q \in Requests, NEW g, g = request'[q], g # None PROVE HandlerOK(g)'
      BY DEF HandlersInv
    <2>1. CASE q = r
      BY <2>1
    <2>2. CASE q # r
      <3>1. g = request[q] /\ g \in Handlers
        BY <2>2 DEF Steady, MembersInv, MembersTypeOK
      <3> QED BY <1>1, <2>2, <3>1
    <2> QED BY <2>1, <2>2
  <1>3. \A q \in Requests \ {r}, i \in Invites :
            \A g : g = request'[q] => (HasClaimed(g, i) <=> HasClaimed(request[q], i))
    BY DEF Steady
  <1>4. LockInv'
    <2> SUFFICES ASSUME NEW q \in Requests, NEW i \in Invites, NEW g, g = request'[q], HasClaimed(g, i)
                 PROVE  /\ Pending(i)'
                        /\ \A p \in Requests : \A f : f = request'[p] /\ HasClaimed(f, i) => p = q
      BY DEF LockInv, HasClaimed
    <2>1. CASE q = r
      BY <1>3, <2>1
    <2>2. CASE q # r
      <3>1. HasClaimed(request[q], i)
        BY <1>3, <2>2
      <3>2. Pending(i) /\ \A p \in Requests : HasClaimed(request[p], i) => p = q
        BY <3>1 DEF MembersInv, LockInv
      <3>3. Pending(i)'
        BY <2>2, <3>1, <3>2 DEF Steady
      <3>4. ASSUME NEW p \in Requests, NEW f, f = request'[p], HasClaimed(f, i) PROVE p = q
        <4>1. CASE p = r
          BY <2>2, <3>1, <3>4, <4>1
        <4>2. CASE p # r
          BY <1>3, <3>2, <3>4, <4>2
        <4> QED BY <4>1, <4>2
      <3> QED BY <3>3, <3>4
    <2> QED BY <2>1, <2>2
  <1> QED BY <1>2, <1>4

\* A handler looks, or goes on without writing.
LEMMA Looks ==
    ASSUME MembersInv, NEW r \in Requests, NEW h \in Handlers,
           request' = [request EXCEPT ![r] = h], UNCHANGED <<known, row, active, invite>>,
           HandlerOK(h),
           \A i \in Invites : HasClaimed(h, i) =>
               Pending(i) /\ \A q \in Requests \ {r} : ~HasClaimed(request[q], i)
    PROVE  MembersInv'
  <1>1. MembersTypeOK' /\ request'[r] = h
    BY DEF MembersInv, MembersTypeOK
  <1>2. OwnerStays' /\ RowsInv' /\ InvitesInv'
    BY DEF MembersInv, OwnerStays, RoleIn, RowsInv, InvitesInv
  <1>3. Steady(r)
    BY DEF Steady, MembersInv, MembersTypeOK, Pending
  <1>4. HandlerOK(h)'
    BY DEF HandlerOK
  <1>5. \A i \in Invites : Pending(i) => Pending(i)'
    BY DEF Pending
  <1> QED BY <1>1, <1>2, <1>3, <1>4, <1>5, HandlersGoOn DEF MembersInv

\* A handler that has ended relies on nothing.
Over == [kind |-> "none", pc |-> "done"]

LEMMA OverIsOK == Over \in Handlers /\ HandlerOK(Over) /\ HandlerOK(Over)' /\ \A i : ~HasClaimed(Over, i)
  BY DEF Over, Handlers, HandlerOK, HasClaimed

LEMMA EndsQuietly ==
    ASSUME MembersInv, NEW r \in Requests, Ends(r), UNCHANGED <<known, row, active, invite>>
    PROVE  MembersInv'
  BY Looks, OverIsOK DEF Ends, Over

\* The handler of a step
LEMMA HandlerAt ==
    ASSUME MembersInv, NEW r \in Requests, NEW kind, NEW pc, At(r, kind, pc)
    PROVE  request[r] \in Handlers /\ request[r] # None /\ HandlerOK(request[r])
           /\ request[r].kind = kind /\ request[r].pc = pc
  BY DEF At, MembersInv, MembersTypeOK, HandlersInv

LEMMA Pendings ==
    ASSUME MembersInv, NEW i \in Invites, Pending(i)
    PROVE  invite[i] \in InviteRows /\ invite[i] # None
  BY DEF Pending, MembersInv, MembersTypeOK

LEMMA AsksKeepMembers ==
    ASSUME MembersInv, NEW r \in Requests, Ask(r)
    PROVE  MembersInv'
  <1>1. ASSUME NEW u \in Users, NEW to \in Users \ {u}, NEW role \in Handed, AskInvite(r, u, to, role)
        PROVE  MembersInv'
    <2> DEFINE h == [kind |-> "invite", pc |-> "write", ws |-> Acting(u), to |-> to,
                     role |-> role, invite |-> None]
    <2>1. Acting(u) \in known /\ Acting(u) \in Users
      BY <1>1, ActingIsMember DEF AskInvite, AsManager, MembersInv, MembersTypeOK
    <2>2. h \in Handlers /\ HandlerOK(h) /\ \A i \in Invites : ~HasClaimed(h, i)
      BY <2>1, MembersAssumption DEF Handlers, HandlerOK, HasClaimed
    <2> QED BY <1>1, <2>2, Looks DEF AskInvite, Comes
  <1>2. ASSUME NEW u \in Users, NEW i \in Invites, AskResend(r, u, i)
        PROVE  MembersInv'
    <2> DEFINE h == [kind |-> "resend", pc |-> "mail", invite |-> i, sent |-> FALSE]
    <2>1. h \in Handlers /\ HandlerOK(h) /\ \A j \in Invites : ~HasClaimed(h, j)
      BY <1>2, Pendings DEF AskResend, Handlers, HandlerOK, HasClaimed
    <2> QED BY <1>2, <2>1, Looks DEF AskResend, Comes
  <1>3. ASSUME NEW u \in Users, NEW i \in Invites, AskCancel(r, u, i)
        PROVE  MembersInv'
    <2> DEFINE h == [kind |-> "cancel", pc |-> "delete", invite |-> i]
    <2>1. h \in Handlers /\ HandlerOK(h) /\ \A j \in Invites : ~HasClaimed(h, j)
      BY <1>3, Pendings DEF AskCancel, Handlers, HandlerOK, HasClaimed
    <2> QED BY <1>3, <2>1, Looks DEF AskCancel, Comes
  <1>4. ASSUME NEW u \in Users, NEW i \in Invites, AskAccept(r, u, i)
        PROVE  MembersInv'
    <2> DEFINE h == [kind |-> "accept", pc |-> "claim", invite |-> i, user |-> u,
                     new |-> u \notin known, add |-> FALSE]
    <2>1. h \in Handlers /\ HandlerOK(h) /\ \A j \in Invites : ~HasClaimed(h, j)
      BY <1>4, Pendings DEF AskAccept, Handlers, HandlerOK, HasClaimed
    <2> QED BY <1>4, <2>1, Looks DEF AskAccept, Comes
  <1>5. ASSUME NEW u \in Users, NEW target \in Users, MayGovern(u, target)
        PROVE  /\ Acting(u) \in Users /\ Acting(u) # target
               /\ row[Acting(u)][target].id \in Invites \cup {0}
    <2>1. u \in known /\ Acting(u) \in Users
      BY <1>5, ActingIsMember DEF MayGovern, AsManager, MembersInv, MembersTypeOK
    <2>2. row[Acting(u)][target] \in MemberRows /\ RoleIn(target, Acting(u)) # "owner"
      BY <1>5, <2>1 DEF MayGovern, CanManage, MembersInv, MembersTypeOK
    <2>3. target \in known
      BY <1>5, <2>1 DEF MayGovern, MembersInv, RowsInv
    <2>4. Acting(u) # target
      BY <2>1, <2>2, <2>3 DEF MembersInv, OwnerStays
    <2> QED BY <2>1, <2>2, <2>4 DEF MemberRows
  <1>6. ASSUME NEW u \in Users, NEW target \in Users, AskRevoke(r, u, target)
        PROVE  MembersInv'
    <2> DEFINE h == [kind |-> "revoke", pc |-> "write", ws |-> Acting(u), target |-> target,
                     id |-> row[Acting(u)][target].id]
    <2>1. h \in Handlers /\ HandlerOK(h) /\ \A j \in Invites : ~HasClaimed(h, j)
      BY <1>5, <1>6 DEF AskRevoke, Handlers, HandlerOK, HasClaimed
    <2> QED BY <1>6, <2>1, Looks DEF AskRevoke, Comes
  <1>7. ASSUME NEW u \in Users, NEW target \in Users, NEW role \in Handed, AskRole(r, u, target, role)
        PROVE  MembersInv'
    <2> DEFINE h == [kind |-> "role", pc |-> "write", ws |-> Acting(u), target |-> target,
                     id |-> row[Acting(u)][target].id, role |-> role]
    <2>1. h \in Handlers /\ HandlerOK(h) /\ \A j \in Invites : ~HasClaimed(h, j)
      BY <1>5, <1>7, MembersAssumption DEF AskRole, Handlers, HandlerOK, HasClaimed
    <2> QED BY <1>7, <2>1, Looks DEF AskRole, Comes
  <1> QED BY <1>1, <1>2, <1>3, <1>4, <1>6, <1>7 DEF Ask

\* Steps that write nothing: a mail that fails, one that leaves before its code
\* is stored, the claim and the look for a membership, a conflict.
LEMMA WaitsKeepMembers ==
    ASSUME MembersInv, NEW r \in Requests,
           \/ MailInvite(r, FALSE) \/ \E sent \in BOOLEAN : MailResend(r, sent)
           \/ Claim(r) \/ Add(r) \/ AcceptConflicts(r)
    PROVE  MembersInv'
  <1>1. CASE MailInvite(r, FALSE)
    BY <1>1, EndsQuietly DEF MailInvite
  <1>2. ASSUME NEW sent \in BOOLEAN, MailResend(r, sent) PROVE MembersInv'
    <2>1. CASE sent = FALSE
      BY <1>2, <2>1, EndsQuietly DEF MailResend
    <2>2. CASE sent = TRUE
      <3> DEFINE h == [request[r] EXCEPT !.pc = "rotate", !.sent = TRUE]
      <3>1. request[r] \in Handlers /\ HandlerOK(request[r]) /\ request[r].kind = "resend"
        BY <1>2, HandlerAt DEF MailResend
      <3>2. h \in Handlers /\ h.kind = "resend" /\ h.invite = request[r].invite /\ h.sent = TRUE
        BY <3>1 DEF Handlers
      <3>3. request' = [request EXCEPT ![r] = h] /\ UNCHANGED <<known, row, active, invite>>
        BY <1>2, <2>2 DEF MailResend, MembersInv, MembersTypeOK
      <3> HIDE DEF h
      <3>4. HandlerOK(h) /\ \A j \in Invites : ~HasClaimed(h, j)
        BY <3>1, <3>2 DEF HandlerOK, HasClaimed
      <3> QED BY <3>2, <3>3, <3>4, Looks
    <2> QED BY <2>1, <2>2
  <1>3. CASE Claim(r)
    <2>1. CASE ~Pending(request[r].invite)
      BY <1>3, <2>1, EndsQuietly DEF Claim
    <2>2. CASE Pending(request[r].invite)
      <3> DEFINE h == [request[r] EXCEPT !.pc = "add"]
      <3>1. request[r] \in Handlers /\ HandlerOK(request[r]) /\ request[r].kind = "accept"
        BY <1>3, HandlerAt DEF Claim
      <3>2. /\ h \in Handlers /\ h.kind = "accept" /\ h.invite = request[r].invite
            /\ h.user = request[r].user /\ h.new = request[r].new
        BY <3>1 DEF Handlers
      <3>3. request' = [request EXCEPT ![r] = h] /\ UNCHANGED <<known, row, active, invite>>
        BY <1>3, <2>2 DEF Claim, GoTo, MembersInv, MembersTypeOK
      <3> HIDE DEF h
      <3>4. HandlerOK(h)
        BY <3>1, <3>2 DEF HandlerOK
      <3>5. \A q \in Requests : ~HasClaimed(request[q], request[r].invite)
        BY <1>3 DEF Claim, Locked, HasClaimed
      <3>6. \A i \in Invites : HasClaimed(h, i) =>
                Pending(i) /\ \A q \in Requests \ {r} : ~HasClaimed(request[q], i)
        BY <2>2, <3>2, <3>5 DEF HasClaimed
      <3> QED BY <3>2, <3>3, <3>4, <3>6, Looks
    <2> QED BY <2>1, <2>2
  <1>4. CASE Add(r)
    <2> DEFINE add == row[invite[request[r].invite].ws][request[r].user] = None
               h == [request[r] EXCEPT !.pc = "commit", !.add = add]
    <2>1. request[r] \in Handlers /\ HandlerOK(request[r]) /\ request[r].kind = "accept" /\ request[r].pc = "add"
      BY <1>4, HandlerAt DEF Add
    <2>2. /\ h \in Handlers /\ h.kind = "accept" /\ h.invite = request[r].invite
          /\ h.user = request[r].user /\ h.new = request[r].new
      BY <2>1 DEF Handlers
    <2>3. request' = [request EXCEPT ![r] = h] /\ UNCHANGED <<known, row, active, invite>>
      BY <1>4 DEF Add, MembersInv, MembersTypeOK
    <2> HIDE DEF h
    <2>4. HandlerOK(h)
      BY <2>1, <2>2 DEF HandlerOK
    <2>5. \A i \in Invites : HasClaimed(h, i) =>
              Pending(i) /\ \A q \in Requests \ {r} : ~HasClaimed(request[q], i)
      <3>1. \A i \in Invites : HasClaimed(h, i) => HasClaimed(request[r], i)
        BY <1>4, <2>1, <2>2 DEF HasClaimed, Add, At
      <3> QED BY <3>1 DEF MembersInv, LockInv
    <2> QED BY <2>2, <2>3, <2>4, <2>5, Looks
  <1>5. CASE AcceptConflicts(r)
    BY <1>5, EndsQuietly DEF AcceptConflicts
  <1> QED BY <1>1, <1>2, <1>3, <1>4, <1>5

-----------------------------------------------------------------------------
(* Steps that write an invite *)

\* Handler r, if there is one, goes on as h and writes x over invite i: a new row,
\* or one that changes neither the invite nor, while it is claimed, its state.
InviteWrite(r, h, i, x) ==
    /\ invite' = [invite EXCEPT ![i] = x]
    /\ UNCHANGED <<known, row, active>>
    /\ invite[i] = None => x.ws \in known
    /\ invite[i] # None =>
           x.ws = invite[i].ws /\ x.to = invite[i].to /\ x.role = invite[i].role
    /\ \A q \in Requests \ {r} : HasClaimed(request[q], i) => x.state = "pending"
    /\ request' \in [Requests -> Handlers \cup {None}]
    /\ \A q \in Requests \ {r} : request'[q] = request[q]
    /\ r \in Requests => request'[r] = h
    /\ \A j \in Invites : ~HasClaimed(h, j)

LEMMA InviteIsWritten ==
    ASSUME MembersInv, NEW r, NEW h \in Handlers, NEW i \in Invites, NEW x \in InviteRows,
           InviteWrite(r, h, i, x), HandlerOK(h)'
    PROVE  MembersInv'
  <1> USE DEF InviteWrite
  <1>1. invite \in [Invites -> InviteRows \cup {None}] /\ x # None
    BY MembersAssumption DEF MembersInv, MembersTypeOK
  <1>2. invite' \in [Invites -> InviteRows \cup {None}]
        /\ invite'[i] = x /\ \A j \in Invites \ {i} : invite'[j] = invite[j]
    BY <1>1
  <1>3. MembersTypeOK'
    BY <1>2 DEF MembersInv, MembersTypeOK
  <1>4. OwnerStays' /\ RowsInv'
    BY DEF MembersInv, OwnerStays, RoleIn, RowsInv
  <1>5. InvitesInv'
    BY <1>2 DEF MembersInv, InvitesInv
  <1>6. Steady(r)
    <2>1. \A q \in Requests \ {r}, j \in Invites : HasClaimed(request[q], j) /\ Pending(j) => Pending(j)'
      BY <1>1, <1>2 DEF Pending
    <2>2. \A j \in Invites : invite[j] # None =>
              /\ invite'[j] # None
              /\ invite'[j].ws = invite[j].ws /\ invite'[j].to = invite[j].to
              /\ invite'[j].role = invite[j].role
      BY <1>1, <1>2
    <2> QED BY <2>1, <2>2 DEF Steady
  <1> QED BY <1>3, <1>4, <1>5, <1>6, HandlersGoOn DEF MembersInv

LEMMA WritesInvite ==
    ASSUME MembersInv, NEW r \in Requests, NEW i \in Invites, WriteInvite(r, i)
    PROVE  MembersInv'
  <1>1. PICK g : g = request[r]
    OBVIOUS
  <1>2. g \in Handlers /\ HandlerOK(g) /\ g.kind = "invite" /\ g.pc = "write"
    BY <1>1, HandlerAt DEF WriteInvite
  <1>3. PICK x : x = [ws |-> g.ws, to |-> g.to, role |-> g.role,
                      mailed |-> FALSE, state |-> "pending", expired |-> FALSE]
    OBVIOUS
  <1>4. PICK h : h = [g EXCEPT !.pc = "mail", !.invite = i]
    OBVIOUS
  <1>5. x \in InviteRows /\ x.ws = g.ws /\ x.state = "pending"
    BY <1>2, <1>3 DEF Handlers, InviteRows
  <1>6. h \in Handlers /\ h.kind = "invite" /\ h.ws = g.ws /\ h.invite = i
    BY <1>2, <1>4 DEF Handlers
  <1>7. /\ invite' = [invite EXCEPT ![i] = x] /\ UNCHANGED <<known, row, active>>
        /\ invite[i] = None /\ request' = [request EXCEPT ![r] = h]
    BY <1>1, <1>3, <1>4 DEF WriteInvite, MembersInv, MembersTypeOK
  <1>8. /\ request' \in [Requests -> Handlers \cup {None}] /\ request'[r] = h
        /\ \A q \in Requests \ {r} : request'[q] = request[q]
    BY <1>6, <1>7 DEF MembersInv, MembersTypeOK
  <1>9. invite'[i] = x /\ x # None
    BY <1>5, <1>7, MembersAssumption DEF MembersInv, MembersTypeOK
  <1>10. g.ws \in known /\ known' = known
    BY <1>2, <1>7 DEF HandlerOK
  <1>11. HandlerOK(h)'
    BY <1>6, <1>9, <1>10 DEF HandlerOK
  <1>12. \A j \in Invites : ~HasClaimed(h, j)
    BY <1>6 DEF HasClaimed
  <1>13. /\ invite[i] = None => x.ws \in known
         /\ invite[i] # None =>
                x.ws = invite[i].ws /\ x.to = invite[i].to /\ x.role = invite[i].role
         /\ \A q \in Requests \ {r} : HasClaimed(request[q], i) => x.state = "pending"
         /\ r \in Requests => request'[r] = h
    BY <1>5, <1>7, <1>8, <1>10
  <1>14. InviteWrite(r, h, i, x)
    BY <1>7, <1>8, <1>12, <1>13 DEF InviteWrite
  <1> QED BY <1>5, <1>6, <1>11, <1>14, InviteIsWritten

\* The handler writes an invite that is there, and ends.
LEMMA LastWriteKeepsMembers ==
    ASSUME MembersInv, NEW r \in Requests, NEW i \in Invites, NEW x \in InviteRows,
           invite[i] # None, invite' = [invite EXCEPT ![i] = x], Ends(r),
           UNCHANGED <<known, row, active>>,
           x.ws = invite[i].ws /\ x.to = invite[i].to /\ x.role = invite[i].role,
           x.state = invite[i].state \/ ~Locked(i)
    PROVE  MembersInv'
  <1>1. \A q \in Requests : HasClaimed(request[q], i) => x.state = "pending"
    BY DEF Locked, HasClaimed, MembersInv, LockInv, Pending
  <1>2. /\ request' \in [Requests -> Handlers \cup {None}] /\ request'[r] = Over
        /\ \A q \in Requests \ {r} : request'[q] = request[q]
    BY OverIsOK DEF Ends, Over, MembersInv, MembersTypeOK
  <1>3. InviteWrite(r, Over, i, x)
    BY <1>1, <1>2, OverIsOK DEF InviteWrite
  <1> QED BY <1>3, OverIsOK, InviteIsWritten

LEMMA MailsInvite ==
    ASSUME MembersInv, NEW r \in Requests, MailInvite(r, TRUE)
    PROVE  MembersInv'
  <1> DEFINE i == request[r].invite
             x == [invite[i] EXCEPT !.mailed = TRUE]
  <1>1. i \in Invites /\ invite[i] # None
    BY HandlerAt DEF MailInvite, HandlerOK
  <1>2. invite[i] \in InviteRows
    BY <1>1 DEF MembersInv, MembersTypeOK
  <1>3. /\ x \in InviteRows /\ x.ws = invite[i].ws /\ x.to = invite[i].to
        /\ x.role = invite[i].role /\ x.state = invite[i].state
    BY <1>2 DEF InviteRows
  <1>4. invite' = [invite EXCEPT ![i] = x] /\ Ends(r) /\ UNCHANGED <<known, row, active>>
    BY DEF MailInvite, MembersInv, MembersTypeOK
  <1> HIDE DEF i, x
  <1> QED BY <1>1, <1>3, <1>4, LastWriteKeepsMembers

LEMMA Rotates ==
    ASSUME MembersInv, NEW r \in Requests, Rotate(r)
    PROVE  MembersInv'
  <1> DEFINE i == request[r].invite
             x == [invite[i] EXCEPT !.mailed = request[r].sent, !.expired = FALSE]
  <1>1. CASE ~Pending(i)
    BY <1>1, EndsQuietly DEF Rotate
  <1>2. CASE Pending(i)
    <2>1. i \in Invites /\ invite[i] # None /\ request[r].sent \in BOOLEAN
      BY HandlerAt DEF Rotate, HandlerOK, Handlers
    <2>2. invite[i] \in InviteRows
      BY <2>1 DEF MembersInv, MembersTypeOK
    <2>3. /\ x \in InviteRows /\ x.ws = invite[i].ws /\ x.to = invite[i].to
          /\ x.role = invite[i].role /\ x.state = invite[i].state
      BY <2>1, <2>2 DEF InviteRows
    <2>4. invite' = [invite EXCEPT ![i] = x] /\ Ends(r) /\ UNCHANGED <<known, row, active>>
      BY <1>2 DEF Rotate, MembersInv, MembersTypeOK
    <2> HIDE DEF i, x
    <2> QED BY <2>1, <2>3, <2>4, LastWriteKeepsMembers
  <1> QED BY <1>1, <1>2

LEMMA Cancels ==
    ASSUME MembersInv, NEW r \in Requests, Cancel(r)
    PROVE  MembersInv'
  <1> DEFINE i == request[r].invite
             x == [invite[i] EXCEPT !.state = "gone"]
  <1>1. i \in Invites /\ invite[i] # None /\ ~Locked(i)
    BY HandlerAt DEF Cancel, HandlerOK, Handlers
  <1>2. invite[i] \in InviteRows
    BY <1>1 DEF MembersInv, MembersTypeOK
  <1>3. /\ x \in InviteRows /\ x.ws = invite[i].ws /\ x.to = invite[i].to
        /\ x.role = invite[i].role
    BY <1>2 DEF InviteRows
  <1>4. invite' = [invite EXCEPT ![i] = x] /\ Ends(r) /\ UNCHANGED <<known, row, active>>
    BY DEF Cancel, MembersInv, MembersTypeOK
  <1> HIDE DEF i, x
  <1> QED BY <1>1, <1>3, <1>4, LastWriteKeepsMembers

LEMMA Expires ==
    ASSUME MembersInv, NEW i \in Invites, Expire(i)
    PROVE  MembersInv'
  <1> DEFINE x == [invite[i] EXCEPT !.expired = TRUE]
  <1>1. invite[i] \in InviteRows /\ invite[i] # None
    BY Pendings DEF Expire
  <1>2. /\ x \in InviteRows /\ x.ws = invite[i].ws /\ x.to = invite[i].to
        /\ x.role = invite[i].role /\ x.state = "pending"
    BY <1>1 DEF InviteRows, Expire, Pending
  <1>3. invite' = [invite EXCEPT ![i] = x] /\ UNCHANGED <<known, row, active, request>>
    BY DEF Expire, MembersInv, MembersTypeOK
  <1>4. request' \in [Requests -> Handlers \cup {None}] /\ request' = request
    BY DEF Expire, MembersInv, MembersTypeOK
  <1>5. None \notin Requests
    BY MembersAssumption
  <1> HIDE DEF x
  <1>6. InviteWrite(None, Over, i, x)
    BY <1>1, <1>2, <1>3, <1>4, <1>5, OverIsOK DEF InviteWrite
  <1> QED BY <1>2, <1>6, OverIsOK, InviteIsWritten

-----------------------------------------------------------------------------
(* Steps that write a membership *)

\* A removal or a new role touches one row, never an owner's, and makes no owner.
RowWrite(w, t, x) ==
    /\ w # t
    /\ x # None => row[w][t] # None /\ x.role # "owner"
    /\ row' = [row EXCEPT ![w][t] = x]
    /\ UNCHANGED <<known, active, invite>>

LEMMA RowIsWritten ==
    ASSUME MembersInv, NEW r \in Requests, Ends(r), NEW w \in Users, NEW t \in Users,
           NEW x \in MemberRows \cup {None}, RowWrite(w, t, x)
    PROVE  MembersInv'
  <1> USE DEF RowWrite
  <1>1. /\ row' \in [Users -> [Users -> MemberRows \cup {None}]]
        /\ row'[w][t] = x
        /\ \A v, u \in Users : v # w \/ u # t => row'[v][u] = row[v][u]
    BY DEF MembersInv, MembersTypeOK
  <1>2. request' \in [Requests -> Handlers \cup {None}] /\ request'[r] = Over
        /\ \A q \in Requests \ {r} : request'[q] = request[q]
    BY OverIsOK DEF Ends, Over, MembersInv, MembersTypeOK
  <1>3. MembersTypeOK'
    BY <1>1, <1>2 DEF MembersInv, MembersTypeOK
  <1>4. OwnerStays'
    <2> SUFFICES ASSUME NEW v \in Users, NEW u \in Users
                 PROVE  RoleIn(u, v)' = "owner" <=> (v = u /\ u \in known)
      BY DEF OwnerStays
    <2>1. CASE v = w /\ u = t
      BY <1>1, <2>1, MembersAssumption DEF RoleIn, Roles
    <2>2. CASE v # w \/ u # t
      BY <1>1, <2>2 DEF RoleIn, MembersInv, OwnerStays
    <2> QED BY <2>1, <2>2
  <1>5. RowsInv'
    BY <1>1 DEF MembersInv, RowsInv
  <1>6. InvitesInv' /\ Steady(r) /\ \A i \in Invites : ~HasClaimed(Over, i)
    BY <1>2, OverIsOK DEF MembersInv, InvitesInv, Steady, Pending
  <1> QED BY <1>2, <1>3, <1>4, <1>5, <1>6, OverIsOK, HandlersGoOn DEF MembersInv

LEMMA Revokes ==
    ASSUME MembersInv, NEW r \in Requests, Revoke(r) \/ SetRole(r)
    PROVE  MembersInv'
  <1>1. PICK h : h = request[r]
    OBVIOUS
  <1>2. h \in Handlers /\ HandlerOK(h) /\ h.kind \in {"revoke", "role"}
    BY <1>1, HandlerAt DEF Revoke, SetRole
  <1>3. h.ws \in Users /\ h.target \in Users /\ h.ws # h.target
    BY <1>2 DEF Handlers, HandlerOK
  <1>4. CASE ~StillThere(h)
    BY <1>1, <1>4, EndsQuietly DEF Revoke, SetRole
  <1>5. CASE Revoke(r) /\ StillThere(h)
    <2>1. RowWrite(h.ws, h.target, None) /\ Ends(r)
      BY <1>1, <1>3, <1>5 DEF RowWrite, Revoke
    <2> QED BY <1>3, <2>1, RowIsWritten
  <1>6. CASE SetRole(r) /\ StillThere(h)
    <2>1. PICK x : x = [row[h.ws][h.target] EXCEPT !.role = h.role]
      OBVIOUS
    <2>2. row[h.ws][h.target] \in MemberRows /\ row[h.ws][h.target] # None
      BY <1>3, <1>6 DEF StillThere, MembersInv, MembersTypeOK
    <2>3. h.kind = "role" /\ h.role \in Assignable
      BY <1>1, <1>2, <1>6 DEF SetRole, At, Handlers
    <2>4. x \in MemberRows /\ x.role # "owner"
      BY <2>1, <2>2, <2>3 DEF MemberRows, Roles, Assignable
    <2>5. row' = [row EXCEPT ![h.ws][h.target] = x]
      BY <1>1, <1>3, <1>6, <2>1 DEF SetRole, MembersInv, MembersTypeOK
    <2>6. RowWrite(h.ws, h.target, x) /\ Ends(r)
      BY <1>3, <1>6, <2>2, <2>4, <2>5 DEF RowWrite, SetRole
    <2> QED BY <1>3, <2>4, <2>6, RowIsWritten
  <1> QED BY <1>4, <1>5, <1>6

LEMMA SignsUp ==
    ASSUME MembersInv, NEW u \in Users, SignUp(u)
    PROVE  MembersInv'
  <1>1. Member("owner", 0) \in MemberRows /\ Member("owner", 0).role = "owner"
    BY DEF Member, MemberRows, Roles
  <1>2. /\ row' \in [Users -> [Users -> MemberRows \cup {None}]]
        /\ row'[u][u] = Member("owner", 0)
        /\ \A v, t \in Users : v # u \/ t # u => row'[v][t] = row[v][t]
    BY <1>1 DEF SignUp, MembersInv, MembersTypeOK
  <1>3. MembersTypeOK' /\ known' = known \cup {u} /\ UNCHANGED <<active, invite, request>>
    BY <1>2 DEF SignUp, MembersInv, MembersTypeOK
  <1>4. OwnerStays'
    <2> SUFFICES ASSUME NEW v \in Users, NEW t \in Users
                 PROVE  RoleIn(t, v)' = "owner" <=> (v = t /\ t \in known \cup {u})
      BY <1>3 DEF OwnerStays
    <2>1. CASE v = u /\ t = u
      BY <1>1, <1>2, <2>1, MembersAssumption DEF RoleIn
    <2>2. CASE v # u \/ t # u
      BY <1>2, <2>2 DEF RoleIn, MembersInv, OwnerStays
    <2> QED BY <2>1, <2>2
  <1>5. RowsInv'
    BY <1>2, <1>3 DEF MembersInv, RowsInv
  <1>6. InvitesInv'
    BY <1>3 DEF MembersInv, InvitesInv
  <1>7. Steady(None)
    BY <1>3 DEF Steady, Pending
  <1>8. None \notin Requests
    BY MembersAssumption
  <1> QED BY <1>3, <1>4, <1>5, <1>6, <1>7, <1>8, OverIsOK, HandlersGoOn DEF MembersInv

LEMMA Switches ==
    ASSUME MembersInv, NEW u \in Users, NEW w \in Users, Switch(u, w)
    PROVE  MembersInv'
  BY DEF Switch, MembersInv, MembersTypeOK, OwnerStays, RoleIn, RowsInv, InvitesInv,
         HandlersInv, HandlerOK, LockInv, Pending, HasClaimed

\* What the commit of an acceptance finds: its invite still pending and claimed by
\* nobody else, its workspace there, its user a newcomer or known; and nobody is
\* added to the workspace of their own.
Welcome(r, h, i, w, u) ==
    /\ i \in Invites /\ w \in known /\ w \in Users /\ u \in Users
    /\ invite[i] \in InviteRows /\ Pending(i) /\ invite[i].to = u
    /\ \A q \in Requests \ {r} : ~HasClaimed(request[q], i)
    /\ h.new <=> u \notin known
    /\ h.add => row[w][u] = None /\ w # u
    /\ h.new \in BOOLEAN /\ h.add \in BOOLEAN

LEMMA CommitsAreWelcome ==
    ASSUME MembersInv, NEW r \in Requests, NEW h, h = request[r], AcceptCommits(r)
    PROVE  Welcome(r, h, h.invite, invite[h.invite].ws, h.user)
  <1> DEFINE i == h.invite
             w == invite[i].ws
             u == h.user
  <1>1. h \in Handlers /\ HandlerOK(h) /\ h # None /\ h.kind = "accept" /\ h.pc = "commit"
    BY HandlerAt DEF AcceptCommits
  <1>2. i \in Invites /\ u \in Users /\ h.new \in BOOLEAN /\ h.add \in BOOLEAN
    BY <1>1 DEF Handlers
  <1>3. HasClaimed(request[r], i)
    BY <1>1 DEF HasClaimed
  <1>4. Pending(i) /\ \A q \in Requests \ {r} : ~HasClaimed(request[q], i)
    BY <1>2, <1>3 DEF MembersInv, LockInv
  <1>5. invite[i] \in InviteRows /\ invite[i] # None
    BY <1>2, <1>4, Pendings
  <1>6. w \in Users /\ w \in known
    BY <1>2, <1>5 DEF InviteRows, MembersInv, InvitesInv
  <1>7. invite[i].to = u /\ (h.new \/ u \in known)
    BY <1>1 DEF HandlerOK
  <1>8. (h.new => u \notin known) /\ (h.add => row[w][u] = None)
    BY DEF AcceptCommits, Conflicts
  <1>9. row[w][w] # None
    BY <1>6, OwnersAreAtHome DEF MembersInv
  <1> HIDE DEF i, w, u
  <1>10. Welcome(r, h, i, w, u)
    BY <1>2, <1>4, <1>5, <1>6, <1>7, <1>8, <1>9 DEF Welcome
  <1> QED BY <1>10 DEF i, w, u

LEMMA Accepts ==
    ASSUME MembersInv, NEW r \in Requests, AcceptCommits(r)
    PROVE  MembersInv'
  <1>1. PICK h : h = request[r]
    OBVIOUS
  <1>2. PICK i, w, u : i = h.invite /\ w = invite[i].ws /\ u = h.user
    OBVIOUS
  <1>3. Welcome(r, h, i, w, u)
    BY <1>1, <1>2, CommitsAreWelcome
  <1>4. PICK m, o : m = Member(invite[i].role, i) /\ o = Member("owner", 0)
    OBVIOUS
  <1>5. /\ m \in MemberRows /\ m # None /\ m.role \in Assignable
        /\ o \in MemberRows /\ o # None /\ o.role = "owner"
    BY <1>3, <1>4, MembersAssumption
       DEF Welcome, InviteRows, Member, MemberRows, Roles, Assignable
  <1>6. /\ known' = known \cup {u}
        /\ row' = [x \in Users |-> [v \in Users |->
              IF h.add /\ x = w /\ v = u THEN m
              ELSE IF h.new /\ x = u /\ v = u THEN o ELSE row[x][v]]]
        /\ invite' = [invite EXCEPT ![i].state = "used"]
        /\ active' = [active EXCEPT ![u] = w]
        /\ Ends(r)
    BY <1>1, <1>2, <1>4 DEF AcceptCommits
  <1>7. request' \in [Requests -> Handlers \cup {None}] /\ request'[r] = Over
        /\ \A q \in Requests \ {r} : request'[q] = request[q]
    BY <1>6, OverIsOK DEF Ends, Over, MembersInv, MembersTypeOK
  <1>8. PICK x : x = [invite[i] EXCEPT !.state = "used"]
    OBVIOUS
  <1>9. /\ x \in InviteRows /\ x # None /\ x.ws = invite[i].ws /\ x.to = invite[i].to
        /\ x.role = invite[i].role
    BY <1>3, <1>8, MembersAssumption DEF Welcome, InviteRows
  <1>10. /\ invite' \in [Invites -> InviteRows \cup {None}] /\ invite'[i] = x
         /\ \A j \in Invites \ {i} : invite'[j] = invite[j]
    BY <1>3, <1>6, <1>8, <1>9 DEF Welcome, MembersInv, MembersTypeOK
  <1>11. \A y, v \in Users :
             row'[y][v] = IF h.add /\ y = w /\ v = u THEN m
                          ELSE IF h.new /\ y = u /\ v = u THEN o ELSE row[y][v]
    BY <1>6
  <1>12. MembersTypeOK'
    <2>1. row' \in [Users -> [Users -> MemberRows \cup {None}]]
      BY <1>5, <1>6 DEF MembersInv, MembersTypeOK
    <2>2. known' \subseteq Users /\ active' \in [Users -> Users]
      BY <1>3, <1>6 DEF Welcome, MembersInv, MembersTypeOK
    <2> QED BY <1>7, <1>10, <2>1, <2>2 DEF MembersTypeOK
  <1>13. OwnerStays'
    <2> SUFFICES ASSUME NEW y \in Users, NEW v \in Users
                 PROVE  RoleIn(v, y)' = "owner" <=> (y = v /\ v \in known \cup {u})
      BY <1>6 DEF OwnerStays
    <2>1. CASE h.add /\ y = w /\ v = u
      BY <1>3, <1>5, <1>11, <2>1 DEF RoleIn, Welcome, Assignable
    <2>2. CASE ~(h.add /\ y = w /\ v = u) /\ h.new /\ y = u /\ v = u
      BY <1>5, <1>11, <2>2 DEF RoleIn
    <2>3. CASE ~(h.add /\ y = w /\ v = u) /\ ~(h.new /\ y = u /\ v = u)
      <3>1. RoleIn(v, y)' = RoleIn(v, y)
        BY <1>11, <2>3 DEF RoleIn
      <3>2. RoleIn(v, y) = "owner" <=> (y = v /\ v \in known)
        BY DEF MembersInv, OwnerStays
      <3> QED BY <1>3, <2>3, <3>1, <3>2 DEF Welcome
    <2> QED BY <2>1, <2>2, <2>3
  <1>14. RowsInv'
    BY <1>3, <1>6, <1>11 DEF RowsInv, MembersInv, Welcome
  <1>15. InvitesInv'
    <2>1. invite'[i].ws \in known
      BY <1>3, <1>9, <1>10, Pendings DEF InvitesInv, MembersInv, Welcome
    <2> QED BY <1>6, <1>10, <2>1 DEF InvitesInv, MembersInv
  <1>16. Steady(r)
    <2>1. \A q \in Requests \ {r}, j \in Invites : HasClaimed(request[q], j) /\ Pending(j) => Pending(j)'
      BY <1>3, <1>10 DEF Pending, Welcome
    <2> QED BY <1>6, <1>7, <1>9, <1>10, <2>1 DEF Steady
  <1> QED BY <1>7, <1>12, <1>13, <1>14, <1>15, <1>16, OverIsOK, HandlersGoOn DEF MembersInv

-----------------------------------------------------------------------------
LEMMA MembersStart == MembersInit => MembersInv
  <1> SUFFICES ASSUME MembersInit PROVE MembersInv
    OBVIOUS
  <1> USE MembersAssumption DEF MembersInit
  <1>1. /\ Member("owner", 0) \in MemberRows /\ Member("owner", 0).role = "owner"
        /\ Member("admin", 0) \in MemberRows /\ Member("admin", 0).role = "admin"
    BY DEF Member, MemberRows, Roles
  <1>2. \A w, u \in Users :
            row[w][u] = IF u = w /\ u \in known THEN Member("owner", 0)
                        ELSE IF w = Founder /\ u \in Staff THEN Member("admin", 0) ELSE None
    OBVIOUS
  <1>3. MembersTypeOK
    BY <1>1 DEF MembersTypeOK
  <1>4. OwnerStays
    <2> SUFFICES ASSUME NEW w \in Users, NEW u \in Users
                 PROVE  RoleIn(u, w) = "owner" <=> (w = u /\ u \in known)
      BY DEF OwnerStays
    <2>1. None # "owner"
      BY DEF Roles
    <2>2. row[w][u] = IF u = w /\ u \in known THEN Member("owner", 0)
                      ELSE IF w = Founder /\ u \in Staff THEN Member("admin", 0) ELSE None
      BY <1>2
    <2>3. Member("owner", 0) # None /\ Member("admin", 0) # None
      BY <1>1
    <2> QED BY <1>1, <2>1, <2>2, <2>3 DEF RoleIn
  <1>5. RowsInv
    BY <1>2 DEF RowsInv
  <1>6. InvitesInv /\ HandlersInv /\ LockInv
    BY DEF InvitesInv, HandlersInv, LockInv, HasClaimed
  <1> QED BY <1>3, <1>4, <1>5, <1>6 DEF MembersInv

LEMMA MembersGoOn == MembersInv /\ [MembersNext]_membersVars => MembersInv'
  <1> SUFFICES ASSUME MembersInv, [MembersNext]_membersVars PROVE MembersInv'
    OBVIOUS
  <1>1. ASSUME NEW r \in Requests, Ask(r) PROVE MembersInv'
    BY <1>1, AsksKeepMembers
  <1>2. ASSUME NEW r \in Requests, Step(r) PROVE MembersInv'
    <2>1. ASSUME NEW i \in Invites, WriteInvite(r, i) PROVE MembersInv'
      BY <2>1, WritesInvite
    <2>2. ASSUME NEW sent \in BOOLEAN, MailInvite(r, sent) \/ MailResend(r, sent) PROVE MembersInv'
      BY <2>2, MailsInvite, WaitsKeepMembers
    <2>3. CASE Rotate(r) \/ Cancel(r)
      BY <2>3, Rotates, Cancels
    <2>4. CASE Revoke(r) \/ SetRole(r)
      BY <2>4, Revokes
    <2>5. CASE Claim(r) \/ Add(r) \/ AcceptConflicts(r)
      BY <2>5, WaitsKeepMembers
    <2>6. CASE AcceptCommits(r)
      BY <2>6, Accepts
    <2> QED BY <1>2, <2>1, <2>2, <2>3, <2>4, <2>5, <2>6 DEF Step
  <1>3. ASSUME NEW u \in Users, SignUp(u) \/ \E w \in Users : Switch(u, w) PROVE MembersInv'
    BY <1>3, SignsUp, Switches
  <1>4. ASSUME NEW i \in Invites, Expire(i) PROVE MembersInv'
    BY <1>4, Expires
  <1>5. CASE UNCHANGED membersVars
    BY <1>5 DEF membersVars, MembersInv, MembersTypeOK, OwnerStays, RoleIn, RowsInv,
                InvitesInv, HandlersInv, HandlerOK, LockInv, Pending, HasClaimed
  <1> QED BY <1>1, <1>2, <1>3, <1>4, <1>5 DEF MembersNext

\* What is written on a row somebody has, or on the row of one's own workspace, lets
\* nobody in; what leaves the invites alone breaks no link.
LEMMA NobodyJoins ==
    ASSUME MembersInv, MembersNext, ~\E r \in Requests : AcceptCommits(r)
    PROVE  JoinsByInvite
  <1> SUFFICES ASSUME NEW w \in Users, NEW u \in Users, w # u, row[w][u] = None
               PROVE  row'[w][u] = None
    BY DEF JoinsByInvite
  <1>1. CASE row' = row
    BY <1>1
  <1>2. ASSUME NEW r \in Requests, Revoke(r) \/ SetRole(r), row' # row PROVE row'[w][u] = None
    <2>1. PICK h : h = request[r]
      OBVIOUS
    <2>2. h \in Handlers /\ h.kind \in {"revoke", "role"} /\ StillThere(h)
      BY <1>2, <2>1, HandlerAt DEF Revoke, SetRole
    <2>3. h.ws \in Users /\ h.target \in Users /\ row[h.ws][h.target] # None
      BY <2>2 DEF Handlers, StillThere
    <2>4. h.ws # w \/ h.target # u
      BY <2>3
    <2> QED BY <1>2, <2>1, <2>2, <2>3, <2>4 DEF Revoke, SetRole, MembersInv, MembersTypeOK
  <1>3. ASSUME NEW v \in Users, SignUp(v) PROVE row'[w][u] = None
    BY <1>3 DEF SignUp, MembersInv, MembersTypeOK
  <1>4. ASSUME NEW r \in Requests, Step(r) PROVE row'[w][u] = None
    <2>1. CASE Revoke(r) \/ SetRole(r)
      BY <2>1, <1>1, <1>2
    <2>2. CASE \/ \E i \in Invites : WriteInvite(r, i)
               \/ \E sent \in BOOLEAN : MailInvite(r, sent) \/ MailResend(r, sent)
      BY <2>2, <1>1 DEF WriteInvite, MailInvite, MailResend
    <2>3. CASE Rotate(r) \/ Cancel(r) \/ Claim(r) \/ Add(r) \/ AcceptConflicts(r)
      BY <2>3, <1>1 DEF Rotate, Cancel, Claim, Add, AcceptConflicts
    <2> QED BY <1>4, <2>1, <2>2, <2>3 DEF Step
  <1>5. ASSUME NEW r \in Requests, Ask(r) PROVE row'[w][u] = None
    BY <1>5, <1>1 DEF Ask, AskInvite, AskResend, AskCancel, AskAccept, AskRevoke, AskRole
  <1>6. ASSUME NEW v \in Users, NEW x \in Users, Switch(v, x) PROVE row'[w][u] = None
    BY <1>6, <1>1 DEF Switch
  <1>7. ASSUME NEW i \in Invites, Expire(i) PROVE row'[w][u] = None
    BY <1>7, <1>1 DEF Expire
  <1> QED BY <1>3, <1>4, <1>5, <1>6, <1>7 DEF MembersNext

LEMMA AcceptedJoins ==
    ASSUME MembersInv, NEW r \in Requests, AcceptCommits(r)
    PROVE  JoinsByInvite
  <1>1. PICK h : h = request[r]
    OBVIOUS
  <1>2. PICK i, w, u : i = h.invite /\ w = invite[i].ws /\ u = h.user
    OBVIOUS
  <1>3. Welcome(r, h, i, w, u)
    BY <1>1, <1>2, CommitsAreWelcome
  <1>4. /\ row' = [x \in Users |-> [v \in Users |->
              IF h.add /\ x = w /\ v = u THEN Member(invite[i].role, i)
              ELSE IF h.new /\ x = u /\ v = u THEN Member("owner", 0) ELSE row[x][v]]]
        /\ invite' = [invite EXCEPT ![i].state = "used"]
    BY <1>1, <1>2 DEF AcceptCommits
  <1>5. invite'[i].state = "used"
    BY <1>3, <1>4 DEF Welcome, InviteRows, MembersInv, MembersTypeOK
  <1> SUFFICES ASSUME NEW x \in Users, NEW v \in Users, x # v,
                      row[x][v] = None, row'[x][v] # None
               PROVE  x = w /\ v = u /\ row'[x][v] = Member(invite[i].role, i)
    BY <1>2, <1>3, <1>5 DEF JoinsByInvite, Welcome
  <1> QED BY <1>4

LEMMA LinksAreKept ==
    ASSUME MembersInv, MembersNext
    PROVE  LinksStay
  <1> SUFFICES ASSUME NEW j \in Invites, Pending(j), Pending(j)', invite[j].mailed
               PROVE  invite'[j].mailed
    BY DEF LinksStay
  <1>1. invite[j] \in InviteRows /\ invite[j] # None /\ invite[j].state = "pending"
        /\ invite'[j].state = "pending"
    BY Pendings DEF Pending
  <1>2. CASE invite' = invite
    BY <1>2
  <1>3. ASSUME NEW i \in Invites, NEW x \in InviteRows, invite' = [invite EXCEPT ![i] = x],
               i = j => x.mailed \/ x.state # "pending"
        PROVE  invite'[j].mailed
    BY <1>1, <1>3 DEF MembersInv, MembersTypeOK
  <1>4. ASSUME NEW r \in Requests, NEW i \in Invites, WriteInvite(r, i) PROVE invite'[j].mailed
    <2>1. i # j
      BY <1>1, <1>4 DEF WriteInvite
    <2> QED BY <1>4, <2>1 DEF WriteInvite, MembersInv, MembersTypeOK
  <1>5. ASSUME NEW r \in Requests, NEW i, i = request[r].invite, i \in Invites,
               MailInvite(r, TRUE) \/ Rotate(r) \/ Cancel(r) \/ AcceptCommits(r)
        PROVE  invite'[j].mailed
    <2>1. CASE i # j
      BY <1>5, <2>1 DEF MailInvite, Rotate, Cancel, AcceptCommits, MembersInv, MembersTypeOK
    <2>2. CASE MailInvite(r, TRUE) /\ i = j
      BY <1>1, <1>5, <2>2 DEF MailInvite, MembersInv, MembersTypeOK, InviteRows
    <2>3. CASE Rotate(r) /\ i = j
      <3>1. request[r].sent = TRUE
        BY <2>3, HandlerAt DEF Rotate, HandlerOK, Handlers
      <3> QED BY <1>1, <1>5, <2>3, <3>1 DEF Rotate, MembersInv, MembersTypeOK, InviteRows
    <2>4. CASE (Cancel(r) \/ AcceptCommits(r)) /\ i = j
      <3>1. invite'[j].state # "pending"
        BY <1>1, <1>5, <2>4 DEF Cancel, AcceptCommits, MembersInv, MembersTypeOK, InviteRows
      <3> QED BY <1>1, <3>1
    <2> QED BY <1>5, <2>1, <2>2, <2>3, <2>4
  <1>6. ASSUME NEW r \in Requests,
               MailInvite(r, TRUE) \/ Rotate(r) \/ Cancel(r) \/ AcceptCommits(r)
        PROVE  request[r].invite \in Invites
    BY <1>6, HandlerAt DEF MailInvite, Rotate, Cancel, AcceptCommits, HandlerOK, Handlers
  <1>7. ASSUME NEW i \in Invites, Expire(i) PROVE invite'[j].mailed
    BY <1>1, <1>7 DEF Expire, MembersInv, MembersTypeOK, InviteRows
  <1>8. ASSUME NEW r \in Requests, MailInvite(r, FALSE) PROVE invite' = invite
    BY <1>8 DEF MailInvite
  <1>9. ASSUME NEW r \in Requests, Step(r) PROVE invite'[j].mailed
    <2>1. CASE MailInvite(r, TRUE) \/ Rotate(r) \/ Cancel(r) \/ AcceptCommits(r)
      BY <2>1, <1>5, <1>6
    <2>2. CASE MailInvite(r, FALSE) \/ \E i \in Invites : WriteInvite(r, i)
      BY <2>2, <1>2, <1>4, <1>8
    <2>3. CASE (\E sent \in BOOLEAN : MailResend(r, sent)) \/ Revoke(r) \/ SetRole(r)
      BY <2>3, <1>2 DEF MailResend, Revoke, SetRole
    <2>4. CASE Claim(r) \/ Add(r) \/ AcceptConflicts(r)
      BY <2>4, <1>2 DEF Claim, Add, AcceptConflicts
    <2> QED BY <1>9, <2>1, <2>2, <2>3, <2>4 DEF Step
  <1>10. ASSUME NEW r \in Requests, Ask(r) PROVE invite'[j].mailed
    BY <1>10, <1>2 DEF Ask, AskInvite, AskResend, AskCancel, AskAccept, AskRevoke, AskRole
  <1>11. ASSUME NEW u \in Users, SignUp(u) \/ \E x \in Users : Switch(u, x)
         PROVE  invite'[j].mailed
    BY <1>11, <1>2 DEF SignUp, Switch
  <1> QED BY <1>7, <1>9, <1>10, <1>11 DEF MembersNext

-----------------------------------------------------------------------------
(* Theorems *)

THEOREM MembersInvariant == MembersSpec => []MembersInv
  BY MembersStart, MembersGoOn, PTL DEF MembersSpec

\* Whatever managers, invites, removals and races do, a user acts where they are a
\* member, and is entitled to the same by the page and by the digest
\* (active_workspace_id, entitlements_for, locked_currency).
THEOREM ActingAsMembers == MembersSpec => []ActsAsMember
  BY MembersInvariant, MembersAct, PTL

\* A workspace has its one owner for ever: nobody else becomes one, and the owner is
\* neither removed nor demoted (can_manage_member, get_or_create_workspace).
THEOREM WorkspacesKeepTheirOwner == MembersSpec => []OwnerStays
  BY MembersInvariant, PTL DEF MembersInv

\* Nobody joins but by the invite they were sent, once, in the role it names; and a
\* link that works is never replaced by one that was not mailed (accept, resend_invite).
THEOREM InvitesKeepTheirWord == MembersSpec => InvitesAreHonoured
  <1>1. MembersInv /\ [MembersNext]_membersVars => [JoinsByInvite /\ LinksStay]_membersVars
    BY NobodyJoins, AcceptedJoins, LinksAreKept
  <1> QED BY <1>1, MembersInvariant, PTL DEF MembersSpec, InvitesAreHonoured
=============================================================================
