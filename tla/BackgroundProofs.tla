-------------------------- MODULE BackgroundProofs --------------------------
(***************************************************************************)
(* Proofs about what works in the background.  Runner: that the rows and   *)
(* the files of a finished audit come from one run, that a purged audit    *)
(* has no raw file, and that an audit in progress has a run at work on it. *)
(* Delivery: that nobody gets an alert twice, and a digest only after the  *)
(* stamp of the first was lost.                                            *)
(***************************************************************************)
EXTENDS Runner, Delivery, FiniteSetTheorems, TLAPS

LEMMA InitTyped == Init => TypeOK
  BY RunnerAssumption DEF Init, TypeOK, NoRun, Runs, Live, Waiting, Working, Over

\* What a step does to the threads: those of other runs stay, its own goes on
\* for the audit it was started for.
LEMMA TypeKept == TypeOK /\ [Next]_vars => TypeOK'
  <1> SUFFICES ASSUME TypeOK, [Next]_vars PROVE TypeOK'
    OBVIOUS
  <1> USE DEF TypeOK, Goto, GotoWith, Live, Waiting, Working, Over
  <1>1. ASSUME NEW w \in Runs, NEW a \in Audits, Uploaded(w, a) PROVE TypeOK'
    BY <1>1 DEF Uploaded, Spawn
  <1>2. ASSUME NEW w \in Runs, NEW a \in Audits, Rerun(w, a) PROVE TypeOK'
    BY <1>2 DEF Rerun, Spawn
  <1>3. ASSUME NEW w \in Runs, SlotFree(w) \/ SlotTimeout(w) \/ MailFails(w) PROVE TypeOK'
    BY <1>3 DEF SlotFree, SlotTimeout, MailFails
  <1>4. ASSUME NEW w \in Runs, Break(w) PROVE TypeOK'
    BY <1>4 DEF Break
  <1>5. ASSUME NEW w \in Runs, NEW a \in Audits, Begin(w, a) \/ OpenUpload(w, a) \/ Fail(w, a) \/ Announce(w, a)
        PROVE  TypeOK'
    BY <1>5 DEF Begin, OpenUpload, Fail, Announce
  <1>6. ASSUME NEW w \in Runs, NEW a \in Audits, Render(w, a) PROVE TypeOK'
    BY <1>6 DEF Render
  <1>7. ASSUME NEW w \in Runs, NEW a \in Audits, DeleteRows(w, a) PROVE TypeOK'
    BY <1>7 DEF DeleteRows
  <1>8. ASSUME NEW w \in Runs, NEW a \in Audits, Complete(w, a) PROVE TypeOK'
    BY <1>8 DEF Complete
  <1>9. ASSUME NEW a \in Audits, PurgeFile(a) \/ PurgeCommit(a) PROVE TypeOK'
    BY <1>9 DEF PurgeFile, PurgeCommit
  <1>10. CASE Crash
    <2>1. ASSUME NEW w \in Runs
          PROVE  run'[w] \in [pc : {"unborn"} \cup Live \cup Over, audit : Audits \cup {NoAudit},
                              old : SUBSET Runs]
      BY <1>10 DEF Crash
    <2>2. DOMAIN run' = Runs /\ run' = [w \in Runs |-> run'[w]]
      BY <1>10 DEF Crash
    <2>3. crashes' \in 0 .. MaxCrashes
      <3>1. crashes \in 0 .. MaxCrashes /\ crashes < MaxCrashes /\ crashes' = crashes + 1
        BY <1>10 DEF Crash
      <3> QED BY <3>1, RunnerAssumption
    <2> QED BY <1>10, <2>1, <2>2, <2>3 DEF Crash
  <1>11. CASE UNCHANGED vars
    BY <1>11 DEF vars
  <1> QED BY <1>1, <1>2, <1>3, <1>4, <1>5, <1>6, <1>7, <1>8, <1>9, <1>10, <1>11 DEF Next, RunStep

\* Every thread, its audit and its files have their types.
THEOREM TypeCorrect == Spec => []TypeOK
  BY InitTyped, TypeKept, PTL DEF Spec

-----------------------------------------------------------------------------
(* An audit and its runs *)

\* What the run in flight of an audit, if it is the only one, knows of it
Told(w, a) ==
    /\ run[w].pc \in Waiting => status[a] = "queued"
    /\ run[w].pc \in {"loading", "reading", "rendered", "deleted"} => status[a] = "processing"
    /\ run[w].pc \in {"rendered", "deleted"} => report[a] = w
    /\ run[w].pc = "deleted" => run[w].old = rows[a]

InFlight(w, a) == Of(w, a) /\ run[w].pc \notin Over

\* Before its upload an audit has nothing.  A re-run that finds a run in flight
\* counts as crossed: otherwise there is one run, and what is finished is its.
AuditInv(a) ==
    /\ status[a] = "none" => upload[a] = "none" /\ a \notin purging /\ \A w \in Runs : ~Of(w, a)
    /\ upload[a] = "purged" \/ a \in purging => a \notin raw
    /\ a \notin crossed =>
          /\ \A v, w \in Runs : InFlight(v, a) /\ InFlight(w, a) => v = w
          /\ \A w \in Runs : InFlight(w, a) => Told(w, a)
          /\ status[a] = "done" => report[a] # NoRun /\ rows[a] = {report[a]}

IInv ==
    /\ \A w \in Runs : run[w].pc = "unborn" <=> run[w].audit = NoAudit
    /\ \A a \in Audits : AuditInv(a)

\* An audit that a step leaves alone, with its runs
LEMMA Elsewhere ==
    ASSUME NEW a \in Audits, AuditInv(a),
           status'[a] = status[a], rows'[a] = rows[a], report'[a] = report[a],
           upload'[a] = upload[a], a \in raw' <=> a \in raw, a \in purging' <=> a \in purging,
           a \in crossed => a \in crossed',
           \A w \in Runs : Of(w, a)' => run'[w] = run[w]
    PROVE  AuditInv(a)'
  BY DEF AuditInv, InFlight, Told, Of

\* A run w of audit a takes a step of its own; the others stay.
LEMMA Alone ==
    ASSUME TypeOK, IInv, NEW a \in Audits, NEW w \in Runs, Of(w, a), run[w].pc \notin Over,
           NEW row, run' = [run EXCEPT ![w] = row], row.audit = a,
           UNCHANGED <<upload, raw, purging, crossed>>,
           \A b \in Audits \ {a} : /\ status'[b] = status[b] /\ rows'[b] = rows[b]
                                   /\ report'[b] = report[b],
           status'[a] # "none", row.pc # "unborn",
           a \notin crossed =>
              /\ row.pc \notin Over => Told(w, a)'
              /\ status'[a] = "done" => report'[a] # NoRun /\ rows'[a] = {report'[a]}
    PROVE  IInv'
  <1>0. /\ run \in [Runs -> [pc : {"unborn"} \cup Live \cup Over, audit : Audits \cup {NoAudit},
                           old : SUBSET Runs]]
        /\ \A b \in Audits : AuditInv(b)
    BY DEF TypeOK, IInv
  <1>1. /\ run'[w] = row
        /\ \A v \in Runs \ {w} : run'[v] = run[v]
    BY <1>0
  <1>2. ASSUME NEW b \in Audits, b # a PROVE AuditInv(b)'
    <2>1. \A v \in Runs : Of(v, b)' => run'[v] = run[v]
      BY <1>1, <1>2 DEF Of
    <2> QED BY <1>0, <1>2, <2>1, Elsewhere
  <1>3. AuditInv(a)'
    <2>1. \A v \in Runs \ {w} : InFlight(v, a)' <=> InFlight(v, a)
      BY <1>1 DEF InFlight, Of
    <2>2. InFlight(w, a)
      BY DEF InFlight
    <2>3. a \notin crossed => \A v \in Runs \ {w} : ~InFlight(v, a)'
      BY <1>0, <2>1, <2>2 DEF AuditInv
    <2>4. upload[a] = "purged" \/ a \in purging => a \notin raw
      BY <1>0 DEF AuditInv
    <2>5. InFlight(w, a)' => row.pc \notin Over
      BY <1>1 DEF InFlight
    <2> QED BY <2>3, <2>4, <2>5 DEF AuditInv
  <1>4. \A v \in Runs : run'[v].pc = "unborn" <=> run'[v].audit = NoAudit
    BY <1>1, RunnerAssumption DEF IInv
  <1> QED BY <1>2, <1>3, <1>4 DEF IInv

LEMMA Spawned ==
    ASSUME TypeOK, IInv, NEW a \in Audits, NEW w \in Runs, Spawn(w, a)
    PROVE  /\ run'[w].pc = "waiting" /\ run'[w].audit = a /\ ~Of(w, a)
           /\ \A v \in Runs \ {w} : run'[v] = run[v]
           /\ \A v \in Runs : run'[v].pc = "unborn" <=> run'[v].audit = NoAudit
           /\ \A b \in Audits \ {a}, v \in Runs : Of(v, b)' => run'[v] = run[v]
  <1>1. run[w].audit = NoAudit
    BY DEF Spawn, IInv
  <1>2. run'[w].pc = "waiting" /\ run'[w].audit = a /\ \A v \in Runs \ {w} : run'[v] = run[v]
    BY DEF Spawn, TypeOK
  <1> QED BY <1>1, <1>2, RunnerAssumption DEF Of, IInv

\* A thread goes on, for the audit it was started for; with the rows its
\* statements have seen.
LEMMA Goes ==
    ASSUME TypeOK, NEW w \in Runs, NEW pc, Goto(w, pc)
    PROVE  \E row : /\ row.pc = pc /\ row.audit = run[w].audit /\ row.old = run[w].old
                    /\ run' = [run EXCEPT ![w] = row]
  <1> DEFINE row == [run[w] EXCEPT !.pc = pc]
  <1>1. row.pc = pc /\ row.audit = run[w].audit /\ row.old = run[w].old
    BY DEF TypeOK
  <1>2. run' = [run EXCEPT ![w] = row]
    BY DEF Goto
  <1> HIDE DEF row
  <1> QED BY <1>1, <1>2

LEMMA GoesWith ==
    ASSUME TypeOK, NEW w \in Runs, NEW pc, NEW old, GotoWith(w, pc, old)
    PROVE  \E row : /\ row.pc = pc /\ row.audit = run[w].audit /\ row.old = old
                    /\ run' = [run EXCEPT ![w] = row]
  <1> DEFINE row == [run[w] EXCEPT !.pc = pc, !.old = old]
  <1>1. row.pc = pc /\ row.audit = run[w].audit /\ row.old = old
    BY DEF TypeOK
  <1>2. run' = [run EXCEPT ![w] = row]
    BY DEF GotoWith
  <1> HIDE DEF row
  <1> QED BY <1>1, <1>2

LEMMA IInvStep ==
    ASSUME TypeOK, IInv, NEW a \in Audits, NEW w \in Runs, Of(w, a),
           \/ Begin(w, a) \/ OpenUpload(w, a) \/ Render(w, a) \/ DeleteRows(w, a)
           \/ Complete(w, a) \/ Fail(w, a) \/ Announce(w, a)
           \/ SlotFree(w) \/ SlotTimeout(w) \/ Break(w) \/ MailFails(w)
    PROVE  IInv'
  <1>0. /\ status \in [Audits -> {"none", "queued", "processing", "done", "failed"}]
        /\ rows \in [Audits -> SUBSET Runs] /\ report \in [Audits -> Runs \cup {NoRun}]
        /\ run \in [Runs -> [pc : {"unborn"} \cup Live \cup Over, audit : Audits \cup {NoAudit},
                           old : SUBSET Runs]]
        /\ NoRun \notin Runs
    BY DEF TypeOK, NoRun, Runs
  <1>1. run[w].audit = a /\ AuditInv(a) /\ status[a] # "none"
    BY DEF Of, IInv, AuditInv
  <1>2. run[w].pc \notin Over => (a \notin crossed =>
            Told(w, a) /\ (status[a] = "done" => report[a] # NoRun /\ rows[a] = {report[a]}))
    BY <1>1 DEF AuditInv, InFlight
  <1> USE DEF Over, Waiting
  <1>3. ASSUME NEW pc, Goto(w, pc)
        PROVE  \E row : /\ row.pc = pc /\ row.audit = a /\ row.old = run[w].old
                        /\ run' = [run EXCEPT ![w] = row]
    BY <1>1, <1>3, Goes
  <1>4. CASE Begin(w, a)
    <2>1. PICK row : /\ row.pc = "loading" /\ row.audit = a
                     /\ run' = [run EXCEPT ![w] = row]
      BY <1>3, <1>4 DEF Begin
    <2>2. run'[w] = row
      BY <1>0, <2>1
    <2>3. a \notin crossed /\ row.pc \notin Over => Told(w, a)'
      BY <1>0, <1>2, <1>4, <2>1, <2>2 DEF Begin, Told
    <2>4. a \notin crossed /\ status'[a] = "done" => report'[a] # NoRun /\ rows'[a] = {report'[a]}
      BY <1>0, <1>2, <1>4 DEF Begin, Told
    <2> QED BY <1>0, <1>1, <1>4, <2>1, <2>3, <2>4, Alone DEF Begin
  <1>5. CASE OpenUpload(w, a)
    <2>1. PICK row : /\ row.pc \in {"reading", "failing"} /\ row.audit = a
                     /\ run' = [run EXCEPT ![w] = row]
      BY <1>3, <1>5 DEF OpenUpload
    <2>2. run'[w] = row
      BY <1>0, <2>1
    <2>3. a \notin crossed /\ row.pc \notin Over => Told(w, a)'
      BY <1>0, <1>2, <1>5, <2>1, <2>2 DEF OpenUpload, Told
    <2>4. a \notin crossed /\ status'[a] = "done" => report'[a] # NoRun /\ rows'[a] = {report'[a]}
      BY <1>0, <1>2, <1>5 DEF OpenUpload, Told
    <2> QED BY <1>0, <1>1, <1>5, <2>1, <2>3, <2>4, Alone DEF OpenUpload
  <1>6. CASE Render(w, a)
    <2>1. PICK row : /\ row.pc = (IF a \in raw THEN "rendered" ELSE "failing") /\ row.audit = a
                     /\ run' = [run EXCEPT ![w] = row]
      BY <1>3, <1>6 DEF Render
    <2>2. run'[w] = row
      BY <1>0, <2>1
    <2>3. a \notin crossed /\ row.pc \notin Over => Told(w, a)'
      BY <1>0, <1>2, <1>6, <2>1, <2>2 DEF Render, Told
    <2>4. a \notin crossed /\ status'[a] = "done" => report'[a] # NoRun /\ rows'[a] = {report'[a]}
      BY <1>0, <1>2, <1>6 DEF Render, Told
    <2> QED BY <1>0, <1>1, <1>6, <2>1, <2>3, <2>4, Alone DEF Render
  <1>7. CASE DeleteRows(w, a)
    <2>1. PICK row : /\ row.pc = "deleted" /\ row.audit = a /\ row.old = rows[a]
                     /\ run' = [run EXCEPT ![w] = row]
      BY <1>1, <1>7, GoesWith DEF DeleteRows
    <2>2. run'[w] = row
      BY <1>0, <2>1
    <2>3. a \notin crossed => Told(w, a)'
      BY <1>2, <1>7, <2>1, <2>2 DEF DeleteRows, Told
    <2>4. status[a] = "done" => a \in crossed
      BY <1>2, <1>7 DEF DeleteRows, Told
    <2> QED BY <1>0, <1>1, <1>7, <2>1, <2>3, <2>4, Alone DEF DeleteRows
  <1>8. CASE Complete(w, a)
    <2>1. PICK row : /\ row.pc = "announcing" /\ row.audit = a
                     /\ run' = [run EXCEPT ![w] = row]
      BY <1>1, <1>8, GoesWith DEF Complete
    <2>2. a \notin crossed => rows'[a] = {w} /\ report'[a] = w
      BY <1>0, <1>2, <1>8 DEF Complete, Told
    <2>3. Told(w, a)'
      BY <1>0, <1>8, <2>1 DEF Told
    <2> QED BY <1>0, <1>1, <1>8, <2>1, <2>2, <2>3, Alone DEF Complete
  <1>9. CASE Fail(w, a)
    <2>1. PICK row : /\ row.pc = "ended" /\ row.audit = a
                     /\ run' = [run EXCEPT ![w] = row]
      BY <1>3, <1>9 DEF Fail
    <2>2. run'[w] = row
      BY <1>0, <2>1
    <2>3. a \notin crossed /\ row.pc \notin Over => Told(w, a)'
      BY <1>0, <1>2, <1>9, <2>1, <2>2 DEF Fail, Told
    <2>4. a \notin crossed /\ status'[a] = "done" => report'[a] # NoRun /\ rows'[a] = {report'[a]}
      BY <1>0, <1>2, <1>9 DEF Fail, Told
    <2> QED BY <1>0, <1>1, <1>9, <2>1, <2>3, <2>4, Alone DEF Fail
  <1>10. CASE SlotFree(w)
    <2>1. PICK row : /\ row.pc = "admitted" /\ row.audit = a
                     /\ run' = [run EXCEPT ![w] = row]
      BY <1>3, <1>10 DEF SlotFree
    <2>2. run'[w] = row
      BY <1>0, <2>1
    <2>3. a \notin crossed /\ row.pc \notin Over => Told(w, a)'
      BY <1>0, <1>2, <1>10, <2>1, <2>2 DEF SlotFree, Told
    <2>4. a \notin crossed /\ status'[a] = "done" => report'[a] # NoRun /\ rows'[a] = {report'[a]}
      BY <1>0, <1>2, <1>10 DEF SlotFree, Told
    <2> QED BY <1>0, <1>1, <1>10, <2>1, <2>3, <2>4, Alone DEF SlotFree
  <1>11. CASE Announce(w, a) \/ SlotTimeout(w)
    <2>1. PICK row : /\ row.pc \in Over /\ row.audit = a
                     /\ run' = [run EXCEPT ![w] = row]
      BY <1>3, <1>11 DEF Announce, SlotTimeout
    <2> QED BY <1>0, <1>1, <1>2, <1>11, <2>1, Alone DEF Announce, SlotTimeout
  <1>12. CASE Break(w)
    <2>1. PICK row : /\ row.pc = "failing" /\ row.audit = a
                     /\ run' = [run EXCEPT ![w] = row]
      BY <1>1, <1>12, GoesWith DEF Break
    <2>2. run'[w] = row
      BY <1>0, <2>1
    <2>3. a \notin crossed /\ row.pc \notin Over => Told(w, a)'
      BY <1>0, <1>2, <1>12, <2>1, <2>2 DEF Break, Told
    <2>4. a \notin crossed /\ status'[a] = "done" => report'[a] # NoRun /\ rows'[a] = {report'[a]}
      BY <1>0, <1>2, <1>12 DEF Break, Told
    <2> QED BY <1>0, <1>1, <1>12, <2>1, <2>3, <2>4, Alone DEF Break
  <1>13. CASE MailFails(w)
    <2>1. PICK row : /\ row.pc = "failing" /\ row.audit = a
                     /\ run' = [run EXCEPT ![w] = row]
      BY <1>3, <1>13 DEF MailFails
    <2>2. run'[w] = row
      BY <1>0, <2>1
    <2>3. a \notin crossed /\ row.pc \notin Over => Told(w, a)'
      BY <1>0, <1>2, <1>13, <2>1, <2>2 DEF MailFails, Told
    <2>4. a \notin crossed /\ status'[a] = "done" => report'[a] # NoRun /\ rows'[a] = {report'[a]}
      BY <1>0, <1>2, <1>13 DEF MailFails, Told
    <2> QED BY <1>0, <1>1, <1>13, <2>1, <2>3, <2>4, Alone DEF MailFails
  <1> QED BY <1>4, <1>5, <1>6, <1>7, <1>8, <1>9, <1>10, <1>11, <1>12, <1>13

LEMMA IInvKept == TypeOK /\ IInv /\ [Next]_vars => IInv'
  <1> SUFFICES ASSUME TypeOK, IInv, [Next]_vars PROVE IInv'
    OBVIOUS
  <1>0. /\ status \in [Audits -> {"none", "queued", "processing", "done", "failed"}]
        /\ upload \in [Audits -> {"none", "held", "purged"}]
        /\ run \in [Runs -> [pc : {"unborn"} \cup Live \cup Over, audit : Audits \cup {NoAudit},
                           old : SUBSET Runs]]
        /\ \A a \in Audits : AuditInv(a)
        /\ \A w \in Runs : run[w].pc = "unborn" <=> run[w].audit = NoAudit
    BY DEF TypeOK, IInv
  <1>1. ASSUME NEW w \in Runs, NEW a \in Audits, Uploaded(w, a) PROVE IInv'
    <2>1. \A v \in Runs : ~Of(v, a)
      BY <1>0, <1>1 DEF Uploaded, AuditInv
    <2>2. /\ run'[w].pc = "waiting" /\ run'[w].audit = a
          /\ \A v \in Runs \ {w} : run'[v] = run[v]
          /\ \A v \in Runs : run'[v].pc = "unborn" <=> run'[v].audit = NoAudit
          /\ \A b \in Audits \ {a}, v \in Runs : Of(v, b)' => run'[v] = run[v]
      BY <1>1, Spawned DEF Uploaded
    <2>3. AuditInv(a)'
      <3>1. status'[a] = "queued" /\ upload'[a] = "held" /\ a \notin purging'
        BY <1>0, <1>1 DEF Uploaded, AuditInv
      <3>2. \A v \in Runs : InFlight(v, a)' => v = w
        BY <2>1, <2>2 DEF InFlight, Of
      <3> QED BY <2>2, <3>1, <3>2 DEF AuditInv, Told, Waiting
    <2>4. ASSUME NEW b \in Audits \ {a} PROVE AuditInv(b)'
      BY <1>0, <1>1, <2>2, Elsewhere DEF Uploaded
    <2> QED BY <2>2, <2>3, <2>4 DEF IInv
  <1>2. ASSUME NEW w \in Runs, NEW a \in Audits, Rerun(w, a) PROVE IInv'
    <2>1. /\ run'[w].pc = "waiting" /\ run'[w].audit = a /\ ~Of(w, a)
          /\ \A v \in Runs \ {w} : run'[v] = run[v]
          /\ \A v \in Runs : run'[v].pc = "unborn" <=> run'[v].audit = NoAudit
          /\ \A b \in Audits \ {a}, v \in Runs : Of(v, b)' => run'[v] = run[v]
      BY <1>2, Spawned DEF Rerun
    <2>2. AuditInv(a)'
      <3>1. status'[a] = "queued" /\ UNCHANGED <<upload, purging, raw>>
        BY <1>0, <1>2 DEF Rerun
      <3>2. a \notin crossed' => \A v \in Runs : Of(v, a) => run[v].pc \in Over
        BY <1>2 DEF Rerun
      <3>3. a \notin crossed' => \A v \in Runs : InFlight(v, a)' => v = w
        BY <2>1, <3>2 DEF InFlight, Of
      <3> QED BY <1>0, <2>1, <3>1, <3>3 DEF AuditInv, Told, Waiting
    <2>3. ASSUME NEW b \in Audits \ {a} PROVE AuditInv(b)'
      BY <1>0, <1>2, <2>1, Elsewhere DEF Rerun
    <2> QED BY <2>1, <2>2, <2>3 DEF IInv
  <1>3. ASSUME NEW w \in Runs, RunStep(w) PROVE IInv'
    <2>1. run[w].audit \in Audits
      <3>1. run[w].pc # "unborn"
        BY <1>3 DEF RunStep, Begin, OpenUpload, Render, DeleteRows, Complete, Fail, Announce,
                    SlotFree, SlotTimeout, Break, MailFails
      <3> QED BY <1>0, <1>3, <3>1
    <2> QED BY <1>3, <2>1, IInvStep DEF RunStep, Of
  <1>4. ASSUME NEW a \in Audits, PurgeFile(a) \/ PurgeCommit(a) PROVE IInv'
    <2>1. UNCHANGED <<status, rows, report, crossed, run>>
      BY <1>4 DEF PurgeFile, PurgeCommit
    <2>2. ASSUME NEW b \in Audits \ {a} PROVE AuditInv(b)'
      <3>1. upload'[b] = upload[b] /\ (b \in raw' <=> b \in raw) /\ (b \in purging' <=> b \in purging)
        BY <1>0, <1>4 DEF PurgeFile, PurgeCommit
      <3> QED BY <1>0, <2>1, <3>1, Elsewhere
    <2>3. AuditInv(a)'
      <3>1. a \notin raw' /\ status[a] # "none"
        BY <1>0, <1>4 DEF PurgeFile, PurgeCommit, AuditInv
      <3> QED BY <1>0, <2>1, <3>1 DEF AuditInv, InFlight, Told, Of
    <2> QED BY <1>0, <2>1, <2>2, <2>3 DEF IInv
  <1>5. CASE Crash
    <2>1. UNCHANGED <<status, upload, raw, rows, report, crossed>> /\ purging' = {}
      BY <1>5 DEF Crash
    <2>2. ASSUME NEW w \in Runs
          PROVE  /\ run'[w].audit = run[w].audit
                 /\ run'[w].pc = "unborn" <=> run[w].pc = "unborn"
                 /\ run'[w].pc \in Over \/ run'[w].pc = "unborn"
      <3>1. run'[w] = IF run[w].pc \in Live THEN [run[w] EXCEPT !.pc = "killed", !.old = {}] ELSE run[w]
        BY <1>5 DEF Crash
      <3>2. run[w] \in [pc : {"unborn"} \cup Live \cup Over, audit : Audits \cup {NoAudit},
                        old : SUBSET Runs]
        BY <1>0
      <3>3. "unborn" \notin Live /\ "killed" \in Over
        BY DEF Live, Waiting, Working, Over
      <3> QED BY <3>1, <3>2, <3>3 DEF Over
    <2>3. ASSUME NEW a \in Audits PROVE AuditInv(a)' 
      <3>1. \A w \in Runs : (Of(w, a)' <=> Of(w, a)) /\ ~InFlight(w, a)'
        BY <1>0, <2>2, RunnerAssumption DEF InFlight, Of
      <3> QED BY <1>0, <2>1, <3>1 DEF AuditInv
    <2> QED BY <1>0, <2>2, <2>3 DEF IInv
  <1>6. CASE UNCHANGED vars
    BY <1>0, <1>6, Elsewhere DEF vars, IInv
  <1> QED BY <1>1, <1>2, <1>3, <1>4, <1>5, <1>6 DEF Next

LEMMA IInvInit == Init => IInv
  BY RunnerAssumption DEF Init, IInv, AuditInv, InFlight, Of

THEOREM Invariance == Spec => []IInv
  BY IInvInit, IInvKept, TypeCorrect, PTL DEF Spec

\* The rows of a finished audit and its report files are of one run, unless a
\* re-run was started beside a run in flight (_pipeline, rerun_audit).
THEOREM DoneAuditsAreConsistent == Spec => []DoneIsConsistent
  <1>1. IInv => DoneIsConsistent
    BY DEF IInv, AuditInv, DoneIsConsistent
  <1> QED BY <1>1, Invariance, PTL

\* Who is told that the upload is purged is told the truth (purge_one).
THEOREM PurgesAreTruthful == Spec => []PurgeIsTruthful
  <1>1. IInv => PurgeIsTruthful
    BY DEF IInv, AuditInv, PurgeIsTruthful
  <1> QED BY <1>1, Invariance, PTL


-----------------------------------------------------------------------------
(* Who works on an audit *)

\* A thread's step, as far as its place and the status of its audit go
Steps(w, row) ==
    \/ run[w].pc \in Waiting /\ row.pc \in {"admitted", "timedOut"} /\ UNCHANGED status
    \/ run[w].pc \in Working /\ row.pc \in Working /\ UNCHANGED status
    \/ run[w].pc = "announcing" /\ row.pc \in {"ended", "failing"} /\ UNCHANGED status
    \/ row.pc = "loading" /\ status' = [status EXCEPT ![run[w].audit] = "processing"]
    \/ \E new \in {"done", "failed"} : status' = [status EXCEPT ![run[w].audit] = new]

LEMMA Stepped ==
    ASSUME TypeOK, NEW w \in Runs, RunStep(w)
    PROVE  /\ run[w].pc \notin {"unborn", "timedOut", "killed"}
           /\ \E row : /\ row.audit = run[w].audit /\ run' = [run EXCEPT ![w] = row]
                       /\ Steps(w, row)
  <1> USE DEF Waiting, Working
  <1>1. ASSUME SlotFree(w) \/ SlotTimeout(w)
        PROVE  \E row : row.audit = run[w].audit /\ run' = [run EXCEPT ![w] = row] /\ Steps(w, row)
    <2>1. PICK row : /\ row.pc \in {"admitted", "timedOut"} /\ row.audit = run[w].audit
                     /\ run' = [run EXCEPT ![w] = row]
      BY <1>1, Goes DEF SlotFree, SlotTimeout
    <2> QED BY <1>1, <2>1 DEF SlotFree, SlotTimeout, Steps
  <1>2. ASSUME NEW a \in Audits, Of(w, a), Begin(w, a)
        PROVE  \E row : row.audit = run[w].audit /\ run' = [run EXCEPT ![w] = row] /\ Steps(w, row)
    <2>1. PICK row : /\ row.pc = "loading" /\ row.audit = run[w].audit
                     /\ run' = [run EXCEPT ![w] = row]
      BY <1>2, Goes DEF Begin
    <2> QED BY <1>2, <2>1 DEF Begin, Steps, Of
  <1>3. ASSUME NEW a \in Audits, Of(w, a), OpenUpload(w, a) \/ Render(w, a)
        PROVE  \E row : row.audit = run[w].audit /\ run' = [run EXCEPT ![w] = row] /\ Steps(w, row)
    <2>1. PICK row : /\ row.pc \in {"reading", "rendered", "failing"} /\ row.audit = run[w].audit
                     /\ run' = [run EXCEPT ![w] = row]
      BY <1>3, Goes DEF OpenUpload, Render
    <2> QED BY <1>3, <2>1 DEF OpenUpload, Render, Steps
  <1>4. ASSUME NEW a \in Audits, Of(w, a), DeleteRows(w, a)
        PROVE  \E row : row.audit = run[w].audit /\ run' = [run EXCEPT ![w] = row] /\ Steps(w, row)
    <2>1. PICK row : /\ row.pc = "deleted" /\ row.audit = run[w].audit
                     /\ run' = [run EXCEPT ![w] = row]
      BY <1>4, GoesWith DEF DeleteRows
    <2> QED BY <1>4, <2>1 DEF DeleteRows, Steps
  <1>5. ASSUME NEW a \in Audits, Of(w, a), Complete(w, a)
        PROVE  \E row : row.audit = run[w].audit /\ run' = [run EXCEPT ![w] = row] /\ Steps(w, row)
    <2>1. PICK row : row.audit = run[w].audit /\ run' = [run EXCEPT ![w] = row]
      BY <1>5, GoesWith DEF Complete
    <2> QED BY <1>5, <2>1 DEF Complete, Steps, Of
  <1>6. ASSUME NEW a \in Audits, Of(w, a), Fail(w, a)
        PROVE  \E row : row.audit = run[w].audit /\ run' = [run EXCEPT ![w] = row] /\ Steps(w, row)
    <2>1. PICK row : row.audit = run[w].audit /\ run' = [run EXCEPT ![w] = row]
      BY <1>6, Goes DEF Fail
    <2> QED BY <1>6, <2>1 DEF Fail, Steps, Of
  <1>7. ASSUME MailFails(w) \/ \E a \in Audits : Announce(w, a)
        PROVE  \E row : row.audit = run[w].audit /\ run' = [run EXCEPT ![w] = row] /\ Steps(w, row)
    <2>1. PICK row : /\ row.pc \in {"ended", "failing"} /\ row.audit = run[w].audit
                     /\ run' = [run EXCEPT ![w] = row]
      BY <1>7, Goes DEF Announce, MailFails
    <2> QED BY <1>7, <2>1 DEF Announce, MailFails, Steps
  <1>8. ASSUME Break(w)
        PROVE  \E row : row.audit = run[w].audit /\ run' = [run EXCEPT ![w] = row] /\ Steps(w, row)
    <2>1. PICK row : /\ row.pc = "failing" /\ row.audit = run[w].audit
                     /\ run' = [run EXCEPT ![w] = row]
      BY <1>8, GoesWith DEF Break
    <2> QED BY <1>8, <2>1 DEF Break, Steps
  <1>9. run[w].pc \notin {"unborn", "timedOut", "killed"}
    BY DEF RunStep, Begin, OpenUpload, Render, DeleteRows, Complete, Fail, Announce,
           SlotFree, SlotTimeout, Break, MailFails
  <1> QED BY <1>1, <1>2, <1>3, <1>4, <1>5, <1>6, <1>7, <1>8, <1>9 DEF RunStep

LEMMA WorkKept == TypeOK /\ IInv /\ SomebodyWorks /\ [Next]_vars => SomebodyWorks'
  <1> SUFFICES ASSUME TypeOK, IInv, SomebodyWorks, [Next]_vars PROVE SomebodyWorks'
    OBVIOUS
  <1>0. /\ status \in [Audits -> {"none", "queued", "processing", "done", "failed"}]
        /\ run \in [Runs -> [pc : {"unborn"} \cup Live \cup Over, audit : Audits \cup {NoAudit},
                           old : SUBSET Runs]]
        /\ \A w \in Runs : run[w].pc = "unborn" <=> run[w].audit = NoAudit
    BY DEF TypeOK, IInv
  <1>1. ASSUME NEW w \in Runs, NEW a \in Audits, Uploaded(w, a) \/ Rerun(w, a) PROVE SomebodyWorks'
    <2>1. /\ run'[w].pc = "waiting" /\ run'[w].audit = a /\ run[w].audit = NoAudit
          /\ \A v \in Runs \ {w} : run'[v] = run[v]
      <3>1. Spawn(w, a)
        BY <1>1 DEF Uploaded, Rerun
      <3>2. run[w].audit = NoAudit
        BY <1>0, <3>1 DEF Spawn
      <3> QED BY <3>1, <3>2, Spawned
    <2>2. status' = [status EXCEPT ![a] = "queued"]
      BY <1>1 DEF Uploaded, Rerun
    <2>3. \A v \in Runs, b \in Audits : Of(v, b) => run'[v] = run[v]
      BY <2>1, RunnerAssumption DEF Of
    <2>4. \A b \in Audits : Abandoned(b) => Abandoned(b)'
      BY <2>3 DEF Abandoned, Of
    <2> QED BY <1>0, <2>1, <2>2, <2>3, <2>4 DEF SomebodyWorks, Of, Waiting
  <1>2. ASSUME NEW w \in Runs, RunStep(w) PROVE SomebodyWorks'
    <2>1. /\ run[w].pc \notin {"unborn", "timedOut", "killed"}
          /\ \E row : /\ row.audit = run[w].audit /\ run' = [run EXCEPT ![w] = row]
                      /\ Steps(w, row)
      BY <1>2, Stepped
    <2>2. PICK row : /\ row.audit = run[w].audit /\ run' = [run EXCEPT ![w] = row]
                     /\ Steps(w, row)
      BY <2>1
    <2>3. run'[w] = row /\ \A v \in Runs \ {w} : run'[v] = run[v]
      BY <1>0, <2>2
    <2>4. \A v \in Runs, b \in Audits : Of(v, b)' <=> Of(v, b)
      BY <2>2, <2>3 DEF Of
    <2>5. \A b \in Audits : Abandoned(b) => Abandoned(b)'
      BY <2>1, <2>3, <2>4 DEF Abandoned
    <2>6. run[w].audit \in Audits
      BY <1>0, <2>1
    <2>7. ASSUME NEW b \in Audits, status'[b] = "queued", ~Abandoned(b)'
          PROVE  \E v \in Runs : Of(v, b)' /\ run'[v].pc \in Waiting
      <3>1. status[b] = "queued"
        BY <1>0, <2>2, <2>6, <2>7 DEF Steps
      <3>2. PICK v \in Runs : Of(v, b) /\ run[v].pc \in Waiting
        BY <2>5, <2>7, <3>1 DEF SomebodyWorks
      <3>3. CASE v # w
        BY <2>3, <2>4, <3>2, <3>3
      <3>4. CASE v = w
        <4>1. run[w].audit = b
          BY <3>2, <3>4 DEF Of
        <4>2. row.pc \in {"admitted", "timedOut"}
          BY <1>0, <2>2, <2>7, <3>2, <3>4, <4>1 DEF Steps, Waiting, Working
        <4>3. row.pc # "timedOut"
          BY <2>3, <2>4, <2>7, <3>2, <3>4 DEF Abandoned
        <4> QED BY <2>3, <2>4, <3>2, <3>4, <4>2, <4>3 DEF Waiting
      <3> QED BY <3>3, <3>4
    <2>8. ASSUME NEW b \in Audits, status'[b] = "processing", ~Abandoned(b)'
          PROVE  \E v \in Runs : Of(v, b)' /\ run'[v].pc \in Working
      <3>1. CASE status[b] # "processing"
        <4>1. run[w].audit = b /\ row.pc = "loading"
          BY <1>0, <2>2, <2>6, <2>8, <3>1 DEF Steps
        <4> QED BY <2>3, <2>4, <4>1 DEF Of, Working
      <3>2. CASE status[b] = "processing"
        <4>1. PICK v \in Runs : Of(v, b) /\ run[v].pc \in Working
          BY <2>5, <2>8, <3>2 DEF SomebodyWorks
        <4>2. CASE v # w
          BY <2>3, <2>4, <4>1, <4>2
        <4>3. CASE v = w
          <5>1. run[w].audit = b
            BY <4>1, <4>3 DEF Of
          <5>2. row.pc \in Working
            BY <1>0, <2>2, <2>8, <4>1, <4>3, <5>1 DEF Steps, Waiting, Working
          <5> QED BY <2>3, <2>4, <4>1, <4>3, <5>2
        <4> QED BY <4>2, <4>3
      <3> QED BY <3>1, <3>2
    <2> QED BY <2>7, <2>8 DEF SomebodyWorks
  <1>3. CASE Crash
    <2>1. UNCHANGED status
      BY <1>3 DEF Crash
    <2>2. ASSUME NEW w \in Runs
          PROVE  /\ run'[w].audit = run[w].audit
                 /\ run[w].pc \in Live => run'[w].pc = "killed"
                 /\ run[w].pc \notin Live => run'[w] = run[w]
      <3>1. run'[w] = IF run[w].pc \in Live THEN [run[w] EXCEPT !.pc = "killed", !.old = {}] ELSE run[w]
        BY <1>3 DEF Crash
      <3>2. run[w] \in [pc : {"unborn"} \cup Live \cup Over, audit : Audits \cup {NoAudit},
                        old : SUBSET Runs]
        BY <1>0
      <3> QED BY <3>1, <3>2
    <2>3. \A b \in Audits : Abandoned(b) => Abandoned(b)'
      BY <2>2 DEF Abandoned, Of, Live, Waiting, Working
    <2>4. ASSUME NEW b \in Audits, NEW w \in Runs, Of(w, b), run[w].pc \in Live PROVE Abandoned(b)'
      BY <2>2, <2>4 DEF Abandoned, Of
    <2> QED BY <2>1, <2>3, <2>4 DEF SomebodyWorks, Live
  <1>4. CASE UNCHANGED vars \/ \E a \in Audits : PurgeFile(a) \/ PurgeCommit(a)
    <2>1. UNCHANGED <<status, run>>
      BY <1>4 DEF vars, PurgeFile, PurgeCommit
    <2> QED BY <2>1 DEF SomebodyWorks, Abandoned, Of
  <1> QED BY <1>1, <1>2, <1>3, <1>4 DEF Next

\* Whoever polls an audit in progress waits for a run that is there, unless a
\* crash or the slot timeout took it away: every exception ends in _fail (run).
THEOREM AuditsAreWorkedOn == Spec => []SomebodyWorks
  <1>1. Init => SomebodyWorks
    BY DEF Init, SomebodyWorks
  <1> QED BY <1>1, WorkKept, TypeCorrect, Invariance, PTL DEF Spec

-----------------------------------------------------------------------------
(* Delivery: the inductive invariant                                       *)

\* The user is not stamped for the day.
Open(u, d) == digest[u] # None => digest[u] < d

\* The digest has left and its stamp is to come.
Stamping(u, d) == tick.pc = "stamp" /\ tick.who = u /\ tick.now = d

\* Digests that have reached a mailbox and whose stamp was lost: only these come again.
Debts == {p \in Users \X Nat :
             /\ DailyMail(p[2]) \in mailed[p[1]]
             /\ Open(p[1], p[2])
             /\ ~Stamping(p[1], p[2])}

\* Every repeat and every debt is covered by a loss.
Covered(debts, repeats, losses) ==
    IsFiniteSet(debts) /\ repeats + Cardinality(debts) <= losses

DigestsInv ==
    /\ tick.pc = "stamp" =>
          tick.who \in Users /\ Open(tick.who, tick.now)
    /\ Covered(Debts, again.digest, lost)

\* What is an alert in a mailbox is recorded; what is still to be sent is not there.
AlertRows == {x \in Rows : x.kind = "alert"}
AlertsInv ==
    /\ \A u \in Users : mailed[u] \cap AlertRows \subseteq event[u]
    /\ tick.pc \in {"record", "mail"} =>
          /\ tick.who \in Users /\ tick.due \subseteq AlertRows
          /\ tick.due \cap mailed[tick.who] = {}
    /\ tick.pc = "mail" => tick.firing \in tick.due /\ tick.firing \in event[tick.who]
    /\ again.alert = 0

DeliveryInv == DeliveryTypeOK /\ DigestsInv /\ AlertsInv

-----------------------------------------------------------------------------
(* Rows, mails and debts                                                   *)

LEMMA MailsDiffer ==
    /\ \A d \in Nat : DailyMail(d) \in Mails \ Rows
    /\ \A d, e \in Nat : DailyMail(d) = DailyMail(e) => d = e
    /\ \A x \in Rows : \A d : x # DailyMail(d)
    /\ \A r \in Rules, a \in Nat : AlertRow(r, a) \in AlertRows
  BY DEF DailyMail, Mails, Rows, AlertRow, AlertRows

LEMMA CrossedRows ==
    ASSUME DeliveryTypeOK, NEW u \in Users
    PROVE  CrossedRow(u) \subseteq Rows \ AlertRows
  <1>1. Crossed(u) \in Stages \cup {0} /\ tick.now \in Nat
    BY DEF DeliveryTypeOK, Ticks, Crossed
  <1>2. Month(tick.now) \in {Month(d) : d \in Nat}
    BY <1>1
  <1> HIDE DEF Month
  <1> QED BY <1>1, <1>2 DEF CrossedRow, StageRow, Rows, AlertRows

LEMMA FewerDebts ==
    ASSUME NEW S, NEW T, NEW a \in Nat, NEW l \in Nat, NEW m \in Nat,
           Covered(S, a, l), T \subseteq S, l <= m
    PROVE  Covered(T, a, m)
  <1>1. IsFiniteSet(T) /\ Cardinality(T) <= Cardinality(S)
    BY FS_Subset DEF Covered
  <1>2. Cardinality(S) \in Nat /\ Cardinality(T) \in Nat
    BY <1>1, FS_CardinalityType DEF Covered
  <1> QED BY <1>1, <1>2 DEF Covered

LEMMA OneDebtMore ==
    ASSUME NEW S, NEW T, NEW p, NEW a \in Nat, NEW l \in Nat,
           Covered(S, a, l), T \subseteq S \cup {p}
    PROVE  Covered(T, a, l + 1)
  <1>1. IsFiniteSet(S \cup {p}) /\ Cardinality(S \cup {p}) <= Cardinality(S) + 1
        /\ Cardinality(S) \in Nat /\ Cardinality(S \cup {p}) \in Nat
    BY FS_AddElement, FS_CardinalityType DEF Covered
  <1>2. Covered(S \cup {p}, a, l + 1)
    BY <1>1 DEF Covered
  <1> QED BY <1>2, FewerDebts

LEMMA DebtIsRepeated ==
    ASSUME NEW S, NEW T, NEW p \in S, NEW a \in Nat, NEW l \in Nat,
           Covered(S, a, l), T \subseteq S \ {p}
    PROVE  Covered(T, a + 1, l)
  <1>1. IsFiniteSet(S \ {p}) /\ Cardinality(S \ {p}) = Cardinality(S) - 1
        /\ Cardinality(S) \in Nat /\ Cardinality(S \ {p}) \in Nat
    BY FS_RemoveElement, FS_CardinalityType DEF Covered
  <1>2. Covered(S \ {p}, a + 1, l)
    BY <1>1 DEF Covered
  <1> QED BY <1>2, FewerDebts

-----------------------------------------------------------------------------
(* Types                                                                   *)

LEMMA MailsKeepTypes ==
    ASSUME DeliveryTypeOK, NEW u \in Users, NEW from \in {"digest", "alert"},
           NEW what \in Mails, NEW more \in SUBSET Mails, Reaches(u, from, what, more)
    PROVE  mailed' \in [Users -> SUBSET Mails] /\ again' \in [digest : Nat, alert : Nat]
  BY DEF DeliveryTypeOK, Reaches

LEMMA TypesArePreserved ==
    ASSUME DeliveryTypeOK, AlertsInv, DigestsInv, [DeliveryNext]_deliveryVars
    PROVE  DeliveryTypeOK'
  <1>0. /\ tick \in Ticks /\ tick.todo \in SUBSET Users /\ tick.due \in SUBSET Rows
        /\ tick.now \in Nat /\ tick.who \in Users \cup {None}
    BY DEF DeliveryTypeOK, Ticks
  <1>1. CASE NextDay
    <2>1. clock' \in Nat
      BY <1>1 DEF NextDay, DeliveryTypeOK
    <2>2. level' \in Stages \cup {0}
      BY <1>1 DEF NextDay
    <2> QED BY <1>1, <2>1, <2>2 DEF NextDay, DeliveryTypeOK, history
  <1>2. CASE SpendOrLineMoves \/ AuditDone
    BY <1>2 DEF SpendOrLineMoves, AuditDone, DeliveryTypeOK, history
  <1>11. ASSUME NEW u \in Users, Toggle(u) PROVE DeliveryTypeOK'
    BY <1>11 DEF Toggle, DeliveryTypeOK, history
  <1>3. CASE TickBegins \/ ToAlerts \/ End \/ TickDies \/ StampLost
    <2>1. Idle \in Ticks
      BY DEF Idle, Ticks
    <2>2. tick' \in Ticks
      <3>1. CASE TickBegins
        <4>1. clock \in Nat /\ level \in Stages \cup {0}
          BY DEF DeliveryTypeOK
        <4> QED BY <2>1, <3>1, <4>1 DEF TickBegins, Ticks
      <3>2. CASE ToAlerts
        BY <1>0, <3>2 DEF ToAlerts, Ticks
      <3>3. CASE End \/ TickDies
        BY <2>1, <3>3 DEF End, TickDies
      <3>4. CASE StampLost
        BY <1>0, <3>4 DEF StampLost, Back, Ticks
      <3> QED BY <1>3, <3>1, <3>2, <3>3, <3>4
    <2>3. lost' \in Nat
      BY <1>3 DEF TickBegins, ToAlerts, End, TickDies, StampLost, LosesCommit, DeliveryTypeOK
    <2> QED BY <1>3, <2>2, <2>3
       DEF TickBegins, ToAlerts, End, TickDies, StampLost, DeliveryTypeOK, world, history
  <1>4. CASE StampDigest
    <2>1. tick.who \in Users
      BY <1>4 DEF StampDigest, DigestsInv
    <2>2. tick' \in Ticks
      BY <1>0, <1>4 DEF StampDigest, Back, Ticks
    <2>3. digest' \in [Users -> Nat \cup {None}] /\ event' \in [Users -> SUBSET Rows]
      BY <1>0, <1>4, <2>1 DEF StampDigest, DeliveryTypeOK
    <2> QED BY <1>4, <2>2, <2>3 DEF StampDigest, DeliveryTypeOK, world, history
  <1>5. ASSUME NEW u \in tick.todo, SkipDigest(u) \/ QuietDigest(u) PROVE DeliveryTypeOK'
    <2>1. tick' \in Ticks
      BY <1>0, <1>5 DEF SkipDigest, QuietDigest, Done, Ticks
    <2>2. digest' \in [Users -> Nat \cup {None}]
      BY <1>0, <1>5 DEF SkipDigest, QuietDigest, DeliveryTypeOK
    <2> QED BY <1>5, <2>1, <2>2 DEF SkipDigest, QuietDigest, DeliveryTypeOK, world, history
  <1>6. ASSUME NEW u \in tick.todo, SendDigest(u) PROVE DeliveryTypeOK'
    <2>1. u \in Users /\ CrossedRow(u) \in SUBSET Rows /\ CrossedRow(u) \in SUBSET Mails
          /\ DailyMail(tick.now) \in Mails
      BY <1>0, CrossedRows, MailsDiffer DEF Mails
    <2>2. /\ mailed' \in [Users -> SUBSET Mails] /\ again' \in [digest : Nat, alert : Nat]
          /\ fails' \in Nat
      <3>1. CASE Reaches(u, "digest", DailyMail(tick.now), CrossedRow(u))
        BY <2>1, <3>1, MailsKeepTypes DEF Reaches, DeliveryTypeOK
      <3>2. CASE Refused(u)
        BY <3>2 DEF Refused, history, DeliveryTypeOK
      <3> QED BY <1>6, <3>1, <3>2 DEF SendDigest
    <2>3. Done(u) \in Ticks
      BY <1>0 DEF Done, Ticks
    <2>4. tick' \in Ticks
      BY <1>6, <2>1, <2>3 DEF SendDigest, Ticks
    <2> QED BY <1>6, <2>2, <2>4 DEF SendDigest, DeliveryTypeOK, world
  <1>7. ASSUME NEW u \in tick.todo, NEW over \in SUBSET Rules, Evaluate(u, over)
        PROVE  DeliveryTypeOK'
    <2>1. {AlertRow(r, audit) : r \in over} \subseteq Rows
      BY MailsDiffer DEF DeliveryTypeOK, AlertRows
    <2>2. PICK due : due = {AlertRow(r, audit) : r \in over} \ event[u]
      OBVIOUS
    <2>3. tick' = IF due = {} THEN Done(u)
                  ELSE [Done(u) EXCEPT !.pc = "record", !.who = u, !.due = due]
      BY <1>7, <2>2 DEF Evaluate
    <2>4. Done(u) \in Ticks /\ u \in Users /\ due \in SUBSET Rows
      BY <1>0, <2>1, <2>2 DEF Done, Ticks
    <2>5. tick' \in Ticks
      BY <2>3, <2>4 DEF Ticks
    <2> QED BY <1>7, <2>5 DEF Evaluate, DeliveryTypeOK, world, history
  <1>8. ASSUME NEW x \in tick.due, Record(x) PROVE DeliveryTypeOK'
    <2>1. tick.who \in Users /\ x \in Rows
      BY <1>0, <1>8 DEF Record, AlertsInv
    <2>2. tick' \in Ticks
      BY <1>0, <1>8, <2>1 DEF Record, Ticks
    <2>3. event' \in [Users -> SUBSET Rows]
      BY <1>8, <2>1 DEF Record, DeliveryTypeOK
    <2> QED BY <1>8, <2>2, <2>3 DEF Record, DeliveryTypeOK, world, history
  <1>9. CASE SendAlert
    <2>1. tick.who \in Users /\ tick.firing \in Mails
      BY <1>0, <1>9 DEF SendAlert, AlertsInv, Mails
    <2>2. /\ mailed' \in [Users -> SUBSET Mails] /\ again' \in [digest : Nat, alert : Nat]
          /\ fails' \in Nat
      <3>1. CASE Reaches(tick.who, "alert", tick.firing, {})
        BY <2>1, <3>1, MailsKeepTypes DEF Reaches, DeliveryTypeOK
      <3>2. CASE Refused(tick.who)
        BY <3>2 DEF Refused, history, DeliveryTypeOK
      <3> QED BY <1>9, <3>1, <3>2 DEF SendAlert
    <2>3. NextUser \in Ticks
      BY <1>0 DEF NextUser, Ticks
    <2>4. [tick EXCEPT !.pc = "record", !.due = @ \ {tick.firing}, !.firing = None] \in Ticks
      BY <1>0 DEF Ticks
    <2>5. tick' \in Ticks
      BY <1>9, <2>3, <2>4 DEF SendAlert
    <2> QED BY <1>9, <2>2, <2>5 DEF SendAlert, DeliveryTypeOK, world
  <1>10. CASE UNCHANGED deliveryVars
    BY <1>10 DEF deliveryVars, DeliveryTypeOK, world, history
  <1> QED BY <1>1, <1>2, <1>3, <1>4, <1>5, <1>6, <1>7, <1>8, <1>9, <1>10, <1>11
     DEF DeliveryNext, TickSteps

-----------------------------------------------------------------------------
(* Digests                                                                 *)

\* Steps that send no digest and stamp none
LEMMA OtherStepsOwe ==
    ASSUME DeliveryTypeOK, DigestsInv,
           digest' = digest, again.digest' = again.digest, lost' = lost,
           \A u \in Users, d \in Nat : DailyMail(d) \in mailed'[u] => DailyMail(d) \in mailed[u],
           tick.pc = "stamp" => tick' = tick,
           tick.pc # "stamp" => tick'.pc # "stamp"
    PROVE  DigestsInv'
  <1>1. Debts' \subseteq Debts
    BY DEF Debts, Open, Stamping
  <1>2. Covered(Debts', again.digest, lost)
    BY <1>1, FewerDebts DEF DigestsInv, DeliveryTypeOK
  <1>3. (tick.pc = "stamp" => tick.who \in Users /\ Open(tick.who, tick.now))'
    BY DEF DigestsInv, Open
  <1>4. again'.digest = again.digest /\ lost' = lost
    OBVIOUS
  <1> QED BY <1>2, <1>3, <1>4 DEF DigestsInv

\* A day without a mail is stamped: it pays what was owed of days before.
LEMMA QuietDaysPay ==
    ASSUME DeliveryTypeOK, DigestsInv, NEW u \in Users, QuietDigest(u)
    PROVE  DigestsInv'
  <1>1. /\ digest' = [digest EXCEPT ![u] = tick.now] /\ tick.pc = "digests" /\ tick'.pc = "digests"
        /\ mailed' = mailed /\ again' = again /\ lost' = lost /\ Open(u, tick.now)
        /\ tick.now \in Nat
    BY DEF QuietDigest, Turn, Wants, Open, Done, history, DeliveryTypeOK, Ticks
  <1>2. \A v \in Users, d \in Nat : Open(v, d)' => Open(v, d)
    <2> SUFFICES ASSUME NEW v \in Users, NEW d \in Nat, Open(v, d)' PROVE Open(v, d)
      OBVIOUS
    <2>1. CASE v = u
      BY <1>1, <2>1, DeliveryAssumption DEF Open, DeliveryTypeOK
    <2>2. CASE v # u
      BY <1>1, <2>2 DEF Open, DeliveryTypeOK
    <2> QED BY <2>1, <2>2
  <1>3. Debts' \subseteq Debts
    BY <1>1, <1>2 DEF Debts, Stamping
  <1>4. Covered(Debts', again.digest, lost)
    BY <1>3, FewerDebts DEF DigestsInv, DeliveryTypeOK
  <1> QED BY <1>1, <1>4 DEF DigestsInv

\* A digest that comes again was owed.
LEMMA SentDigestsOwe ==
    ASSUME DeliveryTypeOK, DigestsInv, NEW u \in Users, SendDigest(u)
    PROVE  DigestsInv'
  <1>1. /\ tick.pc = "digests" /\ tick.now \in Nat /\ Open(u, tick.now)
        /\ digest' = digest /\ lost' = lost
    BY DEF SendDigest, Turn, Wants, Open, DeliveryTypeOK, Ticks
  <1>2. CASE Refused(u) /\ tick' = Done(u)
    BY <1>1, <1>2, OtherStepsOwe DEF Refused, Done, history
  <1>3. ASSUME Reaches(u, "digest", DailyMail(tick.now), CrossedRow(u)),
               tick' = [Done(u) EXCEPT !.pc = "stamp", !.who = u, !.due = CrossedRow(u)]
        PROVE  DigestsInv'
    <2>1. tick'.pc = "stamp" /\ tick'.who = u /\ tick'.now = tick.now
      BY <1>3 DEF Done, DeliveryTypeOK, Ticks
    <2>2. CrossedRow(u) \subseteq Rows
      BY CrossedRows
    <2>3. \A v \in Users, d \in Nat : DailyMail(d) \in mailed'[v] =>
              DailyMail(d) \in mailed[v] \/ (v = u /\ d = tick.now)
      BY <1>1, <1>3, <2>2, MailsDiffer DEF Reaches, DeliveryTypeOK
    <2>4. Debts' \subseteq Debts \ {<<u, tick.now>>}
      <3> SUFFICES ASSUME NEW v \in Users, NEW d \in Nat, <<v, d>> \in Debts'
                   PROVE  <<v, d>> \in Debts /\ <<v, d>> # <<u, tick.now>>
        BY DEF Debts
      <3>1. DailyMail(d) \in mailed'[v] /\ Open(v, d)' /\ ~(v = u /\ d = tick.now)
        BY <2>1 DEF Debts, Stamping
      <3>2. DailyMail(d) \in mailed[v] /\ Open(v, d)
        BY <1>1, <2>3, <3>1 DEF Open
      <3> QED BY <1>1, <3>1, <3>2 DEF Debts, Stamping
    <2>5. CASE DailyMail(tick.now) \in mailed[u]
      <3>1. <<u, tick.now>> \in Debts
        BY <1>1, <2>5 DEF Debts, Stamping
      <3>2. again'.digest = again.digest + 1
        BY <1>3, <2>5 DEF Reaches, DeliveryTypeOK
      <3>3. Covered(Debts', again.digest + 1, lost)
        BY <2>4, <3>1, DebtIsRepeated DEF DigestsInv, DeliveryTypeOK
      <3> QED BY <1>1, <2>1, <3>2, <3>3 DEF DigestsInv, Open
    <2>6. CASE DailyMail(tick.now) \notin mailed[u]
      <3>1. again' = again
        BY <1>3, <2>6 DEF Reaches
      <3>2. Covered(Debts', again.digest, lost)
        BY <2>4, FewerDebts DEF DigestsInv, DeliveryTypeOK
      <3> QED BY <1>1, <2>1, <3>1, <3>2 DEF DigestsInv, Open
    <2> QED BY <2>5, <2>6
  <1> QED BY <1>2, <1>3 DEF SendDigest

LEMMA StampsPay ==
    ASSUME DeliveryTypeOK, DigestsInv, StampDigest
    PROVE  DigestsInv'
  <1>1. PICK u, n : u = tick.who /\ n = tick.now
    OBVIOUS
  <1>2. /\ u \in Users /\ n \in Nat /\ Open(u, n) /\ digest' = [digest EXCEPT ![u] = n]
        /\ tick'.pc = "digests" /\ mailed' = mailed /\ again' = again /\ lost' = lost
    BY <1>1 DEF StampDigest, DigestsInv, Back, history, DeliveryTypeOK, Ticks
  <1>3. \A v \in Users, d \in Nat : Open(v, d)' => Open(v, d) /\ ~(v = u /\ d = n)
    <2> SUFFICES ASSUME NEW v \in Users, NEW d \in Nat, Open(v, d)'
                 PROVE  Open(v, d) /\ ~(v = u /\ d = n)
      OBVIOUS
    <2>1. CASE v = u
      <3>1. digest'[u] = n /\ n # None
        BY <1>2, DeliveryAssumption DEF DeliveryTypeOK
      <3> QED BY <1>2, <2>1, <3>1 DEF Open, DeliveryTypeOK
    <2>2. CASE v # u
      BY <1>2, <2>2 DEF Open, DeliveryTypeOK
    <2> QED BY <2>1, <2>2
  <1>4. Debts' \subseteq Debts
    BY <1>1, <1>2, <1>3 DEF Debts, Stamping
  <1>5. Covered(Debts', again.digest, lost)
    BY <1>4, FewerDebts DEF DigestsInv, DeliveryTypeOK
  <1> QED BY <1>2, <1>5 DEF DigestsInv

\* A lost stamp leaves one digest owed.
LEMMA LossesOwe ==
    ASSUME DeliveryTypeOK, DigestsInv, StampLost \/ TickDies
    PROVE  DigestsInv'
  <1>1. PICK p : p = <<tick.who, tick.now>>
    OBVIOUS
  <1>2. /\ tick'.pc # "stamp" /\ digest' = digest /\ mailed' = mailed /\ again' = again
        /\ lost' = lost + 1
    <2>1. tick \in Ticks
      BY DEF DeliveryTypeOK
    <2>2. CASE StampLost
      BY <2>1, <2>2 DEF StampLost, LosesCommit, Back, history, Ticks
    <2>3. CASE TickDies
      BY <2>3 DEF TickDies, LosesCommit, Idle, history
    <2> QED BY <2>2, <2>3
  <1>3. Debts' \subseteq Debts \cup {p}
    BY <1>1, <1>2 DEF Debts, Stamping, Open
  <1>4. Covered(Debts', again.digest, lost + 1)
    BY <1>3, OneDebtMore DEF DigestsInv, DeliveryTypeOK
  <1> QED BY <1>2, <1>4 DEF DigestsInv

LEMMA DigestsArePreserved ==
    ASSUME DeliveryTypeOK, AlertsInv, DigestsInv, [DeliveryNext]_deliveryVars
    PROVE  DigestsInv'
  <1>1. CASE NextDay \/ SpendOrLineMoves \/ AuditDone \/ \E u \in Users : Toggle(u)
    BY <1>1, OtherStepsOwe DEF NextDay, SpendOrLineMoves, AuditDone, Toggle, history
  <1>2. CASE TickBegins \/ ToAlerts \/ End
    <2>1. tick.pc # "stamp" /\ tick'.pc # "stamp"
      <3>1. CASE TickBegins
        <4>1. tick'.pc = "digests"
          BY <3>1 DEF TickBegins, Idle
        <4> QED BY <3>1, <4>1 DEF TickBegins
      <3>3. CASE End
        BY <3>3 DEF End, Idle
      <3>2. CASE ToAlerts
        BY <3>2 DEF ToAlerts, DeliveryTypeOK, Ticks
      <3> QED BY <1>2, <3>1, <3>2, <3>3
    <2> QED BY <1>2, <2>1, OtherStepsOwe DEF TickBegins, ToAlerts, End, world, history
  <1>3. ASSUME NEW u \in tick.todo, SkipDigest(u) \/ QuietDigest(u) \/ SendDigest(u)
        PROVE  DigestsInv'
    <2>1. u \in Users
      BY DEF DeliveryTypeOK, Ticks
    <2>2. CASE SkipDigest(u)
      <3>1. tick.pc # "stamp" /\ tick'.pc # "stamp"
        BY <2>2 DEF SkipDigest, Turn, Done, DeliveryTypeOK, Ticks
      <3> QED BY <2>2, <3>1, OtherStepsOwe DEF SkipDigest, history
    <2> QED BY <1>3, <2>1, <2>2, QuietDaysPay, SentDigestsOwe
  <1>4. ASSUME NEW u \in tick.todo, NEW over \in SUBSET Rules, Evaluate(u, over)
        PROVE  DigestsInv'
    <2>1. tick.pc # "stamp" /\ tick'.pc # "stamp"
      BY <1>4 DEF Evaluate, Done, DeliveryTypeOK, Ticks
    <2> QED BY <1>4, <2>1, OtherStepsOwe DEF Evaluate, history
  <1>5. ASSUME NEW x \in tick.due, Record(x) PROVE DigestsInv'
    <2>1. tick.pc # "stamp" /\ tick'.pc # "stamp"
      BY <1>5 DEF Record, DeliveryTypeOK, Ticks
    <2> QED BY <1>5, <2>1, OtherStepsOwe DEF Record, history
  <1>6. CASE SendAlert
    <2>1. tick.pc # "stamp" /\ tick'.pc # "stamp"
      BY <1>6 DEF SendAlert, NextUser, DeliveryTypeOK, Ticks
    <2>2. tick.who \in Users /\ tick.firing \in Rows
      BY <1>6 DEF SendAlert, AlertsInv, AlertRows
    <2>3. \A u \in Users, d \in Nat : DailyMail(d) \in mailed'[u] => DailyMail(d) \in mailed[u]
      BY <1>6, <2>2, MailsDiffer DEF SendAlert, Reaches, Refused, history, DeliveryTypeOK
    <2>4. again'.digest = again.digest
      BY <1>6 DEF SendAlert, Reaches, Refused, history, DeliveryTypeOK
    <2> QED BY <1>6, <2>1, <2>3, <2>4, OtherStepsOwe DEF SendAlert
  <1>7. CASE UNCHANGED deliveryVars
    BY <1>7, OtherStepsOwe DEF deliveryVars, history
  <1> QED BY <1>1, <1>2, <1>3, <1>4, <1>5, <1>6, <1>7, StampsPay, LossesOwe
     DEF DeliveryNext, TickSteps

-----------------------------------------------------------------------------
(* Alerts                                                                  *)

\* Steps that record and send no alert
LEMMA OtherStepsAlertNobody ==
    ASSUME DeliveryTypeOK, AlertsInv,
           \A u \in Users : event[u] \subseteq event'[u]
               /\ mailed'[u] \cap AlertRows \subseteq mailed[u],
           again'.alert = again.alert,
           (tick' = tick /\ mailed' = mailed) \/ tick'.pc \notin {"record", "mail"}
    PROVE  AlertsInv'
  BY DEF AlertsInv

LEMMA AlertsArePreserved ==
    ASSUME DeliveryTypeOK, AlertsInv, DigestsInv, [DeliveryNext]_deliveryVars
    PROVE  AlertsInv'
  <1>1. CASE NextDay \/ SpendOrLineMoves \/ AuditDone \/ \E u \in Users : Toggle(u)
    BY <1>1, OtherStepsAlertNobody DEF NextDay, SpendOrLineMoves, AuditDone, Toggle, history
  <1>2. CASE TickBegins \/ ToAlerts \/ End \/ TickDies \/ StampLost
    <2>1. Idle.pc = "idle" /\ [Idle EXCEPT !.pc = "digests", !.now = clock, !.level = level,
                                            !.todo = Users].pc = "digests"
      BY DEF Idle
    <2>2. [tick EXCEPT !.pc = "alerts", !.todo = Users, !.level = 0].pc = "alerts"
          /\ Back.pc = "digests"
      BY DEF Back, DeliveryTypeOK, Ticks
    <2>3. tick'.pc \notin {"record", "mail"}
      BY <1>2, <2>1, <2>2 DEF TickBegins, ToAlerts, End, TickDies, StampLost
    <2>4. event' = event /\ mailed' = mailed /\ again' = again
      BY <1>2 DEF TickBegins, ToAlerts, End, TickDies, StampLost, history
    <2> QED BY <2>3, <2>4, OtherStepsAlertNobody DEF AlertsInv
  <1>3. CASE StampDigest
    <2>1. tick.who \in Users
      BY <1>3 DEF StampDigest, DigestsInv
    <2>2. tick'.pc \notin {"record", "mail"}
      BY <1>3 DEF StampDigest, Back, DeliveryTypeOK, Ticks
    <2>3. mailed' = mailed /\ again' = again /\ \A u \in Users : event[u] \subseteq event'[u]
      BY <1>3, <2>1 DEF StampDigest, history, DeliveryTypeOK
    <2> QED BY <2>2, <2>3, OtherStepsAlertNobody DEF AlertsInv
  <1>4. ASSUME NEW u \in tick.todo, SkipDigest(u) \/ QuietDigest(u) PROVE AlertsInv'
    <2>1. tick'.pc \notin {"record", "mail"}
      BY <1>4 DEF SkipDigest, QuietDigest, Turn, Done, DeliveryTypeOK, Ticks
    <2>2. event' = event /\ mailed' = mailed /\ again' = again
      BY <1>4 DEF SkipDigest, QuietDigest, history
    <2> QED BY <2>1, <2>2, OtherStepsAlertNobody DEF AlertsInv
  <1>5. ASSUME NEW u \in tick.todo, SendDigest(u) PROVE AlertsInv'
    <2>1. u \in Users /\ tick.now \in Nat
      BY DEF DeliveryTypeOK, Ticks
    <2>2. CrossedRow(u) \cap AlertRows = {} /\ DailyMail(tick.now) \notin AlertRows
      BY <2>1, CrossedRows, MailsDiffer DEF AlertRows
    <2>3. \A v \in Users : mailed'[v] \cap AlertRows \subseteq mailed[v]
      <3>1. CASE Reaches(u, "digest", DailyMail(tick.now), CrossedRow(u))
        BY <2>1, <2>2, <3>1 DEF Reaches, DeliveryTypeOK
      <3>2. CASE Refused(u)
        BY <3>2 DEF Refused, history
      <3> QED BY <1>5, <3>1, <3>2 DEF SendDigest
    <2>4. again'.alert = again.alert /\ event' = event
      BY <1>5 DEF SendDigest, Reaches, Refused, history, DeliveryTypeOK
    <2>5. tick'.pc \notin {"record", "mail"}
      BY <1>5 DEF SendDigest, Turn, Done, DeliveryTypeOK, Ticks
    <2> QED BY <2>3, <2>4, <2>5, OtherStepsAlertNobody DEF AlertsInv
  <1>6. ASSUME NEW u \in tick.todo, NEW over \in SUBSET Rules, Evaluate(u, over)
        PROVE  AlertsInv'
    <2>1. PICK due : due = {AlertRow(r, audit) : r \in over} \ event[u]
      OBVIOUS
    <2>2. due \subseteq AlertRows /\ u \in Users /\ due \cap mailed[u] = {}
      BY <2>1, MailsDiffer DEF DeliveryTypeOK, Ticks, AlertsInv
    <2>3. tick' = IF due = {} THEN Done(u)
                  ELSE [Done(u) EXCEPT !.pc = "record", !.who = u, !.due = due]
      BY <1>6, <2>1 DEF Evaluate
    <2>4. tick.pc = "alerts" /\ event' = event /\ mailed' = mailed /\ again' = again
      BY <1>6 DEF Evaluate, history
    <2>5. CASE due = {}
      <3>1. tick'.pc = "alerts"
        BY <2>3, <2>4, <2>5 DEF Done, DeliveryTypeOK, Ticks
      <3> QED BY <2>4, <3>1, OtherStepsAlertNobody DEF AlertsInv
    <2>6. CASE due # {}
      <3>1. tick'.pc = "record" /\ tick'.who = u /\ tick'.due = due
        BY <2>3, <2>6 DEF Done, DeliveryTypeOK, Ticks
      <3> QED BY <2>2, <2>4, <3>1 DEF AlertsInv
    <2> QED BY <2>5, <2>6
  <1>7. ASSUME NEW x \in tick.due, Record(x) PROVE AlertsInv'
    <2>1. /\ tick'.pc = "mail" /\ tick'.who = tick.who /\ tick'.due = tick.due
          /\ tick'.firing = x /\ mailed' = mailed /\ again' = again /\ tick.pc = "record"
      BY <1>7 DEF Record, history, DeliveryTypeOK, Ticks
    <2>2. tick.who \in Users
      BY <2>1 DEF AlertsInv
    <2>3. /\ \A u \in Users : event[u] \subseteq event'[u]
          /\ x \in event'[tick.who]
      BY <1>7, <2>2 DEF Record, DeliveryTypeOK
    <2> QED BY <2>1, <2>2, <2>3 DEF AlertsInv
  <1>8. CASE SendAlert
    <2>1. PICK w, x : w = tick.who /\ x = tick.firing
      OBVIOUS
    <2>2. /\ w \in Users /\ x \in tick.due /\ x \in event[w] /\ x \notin mailed[w]
          /\ x \in AlertRows /\ tick.pc = "mail"
      BY <1>8, <2>1 DEF SendAlert, AlertsInv
    <2>3. event' = event
      BY <1>8 DEF SendAlert
    <2>4. CASE Refused(w) /\ tick' = NextUser
      <3>1. tick'.pc = "alerts"
        BY <2>4 DEF NextUser, DeliveryTypeOK, Ticks
      <3> QED BY <2>3, <2>4, <3>1, OtherStepsAlertNobody DEF Refused, history, AlertsInv
    <2>5. ASSUME Reaches(w, "alert", x, {}),
                 tick' = IF tick.due = {x} THEN NextUser
                         ELSE [tick EXCEPT !.pc = "record", !.due = @ \ {x}, !.firing = None]
          PROVE  AlertsInv'
      <3>1. again' = again /\ mailed' = [mailed EXCEPT ![w] = @ \cup {x}]
        BY <2>2, <2>5 DEF Reaches
      <3>2. \A u \in Users : mailed'[u] \cap AlertRows \subseteq event'[u]
        BY <2>2, <2>3, <3>1 DEF AlertsInv, DeliveryTypeOK
      <3>3. CASE tick.due = {x}
        <4>1. tick'.pc = "alerts"
          BY <2>5, <3>3 DEF NextUser, DeliveryTypeOK, Ticks
        <4> QED BY <3>1, <3>2, <4>1 DEF AlertsInv
      <3>4. CASE tick.due # {x}
        <4>1. tick'.pc = "record" /\ tick'.who = w /\ tick'.due = tick.due \ {x}
          BY <2>1, <2>5, <3>4 DEF DeliveryTypeOK, Ticks
        <4>2. tick.due \subseteq AlertRows /\ tick.due \cap mailed[w] = {}
          BY <2>1, <2>2 DEF AlertsInv
        <4>3. mailed'[w] = mailed[w] \cup {x}
          BY <2>2, <3>1 DEF DeliveryTypeOK
        <4> QED BY <2>2, <3>1, <3>2, <4>1, <4>2, <4>3 DEF AlertsInv
      <3> QED BY <3>3, <3>4
    <2> QED BY <1>8, <2>1, <2>4, <2>5 DEF SendAlert
  <1>9. CASE UNCHANGED deliveryVars
    BY <1>9, OtherStepsAlertNobody DEF deliveryVars, history
  <1> QED BY <1>1, <1>2, <1>3, <1>4, <1>5, <1>6, <1>7, <1>8, <1>9 DEF DeliveryNext, TickSteps

-----------------------------------------------------------------------------
LEMMA DeliveryStarts == DeliveryInit => DeliveryInv
  <1> SUFFICES ASSUME DeliveryInit PROVE DeliveryInv
    OBVIOUS
  <1>1. DeliveryTypeOK
    BY DeliveryAssumption DEF DeliveryInit, DeliveryTypeOK, Idle, Ticks
  <1>2. Debts = {} /\ tick.pc = "idle"
    BY DEF DeliveryInit, Debts, Idle
  <1>3. Covered({}, 0, 0)
    BY FS_EmptySet DEF Covered
  <1>4. DigestsInv
    BY <1>2, <1>3 DEF DeliveryInit, DigestsInv
  <1>5. AlertsInv
    BY <1>2 DEF DeliveryInit, AlertsInv
  <1> QED BY <1>1, <1>4, <1>5 DEF DeliveryInv

LEMMA DeliverySteps == DeliveryInv /\ [DeliveryNext]_deliveryVars => DeliveryInv'
  BY TypesArePreserved, DigestsArePreserved, AlertsArePreserved DEF DeliveryInv

\* Nobody gets a digest twice but for a stamp that was lost after the mail had left, and
\* no alert twice at all, for any members, rules, months and failures (run_digests,
\* run_for_user).
THEOREM MembersAreToldOnce == DeliverySpec => []ToldOnce
  <1>1. DeliveryInv => ToldOnce
    <2> SUFFICES ASSUME DeliveryInv PROVE again.digest <= lost /\ again.alert = 0
      BY DEF ToldOnce
    <2>1. Cardinality(Debts) \in Nat /\ again.digest \in Nat /\ lost \in Nat
      BY FS_CardinalityType DEF DeliveryInv, DigestsInv, Covered, DeliveryTypeOK
    <2> QED BY <2>1 DEF DeliveryInv, DigestsInv, Covered, AlertsInv
  <1> QED BY <1>1, DeliveryStarts, DeliverySteps, PTL DEF DeliverySpec
=============================================================================
