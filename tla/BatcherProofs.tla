--------------------------- MODULE BatcherProofs ----------------------------
(***************************************************************************)
(* Proofs about Batcher.tla, for every number of records and inits and     *)
(* every batch and queue size.  The inductive invariant IInv says what the *)
(* threads hold between their steps; two threads may drain one queue and   *)
(* count into one counter, and the counters are compared with the records  *)
(* whose batches have been counted (Pending excludes the others).          *)
(***************************************************************************)
EXTENDS Batcher, FiniteSetTheorems, TLAPS

-----------------------------------------------------------------------------
(* The inductive invariant *)

Busy == {"post", "count", "store"}

\* What a thread holds at each of its steps.
Holding ==
    \A t \in Threads :
        /\ thread[t].batch # {} => thread[t].pc \in Busy
        /\ thread[t].pc \in Busy \cup {"drain"} => thread[t].b \in Batchers
        /\ t \in Batchers => thread[t].b = t /\ thread[t].pc # "idle"
        /\ thread[t].pc = "post" => \A r \in thread[t].batch : fate[r] = "none"
        /\ thread[t].pc \in {"count", "store"} =>
              \E o \in {"acked", "failed"} : \A r \in thread[t].batch : fate[r] = o
        /\ \A r \in thread[t].batch : call[r].b = thread[t].b

\* A record is received only by its POST.
Posted ==
    \A r \in Records : posts[r] <= 1 /\ (fate[r] = "none" => posts[r] = 0)

\* A call past its first step knows its batcher.
Called ==
    \A r \in Records :
        call[r].pc \in {"called", "open", "shedding", "shed", "queued"} => call[r].b \in Batchers

\* Records posted and not yet counted.
Pending ==
    {r \in Records : \E t \in Threads :
        r \in thread[t].batch /\ thread[t].pc \in {"count", "store"}}

\* What has been counted of each batcher's records, and which threads will
\* count their batch as shipped.
Shipping == [b \in Batchers |-> Cardinality(Delivered(b) \ Pending)]
Losing == [b \in Batchers |-> Cardinality(Lost(b) \ Pending)]
Ackers == {t \in Threads : Acked(t)}

\* The counters, and the copies of them that somebody is about to write back,
\* are at most what has been counted.
Counted ==
    /\ \A b \in Batchers : shipped[b] <= Shipping[b] /\ dropped[b] <= Losing[b]
    /\ \A t \in Threads : thread[t].pc = "store" =>
          thread[t].n <= IF t \in Ackers THEN Shipping[thread[t].b]
                                         ELSE Losing[thread[t].b]
    /\ \A r \in Records : call[r].pc = "shedding" => call[r].n <= Losing[call[r].b]

\* Only the current batcher is open; a main thread that retires one has
\* closed it, and only main's own steps let it do so.
Open ==
    /\ \A b \in Batchers : thread[b].pc # "unborn" /\ ~closed[b] => b = current
    /\ thread[Main].task \in {"init", "close", "exit"} =>
          current \in Batchers /\ closed[current]
    /\ thread[Main].pc = "idle" => thread[Main].task = "none"

IInv ==
    /\ TypeOK /\ NothingVanishes /\ Holding /\ Posted /\ Called /\ Counted /\ Open

-----------------------------------------------------------------------------
(* Type correctness *)

\* A type of the parts that Cardinality does not appear in.
Types ==
    /\ current \in Batchers \cup {NoBatcher}
    /\ closed \in [Batchers -> BOOLEAN]
    /\ queue \in [Batchers -> SUBSET Records]
    /\ dropped \in [Batchers -> Nat]
    /\ shipped \in [Batchers -> Nat]
    /\ call \in [Records -> Calling]
    /\ thread \in [Threads -> Thread]
    /\ posts \in [Records -> 0 .. 2]
    /\ fate \in [Records -> Outcomes]

LEMMA Finite ==
    ASSUME NEW S \in SUBSET Records
    PROVE  IsFiniteSet(S) /\ Cardinality(S) \in Nat
  BY BatcherAssumption, FS_Subset, FS_CardinalityType

LEMMA Numbers == Threads = Batchers \cup {Main} /\ Main \notin Batchers
  BY BatcherAssumption DEF Threads, Batchers, Main

\* What a POST does to its batch and to its thread, whatever comes of it.
LEMMA Posting ==
    ASSUME Types, NEW t \in Threads, Post(t) \/ PostRaises(t)
    PROVE  /\ thread[t].pc = "post"
           /\ \E o \in {"acked", "failed", "raised"} :
                 /\ \A r \in thread[t].batch : fate'[r] = o
                 /\ Post(t) => o # "raised"
                 /\ PostRaises(t) => o = "raised"
           /\ \A r \in Records \ thread[t].batch : fate'[r] = fate[r] /\ posts'[r] = posts[r]
           /\ \A r \in Records : posts'[r] \in {posts[r], posts[r] + 1} /\ posts'[r] <= 2
           /\ fate' \in [Records -> Outcomes] /\ posts' \in [Records -> 0 .. 2]
           /\ UNCHANGED <<current, closed, queue, dropped, shipped, call>>
           /\ \A u \in Threads \ {t} : thread'[u] = thread[u]
           /\ thread'[t].b = thread[t].b
           /\ Post(t) => /\ thread'[t].pc = "count" /\ thread'[t].batch = thread[t].batch
                         /\ thread'[t].task = thread[t].task
           /\ PostRaises(t) => /\ thread'[t].pc = IF t = Main /\ thread[t].task # "exit"
                                                  THEN "idle" ELSE "over"
                               /\ thread'[t].batch = {}
                               /\ thread'[t].task = "none"
<1>1. PICK o \in {"acked", "failed", "raised"} :
         /\ Decided(t, o)
         /\ Post(t) => o # "raised"
         /\ PostRaises(t) => o = "raised"
  <2>1. ~(Post(t) /\ PostRaises(t))
    <3>1. Post(t) => thread'[t].pc = "count"
      BY DEF Post, Go, Types, Thread
    <3>2. PostRaises(t) => thread'[t].pc # "count"
      BY DEF PostRaises, Types, Thread
    <3> QED
      BY <3>1, <3>2
  <2> QED
    BY <2>1 DEF Post, PostRaises
<1>2. thread[t].batch \in SUBSET Records
  BY DEF Types, Thread
<1>3. /\ \A r \in thread[t].batch : fate'[r] = o
      /\ \A r \in Records \ thread[t].batch : fate'[r] = fate[r]
      /\ fate' \in [Records -> Outcomes]
  BY <1>1, <1>2 DEF Decided, Types, Outcomes
<1>4. Received(t)
  BY DEF Post, PostRaises
<1>5. /\ \A r \in Records \ thread[t].batch : posts'[r] = posts[r]
      /\ \A r \in Records : posts'[r] \in {posts[r], posts[r] + 1} /\ posts'[r] <= 2
      /\ posts' \in [Records -> 0 .. 2]
  <2>1. CASE UNCHANGED posts
    BY <2>1 DEF Types
  <2>2. CASE posts' = [r \in Records |->
                         IF r \in thread[t].batch /\ posts[r] < 2 THEN posts[r] + 1 ELSE posts[r]]
    BY <2>2 DEF Types
  <2> QED
    BY <1>4, <2>1, <2>2 DEF Received
<1>6. CASE Post(t)
  BY <1>1, <1>3, <1>5, <1>6 DEF Post, Go, Types, Thread
<1>7. CASE PostRaises(t)
  BY <1>1, <1>3, <1>5, <1>7 DEF PostRaises, Types, Thread
<1> QED
  BY <1>6, <1>7

LEMMA Limits == BatchSize \in Nat /\ MaxQueue \in Nat /\ MaxQueue >= 1
  BY BatcherAssumption

LEMMA TypesInit == Init => Types
<1> USE BatcherAssumption, Numbers DEF Init, Types
<1>1. ASSUME Init PROVE thread \in [Threads -> Thread]
  BY <1>1 DEF Thread, Pcs, Tasks, Main, NoBatcher
<1>2. ASSUME Init PROVE call \in [Records -> Calling]
  BY <1>2 DEF Calling
<1> QED
  BY <1>1, <1>2 DEF Outcomes

LEMMA CallTypes ==
    ASSUME Types, Called, NEW r \in Records, RecordStep(r) \/ Call(r)
    PROVE  Types'
<1> USE BatcherAssumption DEF Types, Called
<1>1. CASE Take(r)
  <2>1. \A pc \in {"ignored", "called"} :
           [call[r] EXCEPT !.pc = pc, !.b = current] \in Calling
    BY DEF Calling
  <2> QED
    BY <1>1, <2>1 DEF Take
<1>2. CASE Call(r) \/ CheckClosed(r)
  BY <1>2 DEF Call, CheckClosed, Calling
<1>3. CASE Append(r)
  BY <1>3 DEF Append, Calling
<1>4. CASE Shed(r)
  <2>1. \A n \in Nat : [call[r] EXCEPT !.pc = "shedding", !.n = n] \in Calling
    BY DEF Calling
  <2> QED
    BY <1>4, <2>1 DEF Shed
<1>5. CASE CountShed(r)
  <2>1. [call[r] EXCEPT !.pc = "shed", !.n = 0] \in Calling /\ call[r].n \in Nat
    BY DEF Calling
  <2> QED
    BY <1>5, <2>1 DEF CountShed
<1> QED
  BY <1>1, <1>2, <1>3, <1>4, <1>5 DEF RecordStep

\* The steps that the flushers and the main thread share.
LEMMA ThreadTypes ==
    ASSUME Types, Holding, NEW t \in Threads, ThreadStep(t)
    PROVE  Types'
<1> USE BatcherAssumption DEF Types
<1>1. CASE Drain(t)
  <2>1. \A S \in SUBSET Records :
           [thread[t] EXCEPT !.pc = "post", !.batch = S] \in Thread
    BY DEF Thread, Pcs
  <2>2. \A S \in Drained(thread[t].b) : S \in SUBSET queue[thread[t].b]
    BY DEF Drained
  <2>3. thread[t].b \in Batchers
    BY <1>1 DEF Holding, Drain
  <2>4. \A S \in SUBSET Records : queue[thread[t].b] \ S \in SUBSET Records
    BY <2>3
  <2>5. PICK S \in Drained(thread[t].b) :
           /\ queue' = [queue EXCEPT ![thread[t].b] = @ \ S]
           /\ thread' = [thread EXCEPT ![t] = [@ EXCEPT !.pc = "post", !.batch = S]]
    BY <1>1 DEF Drain
  <2>6. S \in SUBSET Records
    BY <2>2, <2>3
  <2>7. queue' \in [Batchers -> SUBSET Records]
    BY <2>3, <2>4, <2>5, <2>6
  <2>8. thread' \in [Threads -> Thread]
    BY <2>1, <2>5, <2>6
  <2> QED
    BY <1>1, <2>7, <2>8 DEF Drain
<1>2. CASE Post(t)
  <2>1. [thread[t] EXCEPT !.pc = "count"] \in Thread
    BY DEF Thread, Pcs
  <2>2. thread' \in [Threads -> Thread]
    BY <1>2, <2>1 DEF Post, Go
  <2> QED
    BY <1>2, <2>2, Posting
<1>3. CASE ReadCounter(t)
  <2>1. \A n \in Nat : [thread[t] EXCEPT !.pc = "store", !.n = n] \in Thread
    BY DEF Thread, Pcs
  <2>2. thread[t].b \in Batchers
    BY <1>3 DEF Holding, ReadCounter, Busy
  <2> QED
    BY <1>3, <2>1, <2>2 DEF ReadCounter
<1>4. CASE StoreCounter(t)
  <2>1. [thread[t] EXCEPT !.pc = "drain", !.batch = {}, !.n = 0] \in Thread
    BY DEF Thread, Pcs
  <2>2. thread[t].n + Cardinality(thread[t].batch) \in Nat
    BY Finite DEF Thread
  <2> QED
    BY <1>4, <2>1, <2>2 DEF StoreCounter
<1>5. CASE PostRaises(t)
  <2>1. \A pc \in Pcs :
           [thread[t] EXCEPT !.pc = pc, !.task = "none", !.batch = {}] \in Thread
    BY DEF Thread, Tasks
  <2>2. thread' \in [Threads -> Thread]
    BY <1>5, <2>1 DEF PostRaises, Pcs
  <2> QED
    BY <1>5, <2>2, Posting
<1> QED
  BY <1>1, <1>2, <1>3, <1>4, <1>5 DEF ThreadStep

LEMMA FlusherTypes ==
    ASSUME Types, NEW b \in Batchers, CheckLoop(b) \/ Wake(b) \/ DrainEmpty(b)
    PROVE  Types'
<1> USE DEF Types
<1>1. b \in Threads
  BY Numbers
<1>2. \A pc \in Pcs : [thread[b] EXCEPT !.pc = pc] \in Thread
  BY <1>1 DEF Thread
<1> QED
  BY <1>1, <1>2 DEF CheckLoop, Wake, DrainEmpty, Go, Pcs

LEMMA MainTypes ==
    ASSUME Types,
           \/ InitSDK \/ Reinit \/ Flush \/ Retire("close") \/ Forget \/ Atexit \/ Exit
           \/ Flushed
    PROVE  Types'
<1> USE DEF Types
<1>1. Main \in Threads /\ Batchers \subseteq Threads
  BY Numbers
<1>2. \A pc \in Pcs, task \in Tasks :
         [thread[Main] EXCEPT !.pc = pc, !.task = task] \in Thread
  BY <1>1 DEF Thread
<1>3. \A pc \in Pcs, t \in Threads : [thread[t] EXCEPT !.pc = pc] \in Thread
  BY <1>1 DEF Thread
<1>4. \A task \in Tasks :
         [thread[Main] EXCEPT !.pc = "drain", !.task = task, !.b = current] \in Thread
  BY <1>1 DEF Thread, Pcs
<1>5. ASSUME NEW b \in Batchers, Start(b) PROVE Types'
  BY <1>1, <1>2, <1>3, <1>5, Numbers DEF Start, Pcs, Tasks
<1>6. ASSUME NEW task \in Tasks, Retire(task) PROVE Types'
  BY <1>1, <1>4, <1>6 DEF Retire, Begin
<1>7. CASE Flush
  BY <1>1, <1>4, <1>7 DEF Flush, Begin, Tasks
<1>8. CASE Exit
  BY <1>1, <1>3, <1>8 DEF Exit, Go, Pcs
<1>9. CASE Flushed
  <2>1. CASE thread[Main].task = "init"
    BY <1>5, <1>9, <2>1 DEF Flushed
  <2>2. CASE thread[Main].task # "init"
    BY <1>1, <1>2, <1>3, <1>9, <2>2 DEF Flushed, Pcs, Tasks
  <2> QED
    BY <2>1, <2>2
<1>10. CASE Forget
  BY <1>10 DEF Forget
<1> QED
  BY <1>5, <1>6, <1>7, <1>8, <1>9, <1>10 DEF InitSDK, Reinit, Atexit, Tasks

\* What Next is made of.
LEMMA TypesStep == Types /\ Called /\ Holding /\ [Next]_vars => Types'
<1> SUFFICES ASSUME Types, Called, Holding, [Next]_vars PROVE Types'
  OBVIOUS
<1>1. CASE UNCHANGED vars
  BY <1>1 DEF vars, Types
<1>2. CASE \E r \in Records : Call(r) \/ RecordStep(r)
  BY <1>2, CallTypes
<1>3. CASE \E b \in Batchers : FlusherStep(b)
  BY <1>3, FlusherTypes, ThreadTypes, Numbers DEF FlusherStep
<1>4. CASE MainStep
  BY <1>4, MainTypes, ThreadTypes, Numbers DEF MainStep
<1> QED
  BY <1>1, <1>2, <1>3, <1>4, MainTypes DEF Next

-----------------------------------------------------------------------------
(* Steps that move no record and no number *)

Still ==
    /\ UNCHANGED <<queue, dropped, shipped, call, posts, fate>>
    /\ \A t \in Threads :
          /\ thread'[t].batch = thread[t].batch
          /\ thread'[t].n = thread[t].n
          /\ thread'[t].pc \in Busy <=> thread[t].pc \in Busy
          /\ thread[t].pc \in Busy =>
                thread'[t].pc = thread[t].pc /\ thread'[t].b = thread[t].b

\* A flusher between batches, and the main thread outside of flush.
Quiet ==
    \/ \E b \in Batchers : CheckLoop(b) \/ Wake(b) \/ DrainEmpty(b)
    \/ InitSDK \/ Reinit \/ Flush \/ Retire("close") \/ Forget \/ Atexit \/ Exit \/ Flushed

LEMMA MainQuiet ==
    ASSUME Types,
           \/ \E task \in Tasks : Retire(task)
           \/ \E b \in Batchers : Start(b)
           \/ Flush \/ Exit
    PROVE  thread[Main].pc \in {"idle", "drain"} => Still
<1> SUFFICES ASSUME thread[Main].pc \in {"idle", "drain"} PROVE Still
  OBVIOUS
<1> USE Numbers DEF Types, Thread, Still, Busy
<1>1. ASSUME NEW task \in Tasks, Retire(task) PROVE Still
  <2>1. thread' = [thread EXCEPT ![Main] =
                     [@ EXCEPT !.pc = "drain", !.task = task, !.b = current]]
    BY <1>1 DEF Retire, Begin
  <2>2. UNCHANGED <<queue, dropped, shipped, call, posts, fate>>
    BY <1>1 DEF Retire
  <2>3. \A t \in Threads \ {Main} : thread'[t] = thread[t]
    BY <2>1
  <2>4. /\ thread'[Main].batch = thread[Main].batch
        /\ thread'[Main].n = thread[Main].n
        /\ thread'[Main].pc = "drain"
    BY <2>1
  <2> QED
    BY <2>2, <2>3, <2>4
<1>2. ASSUME NEW b \in Batchers, Start(b) PROVE Still
  BY <1>2 DEF Start
<1>3. CASE Flush
  BY <1>3 DEF Flush, Begin
<1>4. CASE Exit
  BY <1>4 DEF Exit, Go
<1> QED
  BY <1>1, <1>2, <1>3, <1>4

LEMMA QuietIsStill == Types /\ Quiet => Still
<1> SUFFICES ASSUME Types, Quiet PROVE Still
  OBVIOUS
<1>1. ASSUME NEW b \in Batchers, CheckLoop(b) \/ Wake(b) \/ DrainEmpty(b)
      PROVE  Still
  BY <1>1, Numbers
     DEF Types, Thread, Still, Busy, CheckLoop, Wake, DrainEmpty, Go
<1>2. CASE InitSDK
  BY <1>2, MainQuiet DEF InitSDK, NothingToClose
<1>3. CASE Reinit \/ Retire("close") \/ Atexit
  <2>1. PICK task \in Tasks : Retire(task)
    BY <1>3 DEF Reinit, Atexit, Tasks
  <2> QED
    BY <2>1, MainQuiet DEF Retire
<1>4. CASE Flush \/ Exit
  BY <1>4, MainQuiet DEF Flush, Exit, NothingToClose
<1>5. CASE Flushed
  <2>1. CASE thread[Main].task = "init"
    BY <1>5, <2>1, MainQuiet DEF Flushed
  <2>2. CASE thread[Main].task # "init"
    <3>1. /\ UNCHANGED <<queue, dropped, shipped, call, posts, fate>>
          /\ thread[Main].pc = "drain"
          /\ \/ thread' = [thread EXCEPT ![Main] = [@ EXCEPT !.pc = "idle", !.task = "none"]]
             \/ thread' = [thread EXCEPT ![Main].pc = "over"]
      BY <1>5, <2>2 DEF Flushed
    <3>2. /\ thread'[Main].pc \in {"idle", "over"}
          /\ thread'[Main].batch = thread[Main].batch
          /\ thread'[Main].n = thread[Main].n
          /\ \A t \in Threads \ {Main} : thread'[t] = thread[t]
      <4>1. thread[Main] \in Thread /\ Main \in DOMAIN thread /\ DOMAIN thread = Threads
        BY Numbers DEF Types
      <4>2. CASE thread' = [thread EXCEPT ![Main] = [@ EXCEPT !.pc = "idle", !.task = "none"]]
        BY <4>1, <4>2 DEF Thread
      <4>3. CASE thread' = [thread EXCEPT ![Main].pc = "over"]
        BY <4>1, <4>3 DEF Thread
      <4> QED
        BY <3>1, <4>2, <4>3
    <3> QED
      BY <3>1, <3>2, Numbers DEF Still, Busy
  <2> QED
    BY <2>1, <2>2
<1>6. CASE Forget
  BY <1>6 DEF Forget, Still
<1> QED
  BY <1>1, <1>2, <1>3, <1>4, <1>5, <1>6 DEF Quiet

LEMMA NextCases ==
    Next <=> \/ Quiet
             \/ \E r \in Records : Call(r) \/ RecordStep(r)
             \/ \E t \in Threads : ThreadStep(t)
  BY Numbers DEF Next, Quiet, FlusherStep, MainStep

-----------------------------------------------------------------------------
(* Records are in one place *)

LEMMA PlacesStep ==
    Types /\ Holding /\ Called /\ NothingVanishes /\ [Next]_vars => NothingVanishes'
<1> SUFFICES ASSUME Types, Holding, Called, NothingVanishes, [Next]_vars
             PROVE  NothingVanishes'
  OBVIOUS
<1>1. CASE Quiet
  BY <1>1, QuietIsStill DEF Still, NothingVanishes
<1>2. ASSUME NEW r \in Records, Call(r) \/ Take(r) \/ CheckClosed(r) \/ Shed(r) \/ CountShed(r)
      PROVE  NothingVanishes'
  <2>1. /\ UNCHANGED <<queue, thread, fate>>
        /\ \A s \in Records : call'[s].pc = "queued" <=> call[s].pc = "queued"
        /\ \A s \in Records : call[s].pc = "queued" => call'[s].b = call[s].b
    <3>1. CASE Call(r)
      BY <3>1 DEF Types, Calling, Call
    <3>2. CASE Take(r) \/ CheckClosed(r)
      BY <3>2 DEF Types, Calling, Take, CheckClosed
    <3>3. CASE Shed(r)
      BY <3>3 DEF Types, Calling, Shed
    <3>4. CASE CountShed(r)
      BY <3>4 DEF Types, Calling, CountShed
    <3> QED
      BY <1>2, <3>1, <3>2, <3>3, <3>4
  <2> QED
    BY <2>1 DEF NothingVanishes
<1>3. ASSUME NEW r \in Records, Append(r) PROVE NothingVanishes'
  BY <1>3 DEF NothingVanishes, Append, Types, Calling, Called
<1>4. ASSUME NEW t \in Threads, ThreadStep(t) PROVE NothingVanishes'
  <2>1. CASE Drain(t)
    <3>1. thread[t].b \in Batchers /\ thread[t].batch = {}
      BY <2>1 DEF Drain, Holding, Busy
    <3>2. PICK S \in Drained(thread[t].b) :
             /\ queue' = [queue EXCEPT ![thread[t].b] = @ \ S]
             /\ thread' = [thread EXCEPT ![t] = [@ EXCEPT !.pc = "post", !.batch = S]]
      BY <2>1 DEF Drain
    <3>3. S \subseteq queue[thread[t].b]
      BY <3>2 DEF Drained
    <3>4. \A u \in Threads : thread'[u].batch = IF u = t THEN S ELSE thread[u].batch
      BY <3>2 DEF Types, Thread
    <3>5. \A b \in Batchers :
             queue'[b] = IF b = thread[t].b THEN queue[b] \ S ELSE queue[b]
      BY <3>2 DEF Types
    <3>6. UNCHANGED <<call, fate>>
      BY <2>1 DEF Drain
    <3> SUFFICES ASSUME NEW r \in Records
                 PROVE  /\ call[r].pc = "queued" <=>
                              \/ \E b \in Batchers : r \in queue'[b]
                              \/ \E u \in Threads : r \in thread'[u].batch
                              \/ fate[r] # "none"
                        /\ \A b \in Batchers : r \in queue'[b] =>
                              /\ call[r].b = b
                              /\ fate[r] = "none"
                              /\ \A u \in Threads : r \notin thread'[u].batch
                        /\ \A u, v \in Threads :
                              r \in thread'[u].batch /\ r \in thread'[v].batch => u = v
      BY <3>6 DEF NothingVanishes
    <3>7. CASE r \in S
      <4>1. /\ call[r].pc = "queued"
            /\ r \in thread'[t].batch
            /\ \A u \in Threads : r \in thread'[u].batch => u = t
            /\ \A b \in Batchers : r \notin queue'[b]
        <5>1. r \in queue[thread[t].b] /\ call[r].b = thread[t].b
          BY <3>1, <3>3, <3>7 DEF NothingVanishes
        <5>2. call[r].pc = "queued" /\ \A u \in Threads : r \notin thread[u].batch
          BY <3>1, <5>1 DEF NothingVanishes
        <5>3. \A b \in Batchers : r \in queue[b] => b = thread[t].b
          BY <5>1 DEF NothingVanishes
        <5> QED
          BY <3>1, <3>4, <3>5, <3>7, <5>2, <5>3
      <4> QED
        BY <4>1
    <3>8. CASE r \notin S
      <4>1. /\ \A b \in Batchers : r \in queue'[b] <=> r \in queue[b]
            /\ \A u \in Threads : r \in thread'[u].batch <=> r \in thread[u].batch
        BY <3>1, <3>4, <3>5, <3>8
      <4> QED
        BY <4>1 DEF NothingVanishes
    <3> QED
      BY <3>7, <3>8
  <2>2. CASE Post(t) \/ PostRaises(t)
    <3>1. \A u \in Threads : thread'[u].batch = IF u = t /\ PostRaises(t)
                                                THEN {} ELSE thread[u].batch
      <4>1. /\ \A u \in Threads \ {t} : thread'[u] = thread[u]
            /\ Post(t) => thread'[t].batch = thread[t].batch
            /\ Post(t) => thread'[t].pc = "count"
            /\ PostRaises(t) => thread'[t].batch = {}
            /\ PostRaises(t) => thread'[t].pc # "count"
        BY <2>2, Posting
      <4> QED
        BY <2>2, <4>1
    <3>2. /\ UNCHANGED <<queue, call>>
          /\ \A r \in thread[t].batch : fate'[r] # "none" /\ r \in Records
          /\ \A r \in Records \ thread[t].batch : fate'[r] = fate[r]
      <4>1. \A r \in thread[t].batch : r \in Records
        BY DEF Types, Thread
      <4>2. PICK o \in {"acked", "failed", "raised"} :
               \A r \in thread[t].batch : fate'[r] = o
        BY <2>2, Posting
      <4>3. /\ \A r \in Records \ thread[t].batch : fate'[r] = fate[r]
            /\ UNCHANGED <<queue, call>>
        BY <2>2, Posting
      <4> QED
        BY <4>1, <4>2, <4>3
    <3> QED
      BY <3>1, <3>2 DEF NothingVanishes
  <2>3. CASE ReadCounter(t)
    <3>1. \A u \in Threads : thread'[u].batch = thread[u].batch
      BY <2>3 DEF ReadCounter, Types, Thread
    <3> QED
      BY <2>3, <3>1 DEF ReadCounter, NothingVanishes
  <2>4. CASE StoreCounter(t)
    <3>1. \A u \in Threads : thread'[u].batch = IF u = t THEN {} ELSE thread[u].batch
      BY <2>4 DEF StoreCounter, Types, Thread
    <3>2. \A r \in thread[t].batch : fate[r] # "none"
      BY <2>4 DEF StoreCounter, Holding
    <3> QED
      BY <2>4, <3>1, <3>2 DEF StoreCounter, NothingVanishes
  <2> QED
    BY <1>4, <2>1, <2>2, <2>3, <2>4 DEF ThreadStep
<1>5. CASE UNCHANGED vars
  BY <1>5 DEF vars, NothingVanishes
<1> QED
  BY <1>1, <1>2, <1>3, <1>4, <1>5, NextCases DEF RecordStep

-----------------------------------------------------------------------------
(* What the threads hold *)

LEMMA HoldingStep ==
    Types /\ Holding /\ Called /\ NothingVanishes /\ Open /\ [Next]_vars => Holding'
<1> SUFFICES ASSUME Types, Holding, Called, NothingVanishes, Open, [Next]_vars
             PROVE  Holding'
  OBVIOUS
<1>1. CASE Quiet
  <2>1. Still
    BY <1>1, QuietIsStill
  <2>2. \A t \in Threads :
           /\ thread'[t].pc = "drain" => thread'[t].b \in Batchers
           /\ t \in Batchers => thread'[t].b = t /\ thread'[t].pc # "idle"
    <3>1. ASSUME NEW b \in Batchers, CheckLoop(b) \/ Wake(b) \/ DrainEmpty(b)
          PROVE  \A t \in Threads :
                    /\ thread'[t].b = thread[t].b
                    /\ t # b => thread'[t].pc = thread[t].pc
                    /\ thread'[b].pc # "idle"
      BY <3>1, Numbers DEF Types, Thread, CheckLoop, Wake, DrainEmpty, Go
    <3>2. ASSUME NEW task \in Tasks, Retire(task) \/ Flush
          PROVE  thread'[Main].b \in Batchers
                 /\ \A t \in Threads \ {Main} : thread'[t] = thread[t]
      <4>1. PICK k : Begin(k)
        BY <3>2 DEF Retire, Flush
      <4>2. current \in Batchers
        BY <3>2 DEF Retire, Flush, Types
      <4> QED
        BY <4>1, <4>2, Numbers DEF Types, Thread, Begin
    <3>3. ASSUME NEW b \in Batchers, Start(b)
          PROVE  /\ thread'[Main].pc = "idle"
                 /\ thread'[b].b = thread[b].b /\ thread'[b].pc = "check"
                 /\ \A t \in Threads \ {b, Main} : thread'[t] = thread[t]
      BY <3>3, Numbers DEF Types, Thread, Start
    <3>4. ASSUME Exit \/ (Flushed /\ thread[Main].task # "init")
          PROVE  /\ thread'[Main].pc # "drain"
                 /\ \A t \in Threads \ {Main} : thread'[t] = thread[t]
      <4>1. \/ thread' = [thread EXCEPT ![Main] = [@ EXCEPT !.pc = "idle", !.task = "none"]]
            \/ thread' = [thread EXCEPT ![Main].pc = "over"]
        BY <3>4 DEF Exit, Go, Flushed
      <4>2. thread[Main] \in Thread /\ Main \in DOMAIN thread /\ DOMAIN thread = Threads
        BY Numbers DEF Types
      <4> QED
        BY <4>1, <4>2 DEF Thread
    <3>5. \A b \in Batchers : b # Main /\ b \in Threads
      BY Numbers
    <3>6. CASE \E b \in Batchers : CheckLoop(b) \/ Wake(b) \/ DrainEmpty(b)
      BY <3>1, <3>6, Numbers DEF Holding
    <3>7. CASE \E task \in Tasks : Retire(task) \/ Flush
      BY <3>2, <3>5, <3>7 DEF Holding
    <3>8. CASE \E b \in Batchers : Start(b)
      BY <3>3, <3>5, <3>8 DEF Holding
    <3>9. CASE Exit \/ (Flushed /\ thread[Main].task # "init")
      BY <3>4, <3>5, <3>9 DEF Holding
    <3>10. CASE Forget
      BY <3>10 DEF Forget, Holding
    <3> QED
      BY <1>1, <3>6, <3>7, <3>8, <3>9, <3>10
         DEF Quiet, InitSDK, Reinit, Atexit, Flushed, Tasks
  <2> QED
    BY <2>1, <2>2 DEF Still, Holding, Busy
<1>2. ASSUME NEW r \in Records, Call(r) \/ RecordStep(r) PROVE Holding'
  <2>1. /\ UNCHANGED <<thread, fate>>
        /\ \A s \in Records : call[s].pc = "queued" => call'[s].b = call[s].b
    <3>1. CASE Call(r)
      BY <3>1 DEF Types, Calling, Call
    <3>2. CASE Take(r) \/ CheckClosed(r)
      BY <3>2 DEF Types, Calling, Take, CheckClosed
    <3>3. CASE Append(r)
      BY <3>3 DEF Types, Calling, Append
    <3>4. CASE Shed(r)
      BY <3>4 DEF Types, Calling, Shed
    <3>5. CASE CountShed(r)
      BY <3>5 DEF Types, Calling, CountShed
    <3> QED
      BY <1>2, <3>1, <3>2, <3>3, <3>4, <3>5 DEF RecordStep
  <2>2. \A t \in Threads : \A s \in thread[t].batch : s \in Records /\ call[s].pc = "queued"
    BY DEF Types, Thread, NothingVanishes
  <2> QED
    BY <2>1, <2>2 DEF Holding
<1>3. ASSUME NEW t \in Threads, ThreadStep(t) PROVE Holding'
  <2> USE Numbers
  <2>1. CASE Drain(t)
    <3>1. thread[t].b \in Batchers
      BY <2>1 DEF Drain, Holding, Busy
    <3>2. PICK S \in Drained(thread[t].b) :
             thread' = [thread EXCEPT ![t] = [@ EXCEPT !.pc = "post", !.batch = S]]
      BY <2>1 DEF Drain
    <3>3. \A r \in S : r \in Records /\ r \in queue[thread[t].b]
      BY <3>1, <3>2 DEF Drained, Types
    <3>4. \A r \in S : fate[r] = "none" /\ call[r].b = thread[t].b
      BY <3>1, <3>3 DEF NothingVanishes
    <3>5. /\ thread'[t].pc = "post" /\ thread'[t].batch = S /\ thread'[t].b = thread[t].b
          /\ \A u \in Threads \ {t} : thread'[u] = thread[u]
      BY <3>2 DEF Types, Thread
    <3>6. UNCHANGED <<call, fate>>
      BY <2>1 DEF Drain
    <3> QED
      BY <3>1, <3>4, <3>5, <3>6 DEF Holding, Busy
  <2>2. CASE Post(t) \/ PostRaises(t)
    <3>1. PICK o \in {"acked", "failed", "raised"} :
             /\ \A r \in thread[t].batch : fate'[r] = o
             /\ Post(t) => o # "raised"
      BY <2>2, Posting
    <3>2. \A u \in Threads \ {t} : \A r \in thread[u].batch : fate'[r] = fate[r]
      BY <2>2, Posting DEF NothingVanishes, Types, Thread
    <3>3. /\ thread[t].pc = "post" /\ UNCHANGED call
          /\ thread'[t].b = thread[t].b
          /\ \A u \in Threads \ {t} : thread'[u] = thread[u]
      BY <2>2, Posting
    <3>4. CASE Post(t)
      BY <3>1, <3>2, <3>3, <3>4, Posting DEF Holding, Busy
    <3>5. CASE PostRaises(t)
      BY <3>2, <3>3, <3>5, Posting DEF Holding, Busy
    <3> QED
      BY <2>2, <3>4, <3>5
  <2>3. CASE ReadCounter(t)
    <3>1. /\ thread'[t].pc = "store" /\ thread'[t].batch = thread[t].batch
          /\ thread'[t].b = thread[t].b /\ thread[t].pc = "count"
          /\ \A u \in Threads \ {t} : thread'[u] = thread[u]
          /\ UNCHANGED <<call, fate>>
      BY <2>3 DEF ReadCounter, Types, Thread
    <3> QED
      BY <3>1 DEF Holding, Busy
  <2>4. CASE StoreCounter(t)
    <3>1. /\ thread'[t].pc = "drain" /\ thread'[t].batch = {}
          /\ thread'[t].b = thread[t].b /\ thread[t].pc = "store"
          /\ \A u \in Threads \ {t} : thread'[u] = thread[u]
          /\ UNCHANGED <<call, fate>>
      BY <2>4 DEF StoreCounter, Types, Thread
    <3> QED
      BY <3>1 DEF Holding, Busy
  <2> QED
    BY <1>3, <2>1, <2>2, <2>3, <2>4 DEF ThreadStep
<1>4. CASE UNCHANGED vars
  BY <1>4 DEF vars, Holding
<1> QED
  BY <1>1, <1>2, <1>3, <1>4, NextCases

-----------------------------------------------------------------------------
(* Calls, posts, and who is open *)

LEMMA CalledStep == Types /\ Called /\ [Next]_vars => Called'
<1> SUFFICES ASSUME Types, Called, [Next]_vars PROVE Called'
  OBVIOUS
<1>1. CASE Quiet
  BY <1>1, QuietIsStill DEF Still, Called
<1>2. ASSUME NEW r \in Records, Call(r) \/ RecordStep(r) PROVE Called'
  <2>1. CASE Call(r)
    BY <2>1 DEF Types, Calling, Called, Call
  <2>2. CASE Take(r) \/ CheckClosed(r)
    <3>1. CASE Take(r)
      BY <3>1 DEF Types, Calling, Called, Take
    <3>2. CASE CheckClosed(r)
      BY <3>2 DEF Types, Calling, Called, CheckClosed
    <3> QED
      BY <2>2, <3>1, <3>2
  <2>3. CASE Append(r)
    BY <2>3 DEF Types, Calling, Called, Append
  <2>4. CASE Shed(r)
    BY <2>4 DEF Types, Calling, Called, Shed
  <2>5. CASE CountShed(r)
    BY <2>5 DEF Types, Calling, Called, CountShed
  <2> QED
    BY <1>2, <2>1, <2>2, <2>3, <2>4, <2>5 DEF RecordStep
<1>3. ASSUME NEW t \in Threads, ThreadStep(t) PROVE Called'
  BY <1>3 DEF ThreadStep, Drain, Post, PostRaises, ReadCounter, StoreCounter, Called
<1>4. CASE UNCHANGED vars
  BY <1>4 DEF vars, Called
<1> QED
  BY <1>1, <1>2, <1>3, <1>4, NextCases

LEMMA PostedStep == Types /\ Holding /\ Posted /\ [Next]_vars => Posted'
<1> SUFFICES ASSUME Types, Holding, Posted, [Next]_vars PROVE Posted'
  OBVIOUS
<1>1. CASE Quiet
  BY <1>1, QuietIsStill DEF Still, Posted
<1>2. ASSUME NEW r \in Records, Call(r) \/ RecordStep(r) PROVE Posted'
  BY <1>2 DEF Call, RecordStep, Take, CheckClosed, Append, Shed, CountShed, Posted
<1>3. ASSUME NEW t \in Threads, ThreadStep(t) PROVE Posted'
  <2>1. CASE Post(t) \/ PostRaises(t)
    <3>1. \A r \in thread[t].batch : fate[r] = "none" /\ fate'[r] # "none"
      BY <2>1, Posting DEF Holding
    <3> QED
      BY <2>1, <3>1, Posting DEF Posted, Types
  <2>2. CASE Drain(t) \/ ReadCounter(t) \/ StoreCounter(t)
    BY <2>2 DEF Drain, ReadCounter, StoreCounter, Posted
  <2> QED
    BY <1>3, <2>1, <2>2 DEF ThreadStep
<1>4. CASE UNCHANGED vars
  BY <1>4 DEF vars, Posted
<1> QED
  BY <1>1, <1>2, <1>3, <1>4, NextCases

LEMMA OpenStep == Types /\ Open /\ [Next]_vars => Open'
<1> SUFFICES ASSUME Types, Open, [Next]_vars PROVE Open'
  OBVIOUS
<1> USE Numbers
<1>1. CASE Quiet
  <2>1. ASSUME NEW b \in Batchers, CheckLoop(b) \/ Wake(b) \/ DrainEmpty(b) PROVE Open'
    <3>1. /\ UNCHANGED <<current, closed>>
          /\ thread'[b].pc # "unborn" /\ thread[b].pc # "unborn"
          /\ \A t \in Threads \ {b} : thread'[t] = thread[t]
      BY <2>1 DEF Types, Thread, CheckLoop, Wake, DrainEmpty, Go
    <3> QED
      BY <3>1 DEF Open
  <2>2. ASSUME NEW task \in Tasks, Retire(task) PROVE Open'
    <3>1. /\ current \in Batchers /\ current' = current
          /\ closed' = [closed EXCEPT ![current] = TRUE]
          /\ thread'[Main].pc = "drain"
          /\ \A t \in Threads \ {Main} : thread'[t] = thread[t]
      BY <2>2 DEF Types, Thread, Retire, Begin
    <3> QED
      BY <3>1 DEF Open, Types
  <2>3. CASE Flush
    <3>1. /\ UNCHANGED <<current, closed>>
          /\ thread'[Main].task = "flush" /\ thread'[Main].pc = "drain"
          /\ \A t \in Threads \ {Main} : thread'[t] = thread[t]
      BY <2>3 DEF Types, Thread, Flush, Begin
    <3> QED
      BY <3>1 DEF Open
  <2>4. ASSUME NEW b \in Batchers, Start(b),
               current = NoBatcher \/ closed[current]
        PROVE  Open'
    <3>1. /\ current' = b /\ closed' = closed
          /\ thread'[Main].task = "none"
          /\ \A t \in Threads \ {b, Main} : thread'[t] = thread[t]
      BY <2>4 DEF Types, Thread, Start
    <3>2. NoBatcher \notin Batchers
      BY DEF NoBatcher, Batchers
    <3> QED
      BY <2>4, <3>1, <3>2 DEF Open
  <2>5. CASE Exit \/ (Flushed /\ thread[Main].task # "init")
    <3>1. /\ closed' = closed
          /\ \/ /\ current' = current
                /\ thread' = [thread EXCEPT ![Main].pc = "over"]
             \/ /\ current' = current \/ (current' = NoBatcher /\ thread[Main].task = "close")
                /\ thread' = [thread EXCEPT ![Main] = [@ EXCEPT !.pc = "idle", !.task = "none"]]
      BY <2>5 DEF Exit, Go, Flushed
    <3>2. /\ \A t \in Threads \ {Main} : thread'[t] = thread[t]
          /\ \/ /\ current' = current /\ thread'[Main].task = thread[Main].task
                /\ thread'[Main].pc = "over"
             \/ /\ current' = current \/ (current' = NoBatcher /\ thread[Main].task = "close")
                /\ thread'[Main].task = "none"
      <4>1. thread[Main] \in Thread /\ thread = [t \in Threads |-> thread[t]]
            /\ Main \in Threads
        BY DEF Types
      <4>2. CASE thread' = [thread EXCEPT ![Main].pc = "over"] /\ current' = current
        <5>1. /\ thread'[Main].task = thread[Main].task
              /\ thread'[Main].pc = "over"
              /\ \A t \in Threads \ {Main} : thread'[t] = thread[t]
          BY <4>1, <4>2 DEF Thread
        <5> QED
          BY <4>2, <5>1
      <4>3. CASE thread' = [thread EXCEPT ![Main] =
                              [@ EXCEPT !.pc = "idle", !.task = "none"]]
        <5>1. /\ thread'[Main].task = "none"
              /\ \A t \in Threads \ {Main} : thread'[t] = thread[t]
          BY <4>1, <4>3 DEF Thread
        <5>2. current' = current \/ (current' = NoBatcher /\ thread[Main].task = "close")
          BY <3>1
        <5> QED
          BY <5>1, <5>2
      <4> QED
        BY <3>1, <4>2, <4>3
    <3> QED
      BY <3>1, <3>2 DEF Open
  <2>6. CASE Flushed /\ thread[Main].task = "init"
    BY <2>4, <2>6 DEF Flushed, Open
  <2>7. CASE Forget
    BY <2>7 DEF Forget, Open, NothingToClose
  <2> QED
    BY <1>1, <2>1, <2>2, <2>3, <2>4, <2>5, <2>6, <2>7
       DEF Quiet, NothingToClose, InitSDK, Reinit, Atexit, Tasks
<1>2. ASSUME NEW r \in Records, Call(r) \/ RecordStep(r) PROVE Open'
  BY <1>2 DEF Call, RecordStep, Take, CheckClosed, Append, Shed, CountShed, Open
<1>3. ASSUME NEW t \in Threads, ThreadStep(t) PROVE Open'
  <2>1. UNCHANGED <<current, closed>>
    BY <1>3 DEF ThreadStep, Drain, Post, PostRaises, ReadCounter, StoreCounter
  <2>2. /\ thread[t].pc # "unborn"
        /\ thread'[t].task \in {thread[t].task, "none"}
        /\ thread'[t].pc = "idle" => thread'[t].task = "none"
        /\ \A u \in Threads \ {t} : thread'[u] = thread[u]
    <3>1. CASE Drain(t)
      BY <3>1 DEF Drain, Types, Thread
    <3>2. CASE Post(t)
      BY <3>2 DEF Post, Go, Types, Thread
    <3>3. CASE ReadCounter(t)
      BY <3>3 DEF ReadCounter, Types, Thread
    <3>4. CASE StoreCounter(t)
      BY <3>4 DEF StoreCounter, Types, Thread
    <3>5. CASE PostRaises(t)
      BY <3>5, Posting
    <3> QED
      BY <1>3, <3>1, <3>2, <3>3, <3>4, <3>5 DEF ThreadStep
  <2> QED
    BY <2>1, <2>2 DEF Open
<1>4. CASE UNCHANGED vars
  BY <1>4 DEF vars, Open
<1> QED
  BY <1>1, <1>2, <1>3, <1>4, NextCases

-----------------------------------------------------------------------------
(* The counters *)

LEMMA Monotone ==
    ASSUME NEW T \in SUBSET Records, NEW S \in SUBSET T
    PROVE  Cardinality(S) <= Cardinality(T)
  BY Finite, FS_Subset

LEMMA Additive ==
    ASSUME NEW S \in SUBSET Records, NEW T \in SUBSET Records, S \cap T = {}
    PROVE  Cardinality(S \cup T) = Cardinality(S) + Cardinality(T)
<1>1. IsFiniteSet(S) /\ IsFiniteSet(T) /\ Cardinality(S) \in Nat /\ Cardinality(T) \in Nat
  BY Finite
<1>2. Cardinality(S \cup T) = Cardinality(S) + Cardinality(T) - Cardinality(S \cap T)
  BY <1>1, FS_Union
<1>3. Cardinality(S \cap T) = 0
  BY FS_EmptySet
<1> QED
  BY <1>1, <1>2, <1>3

LEMMA CountTypes ==
    /\ Shipping \in [Batchers -> Nat]
    /\ Losing \in [Batchers -> Nat]
<1>1. \A b \in Batchers :
         Delivered(b) \ Pending \in SUBSET Records /\ Lost(b) \ Pending \in SUBSET Records
  BY DEF Delivered, Lost
<1> QED
  BY <1>1, Finite DEF Shipping, Losing

LEMMA CountTypesNext ==
    /\ Shipping' \in [Batchers -> Nat]
    /\ Losing' \in [Batchers -> Nat]
<1>1. \A b \in Batchers : /\ (Delivered(b) \ Pending)' \in SUBSET Records
                          /\ (Lost(b) \ Pending)' \in SUBSET Records
  BY DEF Delivered, Lost
<1> QED
  BY <1>1, Finite DEF Shipping, Losing

\* The counters and their copies survive a step that leaves them and the
\* batches being counted alone, and takes nothing away from what was counted.
LEMMA CountedStays ==
    ASSUME Types, Counted, UNCHANGED <<shipped, dropped>>,
           \A b \in Batchers : Shipping[b] <= Shipping'[b] /\ Losing[b] <= Losing'[b],
           \A t \in Threads : thread'[t].pc = "store" =>
              /\ thread[t].pc = "store" /\ thread'[t].n = thread[t].n
              /\ thread[t].b \in Batchers /\ thread'[t].b = thread[t].b
              /\ t \in Ackers' <=> t \in Ackers,
           \A r \in Records : call'[r].pc = "shedding" =>
              /\ call[r].pc = "shedding" /\ call'[r].n = call[r].n
              /\ call[r].b \in Batchers /\ call'[r].b = call[r].b
    PROVE  Counted'
<1> USE CountTypes, CountTypesNext
<1>1. \A b \in Batchers : shipped[b] \in Nat /\ dropped[b] \in Nat
  BY DEF Types
<1>2. \A t \in Threads : thread[t].n \in Nat
  BY DEF Types, Thread
<1>3. \A r \in Records : call[r].n \in Nat
  BY DEF Types, Calling
<1>4. \A b \in Batchers : shipped'[b] <= Shipping'[b] /\ dropped'[b] <= Losing'[b]
  BY <1>1 DEF Counted
<1>5. ASSUME NEW t \in Threads, thread'[t].pc = "store"
      PROVE  thread'[t].n <= IF t \in Ackers' THEN Shipping'[thread'[t].b]
                                              ELSE Losing'[thread'[t].b]
  BY <1>2, <1>5 DEF Counted
<1>6. ASSUME NEW r \in Records, call'[r].pc = "shedding"
      PROVE  call'[r].n <= Losing'[call'[r].b]
  BY <1>3, <1>6 DEF Counted
<1> QED
  BY <1>4, <1>5, <1>6 DEF Counted

\* The records that Shipping and Losing count.
Acks == [b \in Batchers |-> Delivered(b) \ Pending]
Losses == [b \in Batchers |-> Lost(b) \ Pending]

LEMMA Sets ==
    /\ \A b \in Batchers : /\ Acks[b] \in SUBSET Records /\ Losses[b] \in SUBSET Records
                           /\ Shipping[b] = Cardinality(Acks[b])
                           /\ Losing[b] = Cardinality(Losses[b])
    /\ \A b \in Batchers, r \in Records :
          /\ r \in Acks[b] <=> call[r].b = b /\ fate[r] = "acked" /\ r \notin Pending
          /\ r \in Losses[b] <=> /\ call[r].b = b /\ r \notin Pending
                                 /\ fate[r] = "failed" \/ call[r].pc = "shed"
  BY DEF Acks, Losses, Shipping, Losing, Delivered, Lost

LEMMA SetsNext ==
    /\ \A b \in Batchers : /\ Acks'[b] \in SUBSET Records /\ Losses'[b] \in SUBSET Records
                           /\ Shipping'[b] = Cardinality(Acks'[b])
                           /\ Losing'[b] = Cardinality(Losses'[b])
    /\ \A b \in Batchers, r \in Records :
          /\ r \in Acks'[b] <=> call'[r].b = b /\ fate'[r] = "acked" /\ r \notin Pending'
          /\ r \in Losses'[b] <=> /\ call'[r].b = b /\ r \notin Pending'
                                  /\ fate'[r] = "failed" \/ call'[r].pc = "shed"
  BY DEF Acks, Losses, Shipping, Losing, Delivered, Lost

LEMMA Growth ==
    ASSUME \A b \in Batchers : Acks[b] \subseteq Acks'[b] /\ Losses[b] \subseteq Losses'[b]
    PROVE  \A b \in Batchers : Shipping[b] <= Shipping'[b] /\ Losing[b] <= Losing'[b]
  BY Sets, SetsNext, Monotone

\* A step of a call, other than a shed one.
LEMMA CountedByCall ==
    ASSUME Types, Called, Posted, NothingVanishes, Holding, Counted,
           NEW r \in Records, Call(r) \/ Take(r) \/ CheckClosed(r) \/ Append(r)
    PROVE  Counted'
<1>1. /\ UNCHANGED <<thread, fate, shipped, dropped>>
      /\ call'[r].pc # "shedding" /\ call'[r].pc # "shed" /\ call[r].pc # "shed"
      /\ call'[r].b # call[r].b => call[r].pc = "seen"
      /\ \A s \in Records \ {r} : call'[s] = call[s]
  <2>1. CASE Call(r)
    BY <2>1 DEF Types, Calling, Call
  <2>2. CASE Take(r)
    BY <2>2 DEF Types, Calling, Take
  <2>3. CASE CheckClosed(r)
    BY <2>3 DEF Types, Calling, CheckClosed
  <2>4. CASE Append(r)
    BY <2>4 DEF Types, Calling, Append
  <2> QED
    BY <2>1, <2>2, <2>3, <2>4
<1>2. Pending' = Pending /\ Ackers' = Ackers
  BY <1>1 DEF Pending, Ackers, Acked
<1>3. call[r].pc = "seen" => fate[r] = "none"
  BY DEF NothingVanishes
<1>4. \A b \in Batchers : Acks[b] \subseteq Acks'[b] /\ Losses[b] \subseteq Losses'[b]
  BY <1>1, <1>2, <1>3, Sets, SetsNext
<1>5. \A t \in Threads : thread[t].pc = "store" => thread[t].b \in Batchers
  BY DEF Holding, Busy
<1> QED
  BY <1>1, <1>2, <1>4, <1>5, Growth, CountedStays DEF Called

LEMMA CountedByShed ==
    ASSUME Types, Called, NothingVanishes, Holding, Counted,
           NEW r \in Records, Shed(r) \/ CountShed(r)
    PROVE  Counted'
<1> DEFINE b == call[r].b
<1> USE CountTypes, CountTypesNext
<1>1. b \in Batchers /\ UNCHANGED <<thread, fate, shipped>>
  BY DEF Called, Shed, CountShed
<1>2. Pending' = Pending /\ Ackers' = Ackers
  BY <1>1 DEF Pending, Ackers, Acked
<1>3. \A t \in Threads : thread[t].pc = "store" => thread[t].b \in Batchers
  BY DEF Holding, Busy
<1>4. \A a \in Batchers : shipped[a] \in Nat /\ dropped[a] \in Nat
  BY DEF Types
<1>5. \A t \in Threads : thread[t].n \in Nat
  BY DEF Types, Thread
<1>6. \A s \in Records : call[s].n \in Nat
  BY DEF Types, Calling
<1>7. CASE Shed(r)
  <2>1. /\ call'[r].b = b /\ call'[r].pc = "shedding" /\ call'[r].n = dropped[b]
        /\ call[r].pc # "shed" /\ dropped' = dropped
        /\ \A s \in Records \ {r} : call'[s] = call[s]
    BY <1>7 DEF Types, Calling, Shed
  <2>2. \A a \in Batchers : Acks[a] \subseteq Acks'[a] /\ Losses[a] \subseteq Losses'[a]
    BY <1>1, <1>2, <2>1, Sets, SetsNext
  <2>3. \A a \in Batchers : Shipping[a] <= Shipping'[a] /\ Losing[a] <= Losing'[a]
    BY <2>2, Growth
  <2>4. call'[r].n <= Losing'[call'[r].b]
    BY <1>1, <1>4, <2>1, <2>3 DEF Counted
  <2>5. \A a \in Batchers : shipped'[a] <= Shipping'[a] /\ dropped'[a] <= Losing'[a]
    BY <1>1, <1>4, <2>1, <2>3 DEF Counted
  <2>6. ASSUME NEW t \in Threads, thread'[t].pc = "store"
        PROVE  thread'[t].n <= IF t \in Ackers' THEN Shipping'[thread'[t].b]
                                                ELSE Losing'[thread'[t].b]
    BY <1>1, <1>2, <1>3, <1>5, <2>3, <2>6 DEF Counted
  <2>7. ASSUME NEW s \in Records \ {r}, call'[s].pc = "shedding"
        PROVE  call'[s].n <= Losing'[call'[s].b]
    BY <1>6, <2>1, <2>3, <2>7 DEF Counted, Called
  <2> QED
    BY <2>4, <2>5, <2>6, <2>7 DEF Counted
<1>8. CASE CountShed(r)
  <2>1. /\ call'[r].b = b /\ call'[r].pc = "shed" /\ call[r].pc = "shedding"
        /\ dropped' = [dropped EXCEPT ![b] = call[r].n + 1]
        /\ \A s \in Records \ {r} : call'[s] = call[s]
    BY <1>8 DEF Types, Calling, CountShed
  <2>2. r \notin Pending /\ fate[r] = "none"
    BY <2>1 DEF NothingVanishes, Pending
  <2>3. \A a \in Batchers : Acks[a] \subseteq Acks'[a] /\ Losses[a] \subseteq Losses'[a]
    BY <1>1, <1>2, <2>1, Sets, SetsNext
  <2>4. \A a \in Batchers : Shipping[a] <= Shipping'[a] /\ Losing[a] <= Losing'[a]
    BY <2>3, Growth
  <2>5. Losing'[b] >= Losing[b] + 1
    <3>1. r \notin Losses[b] /\ Losses[b] \cup {r} \subseteq Losses'[b]
      BY <1>1, <1>2, <2>1, <2>2, <2>3, Sets, SetsNext
    <3>2. Cardinality(Losses[b] \cup {r}) = Cardinality(Losses[b]) + 1
      BY <1>1, <3>1, Sets, Finite, FS_AddElement
    <3>3. Cardinality(Losses[b] \cup {r}) <= Cardinality(Losses'[b])
      BY <1>1, <3>1, Sets, SetsNext, Monotone
    <3> QED
      BY <1>1, <3>2, <3>3, Sets, SetsNext
  <2>6. \A a \in Batchers : shipped'[a] <= Shipping'[a] /\ dropped'[a] <= Losing'[a]
    <3>1. dropped'[b] = call[r].n + 1 /\ call[r].n <= Losing[b]
      BY <1>1, <2>1 DEF Types, Counted
    <3>2. \A a \in Batchers \ {b} : dropped'[a] = dropped[a]
      BY <2>1 DEF Types
    <3> QED
      BY <1>1, <1>4, <1>6, <2>4, <2>5, <3>1, <3>2 DEF Counted
  <2>7. ASSUME NEW t \in Threads, thread'[t].pc = "store"
        PROVE  thread'[t].n <= IF t \in Ackers' THEN Shipping'[thread'[t].b]
                                                ELSE Losing'[thread'[t].b]
    BY <1>1, <1>2, <1>3, <1>5, <2>4, <2>7 DEF Counted
  <2>8. ASSUME NEW s \in Records, call'[s].pc = "shedding"
        PROVE  call'[s].n <= Losing'[call'[s].b]
    BY <1>6, <2>1, <2>4, <2>8 DEF Counted, Called
  <2> QED
    BY <2>6, <2>7, <2>8 DEF Counted
<1> QED
  BY <1>7, <1>8

\* The records of a batch have been called for and are in one batch only.
LEMMA Batches ==
    ASSUME Types, NothingVanishes
    PROVE  \A t \in Threads : \A r \in thread[t].batch :
              /\ r \in Records /\ call[r].pc = "queued"
              /\ \A u \in Threads \ {t} : r \notin thread[u].batch
  BY DEF Types, Thread, NothingVanishes

LEMMA CountedByPost ==
    ASSUME Types, Called, NothingVanishes, Holding, Counted,
           NEW t \in Threads, Drain(t) \/ Post(t) \/ PostRaises(t)
    PROVE  Counted'
<1>1. \A u \in Threads : thread[u].pc = "store" => thread[u].b \in Batchers
  BY DEF Holding, Busy
<1>2. CASE Drain(t)
  <2>1. /\ thread[t].pc = "drain" /\ thread[t].batch = {} /\ thread'[t].pc = "post"
        /\ \A u \in Threads \ {t} : thread'[u] = thread[u]
        /\ UNCHANGED <<shipped, dropped, call, fate>>
    <3>1. PICK S \in Drained(thread[t].b) :
             thread' = [thread EXCEPT ![t] = [@ EXCEPT !.pc = "post", !.batch = S]]
      BY <1>2 DEF Drain
    <3>2. thread'[t].pc = "post" /\ \A u \in Threads \ {t} : thread'[u] = thread[u]
      BY <3>1 DEF Types, Thread
    <3> QED
      BY <1>2, <3>2 DEF Drain, Holding, Busy
  <2>2. Pending' = Pending
    BY <2>1 DEF Pending
  <2>3. \A u \in Threads \ {t} : u \in Ackers' <=> u \in Ackers
    BY <2>1 DEF Ackers, Acked
  <2>4. \A b \in Batchers : Acks[b] \subseteq Acks'[b] /\ Losses[b] \subseteq Losses'[b]
    BY <2>1, <2>2, Sets, SetsNext
  <2> QED
    BY <1>1, <2>1, <2>3, <2>4, Growth, CountedStays DEF Called
<1>3. CASE Post(t)
  <2>1. /\ thread[t].pc = "post" /\ thread'[t].pc = "count"
        /\ thread'[t].batch = thread[t].batch
        /\ \A u \in Threads \ {t} : thread'[u] = thread[u]
        /\ UNCHANGED <<shipped, dropped, call>>
    BY <1>3, Posting
  <2>2. /\ \A r \in thread[t].batch : fate[r] = "none"
        /\ \A r \in Records \ thread[t].batch : fate'[r] = fate[r]
    BY <1>3, Posting DEF Holding
  <2>3. Pending' = Pending \cup thread[t].batch
    BY <2>1, Batches DEF Pending
  <2>4. \A u \in Threads \ {t} : u \in Ackers' <=> u \in Ackers
    BY <2>1, <2>2, Batches DEF Ackers, Acked
  <2>5. \A b \in Batchers : Acks[b] \subseteq Acks'[b] /\ Losses[b] \subseteq Losses'[b]
    BY <2>1, <2>2, <2>3, Batches, Sets, SetsNext
  <2> QED
    BY <1>1, <2>1, <2>4, <2>5, Growth, CountedStays DEF Called
<1>4. CASE PostRaises(t)
  <2>1. /\ thread[t].pc = "post" /\ thread'[t].pc \in {"idle", "over"}
        /\ thread'[t].batch = {}
        /\ \A u \in Threads \ {t} : thread'[u] = thread[u]
        /\ UNCHANGED <<shipped, dropped, call>>
    BY <1>4, Posting
  <2>2. /\ \A r \in thread[t].batch : fate[r] = "none" /\ fate'[r] = "raised"
        /\ \A r \in Records \ thread[t].batch : fate'[r] = fate[r]
    BY <1>4, Posting DEF Holding
  <2>3. Pending' = Pending
    BY <2>1 DEF Pending
  <2>4. \A u \in Threads \ {t} : u \in Ackers' <=> u \in Ackers
    BY <2>1, <2>2, Batches DEF Ackers, Acked
  <2>5. \A b \in Batchers : Acks[b] \subseteq Acks'[b] /\ Losses[b] \subseteq Losses'[b]
    BY <2>1, <2>2, <2>3, Batches, Sets, SetsNext
  <2> QED
    BY <1>1, <2>1, <2>4, <2>5, Growth, CountedStays DEF Called
<1> QED
  BY <1>2, <1>3, <1>4

LEMMA CountedByRead ==
    ASSUME Types, Called, NothingVanishes, Holding, Counted,
           NEW t \in Threads, ReadCounter(t)
    PROVE  Counted'
<1> DEFINE b == thread[t].b
<1> USE CountTypes, CountTypesNext
<1>1. /\ thread[t].pc = "count" /\ thread'[t].pc = "store" /\ b \in Batchers
      /\ thread'[t].batch = thread[t].batch /\ thread'[t].b = b
      /\ thread'[t].n = IF Acked(t) THEN shipped[b] ELSE dropped[b]
      /\ \A u \in Threads \ {t} : thread'[u] = thread[u]
      /\ UNCHANGED <<shipped, dropped, call, fate>>
  BY DEF ReadCounter, Types, Thread, Holding, Busy
<1>2. Pending' = Pending
  BY <1>1 DEF Pending
<1>3. Ackers' = Ackers /\ (t \in Ackers <=> Acked(t))
  BY <1>1 DEF Ackers, Acked
<1>4. \A a \in Batchers : Acks[a] \subseteq Acks'[a] /\ Losses[a] \subseteq Losses'[a]
  BY <1>1, <1>2, Sets, SetsNext
<1>5. /\ \A a \in Batchers : Shipping[a] <= Shipping'[a] /\ Losing[a] <= Losing'[a]
      /\ \A a \in Batchers : shipped[a] \in Nat /\ dropped[a] \in Nat
      /\ \A u \in Threads : thread[u].n \in Nat
      /\ \A r \in Records : call[r].n \in Nat
  BY <1>4, Growth DEF Types, Thread, Calling
<1>6. \A u \in Threads : thread[u].pc = "store" => thread[u].b \in Batchers
  BY DEF Holding, Busy
<1>7. \A a \in Batchers : shipped'[a] <= Shipping'[a] /\ dropped'[a] <= Losing'[a]
  BY <1>1, <1>5 DEF Counted
<1>8. ASSUME NEW u \in Threads, thread'[u].pc = "store"
      PROVE  thread'[u].n <= IF u \in Ackers' THEN Shipping'[thread'[u].b]
                                              ELSE Losing'[thread'[u].b]
  BY <1>1, <1>3, <1>5, <1>6, <1>8 DEF Counted
<1>9. ASSUME NEW r \in Records, call'[r].pc = "shedding"
      PROVE  call'[r].n <= Losing'[call'[r].b]
  BY <1>1, <1>5, <1>9 DEF Counted, Called
<1> QED
  BY <1>7, <1>8, <1>9 DEF Counted

\* The batch of thread t is counted: its records were pending until now.
LEMMA CountedByStore ==
    ASSUME Types, Called, NothingVanishes, Holding, Counted,
           NEW t \in Threads, StoreCounter(t)
    PROVE  Counted'
<1> DEFINE b == thread[t].b
           B == thread[t].batch
<1> USE CountTypes, CountTypesNext
<1>1. /\ thread[t].pc = "store" /\ thread'[t].pc = "drain" /\ b \in Batchers
      /\ thread'[t].batch = {} /\ B \in SUBSET Records
      /\ \A u \in Threads \ {t} : thread'[u] = thread[u]
      /\ UNCHANGED <<call, fate>>
  BY DEF StoreCounter, Types, Thread, Holding, Busy
<1>2. Pending' = Pending \ B /\ B \subseteq Pending
  BY <1>1, Batches DEF Pending
<1>3. \A u \in Threads \ {t} : u \in Ackers' <=> u \in Ackers
  BY <1>1 DEF Ackers, Acked
<1>4. \A a \in Batchers : Acks[a] \subseteq Acks'[a] /\ Losses[a] \subseteq Losses'[a]
  BY <1>1, <1>2, Sets, SetsNext
<1>5. /\ \A a \in Batchers : Shipping[a] <= Shipping'[a] /\ Losing[a] <= Losing'[a]
      /\ \A a \in Batchers : shipped[a] \in Nat /\ dropped[a] \in Nat
      /\ \A u \in Threads : thread[u].n \in Nat
      /\ \A r \in Records : call[r].n \in Nat
      /\ Cardinality(B) \in Nat
  BY <1>1, <1>4, Growth, Finite DEF Types, Thread, Calling
<1>6. \A u \in Threads : thread[u].pc = "store" => thread[u].b \in Batchers
  BY DEF Holding, Busy
<1>7. \A r \in B : call[r].b = b /\ r \in Records
  BY Batches DEF Holding
<1>8. \A a \in Batchers : shipped'[a] <= Shipping'[a] /\ dropped'[a] <= Losing'[a]
  <2>1. CASE Acked(t)
    <3>1. /\ shipped' = [shipped EXCEPT ![b] = thread[t].n + Cardinality(B)]
          /\ dropped' = dropped
      BY <2>1 DEF StoreCounter
    <3>2. thread[t].n <= Shipping[b]
      BY <1>1, <2>1 DEF Counted, Ackers
    <3>3. Acks[b] \cap B = {} /\ Acks[b] \cup B \subseteq Acks'[b]
      <4>1. \A r \in B : fate[r] = "acked"
        BY <2>1 DEF Acked
      <4>2. Acks[b] \subseteq Acks'[b]
        BY <1>1, <1>4
      <4>3. Acks[b] \cap B = {}
        BY <1>1, <1>2, Sets
      <4>4. ASSUME NEW r \in B PROVE r \in Acks'[b]
        <5>1. call'[r].b = b /\ fate'[r] = "acked" /\ r \in Records
          BY <1>1, <1>7, <4>1, <4>4
        <5>2. r \notin Pending'
          BY <1>2, <4>4
        <5> QED
          BY <1>1, <5>1, <5>2, SetsNext
      <4> QED
        BY <4>2, <4>3, <4>4
    <3>4. Cardinality(Acks[b] \cup B) = Shipping[b] + Cardinality(B)
      <4>1. /\ Acks[b] \in SUBSET Records /\ B \in SUBSET Records
            /\ Acks[b] \cap B = {} /\ Shipping[b] = Cardinality(Acks[b])
        BY <1>1, <3>3, Sets
      <4>2. Cardinality(Acks[b] \cup B) = Cardinality(Acks[b]) + Cardinality(B)
        BY <4>1, Additive
      <4> QED
        BY <4>1, <4>2
    <3>5. Cardinality(Acks[b] \cup B) <= Shipping'[b]
      BY <1>1, <3>3, SetsNext, Monotone
    <3>6. thread[t].n + Cardinality(B) <= Shipping'[b]
      BY <1>1, <1>5, <3>2, <3>4, <3>5
    <3>7. shipped'[b] = thread[t].n + Cardinality(B)
      BY <1>1, <3>1 DEF Types
    <3>8. \A a \in Batchers \ {b} : shipped'[a] = shipped[a]
      BY <3>1 DEF Types
    <3> QED
      BY <1>5, <3>1, <3>6, <3>7, <3>8 DEF Counted
  <2>2. CASE ~Acked(t)
    <3>1. /\ dropped' = [dropped EXCEPT ![b] = thread[t].n + Cardinality(B)]
          /\ shipped' = shipped
      BY <2>2 DEF StoreCounter
    <3>2. thread[t].n <= Losing[b]
      BY <1>1, <2>2 DEF Counted, Ackers
    <3>3. \A r \in B : fate[r] = "failed"
      <4>1. PICK o \in {"acked", "failed"} : \A r \in B : fate[r] = o
        BY <1>1 DEF Holding
      <4> QED
        BY <2>2, <4>1 DEF Acked
    <3>4. Losses[b] \cap B = {} /\ Losses[b] \cup B \subseteq Losses'[b]
      BY <1>1, <1>2, <1>4, <1>7, <3>3, Sets, SetsNext
    <3>5. Cardinality(Losses[b] \cup B) = Losing[b] + Cardinality(B)
      BY <1>1, <3>4, Sets, Additive
    <3>6. Cardinality(Losses[b] \cup B) <= Losing'[b]
      BY <1>1, <3>4, SetsNext, Monotone
    <3>7. thread[t].n + Cardinality(B) <= Losing'[b]
      BY <1>1, <1>5, <3>2, <3>5, <3>6
    <3>8. dropped'[b] = thread[t].n + Cardinality(B)
      BY <1>1, <3>1 DEF Types
    <3>9. \A a \in Batchers \ {b} : dropped'[a] = dropped[a]
      BY <3>1 DEF Types
    <3> QED
      BY <1>5, <3>1, <3>7, <3>8, <3>9 DEF Counted
  <2> QED
    BY <2>1, <2>2
<1>9. ASSUME NEW u \in Threads, thread'[u].pc = "store"
      PROVE  thread'[u].n <= IF u \in Ackers' THEN Shipping'[thread'[u].b]
                                              ELSE Losing'[thread'[u].b]
  BY <1>1, <1>3, <1>5, <1>6, <1>9 DEF Counted
<1>10. ASSUME NEW r \in Records, call'[r].pc = "shedding"
       PROVE  call'[r].n <= Losing'[call'[r].b]
  BY <1>1, <1>5, <1>10 DEF Counted, Called
<1> QED
  BY <1>8, <1>9, <1>10 DEF Counted

LEMMA CountedStep ==
    Types /\ Called /\ Posted /\ NothingVanishes /\ Holding /\ Counted /\ [Next]_vars
        => Counted'
<1> SUFFICES ASSUME Types, Called, Posted, NothingVanishes, Holding, Counted, [Next]_vars
             PROVE  Counted'
  OBVIOUS
<1>1. CASE Quiet \/ UNCHANGED vars
  <2>1. Still
    BY <1>1, QuietIsStill DEF Still, vars
  <2>2. Pending' = Pending /\ \A t \in Threads : t \in Ackers' <=> t \in Ackers
    BY <2>1 DEF Still, Busy, Pending, Ackers, Acked
  <2>3. \A b \in Batchers : Acks[b] \subseteq Acks'[b] /\ Losses[b] \subseteq Losses'[b]
    BY <2>1, <2>2, Sets, SetsNext DEF Still
  <2>4. \A t \in Threads : thread[t].pc = "store" => thread[t].b \in Batchers
    BY DEF Holding, Busy
  <2> QED
    BY <2>1, <2>2, <2>3, <2>4, Growth, CountedStays DEF Still, Busy, Called
<1>2. ASSUME NEW r \in Records, Call(r) \/ RecordStep(r) PROVE Counted'
  BY <1>2, CountedByCall, CountedByShed DEF RecordStep
<1>3. ASSUME NEW t \in Threads, ThreadStep(t) PROVE Counted'
  BY <1>3, CountedByPost, CountedByRead, CountedByStore DEF ThreadStep
<1> QED
  BY <1>1, <1>2, <1>3, NextCases

-----------------------------------------------------------------------------
(* The bound of the queue, and the induction *)

QueueBound == \A b \in Batchers : Cardinality(queue[b]) <= MaxQueue

LEMMA QueueBoundStep ==
    Types /\ Called /\ Holding /\ QueueBound /\ [Next]_vars => QueueBound'
<1> SUFFICES ASSUME Types, Called, Holding, QueueBound, [Next]_vars PROVE QueueBound'
  OBVIOUS
<1>1. CASE UNCHANGED queue
  BY <1>1 DEF QueueBound
<1>2. ASSUME NEW r \in Records, Append(r) PROVE QueueBound'
  <2>1. /\ queue' = [queue EXCEPT ![call[r].b] = @ \cup {r}]
        /\ Cardinality(queue[call[r].b]) < MaxQueue
        /\ call[r].b \in Batchers
    BY <1>2 DEF Append, Called
  <2>2. queue[call[r].b] \in SUBSET Records
    BY <2>1 DEF Types
  <2>3. Cardinality(queue[call[r].b] \cup {r}) <= MaxQueue
    <3> DEFINE q == queue[call[r].b]
    <3>1. IsFiniteSet(q) /\ Cardinality(q) \in Nat
      BY <2>2, Finite
    <3>2. Cardinality(q \cup {r}) = IF r \in q THEN Cardinality(q) ELSE Cardinality(q) + 1
      BY <3>1, FS_AddElement
    <3> QED
      BY <2>1, <3>1, <3>2, Limits
  <2>4. \A b \in Batchers :
           queue'[b] = IF b = call[r].b THEN queue[b] \cup {r} ELSE queue[b]
    BY <2>1 DEF Types
  <2> QED
    BY <2>3, <2>4 DEF QueueBound
<1>3. ASSUME NEW t \in Threads, Drain(t) PROVE QueueBound'
  <2>1. PICK S : queue' = [queue EXCEPT ![thread[t].b] = @ \ S]
    BY <1>3 DEF Drain
  <2>2. \A b \in Batchers : queue[b] \in SUBSET Records /\ queue'[b] \in SUBSET queue[b]
    BY <2>1 DEF Types
  <2>3. \A b \in Batchers : /\ Cardinality(queue'[b]) <= Cardinality(queue[b])
                            /\ Cardinality(queue'[b]) \in Nat
                            /\ Cardinality(queue[b]) \in Nat
    BY <2>2, Monotone, Finite
  <2> QED
    BY <2>3, Limits DEF QueueBound
<1> QED
  BY <1>1, <1>2, <1>3, NextCases, QuietIsStill
     DEF Still, vars, RecordStep, ThreadStep, Call, Take, CheckClosed, Shed, CountShed,
         Post, PostRaises, ReadCounter, StoreCounter

LEMMA TypeParts == TypeOK <=> Types /\ QueueBound
  BY DEF TypeOK, Types, QueueBound

LEMMA Initially == Init => IInv
<1> SUFFICES ASSUME Init PROVE IInv
  OBVIOUS
<1> USE Numbers, BatcherAssumption
<1>1. Types
  BY TypesInit
<1>2. /\ \A t \in Threads : thread[t].batch = {} /\ thread[t].pc \in {"idle", "unborn"}
      /\ \A b \in Batchers : /\ thread[b].pc = "unborn" /\ thread[b].b = b /\ queue[b] = {}
                             /\ shipped[b] = 0 /\ dropped[b] = 0
      /\ thread[Main].task = "none"
      /\ \A r \in Records : call[r].pc = "none" /\ fate[r] = "none" /\ posts[r] = 0
  BY DEF Init, Main
<1>3. QueueBound
  <2>1. Cardinality({}) = 0
    BY FS_EmptySet
  <2>2. 0 <= MaxQueue
    BY Limits
  <2>3. \A b \in Batchers : Cardinality(queue[b]) = 0
    BY <1>2, <2>1
  <2> QED
    BY <2>2, <2>3 DEF QueueBound
<1>4. Counted
  BY <1>2, CountTypes DEF Counted
<1> QED
  BY <1>1, <1>2, <1>3, <1>4, TypeParts
     DEF IInv, NothingVanishes, Holding, Posted, Called, Open, Busy

LEMMA Inductive == IInv /\ [Next]_vars => IInv'
<1> SUFFICES ASSUME IInv, [Next]_vars PROVE IInv'
  OBVIOUS
<1>1. Types /\ QueueBound /\ NothingVanishes /\ Holding /\ Posted /\ Called /\ Counted /\ Open
  BY TypeParts DEF IInv
<1>2. Types' /\ QueueBound'
  BY <1>1, TypesStep, QueueBoundStep
<1>3. TypeOK'
  BY <1>2 DEF TypeOK, Types, QueueBound
<1>4. NothingVanishes' /\ Holding' /\ Posted'
  BY <1>1, PlacesStep, HoldingStep, PostedStep
<1>5. Called' /\ Counted' /\ Open'
  BY <1>1, CalledStep, CountedStep, OpenStep
<1> QED
  BY <1>3, <1>4, <1>5 DEF IInv

\* Every reachable state satisfies the inductive invariant.
THEOREM Invariance == Spec => []IInv
  BY Initially, Inductive, PTL DEF Spec

-----------------------------------------------------------------------------
(* The theorems *)

\* Every variable keeps its type, and no queue outgrows max_queue, however
\* many threads record, drain and shed at once.
THEOREM TypeCorrect == Spec => []TypeOK
<1>1. IInv => TypeOK
  BY DEF IInv
<1> QED
  BY <1>1, Invariance, PTL

\* An accepted record is in one place: a queue, one thread's batch, or behind
\* its POST (Batcher.record, _drain and _ship keep it so without a common lock).
THEOREM RecordsAreInOnePlace == Spec => []NothingVanishes
<1>1. IInv => NothingVanishes
  BY DEF IInv
<1> QED
  BY <1>1, Invariance, PTL

\* No record is posted twice, whichever threads drain, flush, close or init.
THEOREM RecordsShipOnce == Spec => []ShippedOnce
<1>1. IInv => ShippedOnce
  BY DEF IInv, Posted, ShippedOnce
<1> QED
  BY <1>1, Invariance, PTL

\* The counters, written without the lock by several threads, may lose updates
\* but never claim more than happened.
THEOREM CountersStayHonest == Spec => []CountersAreHonest
<1>1. ASSUME IInv PROVE CountersAreHonest
  <2>1. \A b \in Batchers : /\ Delivered(b) \in SUBSET Records
                            /\ Lost(b) \in SUBSET Records
                            /\ Delivered(b) \ Pending \in SUBSET Delivered(b)
                            /\ Lost(b) \ Pending \in SUBSET Lost(b)
    BY DEF Delivered, Lost
  <2>2. \A b \in Batchers : /\ Cardinality(Delivered(b)) \in Nat
                            /\ Cardinality(Lost(b)) \in Nat
                            /\ Shipping[b] <= Cardinality(Delivered(b))
                            /\ Losing[b] <= Cardinality(Lost(b))
    BY <2>1, Monotone, Finite DEF Shipping, Losing
  <2>3. \A b \in Batchers : /\ shipped[b] \in Nat /\ shipped[b] <= Shipping[b]
                            /\ dropped[b] \in Nat /\ dropped[b] <= Losing[b]
    BY <1>1 DEF IInv, TypeOK, Counted
  <2> QED
    BY <2>2, <2>3, CountTypes DEF CountersAreHonest
<1> QED
  BY <1>1, Invariance, PTL

\* init replaces the batcher, it never stacks a second one that also ships.
THEOREM OneBatcherIsOpen == Spec => []OneOpen
<1>1. IInv => OneOpen
  BY DEF IInv, Open, OneOpen
<1> QED
  BY <1>1, Invariance, PTL

=============================================================================
