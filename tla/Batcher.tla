------------------------------ MODULE Batcher -------------------------------
(***************************************************************************)
(* The SDK inside a customer's process (sdk/__init__.py, sdk/batcher.py):  *)
(* threads of the application hand usage records to the current batcher,   *)
(* its daemon thread posts them in batches, and the main thread inits the  *)
(* SDK (again), flushes, closes and exits.                                 *)
(*                                                                         *)
(* One lock protects a batcher's queue; _closed, shipped and dropped are   *)
(* read and written without it.  A record is one call of record, made by   *)
(* a thread of its own; the order inside a queue is left out.  The wake    *)
(* event is left out too: it only shortens a wait that ends by itself.     *)
(***************************************************************************)
EXTENDS Naturals, FiniteSets

CONSTANTS
    Records,
    MaxInits,     \* bound: batchers are numbered 1 .. MaxInits
    BatchSize,    \* batch_size
    MaxQueue,     \* max_queue
    BadAnswers    \* whether an answer may break HTTP (http.client.HTTPException)

Batchers == 1 .. MaxInits
NoBatcher == 0
Main == 0                        \* the main thread; b is the thread of batcher b
Threads == Batchers \cup {Main}

ASSUME BatcherAssumption ==
    /\ IsFiniteSet(Records)
    /\ MaxInits \in Nat
    /\ BatchSize \in Nat \ {0}
    /\ MaxQueue \in Nat \ {0}
    /\ BadAnswers \in BOOLEAN

VARIABLES
    current,      \* the module's _batcher
    closed,       \* _closed
    queue,        \* _queue
    dropped,      \* the counters, dropped ...
    shipped,      \* ... and shipped
    call,         \* the calls of record
    thread,       \* the main thread and the batchers' threads
    posts,        \* how often the server received a record
    fate          \* what became of the POST of a record

vars == <<current, closed, queue, dropped, shipped, call, thread, posts, fate>>

Outcomes == {"none", "acked", "failed", "raised"}
Pcs == {"unborn", "check", "wait", "drain", "post", "count", "store", "idle", "over"}
Tasks == {"none", "init", "flush", "close", "exit"}

\* A call of record: the batcher it read, and the counter.
Calling == [pc : {"none", "seen", "called", "open", "shedding", "queued", "shed", "ignored"},
            b  : Batchers \cup {NoBatcher},
            n  : Nat]

\* A thread: what main is doing, the batcher it works on, the batch it has
\* drained, the counter it has read.
Thread == [pc    : Pcs,
           task  : Tasks,
           b     : Batchers \cup {NoBatcher},
           batch : SUBSET Records,
           n     : Nat]

TypeOK ==
    /\ current \in Batchers \cup {NoBatcher}
    /\ closed \in [Batchers -> BOOLEAN]
    /\ queue \in [Batchers -> SUBSET Records]
    /\ \A b \in Batchers : Cardinality(queue[b]) <= MaxQueue
    /\ dropped \in [Batchers -> Nat]
    /\ shipped \in [Batchers -> Nat]
    /\ call \in [Records -> Calling]
    /\ thread \in [Threads -> Thread]
    /\ posts \in [Records -> 0 .. 2]
    /\ fate \in [Records -> Outcomes]

Init ==
    /\ current = NoBatcher
    /\ closed = [b \in Batchers |-> FALSE]
    /\ queue = [b \in Batchers |-> {}]
    /\ dropped = [b \in Batchers |-> 0]
    /\ shipped = [b \in Batchers |-> 0]
    /\ call = [r \in Records |-> [pc |-> "none", b |-> NoBatcher, n |-> 0]]
    /\ thread = [t \in Threads |->
                   [pc |-> IF t = Main THEN "idle" ELSE "unborn", task |-> "none",
                    b |-> t, batch |-> {}, n |-> 0]]
    /\ posts = [r \in Records |-> 0]
    /\ fate = [r \in Records |-> "none"]

Alive == thread[Main].pc # "over"

\* A caller that sheds holds the lock between reading and writing dropped.
Locked(b) == \E r \in Records : call[r].pc = "shedding" /\ call[r].b = b

-----------------------------------------------------------------------------
(* record *)

\* sdk.record looks whether the module has a batcher ...
Call(r) ==
    /\ Alive
    /\ thread[Main].task # "exit"      \* interpreter exit joins the callers first
    /\ call[r].pc = "none"
    /\ call' = [call EXCEPT ![r].pc = IF current = NoBatcher THEN "ignored" ELSE "seen"]
    /\ UNCHANGED <<current, closed, queue, dropped, shipped, thread, posts, fate>>

\* ... and reads it again to use it: a close in between leaves None, which raises.
Take(r) ==
    /\ Alive
    /\ call[r].pc = "seen"
    /\ call' = [call EXCEPT ![r] = [@ EXCEPT
                  !.pc = IF current = NoBatcher THEN "ignored" ELSE "called",
                  !.b = current]]
    /\ UNCHANGED <<current, closed, queue, dropped, shipped, thread, posts, fate>>

\* Batcher.record looks at _closed, without the lock.
CheckClosed(r) ==
    /\ Alive
    /\ call[r].pc = "called"
    /\ call' = [call EXCEPT ![r].pc = IF closed[call[r].b] THEN "ignored" ELSE "open"]
    /\ UNCHANGED <<current, closed, queue, dropped, shipped, thread, posts, fate>>

\* Mutant of Append: "len > maxlen", and a full deque evicts its oldest record.
AppendEvicting(r) ==
    LET b == call[r].b IN
    /\ Alive
    /\ call[r].pc = "open"
    /\ ~Locked(b)
    /\ \E evicted \in SUBSET queue[b] :
          /\ Cardinality(evicted) = IF Cardinality(queue[b]) < MaxQueue THEN 0 ELSE 1
          /\ queue' = [queue EXCEPT ![b] = (@ \ evicted) \cup {r}]
    /\ call' = [call EXCEPT ![r].pc = "queued"]
    /\ UNCHANGED <<current, closed, dropped, shipped, thread, posts, fate>>

Append(r) ==
    LET b == call[r].b IN
    /\ Alive
    /\ call[r].pc = "open"
    /\ ~Locked(b)
    /\ Cardinality(queue[b]) < MaxQueue
    /\ queue' = [queue EXCEPT ![b] = @ \cup {r}]
    /\ call' = [call EXCEPT ![r].pc = "queued"]
    /\ UNCHANGED <<current, closed, dropped, shipped, thread, posts, fate>>

\* The queue is full: shed and count, in two steps under the lock.
Shed(r) ==
    LET b == call[r].b IN
    /\ Alive
    /\ call[r].pc = "open"
    /\ ~Locked(b)
    /\ Cardinality(queue[b]) >= MaxQueue
    /\ call' = [call EXCEPT ![r] = [@ EXCEPT !.pc = "shedding", !.n = dropped[b]]]
    /\ UNCHANGED <<current, closed, queue, dropped, shipped, thread, posts, fate>>

CountShed(r) ==
    /\ Alive
    /\ call[r].pc = "shedding"
    /\ dropped' = [dropped EXCEPT ![call[r].b] = call[r].n + 1]
    /\ call' = [call EXCEPT ![r] = [@ EXCEPT !.pc = "shed", !.n = 0]]
    /\ UNCHANGED <<current, closed, queue, shipped, thread, posts, fate>>

-----------------------------------------------------------------------------
(* The batcher's thread, and flush on the main thread *)

Go(t, pc) == thread' = [thread EXCEPT ![t].pc = pc]

\* while not self._closed
CheckLoop(b) ==
    /\ Alive
    /\ thread[b].pc = "check"
    /\ Go(b, IF closed[b] THEN "over" ELSE "wait")
    /\ UNCHANGED <<current, closed, queue, dropped, shipped, call, posts, fate>>

\* The wait ends: woken, or after flush_interval.
Wake(b) ==
    /\ Alive
    /\ thread[b].pc = "wait"
    /\ Go(b, "drain")
    /\ UNCHANGED <<current, closed, queue, dropped, shipped, call, posts, fate>>

\* A batch that _drain may return: what is queued, or a full batch of it.
Drained(b) ==
    {s \in SUBSET queue[b] :
        Cardinality(s) = BatchSize \/ (s = queue[b] /\ Cardinality(s) <= BatchSize)}

Drain(t) ==
    LET b == thread[t].b IN
    /\ Alive
    /\ thread[t].pc = "drain"
    /\ ~Locked(b)
    /\ queue[b] # {}
    /\ \E s \in Drained(b) :
          /\ queue' = [queue EXCEPT ![b] = @ \ s]
          /\ thread' = [thread EXCEPT ![t] = [@ EXCEPT !.pc = "post", !.batch = s]]
    /\ UNCHANGED <<current, closed, dropped, shipped, call, posts, fate>>

\* The server has the batch or not; posts counts to 2, which is once too often.
Received(t) ==
    \/ UNCHANGED posts
    \/ posts' = [r \in Records |->
                   IF r \in thread[t].batch /\ posts[r] < 2 THEN posts[r] + 1 ELSE posts[r]]

Decided(t, outcome) ==
    fate' = [r \in Records |-> IF r \in thread[t].batch THEN outcome ELSE fate[r]]

\* Mutant of Post: a failure is not caught and ends the batcher's thread.
PostUncaught(t) ==
    /\ Alive
    /\ thread[t].pc = "post"
    /\ Received(t)
    /\ \/ Decided(t, "failed") /\ Go(t, IF t = Main THEN "count" ELSE "over")
       \/ Decided(t, "acked") /\ Go(t, "count")
    /\ UNCHANGED <<current, closed, queue, dropped, shipped, call>>

\* A lost answer counts as a failure.
Post(t) ==
    /\ Alive
    /\ thread[t].pc = "post"
    /\ Received(t)
    /\ \/ Decided(t, "failed")
       \/ Decided(t, "acked") /\ \A r \in thread[t].batch : posts'[r] # posts[r]
    /\ Go(t, "count")
    /\ UNCHANGED <<current, closed, queue, dropped, shipped, call>>

\* HTTPException is no OSError: it leaves _post, and ends the batcher's thread,
\* or what the main thread was doing.
PostRaises(t) ==
    LET ends == t # Main \/ thread[t].task = "exit" IN
    /\ Alive
    /\ BadAnswers
    /\ thread[t].pc = "post"
    /\ Received(t)
    /\ Decided(t, "raised")
    /\ thread' = [thread EXCEPT ![t] = [@ EXCEPT
                    !.pc = IF ends THEN "over" ELSE "idle",
                    !.task = "none",
                    !.batch = {}]]
    /\ UNCHANGED <<current, closed, queue, dropped, shipped, call>>

Acked(t) == \A r \in thread[t].batch : fate[r] = "acked"

\* shipped += len(batch), or dropped += len(batch): read ...
ReadCounter(t) ==
    LET b == thread[t].b IN
    /\ Alive
    /\ thread[t].pc = "count"
    /\ thread' = [thread EXCEPT ![t] = [@ EXCEPT
                    !.pc = "store",
                    !.n = IF Acked(t) THEN shipped[b] ELSE dropped[b]]]
    /\ UNCHANGED <<current, closed, queue, dropped, shipped, call, posts, fate>>

\* Mutant of StoreCounter: what was posted counts as shipped in any case.
StoreShipped(t) ==
    /\ Alive
    /\ thread[t].pc = "store"
    /\ shipped' = [shipped EXCEPT ![thread[t].b] = @ + Cardinality(thread[t].batch)]
    /\ thread' = [thread EXCEPT ![t] = [@ EXCEPT !.pc = "drain", !.batch = {}, !.n = 0]]
    /\ UNCHANGED <<current, closed, queue, dropped, call, posts, fate>>

\* ... and write, without the lock.
StoreCounter(t) ==
    LET b == thread[t].b
        sum == thread[t].n + Cardinality(thread[t].batch) IN
    /\ Alive
    /\ thread[t].pc = "store"
    /\ IF Acked(t)
       THEN shipped' = [shipped EXCEPT ![b] = sum] /\ UNCHANGED dropped
       ELSE dropped' = [dropped EXCEPT ![b] = sum] /\ UNCHANGED shipped
    /\ thread' = [thread EXCEPT ![t] = [@ EXCEPT !.pc = "drain", !.batch = {}, !.n = 0]]
    /\ UNCHANGED <<current, closed, queue, call, posts, fate>>

\* An empty drain ends the inner loop of the batcher's thread.
DrainEmpty(b) ==
    /\ Alive
    /\ thread[b].pc = "drain"
    /\ ~Locked(b)
    /\ queue[b] = {}
    /\ Go(b, "check")
    /\ UNCHANGED <<current, closed, queue, dropped, shipped, call, posts, fate>>

-----------------------------------------------------------------------------
(* The main thread: init, flush, close, exit *)

Begin(task) ==
    thread' = [thread EXCEPT ![Main] =
                  [@ EXCEPT !.pc = "drain", !.task = task, !.b = current]]

\* Batcher.close, called by init, close and atexit: _closed, then flush.
Retire(task) ==
    /\ thread[Main].pc = "idle"
    /\ current # NoBatcher
    /\ ~closed[current]
    /\ closed' = [closed EXCEPT ![current] = TRUE]
    /\ Begin(task)
    /\ UNCHANGED <<current, queue, dropped, shipped, call, posts, fate>>

Flush ==
    /\ thread[Main].pc = "idle"
    /\ current # NoBatcher
    /\ Begin("flush")
    /\ UNCHANGED <<current, closed, queue, dropped, shipped, call, posts, fate>>

\* A new batcher and its thread.
Start(b) ==
    /\ thread[b].pc = "unborn"
    /\ \A a \in Batchers : a < b => thread[a].pc # "unborn"
    /\ thread' = [thread EXCEPT ![b].pc = "check",
                                ![Main] = [@ EXCEPT !.pc = "idle", !.task = "none"]]
    /\ current' = b
    /\ UNCHANGED <<closed, queue, dropped, shipped, call, posts, fate>>

\* There is no batcher, or an exception left a closed one behind.
NothingToClose ==
    /\ thread[Main].pc = "idle"
    /\ current # NoBatcher => closed[current]

\* The first init, or one after close.
InitSDK == NothingToClose /\ \E b \in Batchers : Start(b)

Reinit ==
    /\ \E b \in Batchers : thread[b].pc = "unborn"
    /\ Retire("init")

CallersDone == \A r \in Records : call[r].pc \notin {"seen", "called", "open", "shedding"}

\* close finds the batcher closed and only forgets it.
Forget ==
    /\ NothingToClose
    /\ current' = NoBatcher
    /\ UNCHANGED <<closed, queue, dropped, shipped, call, thread, posts, fate>>

\* atexit closes the current batcher; those before it are closed already.
Atexit ==
    /\ CallersDone
    /\ Retire("exit")

\* Nothing to close: the process ends, and daemon threads with it.
Exit ==
    /\ CallersDone
    /\ NothingToClose
    /\ Go(Main, "over")
    /\ UNCHANGED <<current, closed, queue, dropped, shipped, call, posts, fate>>

\* main's flush is done: what its caller does next.
Flushed ==
    LET task == thread[Main].task IN
    /\ thread[Main].pc = "drain"
    /\ ~Locked(thread[Main].b)
    /\ queue[thread[Main].b] = {}
    /\ CASE task = "init"  -> \E b \in Batchers : Start(b)
         [] task = "close" ->
               /\ current' = NoBatcher
               /\ thread' = [thread EXCEPT ![Main] = [@ EXCEPT !.pc = "idle", !.task = "none"]]
               /\ UNCHANGED <<closed, queue, dropped, shipped, call, posts, fate>>
         [] task = "exit"  ->
               /\ thread' = [thread EXCEPT ![Main].pc = "over"]   \* daemons die
               /\ UNCHANGED <<current, closed, queue, dropped, shipped, call, posts, fate>>
         [] OTHER          ->
               /\ thread' = [thread EXCEPT ![Main] = [@ EXCEPT !.pc = "idle", !.task = "none"]]
               /\ UNCHANGED <<current, closed, queue, dropped, shipped, call, posts, fate>>

-----------------------------------------------------------------------------
RecordStep(r) == Take(r) \/ CheckClosed(r) \/ Append(r) \/ Shed(r) \/ CountShed(r)
ThreadStep(t) == Drain(t) \/ Post(t) \/ PostRaises(t) \/ ReadCounter(t) \/ StoreCounter(t)
FlusherStep(b) == ThreadStep(b) \/ CheckLoop(b) \/ Wake(b) \/ DrainEmpty(b)
MainStep == ThreadStep(Main) \/ Flushed

Next ==
    \/ \E r \in Records : Call(r) \/ RecordStep(r)
    \/ \E b \in Batchers : FlusherStep(b)
    \/ MainStep
    \/ InitSDK \/ Reinit \/ Flush \/ Retire("close") \/ Forget \/ Atexit \/ Exit

Spec == Init /\ [][Next]_vars

\* Threads run.  Nobody has to call, flush, close or exit.
FairSpec ==
    /\ Spec
    /\ \A r \in Records : WF_vars(RecordStep(r))
    /\ \A b \in Batchers : WF_vars(FlusherStep(b))
    /\ WF_vars(MainStep)

-----------------------------------------------------------------------------
(* Properties *)

\* No record is shipped twice: not by two threads that drain at once, not by a
\* flush beside a close, not by a batcher and its successor ("both batchers
\* ship every instrumented call", sdk/__init__.py:81-83).
ShippedOnce == \A r \in Records : posts[r] <= 1

\* An accepted record is in exactly one place: its own batcher's queue, the
\* batch of one thread, or behind a POST.  A shed or ignored one is nowhere:
\* the full buffer sheds the new record and never evicts an old one unseen.
NothingVanishes ==
    \A r \in Records :
        /\ call[r].pc = "queued" <=>
              \/ \E b \in Batchers : r \in queue[b]
              \/ \E t \in Threads : r \in thread[t].batch
              \/ fate[r] # "none"
        /\ \A b \in Batchers : r \in queue[b] =>
              /\ call[r].b = b
              /\ fate[r] = "none"
              /\ \A t \in Threads : r \notin thread[t].batch
        /\ \A t, u \in Threads :
              r \in thread[t].batch /\ r \in thread[u].batch => t = u

\* What the counters of batcher b should say.
Delivered(b) == {r \in Records : call[r].b = b /\ fate[r] = "acked"}
Lost(b) == {r \in Records : call[r].b = b /\ (fate[r] = "failed" \/ call[r].pc = "shed")}

\* The counters race and may fall behind, but they never claim more than
\* happened: shipped counts acknowledged records, dropped shed and failed ones.
CountersAreHonest ==
    \A b \in Batchers :
        /\ shipped[b] <= Cardinality(Delivered(b))
        /\ dropped[b] <= Cardinality(Lost(b))

\* A second init replaces the batcher and does not stack another on it.
OneOpen ==
    \A a, b \in Batchers :
        thread[a].pc # "unborn" /\ thread[b].pc # "unborn" /\ ~closed[a] /\ ~closed[b]
        => a = b

\* A record that is queued before its batcher is closed leaves the queue: the
\* batcher's thread posts it, or the flush of close does, or of exit, unless an
\* answer raised.
QueuedIsSent ==
    \A r \in Records :
        (\E b \in Batchers : r \in queue[b] /\ ~closed[b])
        ~> \/ \A b \in Batchers : r \notin queue[b]
           \/ \E s \in Records : fate[s] = "raised"

=============================================================================
