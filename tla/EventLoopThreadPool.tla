------------------------ MODULE EventLoopThreadPool ------------------------
(***************************************************************************)
(* core::EventLoopThreadPool and core::EventLoopThread: the base thread    *)
(* starts the pool's threads one by one, each start waiting on a condition *)
(* variable for the loop the thread makes on its stack, and the destructor *)
(* quits and joins them one by one.  loop_ is written by a thread under    *)
(* mutex_; the destructor reads it without.  A critical section is one     *)
(* step.  Of EventLoop only loop(), quit() and its lifetime are here.      *)
(* getNextLoop() is in TcpServer.tla; fairness is in ServerTeardown.tla,   *)
(* which puts the server and the rounds of the loops on top of this.       *)
(***************************************************************************)
EXTENDS Integers, Sequences, Functions

CONSTANTS NumThreads,   \* num_threads_
          LoopsMayQuit  \* whether code run by a loop may call its quit()

ASSUME PoolAssumption == NumThreads \in Nat \ {0} /\ LoopsMayQuit \in BOOLEAN

Threads == 1 .. NumThreads

VARIABLES
    owner,     \* where the base thread is
    cur,       \* the EventLoopThread it starts or destroys
    loops,     \* loops_
    worker,    \* where each thread is in threadFunc()
    loop,      \* EventLoopThread::loop_ is set
    object,    \* the EventLoop on the thread's stack
    quit,      \* its quit_
    selfQuit,  \* history: loops that were quit from within
    early,     \* history: loops that were quit before loop() was entered
    deadUse    \* history: a member of a destroyed EventLoop was called

vars == <<owner, cur, loops, worker, loop, object, quit, selfQuit, early, deadUse>>
workerVars == <<worker, loop, object, quit>>
histVars == <<selfQuit, early, deadUse>>

\* The process has not been brought down by std::terminate or a null pointer.
Running == owner \notin {"terminated", "crashed"}

-----------------------------------------------------------------------------
(* The base thread. *)

\* EventLoopThreadPool::start() comes to its next thread: startLoop() makes it.
StartLoop ==
    /\ owner = "start"
    /\ worker' = [worker EXCEPT ![cur] = "construct"]
    /\ owner' = "check"
    /\ UNCHANGED <<cur, loops, loop, object, quit, histVars>>

\* startLoop(): loop_ is looked at under mutex_; the wait gives it up.
CheckLoop ==
    /\ owner = "check"
    /\ IF loop[cur]
       THEN /\ loops' = Append(loops, cur)
            /\ owner' = IF cur < NumThreads THEN "start" ELSE "up"
            /\ cur' = IF cur < NumThreads THEN cur + 1 ELSE 1
       ELSE owner' = "wait" /\ UNCHANGED <<cur, loops>>
    /\ UNCHANGED <<workerVars, histVars>>

\* cond_.wait() may return without a notification.
SpuriousWakeup ==
    /\ owner = "wait"
    /\ owner' = "check"
    /\ UNCHANGED <<cur, loops, workerVars, histVars>>

\* The destructor of the pool: threads_ go in order.
DestroyPool ==
    /\ owner = "up"
    /\ owner' = "test"
    /\ UNCHANGED <<cur, loops, workerVars, histVars>>

\* The vector's destructor goes on to the next element.
NextThread ==
    /\ owner' = IF cur < NumThreads THEN "test" ELSE "gone"
    /\ cur' = IF cur < NumThreads THEN cur + 1 ELSE cur

\* ~EventLoopThread(): loop_ is tested.  When it is null nothing is joined and
\* ~thread() of a thread that was started calls std::terminate.
TestLoop ==
    /\ owner = "test"
    /\ owner' = IF loop[cur] THEN "quit" ELSE "terminated"
    /\ UNCHANGED <<cur, loops, workerVars, histVars>>

\* Faulty variant: the loop is woken up but quit_ is not set.
BugQuitLoop ==
    /\ owner = "quit"
    /\ owner' = "wakeup"
    /\ UNCHANGED <<cur, loops, workerVars, histVars>>

\* loop_ is read once more, or the value tested is used again; quit() sets
\* quit_.
QuitLoop ==
    /\ owner = "quit"
    /\ \/ /\ owner' = "wakeup"
          /\ quit' = [quit EXCEPT ![cur] = TRUE]
          /\ deadUse' = (deadUse \/ object[cur] = "dead")
          /\ early' = IF worker[cur] = "enter" THEN early \cup {cur} ELSE early
       \/ /\ ~loop[cur]
          /\ owner' = "crashed"
          /\ UNCHANGED <<quit, deadUse, early>>
    /\ UNCHANGED <<cur, loops, worker, loop, object, selfQuit>>

\* Faulty variant: the thread is detached.
BugWakeupLoop ==
    /\ owner = "wakeup"
    /\ NextThread
    /\ UNCHANGED <<loops, workerVars, histVars>>

\* quit() goes on to isInLoopThread() and wakeup().
WakeupLoop ==
    /\ owner = "wakeup"
    /\ owner' = "join"
    /\ deadUse' = (deadUse \/ object[cur] = "dead")
    /\ UNCHANGED <<cur, loops, workerVars, selfQuit, early>>

Join ==
    /\ owner = "join"
    /\ worker[cur] = "ended"
    /\ NextThread
    /\ UNCHANGED <<loops, workerVars, histVars>>

-----------------------------------------------------------------------------
(* threadFunc() of thread t. *)

Move(t, from, to) ==
    /\ Running
    /\ worker[t] = from
    /\ worker' = [worker EXCEPT ![t] = to]

Construct(t) ==
    /\ Move(t, "construct", "callback")
    /\ object' = [object EXCEPT ![t] = "built"]
    /\ UNCHANGED <<owner, cur, loops, loop, quit, histVars>>

InitCallback(t) ==
    /\ Move(t, "callback", "publish")
    /\ object' = [object EXCEPT ![t] = "ready"]
    /\ UNCHANGED <<owner, cur, loops, loop, quit, histVars>>

\* Faulty variant: nobody is notified.
BugPublish(t) ==
    /\ Move(t, "publish", "enter")
    /\ loop' = [loop EXCEPT ![t] = TRUE]
    /\ UNCHANGED <<owner, cur, loops, object, quit, histVars>>

\* loop_ is set and the base thread notified, under mutex_.
Publish(t) ==
    /\ Move(t, "publish", "enter")
    /\ loop' = [loop EXCEPT ![t] = TRUE]
    /\ owner' = IF owner = "wait" /\ cur = t THEN "check" ELSE owner
    /\ UNCHANGED <<cur, loops, object, quit, histVars>>

\* Faulty variant: loop_ is cleared on the way into loop().
BugEnterLoop(t) ==
    /\ Move(t, "enter", "loop")
    /\ quit' = [quit EXCEPT ![t] = FALSE]
    /\ loop' = [loop EXCEPT ![t] = FALSE]
    /\ UNCHANGED <<owner, cur, loops, object, histVars>>

\* loop() clears quit_.
EnterLoop(t) ==
    /\ Move(t, "enter", "loop")
    /\ quit' = [quit EXCEPT ![t] = FALSE]
    /\ UNCHANGED <<owner, cur, loops, loop, object, histVars>>

\* A handler or functor of the loop calls quit().
QuitFromWithin(t) ==
    /\ Running
    /\ LoopsMayQuit
    /\ worker[t] = "loop"
    /\ ~quit[t]
    /\ quit' = [quit EXCEPT ![t] = TRUE]
    /\ selfQuit' = selfQuit \cup {t}
    /\ UNCHANGED <<owner, cur, loops, worker, loop, object, early, deadUse>>

\* The loop sees quit_ at the end of a round, which poll() ends after 10 ms.
LeaveLoop(t) ==
    /\ quit[t]
    /\ Move(t, "loop", "clear")
    /\ UNCHANGED <<owner, cur, loops, loop, object, quit, histVars>>

ClearLoop(t) ==
    /\ Move(t, "clear", "return")
    /\ loop' = [loop EXCEPT ![t] = FALSE]
    /\ UNCHANGED <<owner, cur, loops, object, quit, histVars>>

\* threadFunc() returns: the EventLoop on its stack is destroyed.
Return(t) ==
    /\ Move(t, "return", "ended")
    /\ object' = [object EXCEPT ![t] = "dead"]
    /\ UNCHANGED <<owner, cur, loops, loop, quit, histVars>>

-----------------------------------------------------------------------------
Init ==
    /\ owner = "start"
    /\ cur = 1
    /\ loops = <<>>
    /\ worker = [t \in Threads |-> "none"]
    /\ loop = [t \in Threads |-> FALSE]
    /\ object = [t \in Threads |-> "none"]
    /\ quit = [t \in Threads |-> FALSE]
    /\ selfQuit = {}
    /\ early = {}
    /\ deadUse = FALSE

OwnerStep ==
    \/ StartLoop \/ CheckLoop
    \/ TestLoop \/ QuitLoop \/ WakeupLoop \/ Join

WorkerStep(t) ==
    \/ Construct(t) \/ InitCallback(t) \/ Publish(t)
    \/ EnterLoop(t) \/ LeaveLoop(t) \/ ClearLoop(t) \/ Return(t)

Next ==
    \/ OwnerStep
    \/ SpuriousWakeup
    \/ DestroyPool
    \/ \E t \in Threads : WorkerStep(t) \/ QuitFromWithin(t)

Spec == Init /\ [][Next]_vars

-----------------------------------------------------------------------------
(* Properties. *)

TypeOK ==
    /\ owner \in {"start", "check", "wait", "up", "test", "quit", "wakeup",
                  "join", "gone", "terminated", "crashed"}
    /\ cur \in Threads
    /\ loops \in Seq(Threads)
    /\ worker \in [Threads -> {"none", "construct", "callback", "publish",
                               "enter", "loop", "clear", "return", "ended"}]
    /\ loop \in [Threads -> BOOLEAN]
    /\ object \in [Threads -> {"none", "built", "ready", "dead"}]
    /\ quit \in [Threads -> BOOLEAN]
    /\ selfQuit \in SUBSET Threads
    /\ early \in SUBSET Threads
    /\ deadUse \in BOOLEAN

\* The loops start() hands out to getNextLoop() are distinct and initialised,
\* however the thread and the waiting startLoop() interleave.
LoopsAreReady ==
    /\ \A i, j \in DOMAIN loops : i # j => loops[i] # loops[j]
    /\ \A t \in Range(loops) : object[t] \in {"ready", "dead"}

\* When the destructor of the pool returns, every thread has ended.
NoThreadOutlivesPool ==
    owner = "gone" => \A t \in Threads : worker[t] = "ended"

\* ~EventLoopThread() brings the process down (a joinable thread destroyed, a
\* null loop_) only over a loop that has quit from within.
DiesOnlyOfSelfQuit == ~Running => cur \in selfQuit

\* startLoop() comes back: the notification is not lost between the test of
\* loop_ and the wait.  The exception is a loop that quits from within before
\* the base thread has seen it: loop_ is null again by then, for ever.
StartReturns ==
    (owner = "check") ~> (owner \in {"start", "up"} \/ cur \in selfQuit)

\* eventloop_thread_pool.cpp:19 says that the loops live as long as the
\* program: the destructors never call a member of a loop that is gone.  It
\* does not hold (README, section 3).
LoopsOutliveUse == ~deadUse
=============================================================================
