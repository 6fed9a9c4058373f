------------------------ MODULE ServerTeardownProofs ------------------------
(***************************************************************************)
(* Proofs about EventLoopThreadPool and ServerTeardown for pools of every  *)
(* size and any number of connections.                                     *)
(*                                                                         *)
(* First the pool by itself.  The invariants of its run are not inductive: *)
(* whether ~EventLoopThread() finds loop_ set depends on how far its       *)
(* thread is, how far a thread can be depends on who has called quit(),    *)
(* and who has depends on how far the destructor of the pool has come.     *)
(* IInv says these things.                                                 *)
(*                                                                         *)
(* Then the server.  It and the rounds of the loops only restrict and      *)
(* observe the pool (PoolSpec), so that what is shown of the pool holds    *)
(* under ~TcpServer() too; from it follows which loops can be dead while   *)
(* the server still has connections, and from the functors a loop has yet  *)
(* to call that each connection is torn down once, and in time.            *)
(***************************************************************************)
EXTENDS ServerTeardown, SequenceTheorems, TLAPS

-----------------------------------------------------------------------------
(* The pool. *)

Starting == owner \in {"start", "check", "wait"}
Stopping == owner \in {"test", "quit", "wakeup", "join", "terminated", "crashed"}

\* loop_ and the EventLoop follow the thread.
WorkerState(t) ==
    /\ worker[t] \in {"none", "construct"} => object[t] = "none" /\ ~loop[t]
    /\ worker[t] = "callback" => object[t] = "built" /\ ~loop[t]
    /\ worker[t] = "publish" => object[t] = "ready" /\ ~loop[t]
    /\ worker[t] \in {"enter", "loop", "clear"} => object[t] = "ready" /\ loop[t]
    /\ worker[t] = "return" => object[t] = "ready" /\ ~loop[t]
    /\ worker[t] = "ended" => object[t] = "dead" /\ ~loop[t]

\* start() has handed out the first threads, in their order, and nobody else's
\* loop; the ones after cur do not exist yet.
StartProgress ==
    /\ Len(loops) = IF Starting THEN cur - 1 ELSE NumThreads
    /\ \A i \in DOMAIN loops : loops[i] = i
    /\ \A t \in 1 .. Len(loops) :
           worker[t] \in {"enter", "loop", "clear", "return", "ended"}
    /\ Starting => \A t \in Threads : t > cur \/ (t = cur /\ owner = "start")
                                          => worker[t] = "none"
    /\ owner = "up" => cur = 1

\* The destructor has come past its quit() of t.
Quitted(t) ==
    \/ Stopping /\ (t < cur \/ (t = cur /\ owner \in {"wakeup", "join"}))
    \/ owner = "gone"

\* A loop ends because it quit from within or because the destructor quit it.
QuitHasCause ==
    \A t \in Threads :
        (worker[t] = "loop" /\ quit[t]) \/ worker[t] \in {"clear", "return", "ended"}
            => t \in selfQuit \/ Quitted(t)

\* The destructor has joined the threads before cur.
JoinProgress ==
    Stopping => \A t \in 1 .. cur - 1 : worker[t] = "ended"

IInv ==
    /\ TypeOK
    /\ \A t \in Threads : WorkerState(t)
    /\ StartProgress
    /\ QuitHasCause
    /\ JoinProgress
    /\ NoThreadOutlivesPool
    /\ DiesOnlyOfSelfQuit

-----------------------------------------------------------------------------

\* The initial state: no thread exists.
LEMMA InitIInv == Init => IInv
  <1> SUFFICES ASSUME Init PROVE IInv
    OBVIOUS
  <1> USE PoolAssumption
  <1>1. TypeOK
    <2>1. loops \in Seq(Threads) /\ cur \in Threads
      BY DEF Init, Threads
    <2>2. loop \in [Threads -> BOOLEAN] /\ quit \in [Threads -> BOOLEAN]
          /\ deadUse \in BOOLEAN
      BY DEF Init
    <2>3. selfQuit \in SUBSET Threads /\ early \in SUBSET Threads
      BY DEF Init
    <2> QED BY <2>1, <2>2, <2>3 DEF Init, TypeOK
  <1>2. \A t \in Threads : WorkerState(t)
    BY DEF Init, WorkerState
  <1>3. StartProgress
    BY DEF Init, StartProgress, Starting, Threads
  <1>4. QuitHasCause /\ JoinProgress /\ NoThreadOutlivesPool /\ DiesOnlyOfSelfQuit
    BY DEF Init, QuitHasCause, Quitted, JoinProgress, NoThreadOutlivesPool,
           DiesOnlyOfSelfQuit, Stopping, Running
  <1> QED BY <1>1, <1>2, <1>3, <1>4 DEF IInv

\* Steps of the base thread that start threads.
LEMMA StartSteps ==
    ASSUME IInv, StartLoop \/ CheckLoop \/ SpuriousWakeup \/ DestroyPool
    PROVE  IInv'
  <1> USE PoolAssumption
  <1>1. CASE StartLoop
    <2>1. TypeOK'
      BY <1>1 DEF IInv, TypeOK, StartLoop, histVars, Threads
    <2>2. (\A t \in Threads : WorkerState(t))'
      <3>1. worker[cur] = "none"
        BY <1>1 DEF IInv, TypeOK, StartProgress, Starting, StartLoop
      <3> QED BY <1>1, <3>1 DEF IInv, TypeOK, WorkerState, StartLoop
    <2>3. StartProgress'
      BY <1>1 DEF IInv, TypeOK, StartProgress, Starting, StartLoop, histVars, Threads
    <2>4. QuitHasCause' /\ JoinProgress' /\ NoThreadOutlivesPool' /\ DiesOnlyOfSelfQuit'
      BY <1>1 DEF IInv, TypeOK, QuitHasCause, Quitted, JoinProgress, Stopping,
                  NoThreadOutlivesPool, DiesOnlyOfSelfQuit, Running, StartLoop,
                  histVars
    <2> QED BY <2>1, <2>2, <2>3, <2>4 DEF IInv
  <1>2. CASE CheckLoop /\ loop[cur]
    <2>1. worker[cur] \in {"enter", "loop", "clear"}
      BY <1>2 DEF IInv, TypeOK, WorkerState
    <2>2. TypeOK'
      <3>1. loops' \in Seq(Threads)
        BY <1>2 DEF IInv, TypeOK, CheckLoop
      <3>2. cur' \in Threads /\ owner' \in {"start", "up"}
        BY <1>2 DEF IInv, TypeOK, CheckLoop, Threads
      <3> QED
        BY <1>2, <3>1, <3>2 DEF IInv, TypeOK, CheckLoop, workerVars, histVars
    <2>3. (\A t \in Threads : WorkerState(t))'
      BY <1>2 DEF IInv, WorkerState, CheckLoop, workerVars
    <2>4. StartProgress'
      <3>1. Len(loops) = cur - 1 /\ loops' = Append(loops, cur)
        BY <1>2 DEF IInv, StartProgress, Starting, CheckLoop
      <3>2. Len(loops') = cur /\ \A i \in DOMAIN loops' : loops'[i] = i
        BY <3>1 DEF IInv, TypeOK, StartProgress, Threads
      <3>3. \A t \in 1 .. cur :
               worker[t] \in {"enter", "loop", "clear", "return", "ended"}
        BY <2>1, <3>1 DEF IInv, TypeOK, StartProgress, Threads
      <3> QED
        BY <1>2, <3>2, <3>3
        DEF IInv, TypeOK, StartProgress, Starting, CheckLoop, workerVars, Threads
    <2>5. QuitHasCause' /\ JoinProgress' /\ NoThreadOutlivesPool' /\ DiesOnlyOfSelfQuit'
      BY <1>2 DEF IInv, QuitHasCause, Quitted, JoinProgress, Stopping,
                  NoThreadOutlivesPool, DiesOnlyOfSelfQuit, Running, CheckLoop,
                  workerVars, histVars
    <2> QED BY <2>2, <2>3, <2>4, <2>5 DEF IInv
  <1>3. CASE CheckLoop /\ ~loop[cur]
    BY <1>3 DEF IInv, TypeOK, WorkerState, StartProgress, QuitHasCause, Quitted,
                JoinProgress, NoThreadOutlivesPool, DiesOnlyOfSelfQuit, Starting,
                Stopping, Running, CheckLoop, workerVars, histVars
  <1>4. CASE SpuriousWakeup
    BY <1>4 DEF IInv, TypeOK, WorkerState, StartProgress, QuitHasCause, Quitted,
                JoinProgress, NoThreadOutlivesPool, DiesOnlyOfSelfQuit, Starting,
                Stopping, Running, SpuriousWakeup, workerVars, histVars
  <1>5. CASE DestroyPool
    <2>1. cur = 1
      BY <1>5 DEF IInv, StartProgress, DestroyPool
    <2> QED
      BY <1>5, <2>1
      DEF IInv, TypeOK, WorkerState, StartProgress, QuitHasCause, Quitted,
          JoinProgress, NoThreadOutlivesPool, DiesOnlyOfSelfQuit, Starting,
          Stopping, Running, DestroyPool, workerVars, histVars
  <1> QED BY <1>1, <1>2, <1>3, <1>4, <1>5

\* Steps of the base thread in the destructors.
LEMMA StopSteps ==
    ASSUME IInv, TestLoop \/ QuitLoop \/ WakeupLoop \/ Join
    PROVE  IInv'
  <1> USE PoolAssumption
  <1>1. Stopping /\ Len(loops) = NumThreads /\ cur \in 1 .. NumThreads
    BY DEF IInv, TypeOK, StartProgress, Starting, Stopping, Threads, TestLoop,
           QuitLoop, WakeupLoop, Join
  <1>2. worker[cur] \in {"enter", "loop", "clear", "return", "ended"}
    BY <1>1 DEF IInv, StartProgress
  \* loop_ is null only when the loop has ended; that it can have done before
  \* the destructor's quit() only by itself.
  <1>3. ~loop[cur] /\ owner \in {"test", "quit"} => cur \in selfQuit
    BY <1>1, <1>2 DEF IInv, TypeOK, WorkerState, QuitHasCause, Quitted, Threads
  <1>4. CASE TestLoop
    BY <1>1, <1>3, <1>4
    DEF IInv, TypeOK, WorkerState, StartProgress, QuitHasCause, Quitted,
        JoinProgress, NoThreadOutlivesPool, DiesOnlyOfSelfQuit, Starting,
        Stopping, Running, TestLoop, workerVars, histVars
  <1>5. CASE QuitLoop
    <2>1. TypeOK'
      BY <1>5 DEF IInv, TypeOK, QuitLoop, Threads
    <2>2. (\A t \in Threads : WorkerState(t))' /\ StartProgress'
      BY <1>5 DEF IInv, WorkerState, StartProgress, Starting, QuitLoop
    <2>3. QuitHasCause'
      BY <1>1, <1>5 DEF IInv, TypeOK, QuitHasCause, Quitted, Stopping, QuitLoop
    <2>4. JoinProgress' /\ NoThreadOutlivesPool' /\ DiesOnlyOfSelfQuit'
      BY <1>1, <1>3, <1>5 DEF IInv, JoinProgress, NoThreadOutlivesPool,
         DiesOnlyOfSelfQuit, Stopping, Running, QuitLoop
    <2> QED BY <2>1, <2>2, <2>3, <2>4 DEF IInv
  <1>6. CASE WakeupLoop
    BY <1>1, <1>6
    DEF IInv, TypeOK, WorkerState, StartProgress, QuitHasCause, Quitted,
        JoinProgress, NoThreadOutlivesPool, DiesOnlyOfSelfQuit, Starting,
        Stopping, Running, WakeupLoop, workerVars
  <1>7. CASE Join
    <2>1. \A t \in 1 .. cur : worker[t] = "ended"
      BY <1>1, <1>7 DEF IInv, JoinProgress, Join
    <2>2. TypeOK'
      BY <1>7 DEF IInv, TypeOK, Join, NextThread, workerVars, histVars, Threads
    <2>3. (\A t \in Threads : WorkerState(t))' /\ StartProgress'
      BY <1>7 DEF IInv, WorkerState, StartProgress, Starting, Join, NextThread,
                  workerVars
    <2>4. QuitHasCause'
      BY <1>1, <1>7 DEF IInv, TypeOK, QuitHasCause, Quitted, Stopping, Join,
                        NextThread, workerVars, histVars, Threads
    <2>5. JoinProgress' /\ NoThreadOutlivesPool' /\ DiesOnlyOfSelfQuit'
      BY <1>1, <1>7, <2>1
      DEF IInv, TypeOK, JoinProgress, NoThreadOutlivesPool, DiesOnlyOfSelfQuit,
          Stopping, Running, Join, NextThread, workerVars, Threads
    <2> QED BY <2>2, <2>3, <2>4, <2>5 DEF IInv
  <1> QED BY <1>4, <1>5, <1>6, <1>7

\* Steps of a thread of the pool.
LEMMA WorkerSteps ==
    ASSUME IInv, NEW t \in Threads, WorkerStep(t) \/ QuitFromWithin(t)
    PROVE  IInv'
  <1> USE PoolAssumption
  <1>1. TypeOK'
    BY DEF IInv, TypeOK, WorkerStep, Construct, InitCallback, Publish, EnterLoop,
           LeaveLoop, ClearLoop, Return, QuitFromWithin, Move, histVars
  <1>2. (\A s \in Threads : WorkerState(s))'
    BY DEF IInv, TypeOK, WorkerState, WorkerStep, Construct, InitCallback, Publish,
           EnterLoop, LeaveLoop, ClearLoop, Return, QuitFromWithin, Move, histVars
  <1>3. StartProgress'
    <2>1. UNCHANGED <<cur, loops>> /\ Starting' = Starting
          /\ (owner' = owner \/ (owner = "wait" /\ owner' = "check"))
      BY DEF Starting, WorkerStep, Construct, InitCallback, Publish, EnterLoop,
             LeaveLoop, ClearLoop, Return, QuitFromWithin, Move
    <2>2. \A s \in Threads :
             worker[s] \in {"enter", "loop", "clear", "return", "ended"}
                => worker'[s] \in {"enter", "loop", "clear", "return", "ended"}
      BY DEF IInv, TypeOK, WorkerStep, Construct, InitCallback, Publish,
             EnterLoop, LeaveLoop, ClearLoop, Return, QuitFromWithin, Move
    <2>3. \A s \in Threads : worker[s] = "none" => worker'[s] = "none"
      BY DEF IInv, TypeOK, WorkerStep, Construct, InitCallback, Publish,
             EnterLoop, LeaveLoop, ClearLoop, Return, QuitFromWithin, Move
    <2>4. 1 .. Len(loops) \subseteq Threads
      BY DEF IInv, TypeOK, StartProgress, Threads
    <2> QED BY <2>1, <2>2, <2>3, <2>4 DEF IInv, StartProgress
  \* Threads are joined when they have ended and take no more steps then.
  <1>4. JoinProgress' /\ NoThreadOutlivesPool' /\ DiesOnlyOfSelfQuit'
    BY DEF IInv, TypeOK, JoinProgress, NoThreadOutlivesPool, DiesOnlyOfSelfQuit,
           Stopping, Running, WorkerStep, Construct, InitCallback, Publish,
           EnterLoop, LeaveLoop, ClearLoop, Return, QuitFromWithin, Move,
           histVars, Threads
  <1>5. QuitHasCause'
    <2>1. CASE Construct(t) \/ InitCallback(t) \/ Publish(t) \/ EnterLoop(t)
      BY <2>1 DEF IInv, TypeOK, QuitHasCause, Quitted, Stopping, Construct,
                  InitCallback, Publish, EnterLoop, Move, histVars
    <2>2. CASE LeaveLoop(t) \/ ClearLoop(t) \/ Return(t) \/ QuitFromWithin(t)
      BY <2>2 DEF IInv, TypeOK, QuitHasCause, Quitted, Stopping, LeaveLoop,
                  ClearLoop, Return, QuitFromWithin, Move, histVars
    <2> QED BY <2>1, <2>2 DEF WorkerStep
  <1> QED BY <1>1, <1>2, <1>3, <1>4, <1>5 DEF IInv

\* IInv is an invariant of the pool, whatever its size.
THEOREM Inductive == Spec => []IInv
  <1>1. Init => IInv
    BY InitIInv
  <1>2. IInv /\ [Next]_vars => IInv'
    <2> SUFFICES ASSUME IInv, [Next]_vars PROVE IInv'
      OBVIOUS
    <2>1. CASE StartLoop \/ CheckLoop \/ SpuriousWakeup \/ DestroyPool
      BY <2>1, StartSteps
    <2>2. CASE TestLoop \/ QuitLoop \/ WakeupLoop \/ Join
      BY <2>2, StopSteps
    <2>3. CASE \E t \in Threads : WorkerStep(t) \/ QuitFromWithin(t)
      BY <2>3, WorkerSteps
    <2>4. CASE UNCHANGED vars
      BY <2>4 DEF IInv, TypeOK, WorkerState, StartProgress, QuitHasCause, Quitted,
                  JoinProgress, NoThreadOutlivesPool, DiesOnlyOfSelfQuit,
                  Starting, Stopping, Running, vars
    <2> QED BY <2>1, <2>2, <2>3, <2>4 DEF Next, OwnerStep
  <1> QED BY <1>1, <1>2, PTL DEF Spec

\* The state of threads and pool keeps its type.
THEOREM TypeCorrect == Spec => []TypeOK
  <1>1. IInv => TypeOK
    BY DEF IInv
  <1> QED BY <1>1, Inductive, PTL

\* getNextLoop() is given distinct loops, each of them initialised by its
\* thread before startLoop() returned it.
THEOREM LoopsReady == Spec => []LoopsAreReady
  <1>1. IInv => LoopsAreReady
    <2> SUFFICES ASSUME IInv PROVE LoopsAreReady
      OBVIOUS
    <2>1. \A i, j \in DOMAIN loops : i # j => loops[i] # loops[j]
      BY DEF IInv, StartProgress
    <2>2. \A i \in DOMAIN loops : i \in Threads /\ i \in 1 .. Len(loops)
      BY DEF IInv, TypeOK, StartProgress
    <2>3. \A i \in DOMAIN loops : object[loops[i]] \in {"ready", "dead"}
      BY <2>2 DEF IInv, StartProgress, WorkerState
    <2> QED BY <2>1, <2>3 DEF LoopsAreReady, Range
  <1> QED BY <1>1, Inductive, PTL

\* ~EventLoopThreadPool() leaves no thread behind.
THEOREM PoolJoins == Spec => []NoThreadOutlivesPool
  <1>1. IInv => NoThreadOutlivesPool
    BY DEF IInv
  <1> QED BY <1>1, Inductive, PTL

\* ~EventLoopThread() meets a null loop_ only over a loop that quit by itself.
THEOREM DeathNeedsSelfQuit == Spec => []DiesOnlyOfSelfQuit
  <1>1. IInv => DiesOnlyOfSelfQuit
    BY DEF IInv
  <1> QED BY <1>1, Inductive, PTL

-----------------------------------------------------------------------------
(* The server. *)

\* While there are connections the destructor has not come to the pool.
KnownWhileUp == known # {} => owner = "up"

TInv ==
    /\ home \in [Conns -> Threads]
    /\ basePending \in Seq(Conns)
    /\ known \subseteq Conns
    /\ KnownWhileUp
    /\ LoopsOutliveServer

-----------------------------------------------------------------------------
\* Every step of the server and its loops is one of the pool or leaves it alone.
LEMMA StepsOfPool == ASSUME [TeardownNext]_allVars PROVE [Next]_vars
  <1>1. CASE BaseStep
    BY <1>1 DEF BaseStep, RemoveConnectionInLoop, DestroyConnection, DestroyMembers,
                Next
  <1>2. CASE SpuriousWakeup /\ UNCHANGED serverVars
    BY <1>2 DEF Next
  <1>3. CASE \E c \in Conns, t \in Range(loops) : NewConnection(c, t)
    BY <1>3 DEF NewConnection
  <1>4. CASE BeginDestructor
    BY <1>4 DEF BeginDestructor
  <1>5. ASSUME NEW t \in Threads, LoopStep(t) \/ QuitInRound(t)
        PROVE  [Next]_vars
    BY <1>5 DEF LoopStep, QuitInRound, PoolWorker, BeginRound, SwapFunctors,
                RunFunctor, FinishFunctors, EndThread, WorkerStep, Next
  <1>6. CASE \E c \in Conns : HandleClose(c)
    BY <1>6 DEF HandleClose
  <1>7. CASE UNCHANGED allVars
    BY <1>7 DEF allVars
  <1> QED BY <1>1, <1>2, <1>3, <1>4, <1>5, <1>6, <1>7 DEF TeardownNext

\* The server with its pool is a pool, as EventLoopThreadPool describes it.
THEOREM PoolSpec == TeardownSpec => Spec
  <1>1. TeardownInit => Init
    BY DEF TeardownInit
  <1>2. [TeardownNext]_allVars => [Next]_vars
    BY StepsOfPool
  <1> QED BY <1>1, <1>2, PTL DEF TeardownSpec, Spec

-----------------------------------------------------------------------------
\* While the destructor has not come to the pool, a dead loop is one that has
\* quit from within.
LEMMA DeadHasQuit ==
    ASSUME IInv, owner = "up", NEW t \in Threads, object[t] = "dead"
    PROVE  t \in selfQuit
  <1>1. worker[t] = "ended"
    BY DEF IInv, TypeOK, WorkerState
  <1>2. ~Quitted(t)
    BY DEF Quitted, Stopping
  <1> QED BY <1>1, <1>2 DEF IInv, QuitHasCause

\* The server queues functors only while it is up.
LEMMA QueueStep ==
    ASSUME IInv, TInv, owner = "up", NEW t \in Threads, NEW op, NEW c,
           QueueInLoop(t, op, c), UNCHANGED vars
    PROVE  LoopsOutliveServer'
  BY DeadHasQuit DEF QueueInLoop, TInv, LoopsOutliveServer, vars

LEMMA TStep ==
    ASSUME IInv, TInv, [TeardownNext]_allVars
    PROVE  TInv'
  <1>1. CASE OwnerStep /\ UNCHANGED serverVars
    BY <1>1 DEF TInv, KnownWhileUp, LoopsOutliveServer, serverVars, OwnerStep,
                StartLoop, CheckLoop, TestLoop, QuitLoop, WakeupLoop, Join, histVars
  <1>2. CASE RemoveConnectionInLoop
    <2>1. Head(basePending) \in Conns /\ basePending' \in Seq(Conns)
      BY <1>2 DEF RemoveConnectionInLoop, TInv
    <2>2. LoopsOutliveServer'
      BY <1>2, <2>1, QueueStep DEF RemoveConnectionInLoop, QueueDestroyed, TInv
    <2> QED BY <1>2, <2>1, <2>2
        DEF RemoveConnectionInLoop, TInv, KnownWhileUp, vars
  <1>3. ASSUME NEW c \in Conns, DestroyConnection(c) PROVE TInv'
    <2>1. LoopsOutliveServer'
      BY <1>3, QueueStep DEF DestroyConnection, QueueDestroyed, TInv, KnownWhileUp
    <2> QED BY <1>3, <2>1 DEF DestroyConnection, TInv, KnownWhileUp, vars
  <1>4. CASE DestroyMembers
    BY <1>4 DEF DestroyMembers, DestroyPool, TInv, KnownWhileUp, LoopsOutliveServer,
                serverVars, histVars
  <1>5. CASE SpuriousWakeup /\ UNCHANGED serverVars
    BY <1>5 DEF SpuriousWakeup, TInv, KnownWhileUp, LoopsOutliveServer, serverVars,
                histVars
  <1>6. ASSUME NEW c \in Conns, NEW t \in Range(loops), NewConnection(c, t)
        PROVE  TInv'
    <2>1. t \in Threads
      BY DEF IInv, TypeOK, Range
    <2>2. LoopsOutliveServer'
      BY <1>6, <2>1, QueueStep DEF NewConnection
    <2> QED BY <1>6, <2>1, <2>2 DEF NewConnection, TInv, KnownWhileUp, vars
  <1>7. CASE BeginDestructor
    BY <1>7 DEF BeginDestructor, TInv, KnownWhileUp, LoopsOutliveServer, vars
  <1>8. ASSUME NEW t \in Threads, LoopStep(t) \/ QuitInRound(t)
        PROVE  TInv'
    <2>1. UNCHANGED <<home, basePending, known, deadQueue>>
      BY <1>8 DEF LoopStep, QuitInRound, PoolWorker, BeginRound, SwapFunctors,
                  RunFunctor, FinishFunctors, EndThread, serverVars
    <2>2. (owner = "up" => owner' = "up") /\ selfQuit \subseteq selfQuit'
      BY <1>8 DEF LoopStep, QuitInRound, PoolWorker, BeginRound, SwapFunctors,
                  RunFunctor, FinishFunctors, EndThread, vars, histVars, Construct,
                  InitCallback, Publish, EnterLoop, LeaveLoop, ClearLoop, Return,
                  QuitFromWithin
    <2> QED BY <2>1, <2>2 DEF TInv, KnownWhileUp, LoopsOutliveServer
  <1>9. ASSUME NEW c \in Conns, HandleClose(c) PROVE TInv'
    BY <1>9 DEF HandleClose, TInv, KnownWhileUp, LoopsOutliveServer, vars
  <1>10. CASE UNCHANGED allVars
    BY <1>10 DEF allVars, vars, serverVars, TInv, KnownWhileUp, LoopsOutliveServer
  <1> QED
    BY <1>1, <1>2, <1>3, <1>4, <1>5, <1>6, <1>7, <1>8, <1>9, <1>10
    DEF TeardownNext, BaseStep

\* A functor reaches a dead loop only when the loop has quit from within: the
\* order in which ~TcpServer() and the destructors of its members go is right,
\* for any number of loops and connections.
THEOREM NoDeadLoopIsUsed == TeardownSpec => []LoopsOutliveServer
  <1>1. TeardownInit => TInv
    <2> SUFFICES ASSUME TeardownInit PROVE TInv
      OBVIOUS
    <2>1. 1 \in Threads
      BY PoolAssumption DEF Threads
    <2> QED BY <2>1 DEF TeardownInit, TInv, KnownWhileUp, LoopsOutliveServer
  <1>2. IInv /\ TInv /\ [TeardownNext]_allVars => TInv'
    BY TStep
  <1>3. TInv => LoopsOutliveServer
    BY DEF TInv
  <1> QED BY <1>1, <1>2, <1>3, PoolSpec, Inductive, PTL DEF TeardownSpec

\* The pool's own guarantees hold in the server: when ~TcpServer() is through,
\* every thread has ended, and the process is brought down only over a loop
\* that has quit from within.
THEOREM ServerKeepsPool == TeardownSpec => [](NoThreadOutlivesPool /\ DiesOnlyOfSelfQuit)
  BY PoolSpec, PoolJoins, DeathNeedsSelfQuit, PTL

-----------------------------------------------------------------------------
(* How often a connection is torn down, and by whom.  What a loop has yet  *)
(* to call is its batch followed by pending_functors_.                     *)

FunctorType == [op : {"established", "destroyed"}, conn : Conns]
Established(c) == [op |-> "established", conn |-> c]
DestroyedFunctor(c) == [op |-> "destroyed", conn |-> c]

Work(t) == batch[t] \o pending[t]

TeardownType ==
    /\ home \in [Conns -> Threads]
    /\ conn \in [Conns -> {"none", "connecting", "up", "closed", "down"}]
    /\ known \in SUBSET Conns
    /\ phase \in [Threads -> {"test", "poll", "functors"}]
    /\ pending \in [Threads -> Seq(FunctorType)]
    /\ batch \in [Threads -> Seq(FunctorType)]
    /\ basePending \in Seq(Conns)
    /\ downs \in [Conns -> Nat]

\* Only a loop that is calling functors has some to call.
BatchInRound ==
    \A t \in Threads :
        /\ phase[t] # "functors" => batch[t] = <<>>
        /\ worker[t] # "loop" => phase[t] = "test"

NoRepeats(s) == \A i, j \in DOMAIN s : s[i] = s[j] => i = j

\* connectEstablished() is called before connectDestroyed().
UpBeforeDown(s) ==
    \A i, j \in DOMAIN s :
        /\ s[i].op = "destroyed" /\ s[j].op = "established"
        /\ s[i].conn = s[j].conn
        => j < i

WorkInOrder == \A t \in Threads : NoRepeats(Work(t)) /\ UpBeforeDown(Work(t))

\* A functor is on its connection's loop, and it is the first to bring the
\* connection up or down.
WorkIsDue ==
    \A t \in Threads : \A f \in Range(Work(t)) :
        /\ t = home[f.conn]
        /\ f.op = "established" => conn[f.conn] = "connecting"
        /\ f.op = "destroyed" => /\ conn[f.conn] # "none"
                                 /\ f.conn \notin known
                                 /\ downs[f.conn] = 0

\* A connection that the server knows has not been handed over.
KnownIsUp == \A c \in known : conn[c] # "none" /\ downs[c] = 0

\* Before the destructor, removeConnectionInLoop() finds the connection.
RemovalsAreKnown ==
    ~destroying =>
        /\ NoRepeats(basePending)
        /\ \A c \in Range(basePending) : c \in known /\ conn[c] = "closed"
        /\ \A c \in Conns : conn[c] \in {"connecting", "up"} => c \in known

OnceInv ==
    /\ TeardownType
    /\ BatchInRound
    /\ WorkInOrder
    /\ WorkIsDue
    /\ KnownIsUp
    /\ RemovalsAreKnown
    /\ TornDownOnce

\* A functor that was handed to a polling loop is called in that round: until
\* then the loop does not leave.
OnTimeInv ==
    /\ \A t \in Threads : \A f \in Range(pending[t]) :
           f.op = "destroyed" /\ f.conn \notin late
               => worker[t] = "loop" /\ phase[t] = "poll"
    /\ \A c \in Conns :
           \/ conn[c] \in {"none", "down"}
           \/ c \in known \cup late
           \/ \E t \in Threads : DestroyedFunctor(c) \in Range(Work(t))

-----------------------------------------------------------------------------
(* Sequences. *)

LEMMA AppendRange ==
    ASSUME NEW S, NEW s \in Seq(S), NEW x \in S
    PROVE  /\ Append(s, x) \in Seq(S)
           /\ Range(Append(s, x)) = Range(s) \cup {x}
           /\ NoRepeats(s) /\ x \notin Range(s) => NoRepeats(Append(s, x))
  <1>1. /\ Append(s, x) \in Seq(S) /\ Len(s) \in Nat /\ DOMAIN s = 1 .. Len(s)
        /\ DOMAIN Append(s, x) = 1 .. Len(s) + 1
        /\ \A i \in 1 .. Len(s) : Append(s, x)[i] = s[i]
        /\ Append(s, x)[Len(s) + 1] = x
    OBVIOUS
  <1>2. Range(Append(s, x)) = Range(s) \cup {x}
    BY <1>1 DEF Range
  <1>3. NoRepeats(s) /\ x \notin Range(s) => NoRepeats(Append(s, x))
    BY <1>1 DEF NoRepeats, Range
  <1> QED BY <1>1, <1>2, <1>3

LEMMA AppendOrder ==
    ASSUME NEW s \in Seq(FunctorType), NEW f \in FunctorType, UpBeforeDown(s),
           f.op = "established" => DestroyedFunctor(f.conn) \notin Range(s)
    PROVE  UpBeforeDown(Append(s, f))
  <1>1. /\ Append(s, f) \in Seq(FunctorType) /\ Len(s) \in Nat
        /\ DOMAIN s = 1 .. Len(s)
        /\ DOMAIN Append(s, f) = 1 .. Len(s) + 1
        /\ \A i \in 1 .. Len(s) : Append(s, f)[i] = s[i] /\ s[i] \in FunctorType
        /\ Append(s, f)[Len(s) + 1] = f
    OBVIOUS
  <1>2. \A i \in 1 .. Len(s) : s[i].op = "destroyed"
                                  => DestroyedFunctor(s[i].conn) \in Range(s)
    BY <1>1 DEF FunctorType, DestroyedFunctor, Range
  <1> SUFFICES ASSUME NEW i \in 1 .. Len(s) + 1, NEW j \in 1 .. Len(s) + 1,
                      Append(s, f)[i].op = "destroyed",
                      Append(s, f)[j].op = "established",
                      Append(s, f)[i].conn = Append(s, f)[j].conn
               PROVE  j < i
    BY <1>1 DEF UpBeforeDown
  <1>3. CASE i \in 1 .. Len(s) /\ j \in 1 .. Len(s)
    BY <1>1, <1>3 DEF UpBeforeDown
  <1>4. CASE i = Len(s) + 1
    BY <1>1, <1>4
  <1>5. CASE i \in 1 .. Len(s) /\ j = Len(s) + 1
    BY <1>1, <1>2, <1>5
  <1> QED BY <1>1, <1>3, <1>4, <1>5

LEMMA TailRange ==
    ASSUME NEW S, NEW s \in Seq(S), s # <<>>
    PROVE  /\ Head(s) \in S /\ Tail(s) \in Seq(S)
           /\ Range(s) = Range(Tail(s)) \cup {Head(s)}
           /\ NoRepeats(s) => NoRepeats(Tail(s)) /\ Head(s) \notin Range(Tail(s))
  <1>1. /\ Tail(s) \in Seq(S) /\ Head(s) \in S /\ Head(s) = s[1]
        /\ Len(s) \in Nat \ {0} /\ DOMAIN s = 1 .. Len(s)
        /\ DOMAIN Tail(s) = 1 .. Len(s) - 1
        /\ \A i \in 1 .. Len(s) - 1 : Tail(s)[i] = s[i + 1]
    OBVIOUS
  <1>2. ASSUME NEW i \in DOMAIN s, i # 1 PROVE s[i] \in Range(Tail(s))
    <2>1. i - 1 \in DOMAIN Tail(s) /\ Tail(s)[i - 1] = s[i]
      BY <1>1, <1>2
    <2> QED BY <2>1 DEF Range
  <1>3. Range(s) = Range(Tail(s)) \cup {Head(s)}
    BY <1>1, <1>2 DEF Range
  <1>4. NoRepeats(s) => NoRepeats(Tail(s)) /\ Head(s) \notin Range(Tail(s))
    BY <1>1 DEF NoRepeats, Range
  <1> QED BY <1>1, <1>3, <1>4

LEMMA TailOrder ==
    ASSUME NEW s \in Seq(FunctorType), s # <<>>, UpBeforeDown(s)
    PROVE  /\ UpBeforeDown(Tail(s))
           /\ Head(s).op = "destroyed" =>
                  \A f \in Range(Tail(s)) : f.op = "established" => f.conn # Head(s).conn
  <1>1. /\ Head(s) = s[1] /\ Len(s) \in Nat \ {0} /\ DOMAIN s = 1 .. Len(s)
        /\ DOMAIN Tail(s) = 1 .. Len(s) - 1
        /\ \A i \in 1 .. Len(s) - 1 : Tail(s)[i] = s[i + 1]
    OBVIOUS
  <1>2. UpBeforeDown(Tail(s))
    <2> SUFFICES ASSUME NEW i \in 1 .. Len(s) - 1, NEW j \in 1 .. Len(s) - 1,
                        s[i + 1].op = "destroyed", s[j + 1].op = "established",
                        s[i + 1].conn = s[j + 1].conn
                 PROVE  j < i
      BY <1>1 DEF UpBeforeDown
    <2>1. i + 1 \in DOMAIN s /\ j + 1 \in DOMAIN s
      BY <1>1
    <2>2. j + 1 < i + 1
      BY <2>1 DEF UpBeforeDown
    <2> QED BY <2>2
  <1>3. ASSUME Head(s).op = "destroyed", NEW i \in DOMAIN Tail(s),
               Tail(s)[i].op = "established"
        PROVE  Tail(s)[i].conn # Head(s).conn
    <2>1. i + 1 \in DOMAIN s /\ s[i + 1] = Tail(s)[i] /\ ~(i + 1 < 1) /\ 1 \in DOMAIN s
      BY <1>1
    <2> QED BY <1>1, <1>3, <2>1 DEF UpBeforeDown
  <1> QED BY <1>2, <1>3 DEF Range

LEMMA AppendToConcat ==
    ASSUME NEW S, NEW s \in Seq(S), NEW u \in Seq(S), NEW x \in S
    PROVE  s \o Append(u, x) = Append(s \o u, x)
  <1>1. <<x>> \in Seq(S) /\ s \o u \in Seq(S)
    BY ConcatProperties
  <1>2. Append(u, x) = u \o <<x>> /\ Append(s \o u, x) = (s \o u) \o <<x>>
    BY <1>1, AppendIsConcat
  <1> QED BY <1>1, <1>2, ConcatAssociative

LEMMA TailOfConcat ==
    ASSUME NEW S, NEW s \in Seq(S), NEW u \in Seq(S), s # <<>>
    PROVE  /\ s \o u # <<>>
           /\ Head(s \o u) = Head(s)
           /\ Tail(s \o u) = Tail(s) \o u
  <1>1. /\ s \o u \in Seq(S) /\ Len(s \o u) = Len(s) + Len(u)
        /\ \A i \in 1 .. Len(s) + Len(u) : (s \o u)[i] =
                     IF i <= Len(s) THEN s[i] ELSE u[i - Len(s)]
    BY ConcatProperties
  <1>2. /\ Len(s) \in Nat \ {0} /\ Len(u) \in Nat /\ Head(s) = s[1]
        /\ Tail(s) \in Seq(S) /\ Len(Tail(s)) = Len(s) - 1
        /\ \A i \in 1 .. Len(s) - 1 : Tail(s)[i] = s[i + 1]
    OBVIOUS
  <1>3. s \o u # <<>> /\ Head(s \o u) = Head(s)
    BY <1>1, <1>2
  <1>4. /\ Tail(s \o u) \in Seq(S) /\ Len(Tail(s \o u)) = Len(s) + Len(u) - 1
        /\ \A i \in 1 .. Len(s) + Len(u) - 1 : Tail(s \o u)[i] = (s \o u)[i + 1]
    BY <1>1, <1>3, HeadTailProperties
  <1>5. /\ Tail(s) \o u \in Seq(S) /\ Len(Tail(s) \o u) = Len(s) - 1 + Len(u)
        /\ \A i \in 1 .. Len(s) - 1 + Len(u) : (Tail(s) \o u)[i] =
                     IF i <= Len(s) - 1 THEN Tail(s)[i] ELSE u[i - (Len(s) - 1)]
    BY <1>2, ConcatProperties
  <1>6. ASSUME NEW i \in 1 .. Len(s) + Len(u) - 1
        PROVE  Tail(s \o u)[i] = (Tail(s) \o u)[i]
    <2>1. (s \o u)[i + 1] = IF i + 1 <= Len(s) THEN s[i + 1] ELSE u[i + 1 - Len(s)]
      BY <1>1, <1>2
    <2>2. i - (Len(s) - 1) = i + 1 - Len(s)
      BY <1>2
    <2> QED BY <1>2, <1>4, <1>5, <2>1, <2>2
  <1>7. Tail(s \o u) = Tail(s) \o u
    BY <1>2, <1>4, <1>5, <1>6, SeqEqual
  <1> QED BY <1>3, <1>7

-----------------------------------------------------------------------------
(* What the steps do to the work of the loops. *)

LEMMA WorkType ==
    ASSUME TeardownType, NEW t \in Threads
    PROVE  /\ Work(t) \in Seq(FunctorType)
           /\ Range(Work(t)) = Range(batch[t]) \cup Range(pending[t])
           /\ \A f \in Range(Work(t)) : f \in FunctorType
  <1>1. batch[t] \in Seq(FunctorType) /\ pending[t] \in Seq(FunctorType)
    BY DEF TeardownType
  <1>2. Work(t) \in Seq(FunctorType)
        /\ Range(Work(t)) = Range(batch[t]) \cup Range(pending[t])
    BY <1>1, ConcatProperties, RangeConcatenation DEF Work
  <1>3. \A i \in DOMAIN Work(t) : Work(t)[i] \in FunctorType
    BY <1>2
  <1> QED BY <1>2, <1>3 DEF Range

LEMMA QueueWork ==
    ASSUME TeardownType, NEW u \in Threads, NEW f \in FunctorType,
           pending' = [pending EXCEPT ![u] = Append(@, f)], batch' = batch
    PROVE  /\ pending' \in [Threads -> Seq(FunctorType)]
           /\ Work(u)' = Append(Work(u), f)
           /\ \A t \in Threads : t # u => Work(t)' = Work(t)
  <1>1. batch[u] \in Seq(FunctorType) /\ pending[u] \in Seq(FunctorType)
    BY DEF TeardownType
  <1>2. pending'[u] = Append(pending[u], f)
    BY DEF TeardownType
  <1>3. batch[u] \o Append(pending[u], f) = Append(batch[u] \o pending[u], f)
    <2>1. \A s, v \in Seq(FunctorType) : s \o Append(v, f) = Append(s \o v, f)
      BY AppendToConcat
    <2> QED BY <1>1, <2>1
  <1>4. pending' \in [Threads -> Seq(FunctorType)]
    <2>1. Append(pending[u], f) \in Seq(FunctorType)
      BY <1>1
    <2> QED BY <2>1 DEF TeardownType
  <1> QED BY <1>2, <1>3, <1>4 DEF Work, TeardownType

LEMMA RunWork ==
    ASSUME TeardownType, NEW u \in Threads, batch[u] # <<>>,
           batch' = [batch EXCEPT ![u] = Tail(@)], pending' = pending
    PROVE  /\ batch' \in [Threads -> Seq(FunctorType)]
           /\ Work(u) # <<>> /\ Head(Work(u)) = Head(batch[u])
           /\ Work(u)' = Tail(Work(u))
           /\ \A t \in Threads : t # u => Work(t)' = Work(t)
  <1>1. batch[u] \in Seq(FunctorType) /\ pending[u] \in Seq(FunctorType)
    BY DEF TeardownType
  <1>2. batch'[u] = Tail(batch[u]) /\ Tail(batch[u]) \in Seq(FunctorType)
    BY <1>1 DEF TeardownType
  <1>3. /\ batch[u] \o pending[u] # <<>>
        /\ Head(batch[u] \o pending[u]) = Head(batch[u])
        /\ Tail(batch[u] \o pending[u]) = Tail(batch[u]) \o pending[u]
    BY <1>1, TailOfConcat
  <1>4. batch' \in [Threads -> Seq(FunctorType)]
    BY <1>2 DEF TeardownType
  <1> QED BY <1>2, <1>3, <1>4 DEF Work, TeardownType

LEMMA SwapWork ==
    ASSUME TeardownType, NEW u \in Threads, batch[u] = <<>>,
           batch' = [batch EXCEPT ![u] = pending[u]],
           pending' = [pending EXCEPT ![u] = <<>>]
    PROVE  /\ batch' \in [Threads -> Seq(FunctorType)]
           /\ pending' \in [Threads -> Seq(FunctorType)]
           /\ \A t \in Threads : Work(t)' = Work(t)
  <1>1. pending[u] \in Seq(FunctorType)
    BY DEF TeardownType
  <1>2. batch'[u] = pending[u] /\ pending'[u] = <<>>
    BY DEF TeardownType
  <1>3. <<>> \o pending[u] = pending[u] /\ pending[u] \o <<>> = pending[u]
    BY <1>1
  <1>4. <<>> \in Seq(FunctorType)
    OBVIOUS
  <1> QED BY <1>1, <1>2, <1>3, <1>4 DEF Work, TeardownType

\* Nothing but the place of a loop in its round changes.
LEMMA SameOnce ==
    ASSUME OnceInv, UNCHANGED <<home, conn, known, basePending, downs>>,
           ~destroying' => ~destroying,
           phase' \in [Threads -> {"test", "poll", "functors"}],
           pending' \in [Threads -> Seq(FunctorType)],
           batch' \in [Threads -> Seq(FunctorType)],
           BatchInRound',
           \A t \in Threads : Work(t)' = Work(t) \/ Work(t)' = <<>>
    PROVE  OnceInv'
  <1>1. TeardownType'
    BY DEF OnceInv, TeardownType
  <1>2. Range(<<>>) = {} /\ NoRepeats(<<>>) /\ UpBeforeDown(<<>>)
    BY DEF Range, NoRepeats, UpBeforeDown
  <1>3. WorkInOrder'
    <2> SUFFICES ASSUME NEW t \in Threads
                 PROVE  NoRepeats(Work(t)') /\ UpBeforeDown(Work(t)')
      BY DEF WorkInOrder, NoRepeats, UpBeforeDown
    <2>1. NoRepeats(Work(t)) /\ UpBeforeDown(Work(t))
      BY DEF OnceInv, WorkInOrder
    <2>2. Work(t)' = Work(t) \/ Work(t)' = <<>>
      OBVIOUS
    <2> QED BY ONLY <1>2, <2>1, <2>2
  <1>4. WorkIsDue'
    <2>1. \A t \in Threads : Range(Work(t)') \subseteq Range(Work(t))
      BY <1>2
    <2>2. WorkIsDue
      BY DEF OnceInv
    <2>3. UNCHANGED <<home, conn, known, downs>>
      OBVIOUS
    <2> QED BY ONLY <2>1, <2>2, <2>3 DEF WorkIsDue, Range
  <1>5. KnownIsUp' /\ RemovalsAreKnown' /\ TornDownOnce'
    BY DEF OnceInv, KnownIsUp, RemovalsAreKnown, TornDownOnce, NoRepeats, Range
  <1> QED BY <1>1, <1>3, <1>4, <1>5 DEF OnceInv

\* A functor that is queued to its connection's loop, where the like of it is
\* not waiting yet, and which does not bring the connection up after it went.
LEMMA QueueOrder ==
    ASSUME TeardownType, WorkInOrder, NEW u \in Threads, NEW f \in FunctorType,
           pending' = [pending EXCEPT ![u] = Append(@, f)], batch' = batch,
           f \notin Range(Work(u)),
           f.op = "established" => DestroyedFunctor(f.conn) \notin Range(Work(u))
    PROVE  /\ WorkInOrder'
           /\ Range(Work(u)') = Range(Work(u)) \cup {f}
           /\ \A t \in Threads : t # u => Range(Work(t)') = Range(Work(t))
  <1>1. /\ Work(u)' = Append(Work(u), f)
        /\ \A t \in Threads : t # u => Work(t)' = Work(t)
    BY QueueWork
  <1>2. Work(u) \in Seq(FunctorType)
    BY WorkType
  <1>3. Range(Work(u)') = Range(Work(u)) \cup {f}
    BY <1>1, <1>2, AppendRange
  <1>4. NoRepeats(Work(u)') /\ UpBeforeDown(Work(u)')
    BY <1>1, <1>2, AppendRange, AppendOrder DEF WorkInOrder
  <1>5. ASSUME NEW t \in Threads
        PROVE  NoRepeats(Work(t)') /\ UpBeforeDown(Work(t)')
    BY <1>1, <1>4 DEF WorkInOrder
  <1>6. WorkInOrder'
    BY <1>5 DEF WorkInOrder, NoRepeats, UpBeforeDown
  <1> QED BY <1>1, <1>3, <1>6

\* The server hands a connection over.
LEMMA HandOver ==
    ASSUME OnceInv, NEW c \in known, known' = known \ {c}, QueueDestroyed(c),
           UNCHANGED <<home, conn, downs, batch, phase, worker>>,
           basePending' \in Seq(Conns)
    PROVE  /\ TeardownType' /\ BatchInRound' /\ WorkInOrder' /\ WorkIsDue'
           /\ KnownIsUp' /\ TornDownOnce'
  <1> DEFINE f == DestroyedFunctor(c)
             u == home[c]
  <1>1. c \in Conns /\ u \in Threads /\ f \in FunctorType
    BY DEF OnceInv, TeardownType, FunctorType, DestroyedFunctor
  <1>2. f.op = "destroyed" /\ f.conn = c
    BY DEF DestroyedFunctor
  <1>3. pending' = [pending EXCEPT ![u] = Append(@, f)]
    BY DEF QueueDestroyed, QueueInLoop, DestroyedFunctor
  <1> HIDE DEF f
  <1>4. \A t \in Threads : f \notin Range(Work(t))
    BY <1>2 DEF OnceInv, WorkIsDue
  <1>5. /\ WorkInOrder'
        /\ Range(Work(u)') = Range(Work(u)) \cup {f}
        /\ \A t \in Threads : t # u => Range(Work(t)') = Range(Work(t))
    BY <1>1, <1>2, <1>3, <1>4, QueueOrder DEF OnceInv
  <1>6. pending' \in [Threads -> Seq(FunctorType)]
    BY <1>1, <1>3, QueueWork DEF OnceInv
  <1>7. TeardownType' /\ BatchInRound' /\ KnownIsUp' /\ TornDownOnce'
    BY <1>6 DEF OnceInv, TeardownType, BatchInRound, KnownIsUp, TornDownOnce
  <1>8. WorkIsDue'
    <2> SUFFICES ASSUME NEW t \in Threads, NEW g \in Range(Work(t)')
                 PROVE  /\ t = home[g.conn]
                        /\ g.op = "established" => conn[g.conn] = "connecting"
                        /\ g.op = "destroyed" => /\ conn[g.conn] # "none"
                                                 /\ g.conn \notin known'
                                                 /\ downs[g.conn] = 0
      BY DEF WorkIsDue, Range
    <2>1. CASE g \in Range(Work(t))
      BY <2>1 DEF OnceInv, WorkIsDue
    <2>2. CASE g = f /\ t = u
      BY <1>2, <2>2 DEF OnceInv, KnownIsUp
    <2> QED BY <1>5, <2>1, <2>2
  <1> QED BY <1>5, <1>7, <1>8

\* The threads and the owner of the pool move.
LEMMA PhaseStep ==
    ASSUME BatchInRound, UNCHANGED <<phase, batch>>,
           \A t \in Threads : worker'[t] \in {worker[t], "loop"} \/ phase[t] = "test"
    PROVE  BatchInRound'
  BY DEF BatchInRound

\* A thread that is started is one that has never run.
LEMMA OwnerPhase ==
    ASSUME IInv, BatchInRound, NEW t \in Threads,
           OwnerStep \/ SpuriousWakeup \/ DestroyPool
    PROVE  worker'[t] = worker[t] \/ phase[t] = "test"
  <1>1. CASE StartLoop
    <2>1. worker[cur] = "none" /\ cur \in Threads
      BY <1>1 DEF StartLoop, IInv, TypeOK, StartProgress, Starting
    <2>2. worker' = [worker EXCEPT ![cur] = "construct"] /\ phase[cur] = "test"
      BY <1>1, <2>1 DEF StartLoop, BatchInRound
    <2> QED BY <2>1, <2>2 DEF IInv, TypeOK
  <1>2. CASE ~StartLoop
    BY <1>2 DEF OwnerStep, SpuriousWakeup, DestroyPool, CheckLoop, TestLoop, QuitLoop,
                WakeupLoop, Join, workerVars
  <1> QED BY <1>1, <1>2

LEMMA WorkerPhase ==
    ASSUME IInv, BatchInRound, NEW t \in Threads, NEW u \in Threads,
           \/ Construct(u) \/ InitCallback(u) \/ Publish(u) \/ EnterLoop(u)
           \/ phase[u] = "test" /\ LeaveLoop(u)
           \/ ClearLoop(u) \/ Return(u) \/ QuitFromWithin(u)
    PROVE  worker'[t] \in {worker[t], "loop"} \/ phase[t] = "test"
  <1>1. CASE QuitFromWithin(u)
    BY <1>1 DEF QuitFromWithin
  <1>2. CASE EnterLoop(u)
    BY <1>2 DEF EnterLoop, Move, IInv, TypeOK
  <1>3. CASE phase[u] = "test" /\ LeaveLoop(u)
    BY <1>3 DEF LeaveLoop, Move, IInv, TypeOK
  <1>4. CASE Construct(u) \/ InitCallback(u) \/ Publish(u) \/ ClearLoop(u) \/ Return(u)
    <2>1. worker[u] # "loop"
      BY <1>4 DEF Construct, InitCallback, Publish, ClearLoop, Return, Move
    <2>2. phase[u] = "test"
      BY <2>1 DEF BatchInRound
    <2>3. t # u => worker'[t] = worker[t]
      BY <1>4 DEF Construct, InitCallback, Publish, ClearLoop, Return, Move, IInv, TypeOK
    <2> QED BY <2>2, <2>3
  <1> QED BY <1>1, <1>2, <1>3, <1>4

LEMMA OnceQuiet ==
    ASSUME IInv, OnceInv, NEW t \in Threads,
           \/ (OwnerStep \/ SpuriousWakeup) /\ UNCHANGED serverVars
           \/ DestroyMembers \/ BeginDestructor
           \/ PoolWorker(t) \/ QuitInRound(t)
           \/ BeginRound(t) \/ SwapFunctors(t) \/ FinishFunctors(t) \/ EndThread(t)
    PROVE  OnceInv'
  <1>0. TeardownType /\ BatchInRound
    BY DEF OnceInv
  <1>1. UNCHANGED <<home, conn, known, basePending, downs>> /\ (~destroying' => ~destroying)
    BY DEF serverVars, DestroyMembers, BeginDestructor, PoolWorker, QuitInRound,
           BeginRound, SwapFunctors, FinishFunctors, EndThread
  <1>2. CASE \/ (OwnerStep \/ SpuriousWakeup) /\ UNCHANGED serverVars
             \/ DestroyMembers
    <2>1. UNCHANGED <<phase, pending, batch>>
      BY <1>2 DEF serverVars, DestroyMembers
    <2>2. \A u \in Threads : worker'[u] = worker[u] \/ phase[u] = "test"
      BY <1>0, <1>2, OwnerPhase DEF DestroyMembers
    <2>3. BatchInRound'
      BY <1>0, <2>1, <2>2, PhaseStep
    <2> QED BY <1>0, <1>1, <2>1, <2>3, SameOnce DEF TeardownType, Work
  <1>3. CASE BeginDestructor
    <2>1. UNCHANGED <<phase, pending, batch, worker>>
      BY <1>3 DEF BeginDestructor, vars
    <2>2. BatchInRound'
      BY <1>0, <2>1 DEF BatchInRound
    <2> QED BY <1>0, <1>1, <2>1, <2>2, SameOnce DEF TeardownType, Work
  <1>4. CASE PoolWorker(t) \/ QuitInRound(t)
    <2>1. UNCHANGED <<phase, pending, batch>>
      BY <1>4 DEF serverVars, PoolWorker, QuitInRound
    <2>2. \A u \in Threads : worker'[u] \in {worker[u], "loop"} \/ phase[u] = "test"
      BY <1>0, <1>4, WorkerPhase DEF PoolWorker, QuitInRound
    <2>3. BatchInRound'
      BY <1>0, <2>1, <2>2, PhaseStep
    <2> QED BY <1>0, <1>1, <2>1, <2>3, SameOnce DEF TeardownType, Work
  <1>5. CASE BeginRound(t) \/ FinishFunctors(t)
    <2>1. UNCHANGED <<pending, batch, worker>> /\ worker[t] = "loop" /\ batch[t] = <<>>
      BY <1>0, <1>5 DEF BeginRound, FinishFunctors, InLoop, vars, BatchInRound
    <2>2. phase' = [phase EXCEPT ![t] = "poll"] \/ phase' = [phase EXCEPT ![t] = "test"]
      BY <1>5 DEF BeginRound, FinishFunctors
    <2>3. BatchInRound' /\ phase' \in [Threads -> {"test", "poll", "functors"}]
      BY <1>0, <2>1, <2>2 DEF BatchInRound, TeardownType
    <2> QED BY <1>0, <1>1, <2>1, <2>3, SameOnce DEF TeardownType, Work
  <1>6. CASE SwapFunctors(t)
    <2>1. worker' = worker /\ worker[t] = "loop" /\ batch[t] = <<>>
      BY <1>0, <1>6 DEF SwapFunctors, InLoop, vars, BatchInRound
    <2>2. phase' = [phase EXCEPT ![t] = "functors"]
      BY <1>6 DEF SwapFunctors
    <2>3. /\ batch' \in [Threads -> Seq(FunctorType)]
          /\ pending' \in [Threads -> Seq(FunctorType)]
          /\ \A u \in Threads : Work(u)' = Work(u)
      BY <1>0, <1>6, <2>1, SwapWork DEF SwapFunctors
    <2>4. \A u \in Threads : u # t => batch'[u] = batch[u]
      BY <1>0, <1>6 DEF SwapFunctors, TeardownType
    <2>5. BatchInRound' /\ phase' \in [Threads -> {"test", "poll", "functors"}]
      BY <1>0, <2>1, <2>2, <2>4 DEF BatchInRound, TeardownType
    <2> QED BY <1>1, <2>3, <2>5, SameOnce
  <1>7. CASE EndThread(t)
    <2>1. worker[t] = "return" /\ Return(t) /\ UNCHANGED <<phase, batch>>
      BY <1>7 DEF EndThread, Return, Move
    <2>2. batch[t] = <<>>
      BY <1>0, <2>1 DEF BatchInRound
    <2>3. BatchInRound'
      <3>1. \A u \in Threads : worker'[u] \in {worker[u], "loop"} \/ phase[u] = "test"
        BY <1>0, <2>1, WorkerPhase
      <3> QED BY <1>0, <2>1, <3>1, PhaseStep
    <2>4. pending' = [pending EXCEPT ![t] = <<>>]
      BY <1>7 DEF EndThread
    <2>5. pending' \in [Threads -> Seq(FunctorType)]
      <3>1. <<>> \in Seq(FunctorType)
        OBVIOUS
      <3> QED BY <1>0, <2>4, <3>1 DEF TeardownType
    <2>6. <<>> \o <<>> = <<>>
      OBVIOUS
    <2>7. Work(t)' = <<>> /\ \A u \in Threads : u # t => Work(u)' = Work(u)
      BY <1>0, <2>1, <2>2, <2>4, <2>6 DEF Work, TeardownType
    <2> QED BY <1>0, <1>1, <2>1, <2>3, <2>5, <2>7, SameOnce DEF TeardownType
  <1> QED BY <1>2, <1>3, <1>4, <1>5, <1>6, <1>7

-----------------------------------------------------------------------------
(* The steps that change a connection. *)

LEMMA OnceNew ==
    ASSUME OnceInv, NEW c \in Conns, NEW t \in Threads, NewConnection(c, t)
    PROVE  OnceInv'
  <1> DEFINE f == Established(c)
  <1>1. f \in FunctorType /\ f.op = "established" /\ f.conn = c
    BY DEF FunctorType, Established
  <1>2. pending' = [pending EXCEPT ![t] = Append(@, f)]
    BY DEF NewConnection, QueueInLoop, Established
  <1> HIDE DEF f
  <1>3. conn[c] = "none" /\ ~destroying
    <2>1. c >= c
      BY TeardownAssumption DEF Conns
    <2> QED BY <2>1 DEF NewConnection
  <1>4. /\ conn' = [conn EXCEPT ![c] = "connecting"]
        /\ home' = [home EXCEPT ![c] = t]
        /\ known' = known \cup {c}
        /\ UNCHANGED <<batch, phase, worker, basePending, downs, destroying>>
    BY DEF NewConnection, vars
  <1>5. TeardownType /\ WorkInOrder /\ WorkIsDue /\ TornDownOnce
    BY DEF OnceInv
  <1>6. ASSUME NEW u \in Threads, NEW g \in Range(Work(u)) PROVE g.conn # c /\ g \in FunctorType
    <2>1. g \in FunctorType
      BY <1>5, WorkType
    <2>2. g.op \in {"established", "destroyed"}
      BY <2>1 DEF FunctorType
    <2> QED BY <1>3, <1>5, <2>1, <2>2 DEF WorkIsDue
  <1>7. f \notin Range(Work(t)) /\ DestroyedFunctor(c) \notin Range(Work(t))
    BY <1>1, <1>6 DEF DestroyedFunctor
  <1>8. /\ WorkInOrder'
        /\ Range(Work(t)') = Range(Work(t)) \cup {f}
        /\ \A u \in Threads : u # t => Range(Work(u)') = Range(Work(u))
    BY <1>1, <1>2, <1>4, <1>5, <1>7, QueueOrder
  <1>9. pending' \in [Threads -> Seq(FunctorType)]
    BY <1>1, <1>2, <1>4, <1>5, QueueWork
  <1>10. TeardownType' /\ BatchInRound'
    BY <1>4, <1>9 DEF OnceInv, TeardownType, BatchInRound
  <1>11. downs[c] = 0
    BY <1>3, <1>5 DEF TornDownOnce, TeardownType
  <1>12. KnownIsUp' /\ TornDownOnce'
    BY <1>4, <1>5, <1>11 DEF OnceInv, KnownIsUp, TornDownOnce, TeardownType
  <1>13. RemovalsAreKnown'
    BY <1>3, <1>4, <1>5 DEF OnceInv, RemovalsAreKnown, TeardownType, NoRepeats, Range
  <1>14. WorkIsDue'
    <2> SUFFICES ASSUME NEW u \in Threads, NEW g \in Range(Work(u)')
                 PROVE  /\ u = home'[g.conn]
                        /\ g.op = "established" => conn'[g.conn] = "connecting"
                        /\ g.op = "destroyed" => /\ conn'[g.conn] # "none"
                                                 /\ g.conn \notin known'
                                                 /\ downs'[g.conn] = 0
      BY DEF WorkIsDue, Range
    <2>1. CASE g \in Range(Work(u))
      <3>1. g.conn # c /\ g.conn \in Conns
        BY <1>6, <2>1 DEF FunctorType
      <3>2. conn'[g.conn] = conn[g.conn] /\ home'[g.conn] = home[g.conn]
        BY <1>4, <1>5, <3>1 DEF TeardownType
      <3> QED BY <1>4, <1>5, <2>1, <3>1, <3>2 DEF WorkIsDue
    <2>2. CASE g = f /\ u = t
      <3>1. conn'[c] = "connecting" /\ home'[c] = t
        BY <1>4, <1>5 DEF TeardownType
      <3> QED BY <1>1, <2>2, <3>1
    <2> QED BY <1>8, <2>1, <2>2
  <1> QED BY <1>8, <1>10, <1>12, <1>13, <1>14 DEF OnceInv

LEMMA OnceClose ==
    ASSUME OnceInv, NEW c \in Conns, HandleClose(c)
    PROVE  OnceInv'
  <1>1. /\ conn[c] = "up" /\ conn' = [conn EXCEPT ![c] = "closed"]
        /\ basePending' = Append(basePending, c)
        /\ UNCHANGED <<home, known, destroying, phase, pending, batch, downs, worker>>
    BY DEF HandleClose, vars
  <1>2. TeardownType /\ WorkIsDue /\ TornDownOnce /\ RemovalsAreKnown
    BY DEF OnceInv
  <1>3. basePending' \in Seq(Conns)
    BY <1>1, <1>2 DEF TeardownType
  <1>4. TeardownType' /\ BatchInRound' /\ KnownIsUp' /\ TornDownOnce'
    BY <1>1, <1>2, <1>3
    DEF OnceInv, TeardownType, BatchInRound, KnownIsUp, TornDownOnce
  <1>0. \A t \in Threads : Work(t)' = Work(t)
    BY <1>1 DEF Work
  <1>5. WorkInOrder'
    <2> SUFFICES ASSUME NEW t \in Threads
                 PROVE  NoRepeats(Work(t)') /\ UpBeforeDown(Work(t)')
      BY DEF WorkInOrder, NoRepeats, UpBeforeDown
    <2> QED BY <1>0 DEF OnceInv, WorkInOrder
  <1>6. WorkIsDue'
    <2> SUFFICES ASSUME NEW t \in Threads, NEW g \in Range(Work(t)')
                 PROVE  /\ t = home'[g.conn]
                        /\ g.op = "established" => conn'[g.conn] = "connecting"
                        /\ g.op = "destroyed" => /\ conn'[g.conn] # "none"
                                                 /\ g.conn \notin known'
                                                 /\ downs'[g.conn] = 0
      BY DEF WorkIsDue, Range
    <2>1. g \in Range(Work(t)) /\ g.conn \in Conns
      BY <1>0, <1>2, WorkType DEF FunctorType
    <2> QED BY <1>1, <1>2, <2>1 DEF WorkIsDue, TeardownType
  <1>7. RemovalsAreKnown'
    <2> SUFFICES ASSUME ~destroying PROVE RemovalsAreKnown'
      BY <1>1 DEF RemovalsAreKnown
    <2>1. c \notin Range(basePending) /\ NoRepeats(basePending)
      BY <1>1, <1>2 DEF RemovalsAreKnown
    <2>2. Range(basePending') = Range(basePending) \cup {c} /\ NoRepeats(basePending')
      BY <1>1, <1>2, <2>1, AppendRange DEF TeardownType
    <2>3. \A d \in Range(basePending') : d \in known /\ conn'[d] = "closed"
      BY <1>1, <1>2, <2>2 DEF RemovalsAreKnown, TeardownType
    <2>4. \A d \in Conns : conn'[d] \in {"connecting", "up"} => d \in known
      BY <1>1, <1>2 DEF RemovalsAreKnown, TeardownType
    <2> QED BY <1>1, <2>2, <2>3, <2>4 DEF RemovalsAreKnown, NoRepeats, Range
  <1> QED BY <1>4, <1>5, <1>6, <1>7 DEF OnceInv

\* What remains to be called has nothing for a connection that has come up but
\* its connectDestroyed(), and nothing at all for one that went.
LEMMA Rest ==
    ASSUME OnceInv, NEW t \in Threads, Work(t) # <<>>, NEW f, f = Head(Work(t)),
           NEW u \in Threads, NEW g \in Range(IF u = t THEN Tail(Work(t)) ELSE Work(u)),
           g.conn = f.conn
    PROVE  f.op = "established" /\ g.op = "destroyed"
  <1>1. TeardownType /\ WorkInOrder /\ WorkIsDue
    BY DEF OnceInv
  <1>2. Work(t) \in Seq(FunctorType)
    BY <1>1, WorkType
  <1>3. /\ f \in FunctorType
        /\ Range(Work(t)) = Range(Tail(Work(t))) \cup {f}
        /\ f \notin Range(Tail(Work(t)))
    BY <1>1, <1>2, TailRange DEF WorkInOrder
  <1>4. g \in Range(Work(u))
    BY <1>3
  <1>5. u = t
    BY <1>1, <1>3, <1>4 DEF WorkIsDue
  <1>6. g \in FunctorType /\ g # f
    BY <1>1, <1>3, <1>4, <1>5, WorkType
  <1>7. f.op = "destroyed" => g.op # "established"
    BY <1>1, <1>2, <1>5, TailOrder DEF WorkInOrder
  <1> QED BY <1>3, <1>6, <1>7 DEF FunctorType

LEMMA OnceRun ==
    ASSUME OnceInv, NEW t \in Threads, RunFunctor(t)
    PROVE  OnceInv'
  <1> DEFINE f == Head(batch[t])
             c == f.conn
  <1>1. /\ InLoop(t, "functors") /\ batch[t] # <<>>
        /\ batch' = [batch EXCEPT ![t] = Tail(@)]
        /\ UNCHANGED <<home, known, destroying, phase, pending, basePending, worker>>
        /\ \/ f.op = "established" /\ conn' = [conn EXCEPT ![c] = "up"]
              /\ downs' = downs
           \/ f.op = "destroyed" /\ conn' = [conn EXCEPT ![c] = "down"]
              /\ downs' = [downs EXCEPT ![c] = @ + 1]
    BY DEF RunFunctor, vars
  <1>2. TeardownType /\ WorkInOrder /\ WorkIsDue /\ TornDownOnce /\ KnownIsUp
        /\ RemovalsAreKnown
    BY DEF OnceInv
  <1>3. /\ batch' \in [Threads -> Seq(FunctorType)]
        /\ Work(t) # <<>> /\ Head(Work(t)) = f
        /\ Work(t)' = Tail(Work(t))
        /\ \A u \in Threads : u # t => Work(u)' = Work(u)
    BY <1>1, <1>2, RunWork
  <1>4. Work(t) \in Seq(FunctorType)
    BY <1>2, WorkType
  <1>5. /\ f \in FunctorType
        /\ Range(Work(t)) = Range(Tail(Work(t))) \cup {f}
        /\ NoRepeats(Tail(Work(t)))
    BY <1>2, <1>3, <1>4, TailRange DEF WorkInOrder
  <1>6. UpBeforeDown(Tail(Work(t)))
    BY <1>2, <1>3, <1>4, TailOrder DEF WorkInOrder
  <1>7. /\ c \in Conns
        /\ f.op = "established" => conn[c] = "connecting"
        /\ f.op = "destroyed" => conn[c] # "none" /\ c \notin known /\ downs[c] = 0
    BY <1>2, <1>5 DEF WorkIsDue, FunctorType
  <1>8. ASSUME NEW u \in Threads, NEW g \in Range(Work(u)')
        PROVE  /\ g \in Range(Work(u)) /\ g.conn \in Conns
               /\ g.conn = c => f.op = "established" /\ g.op = "destroyed"
    <2>1. g \in Range(IF u = t THEN Tail(Work(t)) ELSE Work(u))
      BY <1>3
    <2>2. g \in Range(Work(u))
      BY <1>5, <2>1
    <2>3. g.conn \in Conns
      BY <1>2, <2>2, WorkType DEF FunctorType
    <2> QED BY <1>3, <2>1, <2>2, <2>3, Rest
  <1> HIDE DEF f, c
  <1>9. WorkInOrder'
    <2> SUFFICES ASSUME NEW u \in Threads
                 PROVE  NoRepeats(Work(u)') /\ UpBeforeDown(Work(u)')
      BY DEF WorkInOrder, NoRepeats, UpBeforeDown
    <2> QED BY <1>2, <1>3, <1>5, <1>6 DEF WorkInOrder
  <1>10. TeardownType'
    <2>1. conn' \in [Conns -> {"none", "connecting", "up", "closed", "down"}]
      BY <1>1, <1>2, <1>7 DEF TeardownType
    <2>2. downs' \in [Conns -> Nat]
      <3>1. downs \in [Conns -> Nat] /\ downs[c] + 1 \in Nat
        BY <1>2, <1>7 DEF TeardownType
      <3>2. downs' = downs \/ downs' = [downs EXCEPT ![c] = downs[c] + 1]
        BY <1>1
      <3> QED BY <3>1, <3>2
    <2> QED BY <1>1, <1>2, <1>3, <2>1, <2>2 DEF TeardownType
  <1>11. BatchInRound'
    <2>1. \A u \in Threads : u # t => batch'[u] = batch[u]
      BY <1>1, <1>2 DEF TeardownType
    <2> QED BY <1>1, <2>1 DEF OnceInv, BatchInRound, InLoop
  <1>12. \A d \in Conns : d # c => conn'[d] = conn[d] /\ downs'[d] = downs[d]
    BY <1>1, <1>2 DEF TeardownType
  <1>13. /\ f.op = "established" => conn'[c] = "up" /\ downs'[c] = downs[c]
         /\ f.op = "destroyed" => conn'[c] = "down" /\ downs'[c] = 1
    BY <1>1, <1>2, <1>7 DEF TeardownType
  <1>14. f.op \in {"established", "destroyed"}
    BY <1>1
  <1>15. KnownIsUp' /\ TornDownOnce'
    BY <1>1, <1>2, <1>7, <1>12, <1>13, <1>14
    DEF KnownIsUp, TornDownOnce, TeardownType
  <1>16. RemovalsAreKnown'
    <2>1. ~destroying => c \notin Range(basePending)
      BY <1>2, <1>7, <1>14 DEF RemovalsAreKnown
    <2>2. Range(basePending) \subseteq Conns
      BY <1>2 DEF TeardownType, Range
    <2>3. ~destroying => \A d \in Range(basePending) : d \in known /\ conn'[d] = "closed"
      BY <1>2, <1>12, <2>1, <2>2 DEF RemovalsAreKnown
    <2>4. ~destroying => \A d \in Conns : conn'[d] \in {"connecting", "up"} => d \in known
      BY <1>2, <1>7, <1>12, <1>13, <1>14 DEF RemovalsAreKnown
    <2> QED BY <1>1, <1>2, <2>3, <2>4 DEF RemovalsAreKnown, NoRepeats, Range
  <1>17. WorkIsDue'
    <2> SUFFICES ASSUME NEW u \in Threads, NEW g \in Range(Work(u)')
                 PROVE  /\ u = home'[g.conn]
                        /\ g.op = "established" => conn'[g.conn] = "connecting"
                        /\ g.op = "destroyed" => /\ conn'[g.conn] # "none"
                                                 /\ g.conn \notin known'
                                                 /\ downs'[g.conn] = 0
      BY DEF WorkIsDue, Range
    <2>1. g \in Range(Work(u)) /\ g.conn \in Conns
      BY <1>8
    <2>2. CASE g.conn = c
      BY <1>1, <1>2, <1>8, <1>13, <2>1, <2>2 DEF WorkIsDue
    <2>3. CASE g.conn # c
      BY <1>1, <1>2, <1>12, <2>1, <2>3 DEF WorkIsDue
    <2> QED BY <2>2, <2>3
  <1> QED BY <1>9, <1>10, <1>11, <1>15, <1>16, <1>17 DEF OnceInv

LEMMA OnceStep ==
    ASSUME IInv, OnceInv, [TeardownNext]_allVars
    PROVE  OnceInv'
  <1>1. CASE RemoveConnectionInLoop
    <2> DEFINE c == Head(basePending)
    <2>1. basePending \in Seq(Conns) /\ basePending # <<>> /\ ~destroying
      BY <1>1 DEF RemoveConnectionInLoop, OnceInv, TeardownType
    <2>2. /\ basePending' = Tail(basePending) /\ basePending' \in Seq(Conns)
          /\ Range(basePending) = Range(basePending') \cup {c}
          /\ NoRepeats(basePending') /\ c \notin Range(basePending')
      BY <1>1, <2>1, TailRange DEF RemoveConnectionInLoop, OnceInv, RemovalsAreKnown
    <2>3. c \in known /\ conn[c] = "closed"
      BY <2>1, <2>2 DEF OnceInv, RemovalsAreKnown
    <2>4. /\ known' = known \ {c} /\ QueueDestroyed(c)
          /\ UNCHANGED <<home, conn, downs, batch, phase, worker, destroying>>
      BY <1>1 DEF RemoveConnectionInLoop, vars
    <2>5. /\ TeardownType' /\ BatchInRound' /\ WorkInOrder' /\ WorkIsDue'
          /\ KnownIsUp' /\ TornDownOnce'
      BY <2>2, <2>3, <2>4, HandOver
    <2>6. RemovalsAreKnown'
      <3> HIDE DEF c
      <3>1. \A d \in Range(basePending') : d \in known' /\ conn'[d] = "closed"
        BY <2>1, <2>2, <2>4 DEF OnceInv, RemovalsAreKnown
      <3>2. \A d \in Conns : conn'[d] \in {"connecting", "up"} => d \in known'
        BY <2>1, <2>3, <2>4 DEF OnceInv, RemovalsAreKnown
      <3> QED BY <2>2, <3>1, <3>2 DEF RemovalsAreKnown, NoRepeats, Range
    <2> QED BY <2>5, <2>6 DEF OnceInv
  <1>2. ASSUME NEW c \in Conns, DestroyConnection(c) PROVE OnceInv'
    <2>1. /\ c \in known /\ known' = known \ {c} /\ QueueDestroyed(c) /\ destroying'
          /\ UNCHANGED <<home, conn, downs, batch, phase, worker, basePending>>
      BY <1>2 DEF DestroyConnection, vars
    <2>2. basePending' \in Seq(Conns)
      BY <2>1 DEF OnceInv, TeardownType
    <2>3. /\ TeardownType' /\ BatchInRound' /\ WorkInOrder' /\ WorkIsDue'
          /\ KnownIsUp' /\ TornDownOnce'
      BY <2>1, <2>2, HandOver
    <2>4. RemovalsAreKnown'
      BY <2>1 DEF RemovalsAreKnown
    <2> QED BY <2>3, <2>4 DEF OnceInv
  <1>3. ASSUME NEW c \in Conns, NEW t \in Range(loops), NewConnection(c, t)
        PROVE  OnceInv'
    <2>1. t \in Threads
      BY DEF IInv, TypeOK, Range
    <2> QED BY <1>3, <2>1, OnceNew
  <1>4. ASSUME NEW c \in Conns, HandleClose(c) PROVE OnceInv'
    BY <1>4, OnceClose
  <1>5. ASSUME NEW t \in Threads, RunFunctor(t) PROVE OnceInv'
    BY <1>5, OnceRun
  <1>6. CASE \/ (OwnerStep \/ SpuriousWakeup) /\ UNCHANGED serverVars
             \/ DestroyMembers \/ BeginDestructor
    <2>1. 1 \in Threads
      BY PoolAssumption DEF Threads
    <2> QED BY <1>6, <2>1, OnceQuiet
  <1>7. ASSUME NEW t \in Threads,
               \/ PoolWorker(t) \/ QuitInRound(t) \/ BeginRound(t)
               \/ SwapFunctors(t) \/ FinishFunctors(t) \/ EndThread(t)
        PROVE  OnceInv'
    BY <1>7, OnceQuiet
  <1>8. CASE UNCHANGED allVars
    <2>1. UNCHANGED <<home, conn, known, destroying, basePending, downs, phase, pending,
                      batch, worker>>
      BY <1>8 DEF allVars, vars, serverVars
    <2>2. BatchInRound'
      BY <2>1 DEF OnceInv, BatchInRound
    <2> QED BY <2>1, <2>2, SameOnce DEF OnceInv, TeardownType, Work
  <1> QED BY <1>1, <1>2, <1>3, <1>4, <1>5, <1>6, <1>7, <1>8
          DEF TeardownNext, BaseStep, LoopStep

LEMMA OnceInit == ASSUME TeardownInit PROVE OnceInv
  <1>1. 1 \in Threads /\ <<>> \in Seq(FunctorType) /\ <<>> \in Seq(Conns)
    BY PoolAssumption DEF Threads
  <1>2. TeardownType
    BY <1>1 DEF TeardownInit, TeardownType
  <1>3. <<>> \o <<>> = <<>> /\ Range(<<>>) = {} /\ NoRepeats(<<>>) /\ UpBeforeDown(<<>>)
    BY DEF Range, NoRepeats, UpBeforeDown
  <1>4. \A t \in Threads : Work(t) = <<>>
    BY <1>3 DEF Work, TeardownInit
  <1>5. WorkInOrder /\ WorkIsDue
    BY <1>3, <1>4 DEF WorkInOrder, WorkIsDue
  <1>6. BatchInRound /\ KnownIsUp /\ RemovalsAreKnown /\ TornDownOnce
    BY <1>3 DEF TeardownInit, BatchInRound, KnownIsUp, RemovalsAreKnown, TornDownOnce
  <1> QED BY <1>2, <1>5, <1>6 DEF OnceInv

\* A connection is torn down once, for any number of loops and connections:
\* whatever removeConnectionInLoop() and ~TcpServer() hand over, and however the
\* loops come to their functors.
THEOREM TearsDownOnce == TeardownSpec => []TornDownOnce
  <1>1. TeardownInit => OnceInv
    BY OnceInit
  <1>2. IInv /\ OnceInv /\ [TeardownNext]_allVars => OnceInv'
    BY OnceStep
  <1>3. OnceInv => TornDownOnce
    BY DEF OnceInv
  <1> QED BY <1>1, <1>2, <1>3, PoolSpec, Inductive, PTL DEF TeardownSpec

-----------------------------------------------------------------------------
(* Whether a connection is torn down before the destructor is through. *)

\* The loops move, and those that were polling with functors queued still are.
LEMMA SameOnTime ==
    ASSUME OnTimeInv, UNCHANGED <<conn, known, late>>,
           \A t \in Threads :
              /\ Work(t)' = Work(t)
              /\ \/ pending'[t] = <<>>
                 \/ /\ pending'[t] = pending[t]
                    /\ worker[t] = "loop" /\ phase[t] = "poll"
                           => worker'[t] = "loop" /\ phase'[t] = "poll"
    PROVE  OnTimeInv'
  <1>1. Range(<<>>) = {}
    BY DEF Range
  <1>2. \A t \in Threads : \A f \in Range(pending'[t]) :
           f.op = "destroyed" /\ f.conn \notin late'
               => worker'[t] = "loop" /\ phase'[t] = "poll"
    BY <1>1 DEF OnTimeInv
  <1>3. \A c \in Conns :
           \/ conn'[c] \in {"none", "down"}
           \/ c \in known' \cup late'
           \/ \E t \in Threads : DestroyedFunctor(c) \in Range(Work(t)')
    BY DEF OnTimeInv
  <1> QED BY <1>2, <1>3 DEF OnTimeInv, Range, DestroyedFunctor

LEMMA OnTimeQuiet ==
    ASSUME IInv, OnceInv, OnTimeInv, NEW t \in Threads,
           \/ (OwnerStep \/ SpuriousWakeup) /\ UNCHANGED serverVars
           \/ DestroyMembers \/ BeginDestructor
           \/ PoolWorker(t) \/ QuitInRound(t)
           \/ BeginRound(t) \/ SwapFunctors(t) \/ FinishFunctors(t)
    PROVE  OnTimeInv'
  <1>0. TeardownType /\ BatchInRound
    BY DEF OnceInv
  <1>1. UNCHANGED <<conn, known, late>>
    BY DEF serverVars, DestroyMembers, BeginDestructor, PoolWorker, QuitInRound,
           BeginRound, SwapFunctors, FinishFunctors
  <1>2. CASE \/ (OwnerStep \/ SpuriousWakeup) /\ UNCHANGED serverVars
             \/ DestroyMembers \/ PoolWorker(t) \/ QuitInRound(t)
    <2>1. UNCHANGED <<phase, pending, batch>>
      BY <1>2 DEF serverVars, DestroyMembers, PoolWorker, QuitInRound
    <2>2. ASSUME NEW u \in Threads
          PROVE  worker'[u] \in {worker[u], "loop"} \/ phase[u] = "test"
      <3>1. CASE OwnerStep \/ SpuriousWakeup \/ DestroyPool
        BY <1>0, <3>1, OwnerPhase
      <3>2. CASE PoolWorker(t) \/ QuitInRound(t)
        BY <1>0, <3>2, WorkerPhase DEF PoolWorker, QuitInRound
      <3> QED BY <1>2, <3>1, <3>2 DEF DestroyMembers
    <2> QED BY <1>1, <2>1, <2>2, SameOnTime DEF Work
  <1>3. CASE BeginDestructor
    <2>1. UNCHANGED <<phase, pending, batch, worker>>
      BY <1>3 DEF BeginDestructor, vars
    <2> QED BY <1>1, <2>1, SameOnTime DEF Work
  <1>4. CASE BeginRound(t) \/ FinishFunctors(t)
    <2>1. UNCHANGED <<pending, batch, worker>> /\ phase[t] # "poll"
      BY <1>4 DEF BeginRound, FinishFunctors, InLoop, vars
    <2>2. \A u \in Threads : u # t => phase'[u] = phase[u]
      BY <1>0, <1>4 DEF BeginRound, FinishFunctors, TeardownType
    <2> QED BY <1>1, <2>1, <2>2, SameOnTime DEF Work
  <1>5. CASE SwapFunctors(t)
    <2>1. batch[t] = <<>> /\ worker' = worker
      BY <1>0, <1>5 DEF SwapFunctors, InLoop, BatchInRound, vars
    <2>2. \A u \in Threads : Work(u)' = Work(u)
      BY <1>0, <1>5, <2>1, SwapWork DEF SwapFunctors
    <2>3. /\ pending'[t] = <<>>
          /\ \A u \in Threads : u # t => pending'[u] = pending[u] /\ phase'[u] = phase[u]
      BY <1>0, <1>5 DEF SwapFunctors, TeardownType
    <2> QED BY <1>1, <2>1, <2>2, <2>3, SameOnTime
  <1> QED BY <1>2, <1>3, <1>4, <1>5

\* What a thread leaves behind had come too late.
LEMMA OnTimeEnd ==
    ASSUME OnceInv, OnTimeInv, NEW t \in Threads, EndThread(t)
    PROVE  OnTimeInv'
  <1>0. TeardownType /\ BatchInRound
    BY DEF OnceInv
  <1>1. /\ worker[t] = "return" /\ worker' = [worker EXCEPT ![t] = "ended"]
        /\ pending' = [pending EXCEPT ![t] = <<>>]
        /\ UNCHANGED <<conn, known, late, batch, phase>>
    BY DEF EndThread, Return, Move
  <1>2. batch[t] = <<>>
    BY <1>0, <1>1 DEF BatchInRound
  <1>3. Range(<<>>) = {}
    BY DEF Range
  <1>4. pending'[t] = <<>> /\ \A u \in Threads : u # t => pending'[u] = pending[u]
    BY <1>0, <1>1 DEF TeardownType
  <1>5. \A u \in Threads : \A f \in Range(pending'[u]) :
           f.op = "destroyed" /\ f.conn \notin late
               => worker'[u] = "loop" /\ phase'[u] = "poll"
    <2> SUFFICES ASSUME NEW u \in Threads, NEW f \in Range(pending'[u]),
                        f.op = "destroyed", f.conn \notin late
                 PROVE  worker'[u] = "loop" /\ phase'[u] = "poll"
      OBVIOUS
    <2>1. u # t /\ f \in Range(pending[u])
      BY <1>3, <1>4
    <2>2. worker[u] = "loop" /\ phase[u] = "poll"
      BY <2>1 DEF OnTimeInv
    <2> QED BY <1>1, <2>1, <2>2
  <1>6. ASSUME NEW c \in Conns, conn[c] \notin {"none", "down"}, c \notin known \cup late
        PROVE  \E u \in Threads : DestroyedFunctor(c) \in Range(Work(u)')
    <2>1. PICK u \in Threads : DestroyedFunctor(c) \in Range(Work(u))
      BY <1>6 DEF OnTimeInv
    <2>2. DestroyedFunctor(c).op = "destroyed" /\ DestroyedFunctor(c).conn = c
      BY DEF DestroyedFunctor
    <2>3. u # t
      <3> SUFFICES ASSUME u = t PROVE FALSE
        OBVIOUS
      <3>1. DestroyedFunctor(c) \in Range(pending[t])
        BY <1>0, <1>2, <1>3, <2>1, WorkType
      <3> QED BY <1>1, <1>6, <2>2, <3>1 DEF OnTimeInv
    <2>4. Work(u)' = Work(u)
      BY <1>1, <1>4, <2>3 DEF Work
    <2> QED BY <2>1, <2>4
  <1> QED BY <1>1, <1>5, <1>6 DEF OnTimeInv, Range, DestroyedFunctor

\* A functor is queued; if it is a connectDestroyed() the loop is polling or the
\* connection is late.
LEMMA OnTimeQueue ==
    ASSUME OnceInv, OnTimeInv, NEW u \in Threads, NEW f \in FunctorType,
           pending' = [pending EXCEPT ![u] = Append(@, f)],
           UNCHANGED <<batch, phase, worker>>, late \subseteq late',
           f.op = "destroyed" => f.conn \in late' \/ InLoop(u, "poll"),
           \A c \in Conns : \/ conn'[c] = conn[c] /\ (c \in known => c \in known')
                            \/ c \in known'
                            \/ f = DestroyedFunctor(c)
    PROVE  OnTimeInv'
  <1>0. TeardownType
    BY DEF OnceInv
  <1>1. /\ pending' \in [Threads -> Seq(FunctorType)]
        /\ Work(u)' = Append(Work(u), f)
        /\ \A t \in Threads : t # u => Work(t)' = Work(t)
    BY <1>0, QueueWork
  <1>2. Work(u) \in Seq(FunctorType)
    BY <1>0, WorkType
  <1>3. Range(Work(u)') = Range(Work(u)) \cup {f}
    BY <1>1, <1>2, AppendRange
  <1>4. \A t \in Threads : Range(Work(t)) \subseteq Range(Work(t)')
    BY <1>1, <1>3
  <1>5. /\ Range(pending'[u]) = Range(pending[u]) \cup {f}
        /\ \A t \in Threads : t # u => pending'[t] = pending[t]
    <2>1. pending[u] \in Seq(FunctorType) /\ pending'[u] = Append(pending[u], f)
      BY <1>0 DEF TeardownType
    <2>2. Range(pending'[u]) = Range(pending[u]) \cup {f}
      BY <2>1, AppendRange
    <2> QED BY <1>0, <2>2 DEF TeardownType
  <1>6. ASSUME NEW t \in Threads, NEW g \in Range(pending'[t]),
               g.op = "destroyed", g.conn \notin late'
        PROVE  worker'[t] = "loop" /\ phase'[t] = "poll"
    <2>1. CASE g \in Range(pending[t])
      BY <1>6, <2>1 DEF OnTimeInv
    <2>2. CASE t = u /\ g = f
      BY <1>6, <2>2 DEF InLoop
    <2> QED BY <1>5, <1>6, <2>1, <2>2
  <1>7. ASSUME NEW c \in Conns, conn'[c] \notin {"none", "down"},
               c \notin known' \cup late'
        PROVE  \E t \in Threads : DestroyedFunctor(c) \in Range(Work(t)')
    <2>1. CASE f = DestroyedFunctor(c)
      BY <1>3, <2>1
    <2>2. CASE f # DestroyedFunctor(c)
      <3>1. conn[c] = conn'[c] /\ c \notin known \cup late
        BY <1>7, <2>2
      <3>2. PICK t \in Threads : DestroyedFunctor(c) \in Range(Work(t))
        BY <1>7, <3>1 DEF OnTimeInv
      <3> QED BY <1>4, <3>2
    <2> QED BY <2>1, <2>2
  <1> QED BY <1>6, <1>7 DEF OnTimeInv, Range, DestroyedFunctor

LEMMA OnTimeHandOver ==
    ASSUME OnceInv, OnTimeInv, NEW c \in Conns, known' = known \ {c}, QueueDestroyed(c),
           UNCHANGED <<conn, batch, phase, worker>>
    PROVE  OnTimeInv'
  <1> DEFINE f == DestroyedFunctor(c)
             u == home[c]
  <1>1. u \in Threads /\ f \in FunctorType
    BY DEF OnceInv, TeardownType, FunctorType, DestroyedFunctor
  <1>2. f.conn = c
    BY DEF DestroyedFunctor
  <1>3. pending' = [pending EXCEPT ![u] = Append(@, f)]
    BY DEF QueueDestroyed, QueueInLoop, DestroyedFunctor
  <1>4. late' = IF InLoop(u, "poll") THEN late ELSE late \cup {c}
    BY DEF QueueDestroyed
  <1>5. \A d \in Conns : (conn'[d] = conn[d] /\ (d \in known => d \in known'))
                            \/ f = DestroyedFunctor(d)
    BY DEF DestroyedFunctor
  <1> HIDE DEF f, u
  <1> QED BY <1>1, <1>2, <1>3, <1>4, <1>5, OnTimeQueue

LEMMA OnTimeRun ==
    ASSUME OnceInv, OnTimeInv, NEW t \in Threads, RunFunctor(t)
    PROVE  OnTimeInv'
  <1> DEFINE f == Head(batch[t])
  <1>0. TeardownType /\ WorkInOrder
    BY DEF OnceInv
  <1>1. /\ InLoop(t, "functors") /\ batch[t] # <<>>
        /\ batch' = [batch EXCEPT ![t] = Tail(@)]
        /\ UNCHANGED <<known, late, phase, pending, worker>>
        /\ \/ f.op = "established" /\ conn' = [conn EXCEPT ![f.conn] = "up"]
           \/ f.op = "destroyed" /\ conn' = [conn EXCEPT ![f.conn] = "down"]
    BY DEF RunFunctor, vars
  <1>2. /\ Work(t) # <<>> /\ Head(Work(t)) = f
        /\ Work(t)' = Tail(Work(t))
        /\ \A u \in Threads : u # t => Work(u)' = Work(u)
    BY <1>0, <1>1, RunWork
  <1>3. Work(t) \in Seq(FunctorType)
    BY <1>0, WorkType
  <1>4. f \in FunctorType /\ Range(Work(t)) = Range(Work(t)') \cup {f}
    BY <1>2, <1>3, TailRange
  <1>5. f \in Range(Work(t))
    BY <1>4
  <1> HIDE DEF f
  <1>6. ASSUME NEW c \in Conns, conn'[c] \notin {"none", "down"}, c \notin known \cup late
        PROVE  \E u \in Threads : DestroyedFunctor(c) \in Range(Work(u)')
    <2>1. DestroyedFunctor(c).op = "destroyed" /\ DestroyedFunctor(c).conn = c
      BY DEF DestroyedFunctor
    <2>2. f # DestroyedFunctor(c)
      BY <1>0, <1>1, <1>6, <2>1 DEF TeardownType
    <2>3. conn[c] \notin {"none", "down"}
      <3>1. CASE f.conn = c
        BY <1>1, <1>4, <1>5, <2>2, <3>1
        DEF OnceInv, WorkIsDue, FunctorType, DestroyedFunctor
      <3>2. CASE f.conn # c
        BY <1>0, <1>1, <1>6, <3>2 DEF TeardownType
      <3> QED BY <3>1, <3>2
    <2>4. PICK u \in Threads : DestroyedFunctor(c) \in Range(Work(u))
      BY <1>6, <2>3 DEF OnTimeInv
    <2> QED BY <1>2, <1>4, <2>2, <2>4
  <1>7. \A u \in Threads : \A g \in Range(pending'[u]) :
           g.op = "destroyed" /\ g.conn \notin late'
               => worker'[u] = "loop" /\ phase'[u] = "poll"
    BY <1>1 DEF OnTimeInv
  <1> QED BY <1>1, <1>6, <1>7 DEF OnTimeInv, Range, DestroyedFunctor

LEMMA OnTimeStep ==
    ASSUME IInv, OnceInv, OnTimeInv, [TeardownNext]_allVars
    PROVE  OnTimeInv'
  <1>1. CASE RemoveConnectionInLoop
    <2>1. Head(basePending) \in Conns
      BY <1>1 DEF RemoveConnectionInLoop, OnceInv, TeardownType
    <2> QED BY <1>1, <2>1, OnTimeHandOver DEF RemoveConnectionInLoop, vars
  <1>2. ASSUME NEW c \in Conns, DestroyConnection(c) PROVE OnTimeInv'
    BY <1>2, OnTimeHandOver DEF DestroyConnection, vars
  <1>3. ASSUME NEW c \in Conns, NEW t \in Range(loops), NewConnection(c, t)
        PROVE  OnTimeInv'
    <2> DEFINE f == Established(c)
    <2>1. t \in Threads /\ f \in FunctorType /\ f.op # "destroyed"
      BY DEF IInv, TypeOK, Range, FunctorType, Established
    <2>2. /\ pending' = [pending EXCEPT ![t] = Append(@, f)]
          /\ UNCHANGED <<batch, phase, worker, late>>
      BY <1>3 DEF NewConnection, QueueInLoop, Established, vars
    <2> HIDE DEF f
    <2>3. \A d \in Conns : (conn'[d] = conn[d] /\ (d \in known => d \in known'))
                              \/ d \in known'
      BY <1>3 DEF NewConnection, OnceInv, TeardownType
    <2> QED BY <2>1, <2>2, <2>3, OnTimeQueue
  <1>4. ASSUME NEW c \in Conns, HandleClose(c) PROVE OnTimeInv'
    <2>1. /\ conn[c] = "up" /\ conn' = [conn EXCEPT ![c] = "closed"]
          /\ UNCHANGED <<known, late, batch, phase, pending, worker>>
      BY <1>4 DEF HandleClose, vars
    <2>2. \A d \in Conns : conn'[d] \in {"none", "down"} <=> conn[d] \in {"none", "down"}
      BY <2>1 DEF OnceInv, TeardownType
    <2>3. \A t \in Threads : Work(t)' = Work(t)
      BY <2>1 DEF Work
    <2>4. \A d \in Conns :
             \/ conn'[d] \in {"none", "down"}
             \/ d \in known' \cup late'
             \/ \E t \in Threads : DestroyedFunctor(d) \in Range(Work(t)')
      BY <2>1, <2>2, <2>3 DEF OnTimeInv
    <2>5. \A t \in Threads : \A g \in Range(pending'[t]) :
             g.op = "destroyed" /\ g.conn \notin late'
                 => worker'[t] = "loop" /\ phase'[t] = "poll"
      BY <2>1 DEF OnTimeInv
    <2> QED BY <2>4, <2>5 DEF OnTimeInv, Range, DestroyedFunctor
  <1>5. ASSUME NEW t \in Threads, RunFunctor(t) \/ EndThread(t) PROVE OnTimeInv'
    BY <1>5, OnTimeRun, OnTimeEnd
  <1>6. CASE \/ (OwnerStep \/ SpuriousWakeup) /\ UNCHANGED serverVars
             \/ DestroyMembers \/ BeginDestructor
    <2>1. 1 \in Threads
      BY PoolAssumption DEF Threads
    <2> QED BY <1>6, <2>1, OnTimeQuiet
  <1>7. ASSUME NEW t \in Threads,
               \/ PoolWorker(t) \/ QuitInRound(t) \/ BeginRound(t)
               \/ SwapFunctors(t) \/ FinishFunctors(t)
        PROVE  OnTimeInv'
    BY <1>7, OnTimeQuiet
  <1>8. CASE UNCHANGED allVars
    <2>1. UNCHANGED <<conn, known, late, phase, pending, batch, worker>>
      BY <1>8 DEF allVars, vars, serverVars
    <2> QED BY <2>1, SameOnTime DEF Work
  <1> QED BY <1>1, <1>2, <1>3, <1>4, <1>5, <1>6, <1>7, <1>8
          DEF TeardownNext, BaseStep, LoopStep

\* When the pool is gone nothing waits that had been handed over in time.
LEMMA GoneIsDown ==
    ASSUME IInv, TInv, OnceInv, OnTimeInv
    PROVE  PollingLoopsTearDown
  <1> SUFFICES ASSUME owner = "gone", NEW c \in Conns, c \notin late
               PROVE  conn[c] \in {"none", "down"}
    BY DEF PollingLoopsTearDown
  <1>1. known = {} /\ \A t \in Threads : worker[t] = "ended"
    BY DEF TInv, KnownWhileUp, IInv, NoThreadOutlivesPool
  <1>2. ASSUME NEW t \in Threads PROVE DestroyedFunctor(c) \notin Range(Work(t))
    <2>1. DestroyedFunctor(c).op = "destroyed" /\ DestroyedFunctor(c).conn = c
      BY DEF DestroyedFunctor
    <2>2. DestroyedFunctor(c) \notin Range(pending[t])
      BY <1>1, <2>1 DEF OnTimeInv
    <2>3. batch[t] = <<>> /\ Range(<<>>) = {}
      BY <1>1 DEF OnceInv, BatchInRound, Range
    <2> QED BY <2>2, <2>3, WorkType DEF OnceInv
  <1> QED BY <1>1, <1>2 DEF OnTimeInv

\* tcp_server.cpp:42, for any number of loops and connections: when ~TcpServer()
\* is through, every connection that was handed to a polling loop has been torn
\* down by it.
THEOREM TearsDownInTime == TeardownSpec => []PollingLoopsTearDown
  <1>1. TeardownInit => TInv /\ OnceInv /\ OnTimeInv
    <2> SUFFICES ASSUME TeardownInit PROVE TInv /\ OnTimeInv
      BY OnceInit
    <2>1. 1 \in Threads /\ Range(<<>>) = {}
      BY PoolAssumption DEF Threads, Range
    <2>2. TInv
      BY <2>1 DEF TeardownInit, TInv, KnownWhileUp, LoopsOutliveServer
    <2> QED BY <2>1, <2>2 DEF TeardownInit, OnTimeInv
  <1>2. IInv /\ TInv /\ OnceInv /\ OnTimeInv /\ [TeardownNext]_allVars
            => TInv' /\ OnceInv' /\ OnTimeInv'
    BY TStep, OnceStep, OnTimeStep
  <1>3. IInv /\ TInv /\ OnceInv /\ OnTimeInv => PollingLoopsTearDown
    BY GoneIsDown
  <1> QED BY <1>1, <1>2, <1>3, PoolSpec, Inductive, PTL DEF TeardownSpec
=============================================================================
