--------------------------- MODULE ServerTeardown ---------------------------
(***************************************************************************)
(* core::TcpServer with its pool, from start() to the end of ~TcpServer(), *)
(* on top of EventLoopThreadPool.tla.  The destructor hands every          *)
(* connection it knows to the connection's own loop to be torn down, and   *)
(* then destroys the pool, which quits the loops.  Here a loop's life in   *)
(* loop() has its rounds: the test of quit_, poll() and the handlers, the  *)
(* functors.  A functor queued behind the swap of the last round is never  *)
(* called.  What a connection does while the server runs is in             *)
(* TcpServer.tla; here it comes up, is closed by its peer, and goes.       *)
(***************************************************************************)
EXTENDS EventLoopThreadPool

CONSTANT MaxConns   \* bound: connections made

ASSUME TeardownAssumption == MaxConns \in Nat

Conns == 1 .. MaxConns   \* by next_conn_id_

VARIABLES
    home,         \* the loop of each connection
    conn,         \* each connection: none, connecting, up, closed, down
    known,        \* connections_
    destroying,   \* ~TcpServer() has begun
    phase,        \* each loop: where it is in a round
    pending,      \* each loop: pending_functors_
    batch,        \* each loop: functors of doPendingFunctors() not yet called
    basePending,  \* removeConnectionInLoop() functors of the base loop
    downs,        \* history: calls of connectDestroyed()
    late,         \* history: connections handed to a loop that was not polling
    deadQueue     \* history: loops a functor was queued to after their death

serverVars == <<home, conn, known, destroying, phase, pending, batch, basePending,
                downs, late, deadQueue>>
allVars == <<vars, serverVars>>

-----------------------------------------------------------------------------
(* The base thread. *)

InLoop(t, at) == Running /\ worker[t] = "loop" /\ phase[t] = at

QueueInLoop(t, op, c) ==
    /\ pending' = [pending EXCEPT ![t] = Append(@, [op |-> op, conn |-> c])]
    /\ deadQueue' = IF object[t] = "dead" THEN deadQueue \cup {t} ELSE deadQueue

\* queueInLoop() of connectDestroyed() to the connection's loop.
QueueDestroyed(c) ==
    /\ QueueInLoop(home[c], "destroyed", c)
    /\ late' = IF InLoop(home[c], "poll") THEN late ELSE late \cup {c}

\* newConnection() gives the connection to a loop of the pool; whose turn it
\* is does not matter here.
NewConnection(c, t) ==
    /\ owner = "up" /\ ~destroying
    /\ \A d \in Conns : conn[d] = "none" <=> d >= c
    /\ conn' = [conn EXCEPT ![c] = "connecting"]
    /\ home' = [home EXCEPT ![c] = t]
    /\ known' = known \cup {c}
    /\ QueueInLoop(t, "established", c)
    /\ UNCHANGED <<vars, destroying, phase, batch, basePending, downs, late>>

\* Faulty variant: the connection stays in connections_.
BugRemoveConnectionInLoop ==
    /\ owner = "up" /\ ~destroying
    /\ basePending # <<>>
    /\ QueueDestroyed(Head(basePending))
    /\ basePending' = Tail(basePending)
    /\ UNCHANGED <<vars, home, conn, known, destroying, phase, batch, downs>>

\* The base loop calls removeConnectionInLoop().
RemoveConnectionInLoop ==
    /\ owner = "up" /\ ~destroying
    /\ basePending # <<>>
    /\ known' = known \ {Head(basePending)}
    /\ QueueDestroyed(Head(basePending))
    /\ basePending' = Tail(basePending)
    /\ UNCHANGED <<vars, home, conn, destroying, phase, batch, downs>>

\* Somebody destroys the server.
BeginDestructor ==
    /\ owner = "up" /\ ~destroying
    /\ destroying' = TRUE
    /\ UNCHANGED <<vars, home, conn, known, phase, pending, batch, basePending,
                   downs, late, deadQueue>>

\* The loop of ~TcpServer() comes to its next connection.
DestroyConnection(c) ==
    /\ destroying
    /\ c \in known
    /\ known' = known \ {c}
    /\ QueueDestroyed(c)
    /\ UNCHANGED <<vars, home, conn, destroying, phase, batch, basePending, downs>>

\* Faulty variant: the pool goes while there are connections left.
BugDestroyMembers ==
    /\ destroying
    /\ DestroyPool
    /\ UNCHANGED serverVars

\* The members go: thread_pool_ before acceptor_, the map being empty by now.
DestroyMembers ==
    /\ destroying
    /\ known = {}
    /\ DestroyPool
    /\ UNCHANGED serverVars

-----------------------------------------------------------------------------
(* The loops. *)

\* The round begins: quit_ is not set, and poll() is called.
BeginRound(t) ==
    /\ InLoop(t, "test")
    /\ ~quit[t]
    /\ phase' = [phase EXCEPT ![t] = "poll"]
    /\ UNCHANGED <<vars, home, conn, known, destroying, pending, batch, basePending,
                   downs, late, deadQueue>>

\* handleClose(): removeConnection() queues itself to the base loop.
HandleClose(c) ==
    /\ InLoop(home[c], "poll")
    /\ conn[c] = "up"
    /\ conn' = [conn EXCEPT ![c] = "closed"]
    /\ basePending' = Append(basePending, c)
    /\ UNCHANGED <<vars, home, known, destroying, phase, pending, batch, downs,
                   late, deadQueue>>

\* Faulty variant: a loop that is to quit calls no functors any more.
BugSwapFunctors(t) ==
    /\ InLoop(t, "poll")
    /\ batch' = [batch EXCEPT ![t] = IF quit[t] THEN <<>> ELSE pending[t]]
    /\ pending' = [pending EXCEPT ![t] = <<>>]
    /\ phase' = [phase EXCEPT ![t] = "functors"]
    /\ UNCHANGED <<vars, home, conn, known, destroying, basePending, downs, late,
                   deadQueue>>

\* doPendingFunctors(): the swap.
SwapFunctors(t) ==
    /\ InLoop(t, "poll")
    /\ batch' = [batch EXCEPT ![t] = pending[t]]
    /\ pending' = [pending EXCEPT ![t] = <<>>]
    /\ phase' = [phase EXCEPT ![t] = "functors"]
    /\ UNCHANGED <<vars, home, conn, known, destroying, basePending, downs, late,
                   deadQueue>>

\* connectEstablished() or connectDestroyed() is called.
RunFunctor(t) ==
    /\ InLoop(t, "functors")
    /\ batch[t] # <<>>
    /\ batch' = [batch EXCEPT ![t] = Tail(@)]
    /\ LET f == Head(batch[t])
       IN  \/ /\ f.op = "established"
              /\ conn' = [conn EXCEPT ![f.conn] = "up"]
              /\ UNCHANGED downs
           \/ /\ f.op = "destroyed"
              /\ conn' = [conn EXCEPT ![f.conn] = "down"]
              /\ downs' = [downs EXCEPT ![f.conn] = @ + 1]
    /\ UNCHANGED <<vars, home, known, destroying, phase, pending, basePending, late,
                   deadQueue>>

FinishFunctors(t) ==
    /\ InLoop(t, "functors")
    /\ batch[t] = <<>>
    /\ phase' = [phase EXCEPT ![t] = "test"]
    /\ UNCHANGED <<vars, home, conn, known, destroying, pending, batch, basePending,
                   downs, late, deadQueue>>

\* The steps of the pool; quit_ is looked at between two rounds only, and user
\* code calls quit() inside one.
PoolWorker(t) ==
    /\ \/ Construct(t) \/ InitCallback(t) \/ Publish(t) \/ EnterLoop(t)
       \/ phase[t] = "test" /\ LeaveLoop(t)
       \/ ClearLoop(t)
    /\ UNCHANGED serverVars

QuitInRound(t) ==
    /\ phase[t] # "test"
    /\ QuitFromWithin(t)
    /\ UNCHANGED serverVars

\* ~EventLoop(): the functors that were not called go with it.
EndThread(t) ==
    /\ Return(t)
    /\ pending' = [pending EXCEPT ![t] = <<>>]
    /\ UNCHANGED <<home, conn, known, destroying, phase, batch, basePending, downs,
                   late, deadQueue>>

-----------------------------------------------------------------------------
TeardownInit ==
    /\ Init
    /\ home = [c \in Conns |-> 1]
    /\ conn = [c \in Conns |-> "none"]
    /\ known = {}
    /\ destroying = FALSE
    /\ phase = [t \in Threads |-> "test"]
    /\ pending = [t \in Threads |-> <<>>]
    /\ batch = [t \in Threads |-> <<>>]
    /\ basePending = <<>>
    /\ downs = [c \in Conns |-> 0]
    /\ late = {}
    /\ deadQueue = {}

BaseStep ==
    \/ OwnerStep /\ UNCHANGED serverVars
    \/ RemoveConnectionInLoop
    \/ \E c \in Conns : DestroyConnection(c)
    \/ DestroyMembers

LoopStep(t) ==
    \/ PoolWorker(t)
    \/ BeginRound(t) \/ SwapFunctors(t) \/ RunFunctor(t) \/ FinishFunctors(t)
    \/ EndThread(t)

TeardownNext ==
    \/ BaseStep
    \/ SpuriousWakeup /\ UNCHANGED serverVars
    \/ \E c \in Conns, t \in Range(loops) : NewConnection(c, t)
    \/ BeginDestructor
    \/ \E t \in Threads : LoopStep(t) \/ QuitInRound(t)
    \/ \E c \in Conns : HandleClose(c)

TeardownSpec == TeardownInit /\ [][TeardownNext]_allVars

\* The threads are scheduled.  Nobody has to connect, close, quit a loop from
\* within, or destroy the server.
TeardownFairSpec ==
    /\ TeardownSpec
    /\ WF_allVars(BaseStep)
    /\ \A t \in Threads : WF_allVars(LoopStep(t))

-----------------------------------------------------------------------------
(* Properties. *)

\* A connection is torn down once: neither its own closing and ~TcpServer(),
\* nor the order of the functors, calls connectDestroyed() again, and
\* connectEstablished() does not come after it.
TornDownOnce ==
    \A c \in Conns : downs[c] <= 1 /\ (downs[c] = 1 => conn[c] = "down")

\* tcp_server.cpp:42: connections are destroyed in the thread they belong to.
\* When the destructor is through, a connection has been torn down by its
\* loop, if that was polling when it was handed over: quit() does not
\* overtake it.  (The functor of a loop that was busy may come too late.)
PollingLoopsTearDown ==
    owner = "gone" => \A c \in Conns : conn[c] \in {"none", "down"} \/ c \in late

\* The server queues functors to living loops only, but for those that have
\* quit from within.
LoopsOutliveServer == deadQueue \subseteq selfQuit

\* ~TcpServer() returns, unless it quits a loop before its thread has entered
\* loop(), or brings the process down.
ServerDestructorReturns ==
    destroying ~> (owner = "gone" \/ early # {} \/ ~Running)
=============================================================================
