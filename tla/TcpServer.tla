------------------------------ MODULE TcpServer ------------------------------
(***************************************************************************)
(* The life of a TCP connection: core::TcpServer, its acceptor and its     *)
(* pool of loops, core::TcpConnection, Channel::handleEvent and            *)
(* EventLoop::loop, together.  A connection is accepted by the base loop,  *)
(* lives on one loop of the pool, is closed by an event on that loop,      *)
(* leaves connections_ on the base loop, and is torn down on its own loop  *)
(* again; each hand-over is a functor.  It is destroyed when the last      *)
(* shared_ptr to it goes: the one in connections_, the ones bound into     *)
(* functors, or one the application keeps in another thread.               *)
(*                                                                         *)
(* A handler runs in one step of its loop thread.  send() and shutdown()   *)
(* of the other thread are several steps, for they read state_ and act on  *)
(* it later.  A failed assert is recorded and execution goes on, as in a   *)
(* build with NDEBUG; a debug build stops there.  SIGPIPE is ignored.      *)
(* The poller is used through what EPollPoller.tla establishes: the kernel *)
(* watches exactly the channels with status "added", for their events.     *)
(***************************************************************************)
EXTENDS Integers, Sequences, SequencesExt

CONSTANTS Conns,        \* connections ever made
          Base,         \* the base loop
          Workers,      \* the loops of the pool's threads
          Pools,        \* what loops_ may be: sequences of workers, also empty
          UpOps,        \* what connection_change_callback_ may do when up
          MessageOps,   \* what message_callback_ may do
          CompleteOps,  \* what write_complete_callback_ may do; {} when unset
          ForeignOps,   \* what a thread that is no loop may do
          MaxData,      \* bound: times a peer sends data
          MaxForeign    \* bound: calls the other thread makes

AppOps == {"send", "shutdown"}

ASSUME ServerAssumption ==
    /\ Base \notin Workers
    /\ Pools \subseteq Seq(Workers)
    /\ {UpOps, MessageOps, CompleteOps, ForeignOps} \subseteq SUBSET AppOps
    /\ MaxData \in Nat /\ MaxForeign \in Nat

Loops == {Base} \cup Workers

VARIABLES
    conn,         \* each connection with its channel and its kernel socket
    loopOf,       \* loop_ of a connection
    connections,  \* connections_
    loops,        \* loops_ of the thread pool, set up by start()
    next,         \* next_ of the thread pool (counted from 0)
    lpc,          \* each loop: in poll(), handling events, calling functors
    active,       \* each loop: active_channels_ with their revents_
    accepting,    \* the accept channel is one of the base loop's active ones
    pending,      \* each loop: pending_functors_
    batch,        \* each loop: the vector doPendingFunctors() works off
    ran,          \* each loop: how many of the batch were called
    held,         \* connections the application keeps a shared_ptr to
    fpc,          \* the other thread: idle, or inside send() or shutdown()
    budget,       \* calls the other thread may still make
    failed        \* the asserts that have failed

serverVars == <<loopOf, connections, loops, next>>
loopVars == <<lpc, active, accepting, pending, batch, ran>>
foreignVars == <<held, fpc, budget>>
vars == <<conn, serverVars, loopVars, foreignVars, failed>>

-----------------------------------------------------------------------------
(* A connection.  state, events, status, out (output_buffer_ is not empty),*)
(* ups and downs (calls of connection_change_callback_) are the program's; *)
(* the rest is the kernel's socket: life, peer, data (something to read),  *)
(* sent (data the peer has sent so far), err (SO_ERROR), wr (shut down).   *)

NewConn ==
    [state |-> "connecting", events |-> {}, status |-> "new", out |-> FALSE,
     ups |-> 0, downs |-> 0,
     life |-> "none", peer |-> "open", data |-> FALSE, sent |-> 0,
     err |-> FALSE, wr |-> FALSE]

\* Channel::enable.../disable... with EPollPoller::updateChannel().
SetEvents(k, ev) ==
    [k EXCEPT !.events = ev,
              !.status = IF @ = "added" /\ ev = {} THEN "deleted" ELSE "added"]

IsWriting(k) == "out" \in k.events

\* External: what epoll_wait reports for the socket; w: there is room to write.
Revents(k, w) ==
    LET holds ==
          (IF k.data \/ k.peer # "open" THEN {"in"} ELSE {}) \cup
          (IF w \/ k.wr \/ k.peer = "rst" THEN {"out"} ELSE {}) \cup
          (IF k.peer = "rst" \/ (k.peer = "fin" /\ k.wr) THEN {"hup"} ELSE {}) \cup
          (IF k.err THEN {"err"} ELSE {})
    IN  IF k.status = "added" THEN holds \cap (k.events \cup {"hup", "err"})
                              ELSE {}

\* External: outcomes of write(2): everything, not everything (a signal, or an
\* error that is neither EPIPE nor ECONNRESET), or one of these two.
WriteResults(k) == IF k.wr \/ k.peer = "rst" THEN {"fault"} ELSE {"all", "rest"}

-----------------------------------------------------------------------------
(* Handlers.  An outcome o is what a handler has done so far: k the        *)
(* connection, q the functors it queued to its own loop, closes how often  *)
(* it called close_callback_, bad the asserts that failed.  A handler maps *)
(* an outcome to the set of outcomes it can lead to.                       *)

Outcome(k) == [k |-> k, q |-> <<>>, closes |-> 0, bad |-> {}]

Then(S, H(_)) == UNION {H(o) : o \in S}

SendInLoop(o) ==
    LET k == o.k
        buffered == [o EXCEPT
            !.k = [(IF IsWriting(k) THEN k ELSE SetEvents(k, k.events \cup {"out"}))
                     EXCEPT !.out = TRUE]]
        written == IF CompleteOps = {} THEN o
                   ELSE [o EXCEPT !.q = Append(@, "complete")]
        fault == [o EXCEPT !.k.err = FALSE]
    IN  CASE k.state = "disconnected"      -> {o}
          [] k.state # "disconnected" /\ (IsWriting(k) \/ k.out) -> {buffered}
          [] OTHER -> {CASE r = "all"   -> written
                         [] r = "rest"  -> buffered
                         [] r = "fault" -> fault : r \in WriteResults(k)}

ShutdownInLoop(o) ==
    {IF IsWriting(o.k) THEN o ELSE [o EXCEPT !.k.wr = TRUE]}

\* send() and shutdown() called on the connection's own loop.
Call(op, o) ==
    CASE o.k.state # "connected" -> {o}
      [] o.k.state = "connected" /\ op = "send" -> SendInLoop(o)
      [] o.k.state = "connected" /\ op = "shutdown" ->
            ShutdownInLoop([o EXCEPT !.k.state = "disconnecting"])

\* User code called on the loop makes at most two of the calls ops allows.
UserCode(ops, o) ==
    LET Once(p) == {p} \cup UNION {Call(op, p) : op \in ops}
    IN  Then(Once(o), Once)

\* Faulty variant: the channel stays registered for reading.
BugHandleClose(o) ==
    {[o EXCEPT !.closes = @ + 1,
               !.bad = IF o.k.state \in {"connected", "disconnecting"}
                       THEN @ ELSE @ \cup {"handleClose"}]}

\* Faulty variant: the state is set here, before connectDestroyed() looks at it.
BugHandleCloseState(o) ==
    {[o EXCEPT !.k = [SetEvents(@, {}) EXCEPT !.state = "disconnected"],
               !.closes = @ + 1]}

\* state_ stays what it was: it is connectDestroyed() that changes it.
HandleClose(o) ==
    {[o EXCEPT !.k = SetEvents(@, {}),
               !.closes = @ + 1,
               !.bad = IF o.k.state \in {"connected", "disconnecting"}
                       THEN @ ELSE @ \cup {"handleClose"}]}

\* getsockopt(SO_ERROR) clears the error it reads.
HandleError(o) == {[o EXCEPT !.k.err = FALSE]}

\* read(2) returns data first, then a pending error, then end of file.
HandleRead(o) ==
    CASE o.k.data -> UserCode(MessageOps, [o EXCEPT !.k.data = FALSE])
      [] ~o.k.data /\ o.k.err -> HandleError(o)
      [] ~o.k.data /\ ~o.k.err -> HandleClose(o)

HandleWrite(o) ==
    LET k == o.k
        drained == [o EXCEPT
            !.k = [SetEvents(k, k.events \ {"out"}) EXCEPT !.out = FALSE],
            !.q = IF CompleteOps = {} THEN @ ELSE Append(@, "complete")]
        finished == IF k.state = "disconnecting" THEN ShutdownInLoop(drained)
                                                 ELSE {drained}
    IN  IF ~IsWriting(k) THEN {o}
        ELSE UNION {CASE r = "all"   -> finished
                      [] r = "rest"  -> {o}
                      [] r = "fault" -> {[o EXCEPT !.k.err = FALSE]}
                      : r \in WriteResults(k)}

\* Channel::handleEvent(): close, error, read, write, in this order.
HandleEvent(rev, o) ==
    LET Close(p) == IF "hup" \in rev /\ "in" \notin rev THEN HandleClose(p) ELSE {p}
        Error(p) == IF "err" \in rev THEN HandleError(p) ELSE {p}
        Read(p)  == IF "in" \in rev THEN HandleRead(p) ELSE {p}
        Write(p) == IF "out" \in rev THEN HandleWrite(p) ELSE {p}
    IN  Then(Then(Then(Close(o), Error), Read), Write)

ConnectEstablished(o) ==
    UserCode(UpOps,
        [o EXCEPT !.k = [SetEvents(o.k, o.k.events \cup {"in"})
                            EXCEPT !.state = "connected", !.ups = @ + 1],
                  !.bad = IF o.k.state = "connecting"
                          THEN @ ELSE @ \cup {"connectEstablished"}])

\* Faulty variant: the channel is not taken out of the poller.
BugConnectDestroyed(o) ==
    {IF o.k.state = "connected"
     THEN [o EXCEPT !.k = [SetEvents(o.k, {}) EXCEPT !.state = "disconnected",
                                                     !.downs = @ + 1]]
     ELSE o}

\* Of a connection that is not connected any more only the channel is removed.
ConnectDestroyed(o) ==
    LET down == IF o.k.state = "connected"
                THEN [o EXCEPT !.k = [SetEvents(o.k, {}) EXCEPT
                                         !.state = "disconnected",
                                         !.downs = @ + 1]]
                ELSE o
    IN  {[down EXCEPT !.k.status = "new"]}

-----------------------------------------------------------------------------
(* References. *)

Functors(l) == Range(pending[l]) \cup Range(batch[l])

\* A shared_ptr to c exists.  The batch keeps its functors until the round is
\* over, whether they were called or not.
Referenced(c) ==
    \/ c \in connections
    \/ c \in held
    \/ \E l \in Loops : \E f \in Functors(l) : f.conn = c

Destroyed(c) == conn[c].life = "accepted" /\ ~Referenced(c)

-----------------------------------------------------------------------------
(* How the outcome of a handler on loop l reaches the rest of the server.  *)

Queue(queues, l, op, c) ==
    [queues EXCEPT ![l] = Append(@, [op |-> op, conn |-> c])]

\* Faulty variant: the connection is torn down without leaving connections_.
BugRemoveConnectionInLoop(c, queues, bad) ==
    /\ connections' = connections
    /\ failed' = failed \cup bad
    /\ pending' = Queue(queues, loopOf[c], "destroyed", c)

\* removeConnectionInLoop(), on the base loop.
RemoveConnectionInLoop(c, queues, bad) ==
    /\ connections' = connections \ {c}
    /\ failed' = failed \cup bad \cup
                 (IF c \in connections THEN {} ELSE {"removeConnection"})
    /\ pending' = Queue(queues, loopOf[c], "destroyed", c)

\* The new state of c, the functors it queued to its loop, and
\* removeConnection() as its close_callback_: called directly on the base
\* loop, queued to it from any other.
Apply(l, c, o) ==
    LET own == [pending EXCEPT
                   ![l] = @ \o [i \in DOMAIN o.q |-> [op |-> o.q[i], conn |-> c]]]
    IN  /\ conn' = [conn EXCEPT ![c] = o.k]
        /\ \/ /\ o.closes = 0
              /\ pending' = own
              /\ failed' = failed \cup o.bad
              /\ UNCHANGED connections
           \/ /\ o.closes = 1
              /\ l = Base
              /\ RemoveConnectionInLoop(c, own, o.bad)
           \/ /\ o.closes = 1
              /\ l # Base
              /\ pending' = Queue(own, Base, "remove", c)
              /\ failed' = failed \cup o.bad
              /\ UNCHANGED connections

\* The application may keep the shared_ptr it is given when c comes up.
MayHold(c) ==
    \/ UNCHANGED held
    \/ ForeignOps # {} /\ held' = held \cup {c}

-----------------------------------------------------------------------------
(* The loops. *)

\* poll(): the snapshot of what is ready; which sockets can be written to is
\* up to their peers.
Poll(l) ==
    /\ l \in {Base} \cup Range(loops)
    /\ lpc[l] = "poll"
    /\ \E room \in SUBSET Conns :
          active' = [active EXCEPT ![l] =
              {a \in [conn : Conns, rev : SUBSET {"in", "out", "hup", "err"}] :
                  /\ conn[a.conn].life = "accepted" /\ ~Destroyed(a.conn)
                  /\ loopOf[a.conn] = l
                  /\ a.rev = Revents(conn[a.conn], a.conn \in room)
                  /\ a.rev # {}}]
    /\ accepting' = IF l = Base
                    THEN \E c \in Conns : conn[c].life = "backlog"
                    ELSE accepting
    /\ lpc' = [lpc EXCEPT ![l] = "events"]
    /\ UNCHANGED <<conn, serverVars, pending, batch, ran, foreignVars, failed>>

\* handleEvent() of one active channel.  That of a destroyed connection is
\* undefined behaviour; here it is left out.
HandleActive(l) ==
    /\ lpc[l] = "events"
    /\ \E a \in active[l] :
          /\ active' = [active EXCEPT ![l] = @ \ {a}]
          /\ \/ /\ ~Destroyed(a.conn)
                /\ \E o \in HandleEvent(a.rev, Outcome(conn[a.conn])) :
                       Apply(l, a.conn, o)
             \/ /\ Destroyed(a.conn)
                /\ UNCHANGED <<conn, connections, pending, failed>>
    /\ UNCHANGED <<loopOf, loops, next, lpc, accepting, batch, ran, foreignVars>>

\* getNextLoop(): the loops of the pool take turns.
GetNextLoop(n) ==
    IF loops = <<>> THEN [loop |-> Base, next |-> n]
    ELSE [loop |-> loops[n + 1],
          next |-> IF n + 1 >= Len(loops) THEN 0 ELSE n + 1]

\* Acceptor::handleRead() and TcpServer::newConnection().  connectEstablished()
\* is called directly when the connection stays on the base loop.
Accept ==
    /\ lpc[Base] = "events"
    /\ accepting
    /\ accepting' = FALSE
    /\ \E c \in Conns :
        /\ conn[c].life = "backlog"
        /\ LET turn == GetNextLoop(next)
               k == [conn[c] EXCEPT !.life = "accepted"]
           IN  /\ loopOf' = [loopOf EXCEPT ![c] = turn.loop]
               /\ next' = turn.next
               /\ connections' = connections \cup {c}
               /\ \/ /\ turn.loop # Base
                     /\ conn' = [conn EXCEPT ![c] = k]
                     /\ pending' = Queue(pending, turn.loop, "established", c)
                     /\ UNCHANGED <<failed, held>>
                  \/ /\ turn.loop = Base
                     /\ \E o \in ConnectEstablished(Outcome(k)) :
                          /\ conn' = [conn EXCEPT ![c] = o.k]
                          /\ pending' = [pending EXCEPT ![Base] = @ \o
                                 [i \in DOMAIN o.q |-> [op |-> o.q[i], conn |-> c]]]
                          /\ failed' = failed \cup o.bad
                     /\ MayHold(c)
    /\ UNCHANGED <<loops, lpc, active, batch, ran, fpc, budget>>

\* doPendingFunctors(): the swap; with nothing to call the loop polls again.
SwapFunctors(l) ==
    /\ lpc[l] = "events"
    /\ active[l] = {}
    /\ l = Base => ~accepting
    /\ batch' = [batch EXCEPT ![l] = pending[l]]
    /\ pending' = [pending EXCEPT ![l] = <<>>]
    /\ lpc' = [lpc EXCEPT ![l] = IF pending[l] = <<>> THEN "poll" ELSE "functors"]
    /\ UNCHANGED <<conn, serverVars, active, accepting, ran, foreignVars, failed>>

\* What a functor bound to a connection does to it.
Run(op, o) ==
    CASE op = "established" -> ConnectEstablished(o)
      [] op = "destroyed"   -> ConnectDestroyed(o)
      [] op = "send"        -> SendInLoop(o)
      [] op = "shutdown"    -> ShutdownInLoop(o)
      [] op = "complete"    -> UserCode(CompleteOps, o)

\* doPendingFunctors(): one functor of the batch is called.
RunFunctor(l) ==
    /\ lpc[l] = "functors"
    /\ ran[l] < Len(batch[l])
    /\ ran' = [ran EXCEPT ![l] = @ + 1]
    /\ LET f == batch[l][ran[l] + 1]
       IN  \/ /\ f.op = "remove"
              /\ RemoveConnectionInLoop(f.conn, pending, {})
              /\ UNCHANGED <<conn, held>>
           \/ /\ f.op # "remove"
              /\ \E o \in Run(f.op, Outcome(conn[f.conn])) : Apply(l, f.conn, o)
              /\ IF f.op = "established" THEN MayHold(f.conn) ELSE UNCHANGED held
    /\ UNCHANGED <<loopOf, loops, next, lpc, active, accepting, batch, fpc, budget>>

\* The end of doPendingFunctors(): its vector goes, and the shared_ptrs in it.
FinishFunctors(l) ==
    /\ lpc[l] = "functors"
    /\ ran[l] = Len(batch[l])
    /\ batch' = [batch EXCEPT ![l] = <<>>]
    /\ ran' = [ran EXCEPT ![l] = 0]
    /\ lpc' = [lpc EXCEPT ![l] = "poll"]
    /\ UNCHANGED <<conn, serverVars, active, accepting, pending, foreignVars,
                   failed>>

LoopThread(l) ==
    \/ Poll(l)
    \/ HandleActive(l)
    \/ l = Base /\ Accept
    \/ SwapFunctors(l)
    \/ RunFunctor(l)
    \/ FinishFunctors(l)

-----------------------------------------------------------------------------
(* A thread of the application that is no loop. *)

Idle == [op |-> "idle"]

\* send() or shutdown(): state_ is read, outside any lock.
ForeignCall(op, c) ==
    /\ fpc = Idle
    /\ budget > 0
    /\ op \in ForeignOps
    /\ c \in held
    /\ conn[c].state = "connected"
    /\ fpc' = [op |-> IF op = "shutdown" THEN "setState" ELSE "send", conn |-> c]
    /\ budget' = budget - 1
    /\ UNCHANGED <<conn, serverVars, loopVars, held, failed>>

\* shutdown(): setState(kDisconnecting), whatever state_ is by now.
ForeignSetState ==
    /\ fpc.op = "setState"
    /\ conn' = [conn EXCEPT ![fpc.conn].state = "disconnecting"]
    /\ fpc' = [fpc EXCEPT !.op = "shutdown"]
    /\ UNCHANGED <<serverVars, loopVars, held, budget, failed>>

\* send() and shutdown(): runInLoop() queues the functor.
ForeignQueue ==
    /\ fpc.op \in AppOps
    /\ pending' = Queue(pending, loopOf[fpc.conn], fpc.op, fpc.conn)
    /\ fpc' = Idle
    /\ UNCHANGED <<conn, serverVars, lpc, active, accepting, batch, ran, held,
                   budget, failed>>

\* The application lets go of its shared_ptr.
ForeignDrop(c) ==
    /\ fpc = Idle
    /\ c \in held
    /\ held' = held \ {c}
    /\ UNCHANGED <<conn, serverVars, loopVars, fpc, budget, failed>>

-----------------------------------------------------------------------------
(* External: the peers and the kernel. *)

Socket(c, k) ==
    /\ conn' = [conn EXCEPT ![c] = k]
    /\ UNCHANGED <<serverVars, loopVars, foreignVars, failed>>

PeerConnects(c) ==
    /\ conn[c].life = "none"
    /\ Socket(c, [conn[c] EXCEPT !.life = "backlog"])

PeerSends(c) ==
    /\ conn[c].life # "none" /\ ~Destroyed(c)
    /\ conn[c].peer = "open" /\ ~conn[c].data /\ conn[c].sent < MaxData
    /\ Socket(c, [conn[c] EXCEPT !.data = TRUE, !.sent = @ + 1])

PeerCloses(c) ==
    /\ conn[c].life # "none" /\ ~Destroyed(c)
    /\ conn[c].peer = "open"
    /\ Socket(c, [conn[c] EXCEPT !.peer = "fin"])

PeerResets(c) ==
    /\ conn[c].life # "none" /\ ~Destroyed(c)
    /\ conn[c].peer # "rst"
    /\ Socket(c, [conn[c] EXCEPT !.peer = "rst", !.err = TRUE])

-----------------------------------------------------------------------------
Init ==
    /\ conn = [c \in Conns |-> NewConn]
    /\ loopOf = [c \in Conns |-> Base]
    /\ connections = {}
    /\ loops \in Pools
    /\ next = 0
    /\ lpc = [l \in Loops |-> "poll"]
    /\ active = [l \in Loops |-> {}]
    /\ accepting = FALSE
    /\ pending = [l \in Loops |-> <<>>]
    /\ batch = [l \in Loops |-> <<>>]
    /\ ran = [l \in Loops |-> 0]
    /\ held = {}
    /\ fpc = Idle
    /\ budget = MaxForeign
    /\ failed = {}

Next ==
    \/ \E l \in Loops : LoopThread(l)
    \/ \E op \in AppOps, c \in Conns : ForeignCall(op, c)
    \/ ForeignSetState
    \/ ForeignQueue
    \/ \E c \in Conns : ForeignDrop(c)
    \/ \E c \in Conns : PeerConnects(c)
    \/ \E c \in Conns : PeerSends(c)
    \/ \E c \in Conns : PeerCloses(c)
    \/ \E c \in Conns : PeerResets(c)

Spec == Init /\ [][Next]_vars

\* Every loop thread is scheduled and a call of the other thread returns;
\* peers and the application do what they like.
FairSpec ==
    /\ Spec
    /\ \A l \in Loops : WF_vars(LoopThread(l))
    /\ WF_vars(ForeignSetState \/ ForeignQueue)

-----------------------------------------------------------------------------
(* Properties. *)

ConnType ==
    [state : {"connecting", "connected", "disconnecting", "disconnected"},
     events : SUBSET {"in", "out"}, status : {"new", "added", "deleted"},
     out : BOOLEAN, ups : 0 .. 1, downs : 0 .. 1,
     life : {"none", "backlog", "accepted"}, peer : {"open", "fin", "rst"},
     data : BOOLEAN, sent : 0 .. MaxData, err : BOOLEAN, wr : BOOLEAN]

FunctorType ==
    [op : {"established", "destroyed", "send", "shutdown", "complete", "remove"},
     conn : Conns]

TypeOK ==
    /\ conn \in [Conns -> ConnType]
    /\ loopOf \in [Conns -> Loops]
    /\ connections \in SUBSET Conns
    /\ loops \in Pools
    /\ next \in 0 .. (IF loops = <<>> THEN 0 ELSE Len(loops) - 1)
    /\ lpc \in [Loops -> {"poll", "events", "functors"}]
    /\ \A l \in Loops : \A a \in active[l] : a.conn \in Conns
    /\ accepting \in BOOLEAN
    /\ \A l \in Loops : Functors(l) \subseteq FunctorType
    /\ ran \in [Loops -> Nat]
    /\ held \in SUBSET Conns
    /\ budget \in 0 .. MaxForeign

\* Every assert of the connection and server code holds: connectEstablished()
\* finds kConnecting, handleClose() kConnected or kDisconnecting, and
\* removeConnectionInLoop() finds the connection in connections_.
AssertsHold == failed = {}

\* The asserts a connection's own loop can answer for hold even when user code
\* on the loop and other threads send and shut down as they like.
LoopAssertsHold == failed \subseteq {"removeConnection"}

\* ~TcpConnection() finds kDisconnected (tcp_connection.cpp:42).
DestructorAssertHolds ==
    \A c \in Conns : Destroyed(c) => conn[c].state = "disconnected"

\* A connection dies with its channel out of the poller and with no event of
\* it left to dispatch: what EPollPoller's Destroy takes for granted.
DiesUnregistered ==
    \A c \in Conns : Destroyed(c) =>
        /\ conn[c].status = "new"
        /\ \A l \in Loops : \A a \in active[l] : a.conn # c

\* The application hears of each connection once when it comes up and once
\* when it goes, before it is destroyed.
UpAndDownOnce ==
    \A c \in Conns : Destroyed(c) => conn[c].ups = 1 /\ conn[c].downs = 1

\* A connection that is read from is one the server still knows.
ReadOnlyWhileKnown ==
    \A c \in Conns : "in" \in conn[c].events => c \in connections

\* When its peer is gone, a connection is destroyed in the end, unless the
\* application keeps it: no functor goes round with it for ever.
PeerGoneIsDestroyed ==
    \A c \in Conns : (conn[c].life # "none" /\ conn[c].peer # "open")
                        ~> (Destroyed(c) \/ c \in held)

\* When its peer is gone, a connection leaves connections_ for good.
PeerGoneIsForgotten ==
    \A c \in Conns : (conn[c].life # "none" /\ conn[c].peer # "open")
                        ~> [](conn[c].life = "accepted" /\ c \notin connections)
=============================================================================
