-------------------------- MODULE ConnectionOutput --------------------------
(***************************************************************************)
(* What goes out on a core::TcpConnection: send() and shutdown() called on *)
(* the connection's loop and by another thread, sendInLoop() with its      *)
(* direct write, output_buffer_ drained by handleWrite(), the callbacks    *)
(* for the high water mark and for a completed write, and the end of the   *)
(* stream.  The loop's queue is the FIFO queue TaskQueue.tla promises; the *)
(* loop thread's handlers are single steps.  A byte is the number of the   *)
(* message it belongs to.  How the connection is closed and destroyed      *)
(* around this is in TcpServer.tla.                                        *)
(***************************************************************************)
EXTENDS Integers, Sequences

CONSTANTS Sizes,        \* lengths a message may have
          HighWater,    \* high_water_mark_
          MaxMessages   \* bound: calls of send()

ASSUME OutputAssumption ==
    /\ Sizes \subseteq Nat
    /\ HighWater \in Nat \ {0}
    /\ MaxMessages \in Nat

VARIABLES
    state,     \* state_
    writing,   \* channel_->isWriting()
    watched,   \* the channel is in the poller
    out,       \* output_buffer_
    queue,     \* functors of this connection in its loop's queue
    shut,      \* the socket is shut down for writing
    peer,      \* external: the peer is there, has closed, or was reset
    closed,    \* handleClose() was called
    closing,   \* calls of connectDestroyed() under way
    fpc,       \* the other thread: idle, or inside send() or shutdown()
    count,     \* calls of send() so far
    full,      \* history: the last of the two callbacks was the high water mark's
    written,   \* history: bytes sendInLoop() accepted
    sent,      \* history: bytes write(2) took
    lost,      \* history: messages send() let through and sendInLoop() dropped
    endBy      \* history: who found that the end of the stream could be sent

vars == <<state, writing, watched, out, queue, shut, peer, closed, closing, fpc,
          count, full, written, sent, lost, endBy>>
closeVars == <<peer, closed, closing>>
channelVars == <<writing, watched, out>>
streamVars == <<written, sent, lost>>

Functor(op, id, len) == [op |-> op, id |-> id, len |-> len]
Complete == Functor("complete", 0, 0)
High == Functor("high", 0, 0)

Bytes(id, len) == [i \in 1 .. len |-> id]

-----------------------------------------------------------------------------
(* On the loop. *)

\* External: write(2) takes some bytes, fails for now, or finds the
\* connection gone (EPIPE, ECONNRESET).
Fails == -1
Fault == -2
WriteResults(len) ==
    IF shut \/ peer = "reset" THEN {Fault} ELSE {Fails} \cup 0 .. len

GiveUpWriting(id) ==
    /\ lost' = lost \cup {id}
    /\ UNCHANGED <<channelVars, written, sent>>

\* The rest of sendInLoop(): n bytes of the message are written, the others
\* are buffered; the high water mark is noticed when it is reached.
Buffer(id, len, n, q) ==
    LET rest == Bytes(id, len - n)
        high == /\ rest # <<>>
                /\ Len(out) + Len(rest) >= HighWater
                /\ Len(out) < HighWater
    IN  /\ written' = written \o Bytes(id, len)
        /\ sent' = sent \o Bytes(id, n)
        /\ out' = out \o rest
        /\ writing' = (writing \/ rest # <<>>)
        /\ watched' = (watched \/ (rest # <<>> /\ ~writing))
        /\ queue' = IF high THEN Append(q, High) ELSE q
        /\ UNCHANGED lost

\* Nothing is in the way of the message: it is written at once, or in part.
WriteDirectly(id, len, q) ==
    \E r \in WriteResults(len) :
        \/ r = Fault /\ GiveUpWriting(id) /\ queue' = q
        \/ r = Fails /\ Buffer(id, len, 0, q)
        \/ r = len /\ Buffer(id, len, len, Append(q, Complete))
        \/ r \in 0 .. len - 1 /\ Buffer(id, len, r, q)

\* Faulty variant: buffered output is not looked for.
BugSendInLoop(id, len, q) ==
    \/ /\ state = "disconnected"
       /\ GiveUpWriting(id)
       /\ queue' = q
    \/ /\ state # "disconnected"
       /\ writing
       /\ Buffer(id, len, 0, q)
    \/ /\ state # "disconnected"
       /\ ~writing
       /\ WriteDirectly(id, len, q)

\* sendInLoop(); q is what it finds in the queue.
SendInLoop(id, len, q) ==
    \/ /\ state = "disconnected"
       /\ GiveUpWriting(id)
       /\ queue' = q
    \/ /\ state # "disconnected"
       /\ writing \/ out # <<>>
       /\ Buffer(id, len, 0, q)
    \/ /\ state # "disconnected"
       /\ ~writing /\ out = <<>>
       /\ WriteDirectly(id, len, q)

SendEnd(who) == shut' = TRUE /\ endBy' = IF shut THEN endBy ELSE who

\* Faulty variant: the end does not wait for the buffer.
BugShutdownInLoop(who) == SendEnd(who)

ShutdownInLoop(who) == IF writing THEN UNCHANGED <<shut, endBy>> ELSE SendEnd(who)

\* send() by a callback on the loop.
SendOnLoop(len) ==
    /\ state = "connected"
    /\ count < MaxMessages
    /\ count' = count + 1
    /\ SendInLoop(count', len, queue)
    /\ UNCHANGED <<state, shut, closeVars, fpc, full, endBy>>

\* shutdown() by a callback on the loop.
ShutdownOnLoop ==
    /\ state = "connected"
    /\ state' = "disconnecting"
    /\ ShutdownInLoop("loop")
    /\ UNCHANGED <<channelVars, queue, closeVars, fpc, count, full, streamVars>>

\* Faulty variant: the application hears of a completed write only while the
\* connection is not being shut down.
BugDrained ==
    /\ writing' = FALSE
    /\ \/ /\ state = "disconnecting"
          /\ SendEnd("drain")
          /\ UNCHANGED queue
       \/ /\ state # "disconnecting"
          /\ queue' = Append(queue, Complete)
          /\ UNCHANGED <<shut, endBy>>

\* Faulty variant: the end that was waiting for the buffer is forgotten.
BugDrainedShut ==
    /\ writing' = FALSE
    /\ queue' = Append(queue, Complete)
    /\ UNCHANGED <<shut, endBy>>

\* handleWrite() has emptied the buffer.
Drained ==
    /\ writing' = FALSE
    /\ queue' = Append(queue, Complete)
    /\ IF state = "disconnecting" THEN SendEnd("drain")
                                  ELSE UNCHANGED <<shut, endBy>>

\* handleWrite(): write(2) takes n bytes.
HandleWrite(n) ==
    /\ writing /\ watched
    /\ n \in WriteResults(Len(out)) \ {0, Fails, Fault}
    /\ sent' = sent \o SubSeq(out, 1, n)
    /\ out' = SubSeq(out, n + 1, Len(out))
    /\ IF n = Len(out) THEN Drained ELSE UNCHANGED <<writing, queue, shut, endBy>>
    /\ UNCHANGED <<state, watched, closeVars, fpc, count, full, written, lost>>

\* The loop calls the next functor.
RunFunctor ==
    /\ queue # <<>>
    /\ LET f == Head(queue)
       IN  \/ /\ f.op = "send"
              /\ SendInLoop(f.id, f.len, Tail(queue))
              /\ UNCHANGED <<shut, endBy, full>>
           \/ /\ f.op = "shutdown"
              /\ ShutdownInLoop("functor")
              /\ queue' = Tail(queue)
              /\ UNCHANGED <<channelVars, streamVars, full>>
           \/ /\ f.op \in {"complete", "high"}
              /\ full' = (f.op = "high")
              /\ queue' = Tail(queue)
              /\ UNCHANGED <<channelVars, streamVars, shut, endBy>>
    /\ UNCHANGED <<state, closeVars, fpc, count>>

\* The peer has closed or is gone: disableAll(), and buffered output stays.
\* removeConnection() is on its way to connectDestroyed().  A second time comes
\* when sendInLoop() has registered the channel again and the kernel hangs up.
HandleClose ==
    /\ watched
    /\ peer = "reset" \/ (peer = "closed" /\ (closed => shut))
    /\ closed' = TRUE
    /\ closing' = closing + 1
    /\ writing' = FALSE
    /\ watched' = FALSE
    /\ UNCHANGED <<state, out, queue, shut, peer, fpc, count, full, streamVars,
                   endBy>>

\* The channel leaves the poller; only a connected one is disabled first.
ConnectDestroyed ==
    /\ closing > 0
    /\ closing' = closing - 1
    /\ state' = IF state = "connected" THEN "disconnected" ELSE state
    /\ writing' = (writing /\ state # "connected")
    /\ watched' = FALSE
    /\ UNCHANGED <<out, queue, shut, peer, closed, fpc, count, full, streamVars,
                   endBy>>

-----------------------------------------------------------------------------
(* Another thread.  state_ is read, and acted upon later. *)

Idle == Functor("idle", 0, 0)

ForeignSend(len) ==
    /\ fpc = Idle
    /\ state = "connected"
    /\ count < MaxMessages
    /\ count' = count + 1
    /\ fpc' = Functor("send", count', len)
    /\ UNCHANGED <<state, channelVars, queue, shut, closeVars, full, streamVars,
                   endBy>>

ForeignShutdown ==
    /\ fpc = Idle
    /\ state = "connected"
    /\ fpc' = Functor("setState", 0, 0)
    /\ UNCHANGED <<state, channelVars, queue, shut, closeVars, count, full,
                   streamVars, endBy>>

\* Faulty variant: shutdown() does not go through the loop's queue.
BugForeignSetState ==
    /\ fpc.op = "setState"
    /\ state' = "disconnecting"
    /\ fpc' = Idle
    /\ ShutdownInLoop("functor")
    /\ UNCHANGED <<channelVars, queue, closeVars, count, full, streamVars>>

\* setState(kDisconnecting), whatever state_ is by now.
ForeignSetState ==
    /\ fpc.op = "setState"
    /\ state' = "disconnecting"
    /\ fpc' = Functor("shutdown", 0, 0)
    /\ UNCHANGED <<channelVars, queue, shut, closeVars, count, full, streamVars,
                   endBy>>

\* runInLoop() queues the functor, with a copy of the message.
ForeignQueue ==
    /\ fpc.op \in {"send", "shutdown"}
    /\ queue' = Append(queue, fpc)
    /\ fpc' = Idle
    /\ UNCHANGED <<state, channelVars, shut, closeVars, count, full, streamVars,
                   endBy>>

-----------------------------------------------------------------------------
PeerLeaves ==
    /\ \/ peer = "open" /\ peer' \in {"closed", "reset"}
       \/ peer = "closed" /\ peer' = "reset"
    /\ UNCHANGED <<state, channelVars, queue, shut, closed, closing, fpc, count, full,
                   streamVars, endBy>>

\* A connection that has just been established.
Init ==
    /\ state = "connected"
    /\ writing = FALSE
    /\ watched = TRUE
    /\ out = <<>>
    /\ queue = <<>>
    /\ shut = FALSE
    /\ peer = "open"
    /\ closed = FALSE
    /\ closing = 0
    /\ fpc = Idle
    /\ count = 0
    /\ full = FALSE
    /\ written = <<>>
    /\ sent = <<>>
    /\ lost = {}
    /\ endBy = "nobody"

SomeWrite == \E n \in 1 .. Len(out) : HandleWrite(n)

Next ==
    \/ \E len \in Sizes : SendOnLoop(len) \/ ForeignSend(len)
    \/ ShutdownOnLoop \/ ForeignShutdown
    \/ SomeWrite
    \/ RunFunctor
    \/ ForeignSetState \/ ForeignQueue
    \/ HandleClose \/ ConnectDestroyed
    \/ PeerLeaves

Spec == Init /\ [][Next]_vars

\* The loop runs what is queued, a peer that is there goes on reading, and a
\* call of the other thread returns.
FairSpec ==
    /\ Spec
    /\ WF_vars(SomeWrite)
    /\ WF_vars(RunFunctor)
    /\ WF_vars(ForeignSetState \/ ForeignQueue)

-----------------------------------------------------------------------------
(* Properties. *)

FunctorType ==
    [op : {"send"}, id : 1 .. MaxMessages, len : Sizes]
        \cup [op : {"idle", "setState", "shutdown", "complete", "high"},
              id : {0}, len : {0}]

TypeOK ==
    /\ state \in {"connected", "disconnecting", "disconnected"}
    /\ writing \in BOOLEAN /\ watched \in BOOLEAN
    /\ out \in Seq(1 .. MaxMessages)
    /\ queue \in Seq(FunctorType)
    /\ shut \in BOOLEAN
    /\ peer \in {"open", "closed", "reset"}
    /\ closed \in BOOLEAN /\ closing \in Nat
    /\ fpc \in FunctorType
    /\ count \in 0 .. MaxMessages
    /\ full \in BOOLEAN
    /\ written \in Seq(1 .. MaxMessages) /\ sent \in Seq(1 .. MaxMessages)
    /\ lost \in SUBSET (1 .. MaxMessages)
    /\ endBy \in {"nobody", "loop", "functor", "drain"}

Broken == peer = "reset" \/ closed

\* Every accepted byte is either written to the socket or buffered, in the
\* order of sendInLoop(): the direct write never overtakes the buffer, also
\* not when handleClose() has stopped its draining.
NothingOvertakes == written = sent \o out

\* Output waits only where handleWrite() will be called for it: a buffer that
\* is not empty has its channel enabled for writing in the poller, and the
\* end of the stream has not been sent.
BufferIsDrained == out # <<>> /\ ~Broken => writing /\ watched /\ ~shut

\* A thread that sends and then shuts down loses nothing when it is its own
\* shutdownInLoop() that ends the stream: its functors keep their order, and
\* kDisconnecting does not stop them.  (handleWrite() may end the stream
\* before they have run, and so may shutdown() on the loop.)
NothingDropped == endBy = "functor" /\ ~Broken => lost = {}

\* An application that stops producing at the high water mark and goes on at
\* write complete is not left stopped: a full buffer, or the callback, remains.
FullIsReleased ==
    full /\ ~Broken => out # <<>> \/ \E i \in DOMAIN queue : queue[i] = Complete

\* shutdown() ends the stream once everything is out, however it interleaves
\* with sends and the draining of the buffer.
EndFollowsShutdown == (state = "disconnecting") ~> (shut \/ Broken)

Stream == INSTANCE ByteStream
              WITH received <- sent, ended <- shut, broken <- Broken

\* The connection is a byte stream whose end comes last.
ImplementsByteStream == Stream!FairSpec
=============================================================================
