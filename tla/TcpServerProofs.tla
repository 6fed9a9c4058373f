--------------------------- MODULE TcpServerProofs ---------------------------
(***************************************************************************)
(* Proofs about TcpServer for every pool, any number of connections and    *)
(* everything the application may do.                                      *)
(*                                                                         *)
(* Whether an assert holds depends on the functors that are on their way,  *)
(* so the invariant SInv speaks of each loop's work: the rest of its batch *)
(* followed by pending_functors_.  It says of every functor in it what it  *)
(* will find when it is called (Due), which ones wait at most once (Sole), *)
(* and that a connection out of connections_ is torn down or has the       *)
(* functor that does it (TornOK).  A step moves the work of a loop by at   *)
(* most a functor taken off and some put behind, and changes one           *)
(* connection; the lemmas about queues, connections and handlers are       *)
(* stated for such a change, and there is one lemma per action.            *)
(***************************************************************************)
EXTENDS TcpServer, SequenceTheorems, TLAPS

Asserts == {"connectEstablished", "handleClose", "removeConnection"}

Outcomes == [k : ConnType, q : Seq({"complete"}), closes : {0, 1}, bad : SUBSET Asserts]

\* What the handlers do to a connection k that stays open or is closed already:
\* they do not register it for reading, nor take it out of the poller while it
\* is read from, and they leave one that is down alone.
Keeps(k, j) ==
    /\ j.life = k.life /\ j.ups = k.ups /\ j.downs = k.downs
    /\ j.state = k.state \/ (k.state = "connected" /\ j.state = "disconnecting")
    /\ "in" \in j.events <=> "in" \in k.events
    /\ k.status = "added" /\ "in" \in k.events => j.status = "added"
    /\ k.state = "disconnected" => j.events = k.events /\ j.status = k.status

Follows(o, p) ==
    /\ p \in Outcomes
    /\ Keeps(o.k, p.k)
    /\ p.closes = o.closes
    /\ p.bad = o.bad

-----------------------------------------------------------------------------
(* The inductive invariant.  Its parts that start with Calm or NoShutdown  *)
(* hold for the servers that AssertsHold and UpAndDownOnce are about.      *)

\* Nothing sends on a connection after its close: other threads do not call, and
\* write_complete_callback_, which is called late, does not send.
Calm == ForeignOps = {} /\ "send" \notin CompleteOps

NoShutdown == Calm /\ "shutdown" \notin UpOps \cup MessageOps \cup CompleteOps

\* What can be said of a connection k by itself; known: it is in connections_.
ConnOK(k, known) ==
    /\ k.state = "connecting" =>
          /\ k.events = {} /\ k.status = "new" /\ k.ups = 0 /\ k.downs = 0
          /\ known <=> k.life = "accepted"
    /\ k.state # "connecting" => k.life = "accepted" /\ k.ups = 1
    /\ k.state = "disconnected" => k.events = {} /\ k.status = "new"
    /\ k.downs = 1 => k.state \in {"disconnecting", "disconnected"}
    /\ "in" \in k.events => known
    /\ Calm => /\ k.status = "added" <=> "in" \in k.events
               /\ "in" \notin k.events => k.events = {}
    /\ NoShutdown => /\ k.state # "disconnecting"
                     /\ known => k.state # "disconnected"

\* What a functor f that waits finds when it is called.
Due(f, k, known) ==
    /\ f.op = "established" <=> k.state = "connecting"
    /\ f.op = "established" => k.life = "accepted"
    /\ f.op = "remove" => "in" \notin k.events
    /\ Calm => /\ f.op \notin AppOps
               /\ f.op = "remove" => known
               /\ f.op = "destroyed" => ~known /\ k.events = {}
    /\ NoShutdown /\ f.op = "destroyed" => k.state = "connected"

\* A functor is on its connection's loop, the one for connections_ on the base.
RightLoop(f, l, home) == l = IF f.op = "remove" THEN Base ELSE home

\* The functors that wait at most once.
SoleOps == IF Calm THEN {"established", "remove", "destroyed"} ELSE {"established"}

Sole(s) == \A i, j \in DOMAIN s : s[i] = s[j] /\ s[i].op \in SoleOps => i = j

\* What a loop has yet to call: the rest of its batch, and pending_functors_.
Left(b, r) == SubSeq(b, r + 1, Len(b))

Rest(p, b, r) == Left(b, r) \o p

Waiting(p, b, r) == [l \in Loops |-> Rest(p[l], b[l], r[l])]

Work == Waiting(pending, batch, ran)

Queues == [Loops -> Seq(FunctorType)]

Counts == [Loops -> Nat]

\* The functors that wait in W are as they should be.
WorkOK(W, cn, home, cs) ==
    \A l \in Loops :
        /\ Sole(W[l])
        /\ \A f \in Range(W[l]) : /\ RightLoop(f, l, home[f.conn])
                                  /\ Due(f, cn[f.conn], f.conn \in cs)

\* A connection that has left connections_ is torn down or will be.
TornOK(W, cn, home, cs) ==
    Calm => \A c \in Conns :
        \/ cn[c].state = "connecting" \/ c \in cs
        \/ cn[c].status = "new" /\ (NoShutdown => cn[c].downs = 1)
        \/ [op |-> "destroyed", conn |-> c] \in Range(W[home[c]])

ActiveType == [conn : Conns, rev : SUBSET {"in", "out", "hup", "err"}]

ServerType ==
    /\ conn \in [Conns -> ConnType]
    /\ loopOf \in [Conns -> Loops]
    /\ connections \in SUBSET Conns
    /\ loops \in Pools
    /\ next \in 0 .. (IF loops = <<>> THEN 0 ELSE Len(loops) - 1)
    /\ lpc \in [Loops -> {"poll", "events", "functors"}]
    /\ active \in [Loops -> SUBSET ActiveType]
    /\ accepting \in BOOLEAN
    /\ pending \in Queues
    /\ batch \in Queues
    /\ ran \in Counts
    /\ held \in SUBSET Conns
    /\ budget \in 0 .. MaxForeign

\* The phases of a round.
RoundInv ==
    \A l \in Loops :
        /\ lpc[l] # "functors" => batch[l] = <<>> /\ ran[l] = 0
        /\ ran[l] <= Len(batch[l])
        /\ lpc[l] # "events" => active[l] = {}

\* An active channel belongs to a connection that is up.
ActiveInv ==
    \A l \in Loops : \A a \in active[l] :
        /\ loopOf[a.conn] = l
        /\ conn[a.conn].state \in {"connected", "disconnecting"}
        /\ Calm => /\ "in" \in conn[a.conn].events
                   /\ \A b \in active[l] : b.conn = a.conn => b = a

ConnInv == \A c \in Conns : ConnOK(conn[c], c \in connections)

\* The other thread only has connections that came up.
ForeignInv ==
    /\ \A c \in held : conn[c].state # "connecting"
    /\ fpc = Idle \/ /\ fpc \in [op : {"setState", "send", "shutdown"}, conn : Conns]
                     /\ conn[fpc.conn].state # "connecting"
    /\ Calm => fpc = Idle /\ held = {}

FailedInv == failed \subseteq {"removeConnection"} /\ (Calm => failed = {})

SInv ==
    /\ ServerType
    /\ RoundInv
    /\ ActiveInv
    /\ ConnInv
    /\ WorkOK(Work, conn, loopOf, connections)
    /\ TornOK(Work, conn, loopOf, connections)
    /\ ForeignInv
    /\ FailedInv

-----------------------------------------------------------------------------
(* The handlers. *)

LEMMA SetEventsFacts ==
    ASSUME NEW k \in ConnType, NEW ev \in SUBSET {"in", "out"}
    PROVE  /\ SetEvents(k, ev) \in ConnType
           /\ SetEvents(k, ev).events = ev
           /\ SetEvents(k, ev).status =
                 IF k.status = "added" /\ ev = {} THEN "deleted" ELSE "added"
           /\ SetEvents(k, ev).life = k.life
           /\ SetEvents(k, ev).state = k.state
           /\ SetEvents(k, ev).ups = k.ups
           /\ SetEvents(k, ev).downs = k.downs
           /\ SetEvents(k, ev).out = k.out
           /\ SetEvents(k, ev).data = k.data
           /\ SetEvents(k, ev).err = k.err
  BY DEF SetEvents, ConnType

LEMMA FollowsSelf == ASSUME NEW o \in Outcomes PROVE Follows(o, o)
  BY DEF Follows, Keeps

LEMMA FollowsOn ==
    ASSUME NEW o \in Outcomes, NEW p, NEW r, Follows(o, p), Follows(p, r)
    PROVE  Follows(o, r)
  BY DEF Follows, Keeps

\* An outcome in which only these parts of the connection have changed.
LEMMA ErrFollows ==
    ASSUME NEW o \in Outcomes, NEW p, p = [o EXCEPT !.k.err = FALSE]
    PROVE  /\ Follows(o, p) /\ p \in Outcomes
           /\ p.k.state = o.k.state /\ p.k.events = o.k.events
           /\ p.k.status = o.k.status /\ p.q = o.q
  BY DEF Follows, Keeps, Outcomes, ConnType

LEMMA DataFollows ==
    ASSUME NEW o \in Outcomes, NEW p, p = [o EXCEPT !.k.data = FALSE]
    PROVE  Follows(o, p) /\ p \in Outcomes /\ p.k.state = o.k.state
  BY DEF Follows, Keeps, Outcomes, ConnType

LEMMA ShutFollows ==
    ASSUME NEW o \in Outcomes
    PROVE  Follows(o, [o EXCEPT !.k.wr = TRUE])
  BY DEF Follows, Keeps, Outcomes, ConnType

LEMMA QueueFollows ==
    ASSUME NEW o \in Outcomes
    PROVE  Follows(o, [o EXCEPT !.q = Append(@, "complete")])
  <1>1. Append(o.q, "complete") \in Seq({"complete"})
    BY DEF Outcomes
  <1> QED BY <1>1 DEF Follows, Keeps, Outcomes

\* The output is buffered and, unless it is already, the channel enabled.
LEMMA BufferedFollows ==
    ASSUME NEW o \in Outcomes, o.k.state # "disconnected", NEW j,
           j = IF IsWriting(o.k) THEN o.k ELSE SetEvents(o.k, o.k.events \cup {"out"})
    PROVE  Follows(o, [o EXCEPT !.k = [j EXCEPT !.out = TRUE]])
  <1>1. o.k \in ConnType /\ o.k.events \cup {"out"} \in SUBSET {"in", "out"}
    BY DEF Outcomes, ConnType
  <1>2. j \in ConnType /\ Keeps(o.k, j)
    <2>1. CASE IsWriting(o.k)
      BY <1>1, <2>1 DEF Keeps
    <2>2. CASE ~IsWriting(o.k)
      <3>1. o.k.events \cup {"out"} # {}
        OBVIOUS
      <3> QED BY <1>1, <2>2, <3>1, SetEventsFacts DEF Keeps
    <2> QED BY <2>1, <2>2
  <1>3. [j EXCEPT !.out = TRUE] \in ConnType /\ Keeps(o.k, [j EXCEPT !.out = TRUE])
    BY <1>2 DEF ConnType, Keeps
  <1> DEFINE m == [j EXCEPT !.out = TRUE]
  <1> HIDE DEF m
  <1>4. Follows(o, [o EXCEPT !.k = m])
    BY <1>3 DEF Outcomes, Follows, m
  <1> QED BY <1>4 DEF m

LEMMA SendFollows ==
    ASSUME NEW o \in Outcomes, NEW p \in SendInLoop(o)
    PROVE  Follows(o, p) /\ p.k.state = o.k.state
  <1> DEFINE j == IF IsWriting(o.k) THEN o.k ELSE SetEvents(o.k, o.k.events \cup {"out"})
             buffered == [o EXCEPT !.k = [j EXCEPT !.out = TRUE]]
  <1>1. \/ p = o
        \/ o.k.state # "disconnected" /\ p = buffered
        \/ p = [o EXCEPT !.q = Append(@, "complete")]
        \/ p = [o EXCEPT !.k.err = FALSE]
    BY DEF SendInLoop, WriteResults
  <1>2. CASE p = o
    BY <1>2, FollowsSelf
  <1>3. CASE o.k.state # "disconnected" /\ p = buffered
    <2>1. Follows(o, buffered)
      BY <1>3, BufferedFollows
    <2>2. j \in ConnType /\ j.state = o.k.state
      BY SetEventsFacts DEF Outcomes, ConnType
    <2>3. buffered.k.state = o.k.state
      <3> HIDE DEF j
      <3> QED BY <2>2 DEF Outcomes, ConnType
    <2> QED BY <1>3, <2>1, <2>3
  <1>4. CASE p = [o EXCEPT !.q = Append(@, "complete")]
    BY <1>4, QueueFollows DEF Outcomes
  <1>5. CASE p = [o EXCEPT !.k.err = FALSE]
    BY <1>5, ErrFollows
  <1> QED BY <1>1, <1>2, <1>3, <1>4, <1>5

LEMMA ShutdownFollows ==
    ASSUME NEW o \in Outcomes, NEW p \in ShutdownInLoop(o)
    PROVE  /\ Follows(o, p)
           /\ p.k.events = o.k.events /\ p.k.status = o.k.status /\ p.k.state = o.k.state
           /\ p.q = o.q
  <1>1. p = o \/ p = [o EXCEPT !.k.wr = TRUE]
    BY DEF ShutdownInLoop
  <1> QED BY <1>1, FollowsSelf, ShutFollows DEF Outcomes, ConnType

\* send() leaves state_ alone, shutdown() the channel.
CallKeeps(ops, o, p) ==
    /\ Follows(o, p)
    /\ "shutdown" \notin ops => p.k.state = o.k.state
    /\ "send" \notin ops => /\ p.k.events = o.k.events /\ p.k.status = o.k.status
                            /\ p.q = o.q

LEMMA CallFollows ==
    ASSUME NEW o \in Outcomes, NEW ops \in SUBSET AppOps, NEW op \in ops,
           NEW p \in Call(op, o)
    PROVE  CallKeeps(ops, o, p)
  <1>1. CASE o.k.state # "connected"
    <2>1. p = o
      BY <1>1 DEF Call
    <2> QED BY <2>1, FollowsSelf DEF CallKeeps
  <1>2. CASE o.k.state = "connected" /\ op = "send"
    <2>1. p \in SendInLoop(o)
      BY <1>2 DEF Call
    <2> QED BY <1>2, <2>1, SendFollows DEF CallKeeps
  <1>3. CASE o.k.state = "connected" /\ op = "shutdown"
    <2> DEFINE m == [o EXCEPT !.k.state = "disconnecting"]
    <2>1. p \in ShutdownInLoop(m)
      BY <1>3 DEF Call
    <2>2. /\ m \in Outcomes /\ Follows(o, m)
          /\ m.k.events = o.k.events /\ m.k.status = o.k.status /\ m.q = o.q
      BY <1>3 DEF Outcomes, ConnType, Follows, Keeps
    <2> HIDE DEF m
    <2>3. /\ Follows(m, p) /\ p.q = m.q
          /\ p.k.events = m.k.events /\ p.k.status = m.k.status
      BY <2>1, <2>2, ShutdownFollows
    <2> QED BY <1>3, <2>2, <2>3, FollowsOn DEF CallKeeps
  <1> QED BY <1>1, <1>2, <1>3 DEF AppOps

LEMMA UserCodeFollows ==
    ASSUME NEW o \in Outcomes, NEW ops \in SUBSET AppOps, NEW p \in UserCode(ops, o)
    PROVE  CallKeeps(ops, o, p)
  <1> DEFINE Once(r) == {r} \cup UNION {Call(op, r) : op \in ops}
  <1>1. PICK r \in Once(o) : p \in Once(r)
    BY DEF UserCode, Then
  <1>2. ASSUME NEW a \in Outcomes, NEW b \in Once(a) PROVE CallKeeps(ops, a, b)
    <2>1. CASE b = a
      BY <2>1, FollowsSelf DEF CallKeeps
    <2>2. CASE \E op \in ops : b \in Call(op, a)
      BY <2>2, CallFollows
    <2> QED BY <1>2, <2>1, <2>2
  <1>3. CallKeeps(ops, o, r) /\ r \in Outcomes
    BY <1>1, <1>2 DEF CallKeeps, Follows
  <1>4. CallKeeps(ops, r, p)
    BY <1>1, <1>2, <1>3
  <1> QED BY <1>3, <1>4, FollowsOn DEF CallKeeps

LEMMA WriteFollows ==
    ASSUME NEW o \in Outcomes, o.k.state # "disconnected", NEW p \in HandleWrite(o)
    PROVE  Follows(o, p) /\ p.k.state = o.k.state
  <1> DEFINE j == SetEvents(o.k, o.k.events \ {"out"})
             m == [j EXCEPT !.out = FALSE]
             s == IF CompleteOps = {} THEN o.q ELSE Append(o.q, "complete")
             drained == [o EXCEPT !.k = m, !.q = s]
  <1>1. \/ p = o
        \/ p = drained
        \/ p \in ShutdownInLoop(drained)
        \/ p = [o EXCEPT !.k.err = FALSE]
    BY DEF HandleWrite, WriteResults
  <1>2. o.k \in ConnType /\ o.k.events \ {"out"} \in SUBSET {"in", "out"}
    BY DEF Outcomes, ConnType
  <1>3. j \in ConnType /\ Keeps(o.k, j) /\ j.state = o.k.state
    BY <1>2, SetEventsFacts DEF Keeps
  <1> HIDE DEF j
  <1>4. m \in ConnType /\ Keeps(o.k, m) /\ m.state = o.k.state
    BY <1>3 DEF ConnType, Keeps
  <1>5. s \in Seq({"complete"})
    BY DEF Outcomes
  <1> HIDE DEF m, s
  <1>6. drained \in Outcomes /\ Follows(o, drained) /\ drained.k.state = o.k.state
    BY <1>4, <1>5 DEF Outcomes, Follows
  <1> HIDE DEF drained
  <1>7. CASE p \in ShutdownInLoop(drained)
    <2>1. Follows(drained, p) /\ p.k.state = drained.k.state
      BY <1>6, <1>7, ShutdownFollows
    <2> QED BY <1>6, <2>1, FollowsOn
  <1>8. CASE p = [o EXCEPT !.k.err = FALSE]
    BY <1>8, ErrFollows
  <1> QED BY <1>1, <1>6, <1>7, <1>8, FollowsSelf

\* A handler has closed the connection: its channel is out of the poller, and
\* close_callback_ was called.
Closes(o, p) ==
    /\ p \in Outcomes
    /\ p.closes = 1 /\ p.bad = o.bad /\ p.q = o.q
    /\ p.k.events = {}
    /\ o.k.status = "added" => p.k.status = "deleted"
    /\ p.k.life = o.k.life /\ p.k.ups = o.k.ups /\ p.k.downs = o.k.downs
    /\ p.k.state = o.k.state

LEMMA CloseCloses ==
    ASSUME NEW o \in Outcomes, o.k.state \in {"connected", "disconnecting"},
           o.closes = 0, NEW p \in HandleClose(o)
    PROVE  Closes(o, p)
  <1> DEFINE j == SetEvents(o.k, {})
  <1>1. /\ j \in ConnType /\ j.events = {} /\ j.life = o.k.life /\ j.ups = o.k.ups
        /\ j.downs = o.k.downs /\ j.state = o.k.state
        /\ o.k.status = "added" => j.status = "deleted"
    BY SetEventsFacts DEF Outcomes
  <1>2. p = [o EXCEPT !.k = j, !.closes = 1, !.bad = o.bad]
    BY DEF HandleClose, Outcomes
  <1> HIDE DEF j
  <1> QED BY <1>1, <1>2 DEF Closes, Outcomes

\* What handleEvent() has done to an open connection: it is open still, or
\* has been closed, once.
EventKeeps(o, p) ==
    /\ Follows(o, p) \/ Closes(o, p)
    /\ "shutdown" \notin MessageOps => p.k.state = o.k.state

LEMMA ReadKeeps ==
    ASSUME NEW o \in Outcomes, o.k.state \in {"connected", "disconnecting"},
           o.closes = 0, NEW p \in HandleRead(o)
    PROVE  EventKeeps(o, p)
  <1>1. CASE o.k.data
    <2> DEFINE m == [o EXCEPT !.k.data = FALSE]
    <2>1. p \in UserCode(MessageOps, m)
      BY <1>1 DEF HandleRead
    <2>2. m \in Outcomes /\ Follows(o, m) /\ m.k.state = o.k.state
      BY DataFollows
    <2> HIDE DEF m
    <2>3. CallKeeps(MessageOps, m, p)
      BY <2>1, <2>2, UserCodeFollows, ServerAssumption
    <2> QED BY <2>2, <2>3, FollowsOn DEF CallKeeps, EventKeeps
  <1>2. CASE ~o.k.data /\ o.k.err
    <2>1. p = [o EXCEPT !.k.err = FALSE]
      BY <1>2 DEF HandleRead, HandleError
    <2> QED BY <2>1, ErrFollows DEF EventKeeps
  <1>3. CASE ~o.k.data /\ ~o.k.err
    <2>1. p \in HandleClose(o)
      BY <1>3 DEF HandleRead
    <2>2. Closes(o, p)
      BY <2>1, CloseCloses
    <2> QED BY <2>2 DEF EventKeeps, Closes
  <1> QED BY <1>1, <1>2, <1>3

LEMMA EventFollows ==
    ASSUME NEW o \in Outcomes, o.k.state \in {"connected", "disconnecting"},
           o.closes = 0, NEW rev, NEW p \in HandleEvent(rev, o)
    PROVE  EventKeeps(o, p)
  <1> DEFINE Close(r) == IF "hup" \in rev /\ "in" \notin rev THEN HandleClose(r) ELSE {r}
             Error(r) == IF "err" \in rev THEN HandleError(r) ELSE {r}
             Read(r)  == IF "in" \in rev THEN HandleRead(r) ELSE {r}
             Write(r) == IF "out" \in rev THEN HandleWrite(r) ELSE {r}
  <1>1. PICK a, b, c : a \in Close(o) /\ b \in Error(a) /\ c \in Read(b) /\ p \in Write(c)
    BY DEF HandleEvent, Then
  <1>2. CASE "hup" \in rev /\ "in" \notin rev
    <2>1. Closes(o, a)
      BY <1>1, <1>2, CloseCloses
    <2>2. b = a \/ b = [a EXCEPT !.k.err = FALSE]
      BY <1>1 DEF HandleError
    <2>3. Closes(o, b) /\ c = b
      <3>1. c = b
        BY <1>1, <1>2
      <3>2. a \in Outcomes
        BY <2>1 DEF Closes
      <3>3. CASE b = [a EXCEPT !.k.err = FALSE]
        <4>1. /\ Follows(a, b) /\ b.k.state = a.k.state /\ b.k.events = a.k.events
              /\ b.k.status = a.k.status /\ b.q = a.q
          BY <3>2, <3>3, ErrFollows
        <4>2. Closes(o, b)
          BY ONLY <2>1, <4>1 DEF Closes, Follows, Keeps
        <4> QED BY <3>1, <4>2
      <3> QED BY <2>1, <2>2, <3>1, <3>3
    <2>4. p = c
      BY <1>1, <2>3 DEF HandleWrite, IsWriting, Closes
    <2> QED BY <2>3, <2>4 DEF EventKeeps, Closes
  <1>3. CASE ~("hup" \in rev /\ "in" \notin rev)
    <2>1. a = o
      BY <1>1, <1>3
    <2>2. b \in Outcomes /\ Follows(o, b) /\ b.k.state = o.k.state /\ b.closes = 0
          /\ b.k.status = o.k.status /\ b.q = o.q
      <3>1. b = o \/ b = [o EXCEPT !.k.err = FALSE]
        BY <1>1, <2>1 DEF HandleError
      <3> QED BY <3>1, FollowsSelf, ErrFollows DEF Follows
    <2>3. EventKeeps(o, c)
      <3>1. CASE "in" \in rev
        <4>1. EventKeeps(b, c)
          BY <1>1, <2>2, <3>1, ReadKeeps
        <4>2. CASE Follows(b, c)
          BY <2>2, <4>1, <4>2, FollowsOn DEF EventKeeps
        <4>3. CASE Closes(b, c)
          BY <2>2, <4>1, <4>3 DEF EventKeeps, Closes, Follows, Keeps
        <4> QED BY <4>1, <4>2, <4>3 DEF EventKeeps
      <3>2. CASE "in" \notin rev
        BY <1>1, <2>2, <3>2 DEF EventKeeps
      <3> QED BY <3>1, <3>2
    <2>4. CASE Closes(o, c)
      <3>1. p = c
        BY <1>1, <2>4 DEF HandleWrite, IsWriting, Closes
      <3> QED BY <2>3, <3>1
    <2>5. CASE Follows(o, c)
      <3>1. c \in Outcomes /\ c.k.state # "disconnected"
        BY <2>5 DEF Follows, Keeps
      <3>2. Follows(c, p) /\ p.k.state = c.k.state
        BY <1>1, <3>1, WriteFollows, FollowsSelf
      <3> QED BY <2>3, <2>5, <3>2, FollowsOn DEF EventKeeps
    <2> QED BY <2>3, <2>4, <2>5 DEF EventKeeps
  <1> QED BY <1>2, <1>3

LEMMA OutcomeFacts ==
    ASSUME NEW k \in ConnType
    PROVE  /\ Outcome(k) \in Outcomes /\ Outcome(k).k = k
           /\ Outcome(k).q = <<>> /\ Outcome(k).closes = 0 /\ Outcome(k).bad = {}
  <1>1. <<>> \in Seq({"complete"})
    OBVIOUS
  <1> QED BY <1>1 DEF Outcome, Outcomes

LEMMA UpFacts ==
    ASSUME NEW j \in ConnType, j.ups = 0,
           NEW m, m = [j EXCEPT !.state = "connected", !.ups = @ + 1]
    PROVE  /\ m \in ConnType /\ m.state = "connected" /\ m.ups = 1 /\ m.downs = j.downs
           /\ m.life = j.life /\ m.events = j.events /\ m.status = j.status
  <1>1. j.ups + 1 = 1 /\ 1 \in 0 .. 1
    OBVIOUS
  <1> DEFINE u == j.ups + 1
  <1>2. u = 1 /\ u \in 0 .. 1
    BY <1>1
  <1>3. m = [j EXCEPT !.state = "connected", !.ups = u]
    OBVIOUS
  <1> HIDE DEF u
  <1>4. /\ m \in ConnType /\ m.state = "connected" /\ m.ups = u /\ m.downs = j.downs
        /\ m.life = j.life /\ m.events = j.events /\ m.status = j.status
    BY ONLY j \in ConnType, <1>2, <1>3 DEF ConnType
  <1> QED BY <1>2, <1>4

LEMMA DownFacts ==
    ASSUME NEW j \in ConnType, j.downs = 0,
           NEW m, m = [j EXCEPT !.state = "disconnected", !.downs = @ + 1]
    PROVE  /\ m \in ConnType /\ m.state = "disconnected" /\ m.downs = 1 /\ m.ups = j.ups
           /\ m.life = j.life /\ m.events = j.events /\ m.status = j.status
  <1> DEFINE u == j.downs + 1
  <1>2. u = 1 /\ u \in 0 .. 1
    OBVIOUS
  <1>3. m = [j EXCEPT !.state = "disconnected", !.downs = u]
    OBVIOUS
  <1> HIDE DEF u
  <1>4. /\ m \in ConnType /\ m.state = "disconnected" /\ m.downs = u /\ m.ups = j.ups
        /\ m.life = j.life /\ m.events = j.events /\ m.status = j.status
    BY ONLY j \in ConnType, <1>2, <1>3 DEF ConnType
  <1> QED BY <1>2, <1>4

LEMMA EstablishedFacts ==
    ASSUME NEW o \in Outcomes, o.k.state = "connecting", o.k.ups = 0,
           o.closes = 0, o.bad = {}, NEW p \in ConnectEstablished(o)
    PROVE  /\ p \in Outcomes /\ p.closes = 0 /\ p.bad = {}
           /\ p.k.life = o.k.life /\ p.k.ups = 1 /\ p.k.downs = o.k.downs
           /\ "in" \in p.k.events /\ p.k.status = "added"
           /\ p.k.state \in {"connected", "disconnecting"}
           /\ "shutdown" \notin UpOps => p.k.state = "connected"
  <1> DEFINE j == SetEvents(o.k, o.k.events \cup {"in"})
             m == [j EXCEPT !.state = "connected", !.ups = @ + 1]
             b == IF o.k.state = "connecting" THEN o.bad
                  ELSE o.bad \cup {"connectEstablished"}
             a == [o EXCEPT !.k = m, !.bad = b]
  <1>1. /\ j \in ConnType /\ "in" \in j.events /\ j.status = "added"
        /\ j.life = o.k.life /\ j.ups = 0 /\ j.downs = o.k.downs
    <2>1. /\ o.k \in ConnType /\ o.k.events \cup {"in"} \in SUBSET {"in", "out"}
          /\ o.k.events \cup {"in"} # {}
      BY DEF Outcomes, ConnType
    <2> QED BY <2>1, SetEventsFacts
  <1>2. p \in UserCode(UpOps, a)
    BY DEF ConnectEstablished
  <1>3. b = {}
    OBVIOUS
  <1> HIDE DEF j, b
  <1>4. /\ m \in ConnType /\ m.state = "connected" /\ m.ups = 1 /\ m.downs = j.downs
        /\ m.life = j.life /\ m.events = j.events /\ m.status = j.status
    BY <1>1, UpFacts
  <1> HIDE DEF m
  <1>5. a \in Outcomes /\ a.k = m /\ a.closes = 0 /\ a.bad = {}
    BY <1>3, <1>4 DEF Outcomes
  <1> HIDE DEF a
  <1>6. CallKeeps(UpOps, a, p)
    BY <1>2, <1>5, UserCodeFollows, ServerAssumption
  <1> QED BY <1>1, <1>4, <1>5, <1>6 DEF CallKeeps, Follows, Keeps

LEMMA DestroyedFacts ==
    ASSUME NEW o \in Outcomes, o.k.state = "connected" => o.k.downs = 0,
           NEW p \in ConnectDestroyed(o)
    PROVE  /\ p \in Outcomes /\ p.closes = o.closes /\ p.bad = o.bad /\ p.q = o.q
           /\ p.k.life = o.k.life /\ p.k.ups = o.k.ups /\ p.k.status = "new"
           /\ o.k.state = "connected" =>
                 p.k.state = "disconnected" /\ p.k.downs = 1 /\ p.k.events = {}
           /\ o.k.state # "connected" =>
                 /\ p.k.state = o.k.state /\ p.k.downs = o.k.downs
                 /\ p.k.events = o.k.events
  <1> DEFINE j == SetEvents(o.k, {})
             m == [j EXCEPT !.state = "disconnected", !.downs = @ + 1]
             d == IF o.k.state = "connected"
                  THEN [o EXCEPT !.k = m] ELSE o
  <1>1. p = [d EXCEPT !.k.status = "new"]
    BY DEF ConnectDestroyed
  <1>2. /\ j \in ConnType /\ j.events = {} /\ j.life = o.k.life /\ j.ups = o.k.ups
        /\ j.downs = o.k.downs
    BY SetEventsFacts DEF Outcomes
  <1> HIDE DEF j
  <1>3. o.k.state = "connected" =>
           /\ m \in ConnType /\ m.state = "disconnected" /\ m.downs = 1 /\ m.ups = j.ups
           /\ m.life = j.life /\ m.events = j.events
    <2> SUFFICES ASSUME o.k.state = "connected"
                 PROVE  /\ m \in ConnType /\ m.state = "disconnected" /\ m.downs = 1
                        /\ m.ups = j.ups /\ m.life = j.life /\ m.events = j.events
      OBVIOUS
    <2>1. j \in ConnType /\ j.downs = 0
      BY <1>2
    <2>2. m = [j EXCEPT !.state = "disconnected", !.downs = @ + 1]
      OBVIOUS
    <2> HIDE DEF m
    <2> QED BY ONLY <2>1, <2>2, DownFacts
  <1> HIDE DEF m
  <1>4. /\ d \in Outcomes /\ d.closes = o.closes /\ d.bad = o.bad /\ d.q = o.q
        /\ o.k.state = "connected" => d.k = m
        /\ o.k.state # "connected" => d = o
    BY <1>3 DEF Outcomes
  <1> HIDE DEF d
  <1>5. /\ p \in Outcomes /\ p.closes = d.closes /\ p.bad = d.bad /\ p.q = d.q
        /\ p.k.status = "new" /\ p.k.life = d.k.life /\ p.k.ups = d.k.ups
        /\ p.k.state = d.k.state /\ p.k.downs = d.k.downs /\ p.k.events = d.k.events
    BY <1>1, <1>4 DEF Outcomes, ConnType
  <1> QED BY <1>2, <1>3, <1>4, <1>5

-----------------------------------------------------------------------------
(* The functors that wait. *)

\* t is appended to s: with functors that may wait more than once, or with one
\* that does not wait yet.
LEMMA ConcatFacts ==
    ASSUME NEW s \in Seq(FunctorType), NEW t \in Seq(FunctorType)
    PROVE  /\ s \o t \in Seq(FunctorType)
           /\ Range(s \o t) = Range(s) \cup Range(t)
           /\ Sole(s) /\ (\A i \in DOMAIN t : t[i].op \notin SoleOps) => Sole(s \o t)
  <1>1. /\ s \o t \in Seq(FunctorType) /\ Len(s) \in Nat /\ Len(t) \in Nat
        /\ DOMAIN s = 1 .. Len(s) /\ DOMAIN t = 1 .. Len(t)
        /\ DOMAIN (s \o t) = 1 .. Len(s) + Len(t)
        /\ \A i \in 1 .. Len(s) + Len(t) :
              (s \o t)[i] = IF i <= Len(s) THEN s[i] ELSE t[i - Len(s)]
    OBVIOUS
  <1>2. Range(s \o t) = Range(s) \cup Range(t)
    <2>1. ASSUME NEW i \in DOMAIN (s \o t) PROVE (s \o t)[i] \in Range(s) \cup Range(t)
      <3>1. CASE i <= Len(s)
        BY <1>1, <2>1, <3>1 DEF Range
      <3>2. CASE i > Len(s)
        <4>1. i - Len(s) \in DOMAIN t /\ (s \o t)[i] = t[i - Len(s)]
          BY <1>1, <2>1, <3>2
        <4> QED BY <4>1 DEF Range
      <3> QED BY <1>1, <2>1, <3>1, <3>2
    <2>2. ASSUME NEW i \in DOMAIN s PROVE s[i] \in Range(s \o t)
      <3>1. i \in DOMAIN (s \o t) /\ (s \o t)[i] = s[i]
        BY <1>1, <2>2
      <3> QED BY <3>1 DEF Range
    <2>3. ASSUME NEW i \in DOMAIN t PROVE t[i] \in Range(s \o t)
      <3>1. i + Len(s) \in DOMAIN (s \o t) /\ (s \o t)[i + Len(s)] = t[i]
        BY <1>1, <2>3
      <3> QED BY <3>1 DEF Range
    <2> QED BY <2>1, <2>2, <2>3 DEF Range
  <1>3. ASSUME Sole(s), \A i \in DOMAIN t : t[i].op \notin SoleOps PROVE Sole(s \o t)
    <2> SUFFICES ASSUME NEW i \in DOMAIN (s \o t), NEW j \in DOMAIN (s \o t),
                        (s \o t)[i] = (s \o t)[j], (s \o t)[i].op \in SoleOps
                 PROVE  i = j
      BY DEF Sole
    <2>1. i <= Len(s) /\ j <= Len(s)
      <3>1. ASSUME NEW n \in DOMAIN (s \o t), n > Len(s)
            PROVE  (s \o t)[n].op \notin SoleOps
        <4>1. n - Len(s) \in DOMAIN t /\ (s \o t)[n] = t[n - Len(s)]
          BY <1>1, <3>1
        <4> QED BY <1>3, <4>1
      <3> QED BY <1>1, <3>1
    <2> QED BY <1>1, <1>3, <2>1 DEF Sole
  <1> QED BY <1>1, <1>2, <1>3

LEMMA AppendFacts ==
    ASSUME NEW s \in Seq(FunctorType), NEW f \in FunctorType
    PROVE  /\ Append(s, f) \in Seq(FunctorType)
           /\ Range(Append(s, f)) = Range(s) \cup {f}
           /\ Sole(s) /\ (f.op \in SoleOps => f \notin Range(s)) => Sole(Append(s, f))
  <1>1. /\ Append(s, f) \in Seq(FunctorType) /\ Len(s) \in Nat /\ DOMAIN s = 1 .. Len(s)
        /\ DOMAIN Append(s, f) = 1 .. Len(s) + 1
        /\ \A i \in 1 .. Len(s) : Append(s, f)[i] = s[i]
        /\ Append(s, f)[Len(s) + 1] = f
    OBVIOUS
  <1>2. Range(Append(s, f)) = Range(s) \cup {f}
    BY <1>1 DEF Range
  <1>3. ASSUME Sole(s), f.op \in SoleOps => f \notin Range(s) PROVE Sole(Append(s, f))
    BY <1>1, <1>3 DEF Sole, Range
  <1> QED BY <1>1, <1>2, <1>3

LEMMA TailFacts ==
    ASSUME NEW s \in Seq(FunctorType), s # <<>>
    PROVE  /\ Head(s) \in Range(s) /\ Tail(s) \in Seq(FunctorType)
           /\ Range(s) = Range(Tail(s)) \cup {Head(s)}
           /\ Sole(s) => /\ Sole(Tail(s))
                         /\ Head(s).op \in SoleOps => Head(s) \notin Range(Tail(s))
  <1>1. /\ Tail(s) \in Seq(FunctorType) /\ Head(s) = s[1]
        /\ Len(s) \in Nat \ {0} /\ DOMAIN s = 1 .. Len(s)
        /\ DOMAIN Tail(s) = 1 .. Len(s) - 1
        /\ \A i \in 1 .. Len(s) - 1 : Tail(s)[i] = s[i + 1]
    OBVIOUS
  <1>2. ASSUME NEW i \in DOMAIN s, i # 1 PROVE s[i] \in Range(Tail(s))
    <2>1. i - 1 \in DOMAIN Tail(s) /\ Tail(s)[i - 1] = s[i]
      BY <1>1, <1>2
    <2> QED BY <2>1 DEF Range
  <1>3. ASSUME NEW i \in DOMAIN Tail(s) PROVE i + 1 \in DOMAIN s /\ Tail(s)[i] = s[i + 1] /\ i + 1 # 1
    BY <1>1, <1>3
  <1>4. Range(s) = Range(Tail(s)) \cup {Head(s)} /\ Head(s) \in Range(s)
    <2>1. Head(s) \in Range(s) /\ Range(Tail(s)) \subseteq Range(s)
      BY <1>1, <1>3 DEF Range
    <2>2. Range(s) \subseteq Range(Tail(s)) \cup {Head(s)}
      <3> SUFFICES ASSUME NEW i \in DOMAIN s PROVE s[i] \in Range(Tail(s)) \cup {Head(s)}
        BY DEF Range
      <3> QED BY <1>1, <1>2
    <2> QED BY <2>1, <2>2
  <1>5. ASSUME Sole(s) PROVE Sole(Tail(s))
    <2> SUFFICES ASSUME NEW i \in DOMAIN Tail(s), NEW j \in DOMAIN Tail(s),
                        Tail(s)[i] = Tail(s)[j], Tail(s)[i].op \in SoleOps
                 PROVE  i = j
      BY DEF Sole
    <2>1. i + 1 = j + 1
      BY <1>3, <1>5 DEF Sole
    <2> QED BY <1>1, <2>1
  <1>6. ASSUME Sole(s), Head(s).op \in SoleOps PROVE Head(s) \notin Range(Tail(s))
    <2>1. ASSUME NEW i \in DOMAIN Tail(s) PROVE Tail(s)[i] # Head(s)
      BY <1>1, <1>3, <1>6, <2>1 DEF Sole
    <2> QED BY <2>1 DEF Range
  <1> QED BY <1>1, <1>4, <1>5, <1>6

LEMMA AppendToConcat ==
    ASSUME NEW s \in Seq(FunctorType), NEW u \in Seq(FunctorType), NEW x \in FunctorType
    PROVE  s \o Append(u, x) = Append(s \o u, x)
  <1>1. <<x>> \in Seq(FunctorType) /\ s \o u \in Seq(FunctorType)
    BY ConcatProperties
  <1>2. Append(u, x) = u \o <<x>> /\ Append(s \o u, x) = (s \o u) \o <<x>>
    BY <1>1, AppendIsConcat
  <1> QED BY <1>1, <1>2, ConcatAssociative

LEMMA TailOfConcat ==
    ASSUME NEW s \in Seq(FunctorType), NEW u \in Seq(FunctorType), s # <<>>
    PROVE  /\ s \o u # <<>>
           /\ Head(s \o u) = Head(s)
           /\ Tail(s \o u) = Tail(s) \o u
  <1>1. /\ s \o u \in Seq(FunctorType) /\ Len(s \o u) = Len(s) + Len(u)
        /\ \A i \in 1 .. Len(s) + Len(u) : (s \o u)[i] =
                     IF i <= Len(s) THEN s[i] ELSE u[i - Len(s)]
    BY ConcatProperties
  <1>2. /\ Len(s) \in Nat \ {0} /\ Len(u) \in Nat /\ Head(s) = s[1]
        /\ Tail(s) \in Seq(FunctorType) /\ Len(Tail(s)) = Len(s) - 1
        /\ \A i \in 1 .. Len(s) - 1 : Tail(s)[i] = s[i + 1]
    OBVIOUS
  <1>3. s \o u # <<>> /\ Head(s \o u) = Head(s)
    BY <1>1, <1>2
  <1>4. /\ Tail(s \o u) \in Seq(FunctorType) /\ Len(Tail(s \o u)) = Len(s) + Len(u) - 1
        /\ \A i \in 1 .. Len(s) + Len(u) - 1 : Tail(s \o u)[i] = (s \o u)[i + 1]
    BY <1>1, <1>3, HeadTailProperties
  <1>5. /\ Tail(s) \o u \in Seq(FunctorType) /\ Len(Tail(s) \o u) = Len(s) - 1 + Len(u)
        /\ \A i \in 1 .. Len(s) - 1 + Len(u) : (Tail(s) \o u)[i] =
                     IF i <= Len(s) - 1 THEN Tail(s)[i] ELSE u[i - (Len(s) - 1)]
    BY <1>2, ConcatProperties
  <1>6. ASSUME NEW i \in 1 .. Len(s) + Len(u) - 1
        PROVE  Tail(s \o u)[i] = (Tail(s) \o u)[i]
    <2>1. (s \o u)[i + 1] = IF i + 1 <= Len(s) THEN s[i + 1] ELSE u[i + 1 - Len(s)]
      BY <1>1, <1>2
    <2>2. i - (Len(s) - 1) = i + 1 - Len(s)
      BY <1>2
    <2> QED BY <1>2, <1>4, <1>5, <2>1, <2>2
  <1>7. Tail(s \o u) = Tail(s) \o u
    BY <1>2, <1>4, <1>5, <1>6, SeqEqual
  <1> QED BY <1>3, <1>7

LEMMA RestOfBatch ==
    ASSUME NEW b \in Seq(FunctorType), NEW r \in Nat, r <= Len(b)
    PROVE  /\ Left(b, r) \in Seq(FunctorType)
           /\ Range(Left(b, r)) \subseteq Range(b)
           /\ r < Len(b) => /\ Left(b, r) # <<>> /\ Head(Left(b, r)) = b[r + 1]
                            /\ Tail(Left(b, r)) = Left(b, r + 1)
  <1> DEFINE u == Left(b, r)
  <1>1. /\ Len(b) \in Nat /\ DOMAIN b = 1 .. Len(b) /\ r + 1 \in Int
        /\ \A i \in r + 1 .. Len(b) : b[i] \in FunctorType
    OBVIOUS
  <1>2. /\ u \in Seq(FunctorType) /\ Len(u) = IF r + 1 <= Len(b) THEN Len(b) - (r + 1) + 1 ELSE 0
        /\ \A i \in 1 .. Len(b) - (r + 1) + 1 : u[i] = b[r + 1 + i - 1]
    BY <1>1, SubSeqProperties DEF Left
  <1> HIDE DEF u
  <1>3. Len(u) = Len(b) - r /\ Len(b) \in Nat
    <2>1. Len(u) = (IF r + 1 <= Len(b) THEN Len(b) - (r + 1) + 1 ELSE 0) /\ Len(b) \in Nat
      BY <1>1, <1>2
    <2>2. CASE r = Len(b)
      BY ONLY <2>1, <2>2, r \in Nat
    <2>3. CASE r < Len(b)
      BY ONLY <2>1, <2>3, r \in Nat
    <2> QED BY <2>1, <2>2, <2>3
  <1>4. Range(u) \subseteq Range(b)
    <2> SUFFICES ASSUME NEW i \in DOMAIN u PROVE u[i] \in Range(b)
      BY DEF Range
    <2>1. DOMAIN u = 1 .. Len(u)
      BY <1>2
    <2>2. i \in 1 .. Len(b) - r
      BY <1>3, <2>1
    <2>3. r + 1 + i - 1 \in DOMAIN b /\ i \in 1 .. Len(b) - (r + 1) + 1
      BY <1>1, <2>2
    <2>4. u[i] = b[r + 1 + i - 1]
      BY <1>2, <2>3
    <2> QED BY <2>3, <2>4 DEF Range
  <1>5. ASSUME r < Len(b)
        PROVE  u # <<>> /\ Head(u) = b[r + 1] /\ Tail(u) = Left(b, r + 1)
    <2>1. r + 1 \in 1 .. Len(b) /\ Len(b) \in r + 1 .. Len(b)
      BY <1>1, <1>5
    <2>2. Head(u) = b[r + 1] /\ Tail(u) = Left(b, r + 1)
      BY <2>1, HeadTailOfSubSeq DEF u, Left
    <2>3. Len(u) # 0
      BY ONLY <1>3, <1>5, r \in Nat
    <2>4. Len(<<>>) = 0
      OBVIOUS
    <2> QED BY <2>2, <2>3, <2>4
  <1> QED BY <1>2, <1>4, <1>5 DEF u

LEMMA ConcatThree ==
    ASSUME NEW s \in Seq(FunctorType), NEW t \in Seq(FunctorType), NEW u \in Seq(FunctorType)
    PROVE  (s \o t) \o u = s \o (t \o u)
  <1> DEFINE F == FunctorType
  <1>1. s \in Seq(F) /\ t \in Seq(F) /\ u \in Seq(F)
    OBVIOUS
  <1> HIDE DEF F
  <1> QED BY ONLY <1>1, ConcatAssociative

LEMMA RestFacts ==
    ASSUME NEW p \in Seq(FunctorType), NEW b \in Seq(FunctorType), NEW r \in Nat, r <= Len(b)
    PROVE  /\ Rest(p, b, r) \in Seq(FunctorType)
           /\ Range(Rest(p, b, r)) \subseteq Range(p) \cup Range(b)
           /\ \A t \in Seq(FunctorType) : Rest(p \o t, b, r) = Rest(p, b, r) \o t
           /\ \A f \in FunctorType : Rest(Append(p, f), b, r) = Append(Rest(p, b, r), f)
           /\ r < Len(b) => /\ Rest(p, b, r) # <<>>
                            /\ Head(Rest(p, b, r)) = b[r + 1]
                            /\ Tail(Rest(p, b, r)) = Rest(p, b, r + 1)
  <1> DEFINE u == Left(b, r)
  <1>1. /\ u \in Seq(FunctorType) /\ Range(u) \subseteq Range(b)
        /\ r < Len(b) => /\ u # <<>> /\ Head(u) = b[r + 1]
                         /\ Tail(u) = Left(b, r + 1)
    BY RestOfBatch
  <1> HIDE DEF u
  <1>2. u \o p \in Seq(FunctorType) /\ Range(u \o p) = Range(u) \cup Range(p)
    BY <1>1, ConcatFacts
  <1>3. \A t \in Seq(FunctorType) : (u \o p) \o t = u \o (p \o t)
    BY <1>1, ConcatThree
  <1>4. \A v, x \in Seq(FunctorType) : \A f \in FunctorType : v \o Append(x, f) = Append(v \o x, f)
    BY AppendToConcat
  <1>5. ASSUME r < Len(b)
        PROVE  u \o p # <<>> /\ Head(u \o p) = b[r + 1] /\ Tail(u \o p) = Rest(p, b, r + 1)
    <2>1. u \o p # <<>> /\ Head(u \o p) = Head(u) /\ Tail(u \o p) = Tail(u) \o p
      BY <1>1, <1>5, TailOfConcat
    <2> QED BY <1>1, <1>5, <2>1 DEF Rest
  <1>6. Rest(p, b, r) = u \o p
    BY DEF Rest, u
  <1>7. \A t \in Seq(FunctorType) : Rest(p \o t, b, r) = (u \o p) \o t
    BY <1>1, <1>3 DEF Rest, u
  <1>8. \A f \in FunctorType : Rest(Append(p, f), b, r) = Append(u \o p, f)
    BY <1>1, <1>4 DEF Rest, u
  <1> QED BY <1>1, <1>2, <1>5, <1>6, <1>7, <1>8

LEMMA RestConcat ==
    ASSUME NEW p \in Seq(FunctorType), NEW b \in Seq(FunctorType), NEW r \in Nat,
           r <= Len(b), NEW t \in Seq(FunctorType)
    PROVE  Rest(p \o t, b, r) = Rest(p, b, r) \o t
  BY RestFacts

LEMMA RestAppend ==
    ASSUME NEW p \in Seq(FunctorType), NEW b \in Seq(FunctorType), NEW r \in Nat,
           r <= Len(b), NEW f \in FunctorType
    PROVE  Rest(Append(p, f), b, r) = Append(Rest(p, b, r), f)
  BY RestFacts

LEMMA WaitingType ==
    ASSUME NEW p \in Queues, NEW b \in Queues, NEW r \in Counts,
           \A l \in Loops : r[l] <= Len(b[l])
    PROVE  /\ Waiting(p, b, r) \in Queues
           /\ \A l \in Loops : Range(Waiting(p, b, r)[l]) \subseteq Range(p[l]) \cup Range(b[l])
  BY RestFacts DEF Waiting, Queues, Counts

\* q is p but for loop x.
ElseSame(x, p, q) == \A l \in Loops : l # x => q[l] = p[l]

LEMMA WaitingElse ==
    ASSUME NEW p, NEW q, NEW b, NEW c, NEW r, NEW n, NEW x \in Loops,
           ElseSame(x, p, q), ElseSame(x, b, c), ElseSame(x, r, n)
    PROVE  /\ ElseSame(x, Waiting(p, b, r), Waiting(q, c, n))
           /\ Waiting(p, b, r)[x] = Rest(p[x], b[x], r[x])
           /\ Waiting(q, c, n)[x] = Rest(q[x], c[x], n[x])
  BY DEF Waiting, ElseSame

LEMMA WaitingAppend ==
    ASSUME NEW p \in Queues, NEW q \in Queues, NEW b \in Queues, NEW r \in Counts,
           \A l \in Loops : r[l] <= Len(b[l]), NEW x \in Loops, NEW f \in FunctorType,
           ElseSame(x, p, q), q[x] = Append(p[x], f)
    PROVE  /\ Waiting(q, b, r)[x] = Append(Waiting(p, b, r)[x], f)
           /\ ElseSame(x, Waiting(p, b, r), Waiting(q, b, r))
  <1>1. /\ p[x] \in Seq(FunctorType) /\ b[x] \in Seq(FunctorType) /\ r[x] \in Nat
        /\ r[x] <= Len(b[x])
    BY DEF Queues, Counts
  <1>2. Rest(Append(p[x], f), b[x], r[x]) = Append(Rest(p[x], b[x], r[x]), f)
    BY ONLY <1>1, f \in FunctorType, RestAppend, Zenon
  <1> QED BY <1>2 DEF Waiting, ElseSame

LEMMA WaitingConcat ==
    ASSUME NEW p \in Queues, NEW q \in Queues, NEW b \in Queues, NEW r \in Counts,
           \A l \in Loops : r[l] <= Len(b[l]), NEW x \in Loops, NEW t \in Seq(FunctorType),
           ElseSame(x, p, q), q[x] = p[x] \o t
    PROVE  /\ Waiting(q, b, r)[x] = Waiting(p, b, r)[x] \o t
           /\ ElseSame(x, Waiting(p, b, r), Waiting(q, b, r))
  <1>1. /\ p[x] \in Seq(FunctorType) /\ b[x] \in Seq(FunctorType) /\ r[x] \in Nat
        /\ r[x] <= Len(b[x])
    BY DEF Queues, Counts
  <1>2. Rest(p[x] \o t, b[x], r[x]) = Rest(p[x], b[x], r[x]) \o t
    BY ONLY <1>1, t \in Seq(FunctorType), RestConcat, Zenon
  <1> QED BY <1>2 DEF Waiting, ElseSame

\* A functor is called: it was the first that waited.
LEMMA WaitingCalled ==
    ASSUME NEW p \in Queues, NEW b \in Queues, NEW r \in Counts, NEW n,
           NEW x \in Loops, r[x] < Len(b[x]), n[x] = r[x] + 1, ElseSame(x, r, n)
    PROVE  /\ Waiting(p, b, r)[x] # <<>>
           /\ Head(Waiting(p, b, r)[x]) = b[x][r[x] + 1]
           /\ Waiting(p, b, n)[x] = Tail(Waiting(p, b, r)[x])
           /\ ElseSame(x, Waiting(p, b, r), Waiting(p, b, n))
  <1>1. p[x] \in Seq(FunctorType) /\ b[x] \in Seq(FunctorType) /\ r[x] \in Nat
    BY DEF Queues, Counts
  <1>2. /\ Rest(p[x], b[x], r[x]) # <<>> /\ Head(Rest(p[x], b[x], r[x])) = b[x][r[x] + 1]
        /\ Tail(Rest(p[x], b[x], r[x])) = Rest(p[x], b[x], r[x] + 1)
    <2>1. r[x] <= Len(b[x])
      BY <1>1
    <2> QED BY <1>1, <2>1, RestFacts
  <1> QED BY <1>2 DEF Waiting, ElseSame

\* The swap leaves what waits as it was.
LEMMA WaitingSwapped ==
    ASSUME NEW p \in Queues, NEW q, NEW b, NEW c, NEW r,
           NEW x \in Loops, ElseSame(x, p, q), ElseSame(x, b, c),
           b[x] = <<>>, r[x] = 0, q[x] = <<>>, c[x] = p[x]
    PROVE  Waiting(q, c, r) = Waiting(p, b, r)
  <1>1. p[x] \in Seq(FunctorType) /\ <<>> \in Seq(FunctorType)
    BY DEF Queues, Counts
  <1>2. SubSeq(p[x], 1, Len(p[x])) = p[x] /\ SubSeq(<<>>, 1, 0) = <<>> /\ Len(<<>>) = 0
    BY <1>1, SubSeqFull, SubSeqEmpty
  <1>3. <<>> \o p[x] = p[x] /\ p[x] \o <<>> = p[x]
    BY <1>1
  <1>4. Rest(<<>>, p[x], 0) = Rest(p[x], <<>>, 0)
    BY <1>2, <1>3 DEF Rest, Left
  <1> QED BY <1>1, <1>4 DEF Waiting, ElseSame

\* So does the end of the round.
LEMMA WaitingFinished ==
    ASSUME NEW p, NEW b \in Queues, NEW c, NEW r, NEW n,
           NEW x \in Loops, ElseSame(x, b, c), ElseSame(x, r, n),
           r[x] = Len(b[x]), c[x] = <<>>, n[x] = 0
    PROVE  Waiting(p, c, n) = Waiting(p, b, r)
  <1>1. b[x] \in Seq(FunctorType) /\ <<>> \in Seq(FunctorType)
    BY DEF Queues, Counts
  <1>2. Len(b[x]) \in Nat
    BY <1>1
  <1>3. SubSeq(b[x], r[x] + 1, Len(b[x])) = <<>> /\ SubSeq(<<>>, 1, 0) = <<>> /\ Len(<<>>) = 0
    BY <1>2, SubSeqEmpty
  <1>4. Rest(p[x], <<>>, 0) = Rest(p[x], b[x], r[x])
    BY <1>3 DEF Rest, Left
  <1> QED BY <1>4 DEF Waiting, ElseSame

-----------------------------------------------------------------------------
(* The parts of the invariant when one connection, c, changes. *)

LEMMA InQueue ==
    ASSUME NEW W \in Queues, NEW l \in Loops, NEW f \in Range(W[l])
    PROVE  f \in FunctorType /\ f.conn \in Conns
  <1>1. W[l] \in Seq(FunctorType)
    BY DEF Queues, Counts
  <1>2. \A i \in DOMAIN W[l] : W[l][i] \in FunctorType
    BY <1>1
  <1> QED BY <1>2 DEF Range, FunctorType

LEMMA SameFunctor ==
    ASSUME NEW f \in FunctorType
    PROVE  f = [op |-> f.op, conn |-> f.conn]
  BY DEF FunctorType

\* Nothing else has changed from cn, home and cs.
OnlyAt(c, cn, home, cs, cn2, home2, cs2) ==
    \A d \in Conns : d # c => cn2[d] = cn[d] /\ home2[d] = home[d] /\ (d \in cs2 <=> d \in cs)

LEMMA WorkStep ==
    ASSUME NEW W \in Queues, NEW V \in Queues, NEW c \in Conns,
           NEW cn, NEW home, NEW cs, NEW cn2, NEW home2, NEW cs2,
           OnlyAt(c, cn, home, cs, cn2, home2, cs2),
           WorkOK(W, cn, home, cs),
           \A l \in Loops : Sole(V[l]),
           \A l \in Loops : \A f \in Range(V[l]) :
               \/ f.conn # c /\ f \in Range(W[l])
               \/ f.conn = c /\ RightLoop(f, l, home2[c]) /\ Due(f, cn2[c], c \in cs2)
    PROVE  WorkOK(V, cn2, home2, cs2)
  <1> SUFFICES ASSUME NEW l \in Loops, NEW f \in Range(V[l])
               PROVE  /\ RightLoop(f, l, home2[f.conn])
                      /\ Due(f, cn2[f.conn], f.conn \in cs2)
    BY DEF WorkOK
  <1>1. CASE f.conn = c
    BY <1>1
  <1>2. CASE f.conn # c
    <2>1. f \in Range(W[l]) /\ f.conn \in Conns
      BY <1>2, InQueue
    <2>2. RightLoop(f, l, home[f.conn]) /\ Due(f, cn[f.conn], f.conn \in cs)
      BY <2>1 DEF WorkOK
    <2>3. /\ cn2[f.conn] = cn[f.conn] /\ home2[f.conn] = home[f.conn]
          /\ f.conn \in cs2 <=> f.conn \in cs
      BY <1>2, <2>1 DEF OnlyAt
    <2> QED BY <2>2, <2>3 DEF Due
  <1> QED BY <1>1, <1>2

\* Of a connection: it is not up yet, known, torn down, or about to be.
TornAt(c, W, cn, home, cs) ==
    \/ cn[c].state = "connecting" \/ c \in cs
    \/ cn[c].status = "new" /\ (NoShutdown => cn[c].downs = 1)
    \/ [op |-> "destroyed", conn |-> c] \in Range(W[home[c]])

\* The connectDestroyed() functors of other connections still wait.
DestroyedStay(c, W, V) ==
    \A l \in Loops : \A f \in Range(W[l]) :
        f.op = "destroyed" /\ f.conn # c => f \in Range(V[l])

LEMMA TornStep ==
    ASSUME NEW W, NEW V, NEW c \in Conns, NEW home \in [Conns -> Loops],
           NEW cn, NEW cs, NEW cn2, NEW home2, NEW cs2,
           OnlyAt(c, cn, home, cs, cn2, home2, cs2),
           TornOK(W, cn, home, cs),
           DestroyedStay(c, W, V),
           Calm => TornAt(c, V, cn2, home2, cs2)
    PROVE  TornOK(V, cn2, home2, cs2)
  <1> SUFFICES ASSUME Calm, NEW d \in Conns PROVE TornAt(d, V, cn2, home2, cs2)
    BY DEF TornOK, TornAt
  <1>1. CASE d = c
    BY <1>1
  <1>2. CASE d # c
    <2>1. cn2[d] = cn[d] /\ home2[d] = home[d] /\ (d \in cs2 <=> d \in cs) /\ home[d] \in Loops
      BY <1>2 DEF OnlyAt
    <2>2. TornAt(d, W, cn, home, cs)
      BY DEF TornOK, TornAt
    <2> DEFINE f == [op |-> "destroyed", conn |-> d]
    <2>3. f.op = "destroyed" /\ f.conn = d
      OBVIOUS
    <2> HIDE DEF f
    <2>4. f \in Range(W[home[d]]) => f \in Range(V[home[d]])
      BY <1>2, <2>1, <2>3 DEF DestroyedStay
    <2> QED BY <2>1, <2>2, <2>4 DEF TornAt, f
  <1> QED BY <1>1, <1>2

\* A functor is called, what of that does not depend on the functor.
RunRest(l) ==
    /\ lpc[l] = "functors"
    /\ ran[l] < Len(batch[l])
    /\ ran' = [ran EXCEPT ![l] = @ + 1]
    /\ UNCHANGED <<loopOf, loops, next, lpc, active, accepting, batch, fpc, budget>>

\* The functor, and what waits after it.
Called(l) == batch[l][ran[l] + 1]

After == Waiting(pending, batch, ran')

LEMMA CalledWork ==
    ASSUME SInv, NEW l \in Loops, RunRest(l)
    PROVE  /\ ran' \in Counts /\ \A m \in Loops : ran'[m] <= Len(batch[m])
           /\ After \in Queues
           /\ Called(l) \in FunctorType /\ Called(l) \in Range(Work[l])
           /\ RightLoop(Called(l), l, loopOf[Called(l).conn])
           /\ Due(Called(l), conn[Called(l).conn], Called(l).conn \in connections)
           /\ WorkOK(After, conn, loopOf, connections)
           /\ Called(l).op # "destroyed" => TornOK(After, conn, loopOf, connections)
           /\ Called(l).op \in SoleOps => Called(l) \notin Range(After[l])
           /\ \A m \in Loops : Range(After[m]) \subseteq Range(Work[m])
           /\ \A m \in Loops : \A g \in Range(Work[m]) : g # Called(l) => g \in Range(After[m])
  <1> DEFINE f == Called(l)
             W == After
  <1>0. /\ ran[l] < Len(batch[l]) /\ ran' = [ran EXCEPT ![l] = @ + 1]
        /\ f = batch[l][ran[l] + 1] /\ W = Waiting(pending, batch, ran')
    BY DEF RunRest, Called, After
  <1> HIDE DEF f, W
  <1>1. /\ pending \in Queues /\ batch \in Queues /\ ran \in Counts
        /\ \A m \in Loops : ran[m] <= Len(batch[m])
    BY DEF SInv, ServerType, RoundInv
  <1>2. /\ Work[l] # <<>> /\ Head(Work[l]) = f
        /\ W[l] = Tail(Work[l]) /\ ElseSame(l, Work, W)
        /\ ran' \in Counts /\ \A m \in Loops : ran'[m] <= Len(batch[m])
    <2>1. ran' \in Counts /\ ran'[l] = ran[l] + 1 /\ ElseSame(l, ran, ran')
      BY <1>0, <1>1 DEF ElseSame, Counts
    <2>2. \A m \in Loops : ran'[m] <= Len(batch[m])
      <3>1. Len(batch[l]) \in Nat /\ ran[l] \in Nat
        BY <1>1 DEF Queues, Counts
      <3> QED BY <1>0, <1>1, <2>1, <3>1 DEF ElseSame
    <2>3. /\ Waiting(pending, batch, ran)[l] # <<>>
          /\ Head(Waiting(pending, batch, ran)[l]) = batch[l][ran[l] + 1]
          /\ Waiting(pending, batch, ran')[l] = Tail(Waiting(pending, batch, ran)[l])
          /\ ElseSame(l, Waiting(pending, batch, ran), Waiting(pending, batch, ran'))
      <3>1. ran[l] < Len(batch[l])
        BY <1>0
      <3> QED BY ONLY <1>1, <2>1, <3>1, WaitingCalled, l \in Loops, Zenon
    <2> QED BY <1>0, <2>1, <2>2, <2>3 DEF Work
  <1>3. Work \in Queues
    BY <1>1, WaitingType DEF Work
  <1>4. Work[l] \in Seq(FunctorType) /\ Sole(Work[l])
    BY <1>3 DEF Queues, SInv, WorkOK
  <1>5. /\ f \in Range(Work[l]) /\ Tail(Work[l]) \in Seq(FunctorType)
        /\ Range(Work[l]) = Range(Tail(Work[l])) \cup {f}
        /\ Sole(Tail(Work[l]))
        /\ f.op \in SoleOps => f \notin Range(Tail(Work[l]))
    <2>1. \A s \in Seq(FunctorType) : s # <<>> =>
              /\ Head(s) \in Range(s) /\ Tail(s) \in Seq(FunctorType)
              /\ Range(s) = Range(Tail(s)) \cup {Head(s)}
              /\ Sole(s) => /\ Sole(Tail(s))
                            /\ Head(s).op \in SoleOps => Head(s) \notin Range(Tail(s))
      BY TailFacts
    <2> DEFINE s == Work[l]
    <2>2. s \in Seq(FunctorType) /\ s # <<>> /\ Sole(s) /\ Head(s) = f
      BY <1>2, <1>4
    <2> HIDE DEF s
    <2>3. /\ f \in Range(s) /\ Tail(s) \in Seq(FunctorType)
          /\ Range(s) = Range(Tail(s)) \cup {f} /\ Sole(Tail(s))
          /\ f.op \in SoleOps => f \notin Range(Tail(s))
      BY <2>1, <2>2
    <2> QED BY <2>3 DEF s
  <1>6. /\ W[l] = Tail(Work[l]) /\ W \in Queues
        /\ \A m \in Loops : m # l => W[m] = Work[m]
    <2>1. W = [m \in Loops |-> W[m]]
      BY <1>0 DEF Waiting
    <2> QED BY <1>2, <1>3, <1>5, <2>1 DEF Queues, ElseSame
  <1>7. /\ \A m \in Loops : Range(W[m]) \subseteq Range(Work[m])
        /\ \A m \in Loops : \A g \in Range(Work[m]) : g # f => g \in Range(W[m])
    BY <1>5, <1>6
  <1>8. f \in FunctorType
    BY <1>3, <1>5, InQueue
  <1>9. RightLoop(f, l, loopOf[f.conn]) /\ Due(f, conn[f.conn], f.conn \in connections)
    BY <1>5 DEF SInv, WorkOK
  <1>10. WorkOK(W, conn, loopOf, connections)
    <2>1. \A m \in Loops : Sole(W[m])
      BY <1>5, <1>6 DEF SInv, WorkOK
    <2> QED BY <1>7, <2>1 DEF SInv, WorkOK
  <1>11. ASSUME f.op # "destroyed" PROVE TornOK(W, conn, loopOf, connections)
    <2> SUFFICES ASSUME Calm, NEW d \in Conns PROVE TornAt(d, W, conn, loopOf, connections)
      BY DEF TornOK, TornAt
    <2>1. TornAt(d, Work, conn, loopOf, connections) /\ loopOf[d] \in Loops
      BY DEF SInv, TornOK, TornAt, ServerType
    <2> DEFINE g == [op |-> "destroyed", conn |-> d]
    <2>2. g # f
      BY <1>11
    <2> HIDE DEF g
    <2>3. g \in Range(Work[loopOf[d]]) => g \in Range(W[loopOf[d]])
      BY <1>7, <2>1, <2>2
    <2> QED BY <2>1, <2>3 DEF TornAt, g
  <1> QED BY <1>2, <1>5, <1>6, <1>7, <1>8, <1>9, <1>10, <1>11 DEF f, W

-----------------------------------------------------------------------------
(* What the handlers' outcomes mean for a connection and its functors. *)

\* A handler leaves k, which is not connecting, as j: if nothing may call late,
\* it has run while k was read from, or has left the channel alone.
Handled(k, j) ==
    /\ k.state # "connecting"
    /\ Keeps(k, j)
    /\ Calm => "in" \in k.events \/ (j.events = k.events /\ j.status = k.status)
    /\ NoShutdown => j.state = k.state

LEMMA ConnHandled ==
    ASSUME NEW k \in ConnType, NEW j \in ConnType, NEW known \in BOOLEAN,
           ConnOK(k, known), Handled(k, j)
    PROVE  ConnOK(j, known)
  <1>1. /\ j.state # "connecting" /\ j.life = "accepted" /\ j.ups = 1
        /\ j.state = "disconnected" => j.events = {} /\ j.status = "new"
        /\ j.downs = 1 => j.state \in {"disconnecting", "disconnected"}
        /\ "in" \in j.events => known
    BY DEF ConnOK, Handled, Keeps
  <1>2. ASSUME Calm
        PROVE  /\ j.status = "added" <=> "in" \in j.events
               /\ "in" \notin j.events => j.events = {}
    BY <1>2 DEF ConnOK, Handled, Keeps
  <1>3. ASSUME NoShutdown
        PROVE  j.state # "disconnecting" /\ (known => j.state # "disconnected")
    BY <1>3 DEF ConnOK, Handled
  <1> QED BY <1>1, <1>2, <1>3 DEF ConnOK

LEMMA DueHandled ==
    ASSUME NEW k \in ConnType, NEW j \in ConnType, NEW known \in BOOLEAN,
           ConnOK(k, known), Handled(k, j), NEW f \in FunctorType, Due(f, k, known)
    PROVE  Due(f, j, known)
  <1>1. /\ f.op = "established" <=> j.state = "connecting"
        /\ f.op = "established" => j.life = "accepted"
        /\ f.op = "remove" => "in" \notin j.events
    BY DEF Due, Handled, Keeps
  <1>2. ASSUME Calm
        PROVE  /\ f.op \notin AppOps
               /\ f.op = "remove" => known
               /\ f.op = "destroyed" => ~known /\ j.events = {}
    BY <1>2 DEF ConnOK, Due, Handled, Keeps
  <1>3. ASSUME NoShutdown, f.op = "destroyed" PROVE j.state = "connected"
    BY <1>3 DEF Due, Handled
  <1> QED BY <1>1, <1>2, <1>3 DEF Due

\* A handler has closed k; known2: whether it is still in connections_.
Shut(k, j) ==
    /\ k.state \in {"connected", "disconnecting"}
    /\ Calm => "in" \in k.events
    /\ j.events = {}
    /\ k.status = "added" => j.status = "deleted"
    /\ j.life = k.life /\ j.ups = k.ups /\ j.downs = k.downs /\ j.state = k.state

LEMMA ConnShut ==
    ASSUME NEW k \in ConnType, NEW j \in ConnType, NEW known \in BOOLEAN,
           NEW known2 \in BOOLEAN, known2 => known, ConnOK(k, known), Shut(k, j)
    PROVE  ConnOK(j, known2)
  <1>1. /\ j.state # "connecting" /\ j.life = "accepted" /\ j.ups = 1
        /\ j.state # "disconnected"
        /\ j.downs = 1 => j.state \in {"disconnecting", "disconnected"}
        /\ "in" \notin j.events
    BY DEF ConnOK, Shut
  <1>2. ASSUME Calm PROVE j.status # "added" /\ j.events = {}
    BY <1>2 DEF ConnOK, Shut
  <1>3. ASSUME NoShutdown PROVE j.state # "disconnecting"
    BY <1>3 DEF ConnOK, Shut
  <1> QED BY <1>1, <1>2, <1>3 DEF ConnOK

\* A functor that waits is not one the close makes stale, if nothing calls late.
LEMMA DueShut ==
    ASSUME NEW k \in ConnType, NEW j \in ConnType, NEW known \in BOOLEAN,
           NEW known2 \in BOOLEAN, ConnOK(k, known), Shut(k, j),
           NEW f \in FunctorType, Due(f, k, known)
    PROVE  /\ Due(f, j, known2)
           /\ Calm => f.op \notin {"established", "remove", "destroyed"}
  <1>1. f.op # "established" /\ j.state # "connecting" /\ "in" \notin j.events
    BY DEF Due, Shut
  <1>2. ASSUME Calm
        PROVE  f.op \notin AppOps /\ f.op # "remove" /\ f.op # "destroyed"
    BY <1>2 DEF ConnOK, Due, Shut
  <1>3. ~Calm => ~NoShutdown
    BY DEF NoShutdown
  <1> QED BY <1>1, <1>2, <1>3 DEF Due

-----------------------------------------------------------------------------
(* Functors are queued. *)

\* The functors for write_complete_callback_.
Completes(q, c) == [i \in DOMAIN q |-> [op |-> q[i], conn |-> c]]

LEMMA CompletesFacts ==
    ASSUME NEW q \in Seq({"complete"}), NEW c \in Conns
    PROVE  /\ Completes(q, c) \in Seq(FunctorType)
           /\ \A i \in DOMAIN Completes(q, c) :
                 Completes(q, c)[i].op = "complete" /\ Completes(q, c)[i].conn = c
           /\ q = <<>> => Completes(q, c) = <<>>
  <1> DEFINE t == [i \in DOMAIN q |-> [op |-> q[i], conn |-> c]]
  <1>1. /\ Len(q) \in Nat /\ DOMAIN q = 1 .. Len(q)
        /\ \A i \in DOMAIN q : q[i] = "complete"
    OBVIOUS
  <1>2. \A i \in DOMAIN q : t[i] = [op |-> "complete", conn |-> c]
    BY <1>1
  <1>3. DOMAIN t = 1 .. Len(q) /\ t = [i \in 1 .. Len(q) |-> [op |-> "complete", conn |-> c]]
    BY <1>1
  <1>4. [op |-> "complete", conn |-> c] \in FunctorType
    BY DEF FunctorType
  <1>5. t \in Seq(FunctorType) /\ Len(t) = Len(q)
    BY <1>1, <1>3, <1>4, IsASeq
  <1>6. ASSUME q = <<>> PROVE t = <<>>
    BY <1>5, <1>6
  <1> QED BY <1>2, <1>3, <1>5, <1>6 DEF Completes

\* What the queues q hold more than p.
More(p, q, x, op, c) ==
    \A m \in Loops :
        /\ Range(p[m]) \subseteq Range(q[m])
        /\ \A f \in Range(q[m]) :
              f \in Range(p[m]) \/ (m = x /\ f.op = op /\ f.conn = c)

AllSole(p) == \A m \in Loops : Sole(p[m])

QueueAll(queues, l, t) == [queues EXCEPT ![l] = @ \o t]

LEMMA ManyQueued ==
    ASSUME NEW p \in Queues, NEW q, NEW b \in Queues, NEW r \in Counts,
           \A m \in Loops : r[m] <= Len(b[m]), NEW l \in Loops, NEW c \in Conns,
           NEW t \in Seq(FunctorType),
           \A i \in DOMAIN t : t[i].op = "complete" /\ t[i].conn = c,
           q = QueueAll(p, l, t),
           AllSole(Waiting(p, b, r))
    PROVE  /\ q \in Queues /\ Waiting(q, b, r) \in Queues
           /\ More(Waiting(p, b, r), Waiting(q, b, r), l, "complete", c)
           /\ AllSole(Waiting(q, b, r))
  <1> DEFINE W == Waiting(p, b, r)
             V == Waiting(q, b, r)
  <1>1. p[l] \in Seq(FunctorType) /\ p[l] \o t \in Seq(FunctorType)
    BY ConcatFacts DEF Queues
  <1>2. q \in Queues /\ q[l] = p[l] \o t /\ ElseSame(l, p, q)
    BY <1>1 DEF Queues, ElseSame, QueueAll
  <1>3. V[l] = W[l] \o t /\ ElseSame(l, W, V)
    BY ONLY <1>2, p \in Queues, b \in Queues, r \in Counts, l \in Loops,
            \A m \in Loops : r[m] <= Len(b[m]), t \in Seq(FunctorType), WaitingConcat, Zenon
  <1>4. W \in Queues /\ V \in Queues
    BY <1>2, WaitingType
  <1> HIDE DEF W, V
  <1>5. W[l] \in Seq(FunctorType) /\ \A i \in DOMAIN t : t[i].op \notin SoleOps
    BY <1>4 DEF Queues, SoleOps
  <1>6. /\ Range(V[l]) = Range(W[l]) \cup Range(t)
        /\ Sole(W[l]) => Sole(V[l])
    BY <1>3, <1>5, ConcatFacts
  <1>7. \A f \in Range(t) : f.op = "complete" /\ f.conn = c
    BY DEF Range
  <1>8. More(W, V, l, "complete", c)
    BY <1>3, <1>6, <1>7 DEF More, ElseSame
  <1>9. AllSole(W) => AllSole(V)
    BY <1>3, <1>6 DEF AllSole, ElseSame
  <1> QED BY <1>2, <1>4, <1>8, <1>9 DEF W, V

LEMMA OneQueued ==
    ASSUME NEW p \in Queues, NEW q, NEW b \in Queues, NEW r \in Counts,
           \A m \in Loops : r[m] <= Len(b[m]), NEW l \in Loops, NEW c \in Conns,
           NEW op, [op |-> op, conn |-> c] \in FunctorType,
           q = Queue(p, l, op, c),
           AllSole(Waiting(p, b, r)),
           op \in SoleOps => [op |-> op, conn |-> c] \notin Range(Waiting(p, b, r)[l])
    PROVE  /\ q \in Queues /\ Waiting(q, b, r) \in Queues
           /\ More(Waiting(p, b, r), Waiting(q, b, r), l, op, c)
           /\ [op |-> op, conn |-> c] \in Range(Waiting(q, b, r)[l])
           /\ AllSole(Waiting(q, b, r))
  <1> DEFINE W == Waiting(p, b, r)
             V == Waiting(q, b, r)
             g == [op |-> op, conn |-> c]
  <1>0. g.op = op /\ g.conn = c /\ g \in FunctorType
    OBVIOUS
  <1>1. q = [p EXCEPT ![l] = Append(@, g)]
    BY DEF Queue
  <1> HIDE DEF g
  <1>2. p[l] \in Seq(FunctorType) /\ Append(p[l], g) \in Seq(FunctorType)
    BY <1>0 DEF Queues
  <1>3. q \in Queues /\ q[l] = Append(p[l], g) /\ ElseSame(l, p, q)
    BY <1>1, <1>2 DEF Queues, ElseSame
  <1>4. V[l] = Append(W[l], g) /\ ElseSame(l, W, V)
    BY ONLY <1>0, <1>3, p \in Queues, b \in Queues, r \in Counts, l \in Loops,
            \A m \in Loops : r[m] <= Len(b[m]), WaitingAppend, Zenon
  <1>5. W \in Queues /\ V \in Queues
    BY <1>3, WaitingType
  <1> HIDE DEF W, V
  <1>6. W[l] \in Seq(FunctorType)
    BY <1>5 DEF Queues
  <1>7. /\ Range(V[l]) = Range(W[l]) \cup {g}
        /\ Sole(W[l]) /\ (g.op \in SoleOps => g \notin Range(W[l])) => Sole(V[l])
    BY <1>0, <1>4, <1>6, AppendFacts
  <1>8. More(W, V, l, op, c)
    BY <1>0, <1>4, <1>7 DEF More, ElseSame
  <1>9. AllSole(W) /\ (op \in SoleOps => g \notin Range(W[l])) => AllSole(V)
    BY <1>0, <1>4, <1>7 DEF AllSole, ElseSame
  <1> QED BY <1>3, <1>5, <1>7, <1>8, <1>9 DEF W, V, g

\* The functors of c that wait in W are due in its new state.
DueAt(c, W, k, home, known) ==
    \A m \in Loops : \A f \in Range(W[m]) :
        f.conn = c => RightLoop(f, m, home) /\ Due(f, k, known)

LEMMA GrowMany ==
    ASSUME ServerType, NEW l \in Loops, NEW c \in Conns, NEW q \in Seq({"complete"}),
           pending' = QueueAll(pending, l, Completes(q, c)),
           NEW r \in Counts, \A m \in Loops : r[m] <= Len(batch[m]),
           OnlyAt(c, conn, loopOf, connections, conn', loopOf', connections'),
           loopOf'[c] = l, conn'[c].state # "connecting",
           WorkOK(Waiting(pending, batch, r), conn, loopOf, connections),
           DueAt(c, Waiting(pending, batch, r), conn'[c], loopOf'[c], c \in connections')
    PROVE  /\ pending' \in Queues
           /\ More(Waiting(pending, batch, r), Waiting(pending', batch, r), l, "complete", c)
           /\ WorkOK(Waiting(pending', batch, r), conn', loopOf', connections')
  <1> DEFINE W == Waiting(pending, batch, r)
             V == Waiting(pending', batch, r)
             t == Completes(q, c)
  <1>1. t \in Seq(FunctorType) /\ \A i \in DOMAIN t : t[i].op = "complete" /\ t[i].conn = c
    BY CompletesFacts
  <1>2. pending' = QueueAll(pending, l, t)
    OBVIOUS
  <1> HIDE DEF t
  <1>3. pending \in Queues /\ batch \in Queues /\ AllSole(W)
    BY DEF ServerType, WorkOK, AllSole
  <1>4. /\ pending' \in Queues /\ V \in Queues
        /\ More(W, V, l, "complete", c) /\ AllSole(V)
    BY ONLY <1>1, <1>2, <1>3, l \in Loops, c \in Conns, r \in Counts,
            \A m \in Loops : r[m] <= Len(batch[m]), ManyQueued, Zenon
  <1>5. W \in Queues
    BY <1>3, WaitingType
  <1> HIDE DEF W, V
  <1>6. ASSUME NEW m \in Loops, NEW f \in Range(V[m])
        PROVE  \/ f.conn # c /\ f \in Range(W[m])
               \/ /\ f.conn = c /\ RightLoop(f, m, loopOf'[c])
                  /\ Due(f, conn'[c], c \in connections')
    <2>1. CASE f \in Range(W[m])
      BY <2>1 DEF DueAt, W
    <2>2. CASE m = l /\ f.op = "complete" /\ f.conn = c
      BY <2>2 DEF RightLoop, Due, AppOps
    <2> QED BY <1>4, <1>6, <2>1, <2>2 DEF More
  <1>7. WorkOK(V, conn', loopOf', connections')
    <2>1. \A m \in Loops : Sole(V[m])
      BY <1>4 DEF AllSole
    <2>2. WorkOK(W, conn, loopOf, connections)
      BY DEF W
    <2> QED BY ONLY <1>4, <1>5, <1>6, <2>1, <2>2, c \in Conns, WorkStep, Zenon,
                OnlyAt(c, conn, loopOf, connections, conn', loopOf', connections')
  <1> QED BY <1>4, <1>7 DEF W, V

LEMMA GrowOne ==
    ASSUME ServerType, NEW l \in Loops, NEW c \in Conns, NEW op,
           [op |-> op, conn |-> c] \in FunctorType,
           pending' = Queue(pending, l, op, c),
           NEW r \in Counts, \A m \in Loops : r[m] <= Len(batch[m]),
           OnlyAt(c, conn, loopOf, connections, conn', loopOf', connections'),
           WorkOK(Waiting(pending, batch, r), conn, loopOf, connections),
           DueAt(c, Waiting(pending, batch, r), conn'[c], loopOf'[c], c \in connections'),
           RightLoop([op |-> op, conn |-> c], l, loopOf'[c]),
           Due([op |-> op, conn |-> c], conn'[c], c \in connections'),
           op \in SoleOps =>
               [op |-> op, conn |-> c] \notin Range(Waiting(pending, batch, r)[l])
    PROVE  /\ pending' \in Queues
           /\ More(Waiting(pending, batch, r), Waiting(pending', batch, r), l, op, c)
           /\ [op |-> op, conn |-> c] \in Range(Waiting(pending', batch, r)[l])
           /\ WorkOK(Waiting(pending', batch, r), conn', loopOf', connections')
  <1> DEFINE W == Waiting(pending, batch, r)
             V == Waiting(pending', batch, r)
             g == [op |-> op, conn |-> c]
  <1>1. g.op = op /\ g.conn = c
    OBVIOUS
  <1>3. pending \in Queues /\ batch \in Queues /\ AllSole(W)
    BY DEF ServerType, WorkOK, AllSole
  <1>4. /\ pending' \in Queues /\ V \in Queues
        /\ More(W, V, l, op, c) /\ g \in Range(V[l]) /\ AllSole(V)
    <2>1. g \in FunctorType /\ (op \in SoleOps => g \notin Range(W[l]))
      OBVIOUS
    <2> QED
      BY ONLY <1>3, <2>1, l \in Loops, c \in Conns, r \in Counts, OneQueued, Zenon,
              pending' = Queue(pending, l, op, c), \A m \in Loops : r[m] <= Len(batch[m])
  <1>5. W \in Queues
    BY <1>3, WaitingType
  <1>6. ASSUME NEW m \in Loops, NEW f \in Range(V[m])
        PROVE  \/ f.conn # c /\ f \in Range(W[m])
               \/ /\ f.conn = c /\ RightLoop(f, m, loopOf'[c])
                  /\ Due(f, conn'[c], c \in connections')
    <2> HIDE DEF W, V
    <2>1. CASE f \in Range(W[m])
      BY <2>1 DEF DueAt, W
    <2>2. CASE m = l /\ f.op = op /\ f.conn = c
      <3>1. f \in FunctorType
        BY <1>4, <1>6, InQueue
      <3>2. f = g
        BY <2>2, <3>1, SameFunctor
      <3> HIDE DEF g
      <3> QED BY <1>1, <2>2, <3>2 DEF g
    <2> QED BY <1>4, <1>6, <2>1, <2>2 DEF More
  <1> HIDE DEF W, V
  <1>7. WorkOK(V, conn', loopOf', connections')
    <2>1. \A m \in Loops : Sole(V[m])
      BY <1>4 DEF AllSole
    <2>2. WorkOK(W, conn, loopOf, connections)
      BY DEF W
    <2> QED BY ONLY <1>4, <1>5, <1>6, <2>1, <2>2, c \in Conns, WorkStep, Zenon,
                OnlyAt(c, conn, loopOf, connections, conn', loopOf', connections')
  <1> QED BY <1>4, <1>7 DEF W, V

-----------------------------------------------------------------------------
(* The other parts of the invariant when only connection c changes. *)

Only(c) == OnlyAt(c, conn, loopOf, connections, conn', loopOf', connections')

LEMMA ConnStep ==
    ASSUME ConnInv, NEW c \in Conns, Only(c), ConnOK(conn'[c], c \in connections')
    PROVE  ConnInv'
  <1> SUFFICES ASSUME NEW d \in Conns PROVE ConnOK(conn'[d], d \in connections')
    BY DEF ConnInv, ConnOK
  <1>1. CASE d = c
    BY <1>1
  <1>2. CASE d # c
    <2>1. conn'[d] = conn[d] /\ (d \in connections' <=> d \in connections)
      BY <1>2 DEF Only, OnlyAt
    <2>2. ConnOK(conn[d], d \in connections)
      BY DEF ConnInv
    <2> QED BY <2>1, <2>2 DEF ConnOK
  <1> QED BY <1>1, <1>2

LEMMA ActiveStep ==
    ASSUME ServerType, ActiveInv, NEW c \in Conns, Only(c),
           \A l \in Loops : active'[l] \subseteq active[l],
           \A l \in Loops : \A a \in active'[l] : a.conn = c =>
               /\ loopOf'[c] = l
               /\ conn'[c].state \in {"connected", "disconnecting"}
               /\ Calm => "in" \in conn'[c].events
    PROVE  ActiveInv'
  <1> SUFFICES ASSUME NEW l \in Loops, NEW a \in active'[l]
               PROVE  /\ loopOf'[a.conn] = l
                      /\ conn'[a.conn].state \in {"connected", "disconnecting"}
                      /\ Calm => /\ "in" \in conn'[a.conn].events
                                 /\ \A b \in active'[l] : b.conn = a.conn => b = a
    BY DEF ActiveInv
  <1>1. a \in active[l] /\ a.conn \in Conns
    BY DEF ServerType, ActiveType
  <1>2. Calm => \A b \in active'[l] : b.conn = a.conn => b = a
    BY <1>1 DEF ActiveInv
  <1>3. CASE a.conn = c
    BY <1>2, <1>3
  <1>4. CASE a.conn # c
    <2>1. conn'[a.conn] = conn[a.conn] /\ loopOf'[a.conn] = loopOf[a.conn]
      BY <1>1, <1>4 DEF Only, OnlyAt
    <2> QED BY <1>1, <1>2, <2>1 DEF ActiveInv
  <1> QED BY <1>3, <1>4

LEMMA ForeignStep ==
    ASSUME ServerType, ForeignInv, NEW c \in Conns, Only(c), fpc' = fpc,
           held' \subseteq held \cup {c}, Calm => held' = held,
           conn[c].state # "connecting" \/ c \in held' => conn'[c].state # "connecting"
    PROVE  ForeignInv'
  <1>1. \A d \in held' : conn'[d].state # "connecting"
    <2> SUFFICES ASSUME NEW d \in held' PROVE conn'[d].state # "connecting"
      OBVIOUS
    <2>1. CASE d = c
      BY <2>1
    <2>2. CASE d # c
      BY <2>2 DEF ServerType, ForeignInv, Only, OnlyAt
    <2> QED BY <2>1, <2>2
  <1>2. ASSUME fpc # Idle
        PROVE  /\ fpc \in [op : {"setState", "send", "shutdown"}, conn : Conns]
               /\ conn'[fpc.conn].state # "connecting"
    <2>1. /\ fpc \in [op : {"setState", "send", "shutdown"}, conn : Conns]
          /\ conn[fpc.conn].state # "connecting" /\ fpc.conn \in Conns
      BY <1>2 DEF ForeignInv
    <2>2. CASE fpc.conn = c
      BY <2>1, <2>2
    <2>3. CASE fpc.conn # c
      BY <2>1, <2>3 DEF Only, OnlyAt
    <2> QED BY <2>1, <2>2, <2>3
  <1>3. Calm => fpc' = Idle /\ held' = {}
    BY DEF ForeignInv
  <1> QED BY <1>1, <1>2, <1>3 DEF ForeignInv, Idle

-----------------------------------------------------------------------------
(* Channel::handleEvent(). *)

\* What an active channel of loop l finds.
LEMMA ActiveFacts ==
    ASSUME SInv, NEW l \in Loops, NEW a \in active[l]
    PROVE  /\ a.conn \in Conns /\ loopOf[a.conn] = l /\ conn[a.conn] \in ConnType
           /\ conn[a.conn].state \in {"connected", "disconnecting"}
           /\ Calm => "in" \in conn[a.conn].events /\ a.conn \in connections
           /\ Calm => \A b \in active[l] : b.conn = a.conn => b = a
           /\ ConnOK(conn[a.conn], a.conn \in connections)
           /\ lpc[l] = "events" /\ batch[l] = <<>> /\ ran[l] = 0
           /\ ran \in Counts /\ \A m \in Loops : ran[m] <= Len(batch[m])
           /\ pending \in Queues /\ batch \in Queues
  <1>1. a.conn \in Conns
    BY DEF SInv, ServerType, ActiveType
  <1>2. ConnOK(conn[a.conn], a.conn \in connections)
    BY <1>1 DEF SInv, ConnInv
  <1>3. /\ loopOf[a.conn] = l /\ conn[a.conn].state \in {"connected", "disconnecting"}
        /\ Calm => "in" \in conn[a.conn].events
        /\ Calm => \A b \in active[l] : b.conn = a.conn => b = a
    BY DEF SInv, ActiveInv
  <1>4. Calm => a.conn \in connections
    BY <1>2, <1>3 DEF ConnOK
  <1>5. lpc[l] = "events" /\ batch[l] = <<>> /\ ran[l] = 0
    BY DEF SInv, RoundInv
  <1>6. /\ ran \in Counts /\ \A m \in Loops : ran[m] <= Len(batch[m])
        /\ pending \in Queues /\ batch \in Queues /\ conn[a.conn] \in ConnType
    BY <1>1 DEF SInv, RoundInv, ServerType
  <1> QED BY <1>1, <1>2, <1>3, <1>4, <1>5, <1>6

HandleRest(l, a) ==
    /\ active' = [active EXCEPT ![l] = @ \ {a}]
    /\ UNCHANGED <<loopOf, loops, next, lpc, accepting, batch, ran, foreignVars>>

\* What the step of an active channel leaves of the parts that do not depend on
\* the handler's outcome.
LEMMA HandleParts ==
    ASSUME SInv, NEW l \in Loops, NEW a \in active[l], HandleRest(l, a),
           conn' \in [Conns -> ConnType], connections' \in SUBSET Conns, pending' \in Queues
    PROVE  /\ ServerType' /\ RoundInv'
           /\ \A m \in Loops : active'[m] \subseteq active[m]
           /\ Calm => \A m \in Loops : \A b \in active'[m] : b.conn # a.conn
  <1>1. /\ active \in [Loops -> SUBSET ActiveType]
        /\ active' = [active EXCEPT ![l] = active[l] \ {a}]
    BY DEF SInv, ServerType, HandleRest
  <1>2. /\ active' \in [Loops -> SUBSET ActiveType]
        /\ \A m \in Loops : active'[m] \subseteq active[m]
        /\ active'[l] = active[l] \ {a}
    BY <1>1
  <1>3. ServerType'
    BY <1>2 DEF SInv, ServerType, HandleRest, foreignVars
  <1>4. RoundInv'
    BY <1>2 DEF SInv, RoundInv, HandleRest
  <1>5. ASSUME Calm, NEW m \in Loops, NEW b \in active'[m] PROVE b.conn # a.conn
    <2>1. b \in active[m] /\ loopOf[b.conn] = m /\ loopOf[a.conn] = l
      BY <1>2, <1>5, ActiveFacts
    <2>2. CASE m = l
      BY <1>2, <1>5, <2>1, <2>2, ActiveFacts
    <2> QED BY <2>1, <2>2
  <1> QED BY <1>2, <1>3, <1>4, <1>5

SetConn(c, k) == [conn EXCEPT ![c] = k]

LEMMA ApplyOpen ==
    ASSUME NEW l, NEW c, NEW o, o.closes = 0, Apply(l, c, o)
    PROVE  /\ conn' = SetConn(c, o.k) /\ connections' = connections
           /\ failed' = failed \cup o.bad
           /\ pending' = QueueAll(pending, l, Completes(o.q, c))
  <1>1. o.closes # 1
    OBVIOUS
  <1> QED BY <1>1, Zenon DEF Apply, SetConn, QueueAll, Completes

LEMMA OpenHandled ==
    ASSUME SInv, NEW l \in Loops, NEW a \in active[l], HandleRest(l, a),
           NEW o \in Outcomes, o.closes = 0, o.bad = {}, Handled(conn[a.conn], o.k),
           Apply(l, a.conn, o)
    PROVE  SInv'
  <1> DEFINE c == a.conn
             W == Waiting(pending, batch, ran)
             V == Waiting(pending', batch, ran)
  <1>1. /\ c \in Conns /\ loopOf[c] = l /\ conn[c] \in ConnType /\ o.k \in ConnType
        /\ conn[c].state \in {"connected", "disconnecting"}
        /\ Calm => "in" \in conn[c].events /\ c \in connections
        /\ ConnOK(conn[c], c \in connections)
        /\ ran \in Counts /\ \A m \in Loops : ran[m] <= Len(batch[m])
        /\ o.q \in Seq({"complete"})
    BY ActiveFacts DEF Outcomes
  <1>2. /\ conn' = SetConn(c, o.k) /\ connections' = connections
        /\ failed' = failed \cup o.bad
        /\ pending' = QueueAll(pending, l, Completes(o.q, c))
    BY ONLY Apply(l, a.conn, o), o.closes = 0, ApplyOpen, Zenon
  <1>3. /\ conn' \in [Conns -> ConnType] /\ conn'[c] = o.k /\ loopOf' = loopOf
        /\ batch' = batch /\ ran' = ran /\ failed' = failed
        /\ held' = held /\ fpc' = fpc
        /\ Only(c)
    BY <1>1, <1>2 DEF SInv, ServerType, Only, OnlyAt, HandleRest, foreignVars, SetConn
  <1> HIDE DEF c
  <1>4. /\ \A known \in BOOLEAN : ConnOK(conn[c], known) => ConnOK(o.k, known)
        /\ \A known \in BOOLEAN : \A f \in FunctorType :
              ConnOK(conn[c], known) /\ Due(f, conn[c], known) => Due(f, o.k, known)
    BY <1>1, ConnHandled, DueHandled DEF c
  <1>5. o.k.state \in {"connected", "disconnecting"}
    BY <1>1 DEF Handled, Keeps, c
  <1>6. ServerType /\ WorkOK(W, conn, loopOf, connections) /\ TornOK(W, conn, loopOf, connections)
    BY DEF SInv, Work
  <1>7. DueAt(c, W, conn'[c], loopOf'[c], c \in connections')
    <2> SUFFICES ASSUME NEW m \in Loops, NEW f \in Range(W[m]), f.conn = c
                 PROVE  RightLoop(f, m, loopOf[c]) /\ Due(f, o.k, c \in connections)
      BY <1>2, <1>3 DEF DueAt
    <2>1. RightLoop(f, m, loopOf[c]) /\ Due(f, conn[c], c \in connections)
      BY <1>6 DEF WorkOK
    <2>2. f \in FunctorType
      BY InQueue, WaitingType, ActiveFacts
    <2> DEFINE known == c \in connections
    <2>3. /\ known \in BOOLEAN /\ ConnOK(conn[c], known) /\ Due(f, conn[c], known)
      BY <1>1, <2>1
    <2> HIDE DEF known
    <2>4. Due(f, o.k, known)
      BY <1>4, <2>2, <2>3
    <2> QED BY <2>1, <2>4 DEF known
  <1>8. /\ pending' \in Queues /\ More(W, V, l, "complete", c)
        /\ WorkOK(V, conn', loopOf', connections')
    <2>1. conn'[c].state # "connecting" /\ loopOf'[c] = l
      BY <1>1, <1>3, <1>5
    <2>2. OnlyAt(c, conn, loopOf, connections, conn', loopOf', connections')
      BY <1>3 DEF Only
    <2> QED BY ONLY <1>1, <1>2, <1>6, <1>7, <2>1, <2>2, l \in Loops, GrowMany, Zenon
  <1>9. TornOK(V, conn', loopOf', connections')
    <2>1. DestroyedStay(c, W, V)
      BY <1>8 DEF More, DestroyedStay
    <2>2. Calm => TornAt(c, V, conn', loopOf', connections')
      BY <1>1, <1>2 DEF TornAt
    <2>3. loopOf \in [Conns -> Loops] /\ OnlyAt(c, conn, loopOf, connections, conn', loopOf', connections')
      BY <1>3 DEF Only, SInv, ServerType
    <2>4. c \in Conns /\ TornOK(W, conn, loopOf, connections)
      BY <1>1, <1>6
    <2> HIDE DEF W, V
    <2> QED BY ONLY <2>1, <2>2, <2>3, <2>4, TornStep, Zenon
  <1>10. /\ ServerType' /\ RoundInv'
         /\ \A m \in Loops : active'[m] \subseteq active[m]
         /\ Calm => \A m \in Loops : \A b \in active'[m] : b.conn # c
    <2>1. connections' \in SUBSET Conns
      BY <1>2 DEF SInv, ServerType
    <2> QED BY <1>3, <1>8, <2>1, HandleParts DEF c
  <1>11. ConnInv'
    <2> DEFINE known == c \in connections
    <2>1. known \in BOOLEAN /\ ConnOK(conn[c], known)
      BY <1>1
    <2> HIDE DEF known
    <2>2. ConnOK(o.k, known)
      BY <1>4, <2>1
    <2>3. ConnOK(o.k, c \in connections)
      BY <2>2 DEF known
    <2> QED BY <1>1, <1>2, <1>3, <2>3, ConnStep DEF SInv
  <1>12. ActiveInv'
    <2>1. ASSUME NEW m \in Loops, NEW b \in active'[m], b.conn = c
          PROVE  loopOf'[c] = m /\ conn'[c].state \in {"connected", "disconnecting"} /\ ~Calm
      BY <1>3, <1>5, <1>10, <2>1, ActiveFacts
    <2> QED BY <1>1, <1>3, <1>10, <2>1, ActiveStep DEF SInv
  <1>13. ForeignInv'
    <2>1. conn'[c].state # "connecting"
      BY <1>3, <1>5
    <2> QED BY <1>1, <1>3, <2>1, ForeignStep DEF SInv
  <1>14. FailedInv'
    BY <1>3 DEF SInv, FailedInv
  <1>15. Work' = V
    BY <1>3 DEF Work, Waiting
  <1> QED BY <1>8, <1>9, <1>10, <1>11, <1>12, <1>13, <1>14, <1>15 DEF SInv

\* close_callback_: what handleClose() on loop l queues, and where connections_
\* stands after it.
CloseOp(l) == IF l = Base THEN "destroyed" ELSE "remove"

Known(l, c) == IF l = Base THEN connections \ {c} ELSE connections

LEMMA ApplyShut ==
    ASSUME NEW l \in Loops, NEW c \in Conns, NEW o \in Outcomes, o.closes = 1, o.q = <<>>,
           o.bad = {}, pending \in Queues, loopOf[c] = l, Apply(l, c, o)
    PROVE  /\ conn' = SetConn(c, o.k)
           /\ connections' = Known(l, c)
           /\ pending' = Queue(pending, Base, CloseOp(l), c)
           /\ failed' \subseteq failed \cup {"removeConnection"}
           /\ c \in connections => failed' = failed
  <1>1. QueueAll(pending, l, Completes(o.q, c)) = pending
    <2>1. Completes(o.q, c) = <<>>
      BY CompletesFacts DEF Outcomes
    <2>2. pending[l] \in Seq(FunctorType)
      BY DEF Queues
    <2>3. pending[l] \o <<>> = pending[l]
      BY <2>2
    <2> QED BY <2>1, <2>3 DEF QueueAll, Queues
  <1> DEFINE own == [pending EXCEPT
                        ![l] = @ \o [i \in DOMAIN o.q |-> [op |-> o.q[i], conn |-> c]]]
  <1>2. own = pending
    BY <1>1 DEF QueueAll, Completes
  <1>3. /\ conn' = SetConn(c, o.k)
        /\ \/ l = Base /\ RemoveConnectionInLoop(c, own, o.bad)
           \/ /\ l # Base
              /\ pending' = Queue(own, Base, "remove", c)
              /\ failed' = failed \cup o.bad
              /\ UNCHANGED connections
    <2>1. o.closes # 0
      OBVIOUS
    <2> QED BY ONLY Apply(l, c, o), <2>1, Zenon DEF Apply, SetConn
  <1> HIDE DEF own
  <1>4. CASE l = Base /\ RemoveConnectionInLoop(c, own, o.bad)
    BY <1>2, <1>3, <1>4 DEF RemoveConnectionInLoop, CloseOp, Known
  <1>5. CASE l # Base
    BY <1>2, <1>3, <1>5 DEF CloseOp, Known
  <1> QED BY <1>3, <1>4, <1>5

LEMMA ShutHandled ==
    ASSUME SInv, NEW l \in Loops, NEW a \in active[l], HandleRest(l, a),
           NEW o \in Outcomes, o.closes = 1, o.q = <<>>, o.bad = {},
           Shut(conn[a.conn], o.k), Apply(l, a.conn, o)
    PROVE  SInv'
  <1> DEFINE c == a.conn
             W == Waiting(pending, batch, ran)
             V == Waiting(pending', batch, ran)
             g == [op |-> CloseOp(l), conn |-> c]
  <1>1. /\ c \in Conns /\ loopOf[c] = l /\ conn[c] \in ConnType /\ o.k \in ConnType
        /\ conn[c].state \in {"connected", "disconnecting"}
        /\ Calm => "in" \in conn[c].events /\ c \in connections
        /\ ConnOK(conn[c], c \in connections)
        /\ ran \in Counts /\ \A m \in Loops : ran[m] <= Len(batch[m])
        /\ pending \in Queues
    BY ActiveFacts DEF Outcomes
  <1>2. /\ conn' = SetConn(c, o.k) /\ connections' = Known(l, c)
        /\ pending' = Queue(pending, Base, CloseOp(l), c)
        /\ failed' \subseteq failed \cup {"removeConnection"}
        /\ c \in connections => failed' = failed
    BY <1>1, ApplyShut
  <1>3. /\ conn' \in [Conns -> ConnType] /\ conn'[c] = o.k /\ loopOf' = loopOf
        /\ batch' = batch /\ ran' = ran
        /\ held' = held /\ fpc' = fpc
        /\ connections' \in SUBSET Conns
        /\ Only(c)
    <2>1. conn' \in [Conns -> ConnType] /\ conn'[c] = o.k
      BY <1>1, <1>2 DEF SInv, ServerType, SetConn
    <2>2. \A d \in Conns : d # c => conn'[d] = conn[d]
      BY <1>1, <1>2 DEF SInv, ServerType, SetConn
    <2>3. /\ connections' \in SUBSET Conns
          /\ \A d \in Conns : d # c => (d \in connections' <=> d \in connections)
      BY <1>2 DEF SInv, ServerType, Known
    <2>4. loopOf' = loopOf /\ batch' = batch /\ ran' = ran /\ held' = held /\ fpc' = fpc
      BY DEF HandleRest, foreignVars
    <2> QED BY <2>1, <2>2, <2>3, <2>4 DEF Only, OnlyAt
  <1> DEFINE known == c \in connections
             known2 == c \in connections'
  <1>4. /\ known \in BOOLEAN /\ known2 \in BOOLEAN /\ (known2 => known)
        /\ l = Base => ~known2
        /\ l # Base => known2 = known
        /\ ConnOK(conn[c], known)
    BY <1>1, <1>2 DEF Known
  <1>5. ServerType /\ WorkOK(W, conn, loopOf, connections) /\ TornOK(W, conn, loopOf, connections)
    BY DEF SInv, Work
  <1>6. g.op = CloseOp(l) /\ g.conn = c /\ g \in FunctorType
    BY <1>1 DEF CloseOp, FunctorType
  <1> HIDE DEF c, known, known2, g
  <1>7. ConnOK(o.k, known2)
    BY <1>1, <1>4, ConnShut DEF c
  <1>8. ASSUME NEW m \in Loops, NEW f \in Range(W[m]), f.conn = c
        PROVE  /\ RightLoop(f, m, loopOf[c]) /\ Due(f, o.k, known2)
               /\ Calm => f.op \notin {"established", "remove", "destroyed"}
    <2>1. RightLoop(f, m, loopOf[c]) /\ Due(f, conn[c], known)
      BY <1>5, <1>8 DEF WorkOK, known
    <2>2. f \in FunctorType
      BY <1>8, InQueue, WaitingType, ActiveFacts
    <2> QED BY <1>1, <1>4, <2>1, <2>2, DueShut DEF c
  <1>9. RightLoop(g, Base, loopOf[c]) /\ Due(g, o.k, known2)
    <2>1. RightLoop(g, Base, loopOf[c])
      BY <1>1, <1>6 DEF RightLoop, CloseOp
    <2>2. /\ o.k.events = {} /\ o.k.state \in {"connected", "disconnecting"}
          /\ NoShutdown => o.k.state = "connected"
      BY <1>7 DEF Shut, ConnOK, c
    <2>3. /\ Calm => l = Base \/ known2
          /\ g.op \in {"destroyed", "remove"} /\ (g.op = "destroyed" <=> l = Base)
      BY <1>1, <1>4, <1>6 DEF CloseOp, known
    <2>4. Due(g, o.k, known2)
      BY <1>4, <2>2, <2>3 DEF Due, AppOps
    <2> QED BY <2>1, <2>4
  <1>10. CloseOp(l) \in SoleOps => g \notin Range(W[Base])
    <2>1. Base \in Loops
      BY DEF Loops
    <2>2. CASE Calm
      BY <1>6, <1>8, <2>1, <2>2 DEF CloseOp
    <2>3. CASE ~Calm
      BY <2>3 DEF SoleOps, CloseOp
    <2> QED BY <2>2, <2>3
  <1>11. /\ pending' \in Queues /\ More(W, V, Base, CloseOp(l), c) /\ g \in Range(V[Base])
         /\ WorkOK(V, conn', loopOf', connections')
    <2>1. DueAt(c, W, conn'[c], loopOf'[c], c \in connections')
      BY <1>3, <1>8 DEF DueAt, known2
    <2>2. /\ RightLoop(g, Base, loopOf'[c]) /\ Due(g, conn'[c], c \in connections')
          /\ OnlyAt(c, conn, loopOf, connections, conn', loopOf', connections')
          /\ Base \in Loops
      BY <1>3, <1>9 DEF Only, known2, Loops
    <2>3. /\ c \in Conns /\ ran \in Counts /\ \A m \in Loops : ran[m] <= Len(batch[m])
          /\ pending' = Queue(pending, Base, CloseOp(l), c) /\ g \in FunctorType
      BY <1>1, <1>2, <1>6
    <2> QED BY ONLY <1>5, <1>10, <2>1, <2>2, <2>3, GrowOne, Zenon DEF g
  <1>12. TornOK(V, conn', loopOf', connections')
    <2>1. DestroyedStay(c, W, V)
      BY <1>11 DEF More, DestroyedStay
    <2>2. Calm => TornAt(c, V, conn', loopOf', connections')
      <3>1. CASE l = Base
        BY <1>1, <1>3, <1>6, <1>11, <3>1 DEF TornAt, g, CloseOp
      <3>2. CASE l # Base
        BY <1>1, <1>4, <3>2 DEF TornAt, known, known2
      <3> QED BY <3>1, <3>2
    <2>3. loopOf \in [Conns -> Loops] /\ OnlyAt(c, conn, loopOf, connections, conn', loopOf', connections')
      BY <1>3 DEF Only, SInv, ServerType
    <2>4. c \in Conns /\ TornOK(W, conn, loopOf, connections)
      BY <1>1, <1>5
    <2> HIDE DEF W, V
    <2> QED BY ONLY <2>1, <2>2, <2>3, <2>4, TornStep, Zenon
  <1>13. /\ ServerType' /\ RoundInv'
         /\ \A m \in Loops : active'[m] \subseteq active[m]
         /\ Calm => \A m \in Loops : \A b \in active'[m] : b.conn # c
    BY <1>3, <1>11, HandleParts DEF c
  <1>14. ConnInv'
    <2>1. ConnOK(conn'[c], c \in connections')
      BY <1>3, <1>7 DEF known2
    <2> QED BY <1>1, <1>3, <2>1, ConnStep DEF SInv
  <1>15. conn'[c].state \in {"connected", "disconnecting"}
    BY <1>3 DEF Shut, c
  <1>16. ActiveInv'
    <2>1. ASSUME NEW m \in Loops, NEW b \in active'[m], b.conn = c
          PROVE  loopOf'[c] = m /\ conn'[c].state \in {"connected", "disconnecting"} /\ ~Calm
      BY <1>3, <1>13, <1>15, <2>1, ActiveFacts
    <2> QED BY <1>1, <1>3, <1>13, <2>1, ActiveStep DEF SInv
  <1>17. ForeignInv'
    BY <1>1, <1>3, <1>15, ForeignStep DEF SInv
  <1>18. FailedInv'
    BY <1>1, <1>2 DEF SInv, FailedInv
  <1>19. Work' = V
    BY <1>3 DEF Work, Waiting
  <1> QED BY <1>11, <1>12, <1>13, <1>14, <1>16, <1>17, <1>18, <1>19 DEF SInv

LEMMA HandleActiveStep == ASSUME SInv, NEW l \in Loops, HandleActive(l) PROVE SInv'
  <1>1. PICK a \in active[l] :
            /\ HandleRest(l, a)
            /\ \/ \E o \in HandleEvent(a.rev, Outcome(conn[a.conn])) : Apply(l, a.conn, o)
               \/ UNCHANGED <<conn, connections, pending, failed>>
    BY DEF HandleActive, HandleRest
  <1>2. ASSUME NEW o \in HandleEvent(a.rev, Outcome(conn[a.conn])), Apply(l, a.conn, o)
        PROVE  SInv'
    <2> DEFINE k == conn[a.conn]
    <2>1. /\ k \in ConnType /\ k.state \in {"connected", "disconnecting"}
          /\ Calm => "in" \in k.events
      BY ActiveFacts
    <2>2. /\ Outcome(k) \in Outcomes /\ Outcome(k).k = k
          /\ Outcome(k).q = <<>> /\ Outcome(k).closes = 0 /\ Outcome(k).bad = {}
      BY <2>1, OutcomeFacts
    <2>3. EventKeeps(Outcome(k), o)
      BY <1>2, <2>1, <2>2, EventFollows
    <2>4. NoShutdown => o.k.state = k.state
      BY <2>2, <2>3 DEF NoShutdown, EventKeeps
    <2>5. CASE Follows(Outcome(k), o)
      <3>1. o \in Outcomes /\ o.closes = 0 /\ o.bad = {} /\ Handled(k, o.k)
        BY <2>1, <2>2, <2>4, <2>5 DEF Follows, Handled
      <3> QED BY <1>1, <1>2, <3>1, OpenHandled
    <2>6. CASE Closes(Outcome(k), o)
      <3>1. o \in Outcomes /\ o.closes = 1 /\ o.bad = {} /\ o.q = <<>> /\ Shut(k, o.k)
        BY <2>1, <2>2, <2>6 DEF Closes, Shut
      <3> QED BY <1>1, <1>2, <3>1, ShutHandled
    <2> QED BY <2>3, <2>5, <2>6 DEF EventKeeps
  <1>3. CASE UNCHANGED <<conn, connections, pending, failed>>
    <2>1. /\ conn' = conn /\ connections' = connections /\ pending' = pending
          /\ failed' = failed /\ loopOf' = loopOf /\ batch' = batch /\ ran' = ran
          /\ held' = held /\ fpc' = fpc
      BY <1>1, <1>3 DEF HandleRest, foreignVars
    <2>2. a.conn \in Conns /\ Only(a.conn)
      BY <2>1, ActiveFacts DEF Only, OnlyAt
    <2>3. conn \in [Conns -> ConnType] /\ connections \in SUBSET Conns /\ pending \in Queues
      BY DEF SInv, ServerType
    <2>4. ServerType' /\ RoundInv' /\ \A m \in Loops : active'[m] \subseteq active[m]
      BY <1>1, <2>1, <2>3, HandleParts
    <2>5. ActiveInv'
      BY <2>1, <2>2, <2>4, ActiveStep DEF SInv, ActiveInv
    <2>6. ConnInv' /\ ForeignInv' /\ FailedInv'
      BY <2>1 DEF SInv, ConnInv, ForeignInv, FailedInv, Idle
    <2>7. Work' = Work
      BY <2>1 DEF Work, Waiting
    <2>8. /\ WorkOK(Work', conn', loopOf', connections')
          /\ TornOK(Work', conn', loopOf', connections')
      BY <2>1, <2>7 DEF SInv
    <2> QED BY <2>4, <2>5, <2>6, <2>8 DEF SInv
  <1> QED BY <1>1, <1>2, <1>3

-----------------------------------------------------------------------------
(* doPendingFunctors(): a functor is called. *)

LEMMA RunFacts ==
    ASSUME SInv, NEW l \in Loops, RunRest(l), NEW c, c = Called(l).conn
    PROVE  /\ c \in Conns /\ conn[c] \in ConnType /\ ConnOK(conn[c], c \in connections)
           /\ Called(l) \in FunctorType
           /\ RightLoop(Called(l), l, loopOf[c])
           /\ Due(Called(l), conn[c], c \in connections)
           /\ ran' \in Counts /\ \A m \in Loops : ran'[m] <= Len(batch[m])
           /\ After \in Queues
           /\ WorkOK(After, conn, loopOf, connections)
           /\ Called(l).op # "destroyed" => TornOK(After, conn, loopOf, connections)
           /\ Called(l).op \in SoleOps => Called(l) \notin Range(After[l])
           /\ \A m \in Loops : \A g \in Range(Work[m]) : g # Called(l) => g \in Range(After[m])
           /\ \A m \in Loops : \A a \in active[m] : a.conn = c => m # l /\ m = loopOf[c]
  <1> DEFINE f == Called(l)
  <1>1. /\ ran' \in Counts /\ \A m \in Loops : ran'[m] <= Len(batch[m])
        /\ After \in Queues /\ f \in FunctorType
        /\ RightLoop(f, l, loopOf[f.conn])
        /\ Due(f, conn[f.conn], f.conn \in connections)
        /\ WorkOK(After, conn, loopOf, connections)
        /\ f.op # "destroyed" => TornOK(After, conn, loopOf, connections)
        /\ f.op \in SoleOps => f \notin Range(After[l])
        /\ \A m \in Loops : \A g \in Range(Work[m]) : g # f => g \in Range(After[m])
    BY CalledWork
  <1>2. c \in Conns
    BY <1>1 DEF FunctorType
  <1>3. conn[c] \in ConnType /\ ConnOK(conn[c], c \in connections)
    BY <1>2 DEF SInv, ServerType, ConnInv
  <1>4. ASSUME NEW m \in Loops, NEW a \in active[m], a.conn = c PROVE m # l /\ m = loopOf[c]
    BY <1>4 DEF SInv, ActiveInv, RoundInv, RunRest
  <1> QED BY <1>1, <1>2, <1>3, <1>4

LEMMA RunParts ==
    ASSUME SInv, NEW l \in Loops, RunRest(l), conn' \in [Conns -> ConnType],
           connections' \in SUBSET Conns, pending' \in Queues, held' \in SUBSET Conns
    PROVE  ServerType' /\ RoundInv' /\ Work' = Waiting(pending', batch, ran')
  <1>1. ran' \in Counts /\ \A m \in Loops : ran'[m] <= Len(batch[m])
    BY RunFacts
  <1>2. ServerType'
    BY <1>1 DEF SInv, ServerType, RunRest
  <1>3. RoundInv'
    <2> SUFFICES ASSUME NEW m \in Loops
                 PROVE  /\ lpc[m] # "functors" => batch[m] = <<>> /\ ran'[m] = 0
                        /\ ran'[m] <= Len(batch[m])
                        /\ lpc[m] # "events" => active[m] = {}
      BY DEF RunRest, RoundInv
    <2>1. m # l => ran'[m] = ran[m]
      BY DEF RunRest, SInv, ServerType, Counts
    <2> QED BY <1>1, <2>1 DEF SInv, RoundInv, RunRest
  <1>4. batch' = batch
    BY DEF RunRest
  <1>5. Work' = Waiting(pending', batch, ran')
    BY <1>4 DEF Work, Waiting
  <1> QED BY <1>2, <1>3, <1>5

\* removeConnectionInLoop().
LEMMA RunRemove ==
    ASSUME SInv, NEW l \in Loops, RunRest(l), Called(l).op = "remove",
           RemoveConnectionInLoop(Called(l).conn, pending, {}), UNCHANGED <<conn, held>>
    PROVE  SInv'
  <1> DEFINE f == Called(l)
             c == f.conn
             V == Waiting(pending', batch, ran')
             g == [op |-> "destroyed", conn |-> c]
  <1>1. /\ c \in Conns /\ conn[c] \in ConnType /\ ConnOK(conn[c], c \in connections)
        /\ f \in FunctorType /\ RightLoop(f, l, loopOf[c])
        /\ Due(f, conn[c], c \in connections)
        /\ ran' \in Counts /\ \A m \in Loops : ran'[m] <= Len(batch[m])
        /\ After \in Queues
        /\ WorkOK(After, conn, loopOf, connections)
        /\ TornOK(After, conn, loopOf, connections)
        /\ f.op \in SoleOps => f \notin Range(After[l])
        /\ f.op = "remove"
    BY RunFacts
  <1> HIDE DEF f
  <1>2. /\ connections' = connections \ {c}
        /\ failed' = failed \cup (IF c \in connections THEN {} ELSE {"removeConnection"})
        /\ pending' = Queue(pending, loopOf[c], "destroyed", c)
        /\ conn' = conn /\ held' = held /\ fpc' = fpc /\ loopOf' = loopOf
        /\ active' = active
    BY DEF RemoveConnectionInLoop, f, RunRest
  <1>3. /\ Only(c) /\ loopOf[c] \in Loops /\ loopOf \in [Conns -> Loops]
        /\ conn \in [Conns -> ConnType] /\ ServerType
        /\ connections' \in SUBSET Conns /\ c \notin connections' /\ held' \in SUBSET Conns
    BY <1>1, <1>2 DEF Only, OnlyAt, SInv, ServerType
  <1>4. /\ conn[c].state # "connecting" /\ "in" \notin conn[c].events
        /\ Calm => c \in connections /\ conn[c].events = {}
        /\ NoShutdown => conn[c].state = "connected"
    <2>1. conn[c].state # "connecting" /\ "in" \notin conn[c].events
      BY <1>1 DEF Due
    <2>2. Calm => c \in connections /\ conn[c].events = {}
      BY <1>1, <2>1 DEF Due, ConnOK
    <2>3. NoShutdown => conn[c].state # "disconnecting" /\ conn[c].state # "disconnected"
      BY <1>1, <2>2 DEF ConnOK, NoShutdown
    <2> QED BY <1>1, <2>1, <2>2, <2>3 DEF ConnType
  <1>5. ASSUME NEW m \in Loops, NEW h \in Range(After[m]), h.conn = c
        PROVE  /\ RightLoop(h, m, loopOf[c])
               /\ Due(h, conn[c], FALSE)
               /\ Calm => h.op # "destroyed"
    <2>1. RightLoop(h, m, loopOf[c]) /\ Due(h, conn[c], c \in connections)
      BY <1>1, <1>5 DEF WorkOK
    <2>2. h \in FunctorType
      BY <1>1, <1>5, InQueue
    <2>3. Calm => h.op # "destroyed"
      BY <1>4, <2>1 DEF Due
    <2>4. ASSUME Calm PROVE h.op # "remove"
      <3>1. SUFFICES ASSUME h.op = "remove" PROVE FALSE
        OBVIOUS
      <3>2. h = f
        BY <1>1, <1>5, <2>2, <3>1, SameFunctor
      <3>3. m = l
        BY <1>1, <2>1, <3>1 DEF RightLoop
      <3>4. f.op \in SoleOps
        BY <1>1, <2>4 DEF SoleOps
      <3> QED BY <1>1, <1>5, <3>2, <3>3, <3>4
    <2>5. Due(h, conn[c], FALSE)
      BY <2>1, <2>3, <2>4 DEF Due, NoShutdown
    <2> QED BY <2>1, <2>3, <2>5
  <1>6. g.op = "destroyed" /\ g.conn = c /\ g \in FunctorType
    BY <1>1 DEF FunctorType
  <1> HIDE DEF c, g
  <1>7. RightLoop(g, loopOf[c], loopOf[c]) /\ Due(g, conn[c], FALSE)
    BY <1>4, <1>6 DEF RightLoop, Due, AppOps
  <1>8. "destroyed" \in SoleOps => g \notin Range(After[loopOf[c]])
    <2>1. CASE Calm
      BY <1>3, <1>5, <1>6, <2>1
    <2>2. CASE ~Calm
      BY <2>2 DEF SoleOps
    <2> QED BY <2>1, <2>2
  <1>9. /\ pending' \in Queues /\ More(After, V, loopOf[c], "destroyed", c)
        /\ g \in Range(V[loopOf[c]])
        /\ WorkOK(V, conn', loopOf', connections')
    <2> DEFINE known2 == c \in connections'
    <2>0. known2 = FALSE
      BY <1>3
    <2> HIDE DEF known2
    <2>1. DueAt(c, After, conn'[c], loopOf'[c], known2)
      BY <1>2, <1>5, <2>0 DEF DueAt
    <2>2. RightLoop(g, loopOf[c], loopOf'[c]) /\ Due(g, conn'[c], known2)
      BY <1>2, <1>7, <2>0
    <2>3. /\ c \in Conns /\ ran' \in Counts /\ \A m \in Loops : ran'[m] <= Len(batch[m])
          /\ pending' = Queue(pending, loopOf[c], "destroyed", c) /\ g \in FunctorType
          /\ OnlyAt(c, conn, loopOf, connections, conn', loopOf', connections')
          /\ WorkOK(After, conn, loopOf, connections)
      BY <1>1, <1>2, <1>3, <1>6 DEF Only, c
    <2> QED BY ONLY <1>3, <1>8, <2>1, <2>2, <2>3, GrowOne, Zenon DEF g, After, known2
  <1>10. TornOK(V, conn', loopOf', connections')
    <2>1. DestroyedStay(c, After, V)
      BY <1>9 DEF More, DestroyedStay
    <2>2. Calm => TornAt(c, V, conn', loopOf', connections')
      BY <1>2, <1>9 DEF TornAt, g
    <2>3. /\ loopOf \in [Conns -> Loops] /\ c \in Conns
          /\ OnlyAt(c, conn, loopOf, connections, conn', loopOf', connections')
          /\ TornOK(After, conn, loopOf, connections)
      BY <1>1, <1>3 DEF Only, c
    <2> HIDE DEF V
    <2> QED BY ONLY <2>1, <2>2, <2>3, TornStep, Zenon
  <1>11. ServerType' /\ RoundInv' /\ Work' = V
    BY <1>2, <1>3, <1>9, RunParts
  <1>12. ConnInv'
    <2>1. ConnOK(conn[c], FALSE)
      BY <1>1, <1>4 DEF ConnOK, c
    <2>2. ConnOK(conn'[c], c \in connections')
      BY <1>2, <1>3, <2>1 DEF ConnOK
    <2>3. c \in Conns
      BY <1>1 DEF c
    <2> QED BY <1>3, <2>2, <2>3, ConnStep DEF SInv
  <1>13. ActiveInv' /\ ForeignInv'
    BY <1>2 DEF SInv, ActiveInv, ForeignInv, Idle
  <1>14. FailedInv'
    BY <1>2, <1>4 DEF SInv, FailedInv
  <1> QED BY <1>9, <1>10, <1>11, <1>12, <1>13, <1>14 DEF SInv

\* The functor is one for the connection, whose outcome o is as it should be.
LEMMA RunOpen ==
    ASSUME SInv, NEW l \in Loops, RunRest(l), Called(l).op # "remove",
           NEW c, c = Called(l).conn,
           NEW o \in Outcomes, o.closes = 0, o.bad = {}, Apply(l, c, o),
           o.k.state # "connecting", ConnOK(o.k, c \in connections),
           DueAt(c, After, o.k, loopOf[c], c \in connections),
           Calm => \/ c \in connections
                   \/ o.k.status = "new" /\ (NoShutdown => o.k.downs = 1)
                   \/ [op |-> "destroyed", conn |-> c] \in Range(After[l]),
           held' = held \/ (~Calm /\ held' = held \cup {c})
    PROVE  SInv'
  <1> DEFINE V == Waiting(pending', batch, ran')
  <1>1. /\ c \in Conns
        /\ RightLoop(Called(l), l, loopOf[c])
        /\ ran' \in Counts /\ \A m \in Loops : ran'[m] <= Len(batch[m])
        /\ WorkOK(After, conn, loopOf, connections)
        /\ \A m \in Loops : \A g \in Range(Work[m]) : g # Called(l) => g \in Range(After[m])
        /\ \A m \in Loops : \A a \in active[m] : a.conn = c => m # l /\ m = loopOf[c]
    BY ONLY SInv, l \in Loops, RunRest(l), c = Called(l).conn, RunFacts
  <1>2. l = loopOf[c]
    BY <1>1 DEF RightLoop
  <1>3. /\ conn' = SetConn(c, o.k) /\ connections' = connections
        /\ failed' = failed \cup o.bad
        /\ pending' = QueueAll(pending, l, Completes(o.q, c))
    BY ONLY Apply(l, c, o), o.closes = 0, ApplyOpen, Zenon
  <1>4. /\ conn' \in [Conns -> ConnType] /\ conn'[c] = o.k /\ loopOf' = loopOf
        /\ failed' = failed /\ fpc' = fpc /\ active' = active
        /\ Only(c) /\ o.q \in Seq({"complete"})
        /\ connections' \in SUBSET Conns /\ held' \in SUBSET Conns
    BY <1>1, <1>3 DEF SInv, ServerType, Only, OnlyAt, RunRest, SetConn, Outcomes
  <1>5. /\ pending' \in Queues /\ More(After, V, l, "complete", c)
        /\ WorkOK(V, conn', loopOf', connections')
    <2>1. /\ conn'[c].state # "connecting" /\ loopOf'[c] = l /\ ServerType
          /\ OnlyAt(c, conn, loopOf, connections, conn', loopOf', connections')
          /\ DueAt(c, After, conn'[c], loopOf'[c], c \in connections')
      BY <1>2, <1>3, <1>4 DEF Only, SInv
    <2>2. /\ c \in Conns /\ ran' \in Counts /\ \A m \in Loops : ran'[m] <= Len(batch[m])
          /\ WorkOK(After, conn, loopOf, connections) /\ o.q \in Seq({"complete"})
          /\ pending' = QueueAll(pending, l, Completes(o.q, c))
      BY <1>1, <1>3, <1>4
    <2> QED BY ONLY <2>1, <2>2, l \in Loops, GrowMany, Zenon DEF After
  <1>6. TornOK(V, conn', loopOf', connections')
    <2>1. DestroyedStay(c, Work, V)
      BY <1>1, <1>5 DEF More, DestroyedStay
    <2>2. Calm => TornAt(c, V, conn', loopOf', connections')
      BY <1>2, <1>3, <1>4, <1>5 DEF TornAt, More
    <2>3. /\ loopOf \in [Conns -> Loops] /\ c \in Conns
          /\ OnlyAt(c, conn, loopOf, connections, conn', loopOf', connections')
          /\ TornOK(Work, conn, loopOf, connections)
      BY <1>1, <1>4 DEF Only, SInv, ServerType
    <2> HIDE DEF V
    <2> QED BY ONLY <2>1, <2>2, <2>3, TornStep, Zenon
  <1>7. ServerType' /\ RoundInv' /\ Work' = V
    BY <1>4, <1>5, RunParts
  <1>8. ConnInv'
    BY <1>1, <1>3, <1>4, ConnStep DEF SInv
  <1>9. ActiveInv'
    <2>1. \A m \in Loops : \A a \in active'[m] : a.conn # c
      BY <1>1, <1>2, <1>4
    <2> QED BY <1>1, <1>4, <2>1, ActiveStep DEF SInv
  <1>10. ForeignInv'
    <2>1. held' \subseteq held \cup {c} /\ (Calm => held' = held)
      OBVIOUS
    <2> QED BY <1>1, <1>4, <2>1, ForeignStep DEF SInv
  <1>11. FailedInv'
    BY <1>4 DEF SInv, FailedInv
  <1> QED BY <1>5, <1>6, <1>7, <1>8, <1>9, <1>10, <1>11 DEF SInv

\* The other functors of the connection, when the one called is of its kind sole.
LEMMA NoOther ==
    ASSUME SInv, NEW l \in Loops, RunRest(l), Called(l).op \in SoleOps,
           NEW m \in Loops, NEW h \in Range(After[m]), h.conn = Called(l).conn
    PROVE  h.op # Called(l).op
  <1> SUFFICES ASSUME h.op = Called(l).op PROVE FALSE
    OBVIOUS
  <1> DEFINE f == Called(l)
  <1>1. /\ After \in Queues /\ f \in FunctorType /\ f \notin Range(After[l])
        /\ RightLoop(f, l, loopOf[f.conn]) /\ WorkOK(After, conn, loopOf, connections)
    BY RunFacts
  <1>2. h \in FunctorType
    BY <1>1, InQueue
  <1>3. h = f
    BY <1>1, <1>2, SameFunctor
  <1>4. RightLoop(h, m, loopOf[f.conn])
    BY <1>1 DEF WorkOK
  <1>5. m = l
    BY <1>1, <1>4 DEF RightLoop
  <1> QED BY <1>1, <1>3, <1>5

LEMMA RunEstablished ==
    ASSUME SInv, NEW l \in Loops, RunRest(l), Called(l).op = "established",
           NEW c, c = Called(l).conn,
           NEW o \in ConnectEstablished(Outcome(conn[c])), Apply(l, c, o), MayHold(c)
    PROVE  SInv'
  <1>1. /\ c \in Conns /\ conn[c] \in ConnType /\ ConnOK(conn[c], c \in connections)
        /\ Due(Called(l), conn[c], c \in connections)
        /\ WorkOK(After, conn, loopOf, connections)
    BY RunFacts
  <1>2. /\ conn[c].state = "connecting" /\ conn[c].life = "accepted" /\ conn[c].ups = 0
        /\ conn[c].downs = 0 /\ c \in connections
    BY <1>1 DEF Due, ConnOK
  <1>3. /\ Outcome(conn[c]) \in Outcomes /\ Outcome(conn[c]).k = conn[c]
        /\ Outcome(conn[c]).closes = 0 /\ Outcome(conn[c]).bad = {}
    BY <1>1, OutcomeFacts
  <1>4. /\ o \in Outcomes /\ o.closes = 0 /\ o.bad = {}
        /\ o.k.life = "accepted" /\ o.k.ups = 1 /\ o.k.downs = 0
        /\ "in" \in o.k.events /\ o.k.status = "added"
        /\ o.k.state \in {"connected", "disconnecting"}
        /\ "shutdown" \notin UpOps => o.k.state = "connected"
    BY <1>2, <1>3, EstablishedFacts
  <1>5. ConnOK(o.k, c \in connections)
    BY <1>2, <1>4 DEF ConnOK, NoShutdown
  <1>6. DueAt(c, After, o.k, loopOf[c], c \in connections)
    <2> SUFFICES ASSUME NEW m \in Loops, NEW h \in Range(After[m]), h.conn = c PROVE FALSE
      BY DEF DueAt
    <2>1. h.op = "established"
      BY <1>1, <1>2 DEF WorkOK, Due
    <2>2. Called(l).op \in SoleOps
      BY DEF SoleOps
    <2> QED BY <2>1, <2>2, NoOther
  <1>7. held' = held \/ (~Calm /\ held' = held \cup {c})
    BY DEF MayHold, Calm
  <1> QED BY <1>2, <1>4, <1>5, <1>6, <1>7, RunOpen

LEMMA RunDestroyed ==
    ASSUME SInv, NEW l \in Loops, RunRest(l), Called(l).op = "destroyed",
           NEW c, c = Called(l).conn,
           NEW o \in ConnectDestroyed(Outcome(conn[c])), Apply(l, c, o), held' = held
    PROVE  SInv'
  <1>1. /\ c \in Conns /\ conn[c] \in ConnType /\ ConnOK(conn[c], c \in connections)
        /\ Due(Called(l), conn[c], c \in connections)
        /\ WorkOK(After, conn, loopOf, connections)
    BY RunFacts
  <1>2. /\ conn[c].state # "connecting" /\ conn[c].life = "accepted" /\ conn[c].ups = 1
        /\ conn[c].state = "connected" => conn[c].downs = 0
        /\ conn[c].state = "disconnected" => conn[c].events = {}
        /\ "in" \in conn[c].events => c \in connections
        /\ Calm => c \notin connections /\ conn[c].events = {}
        /\ NoShutdown => conn[c].state = "connected"
        /\ NoShutdown => Calm
    <2>1. conn[c].downs \in 0 .. 1
      BY <1>1 DEF ConnType
    <2>2. conn[c].state = "connected" => conn[c].downs # 1
      BY <1>1 DEF ConnOK
    <2>3. conn[c].state = "connected" => conn[c].downs = 0
      BY <2>1, <2>2
    <2> QED BY <1>1, <2>3 DEF Due, ConnOK, NoShutdown
  <1>3. /\ Outcome(conn[c]) \in Outcomes /\ Outcome(conn[c]).k = conn[c]
        /\ Outcome(conn[c]).closes = 0 /\ Outcome(conn[c]).bad = {}
    BY <1>1, OutcomeFacts
  <1>4. /\ o \in Outcomes /\ o.closes = 0 /\ o.bad = {}
        /\ o.k.life = "accepted" /\ o.k.ups = 1 /\ o.k.status = "new"
        /\ conn[c].state = "connected" =>
              o.k.state = "disconnected" /\ o.k.downs = 1 /\ o.k.events = {}
        /\ conn[c].state # "connected" =>
              /\ o.k.state = conn[c].state /\ o.k.downs = conn[c].downs
              /\ o.k.events = conn[c].events
    BY <1>2, <1>3, DestroyedFacts
  <1>5. ConnOK(o.k, c \in connections)
    <2>1. /\ o.k.state # "connecting"
          /\ o.k.state = "disconnected" => o.k.events = {}
          /\ "in" \in o.k.events => c \in connections
          /\ Calm => o.k.events = {} /\ c \notin connections
      BY <1>2, <1>4
    <2>2. o.k.downs = 1 => o.k.state \in {"disconnecting", "disconnected"}
      BY <1>1, <1>2, <1>4 DEF ConnOK
    <2>3. NoShutdown => o.k.state = "disconnected" /\ Calm
      BY <1>2, <1>4
    <2> QED BY <1>4, <2>1, <2>2, <2>3 DEF ConnOK
  <1>6. DueAt(c, After, o.k, loopOf[c], c \in connections)
    <2> SUFFICES ASSUME NEW m \in Loops, NEW h \in Range(After[m]), h.conn = c
                 PROVE  RightLoop(h, m, loopOf[c]) /\ Due(h, o.k, c \in connections)
      BY DEF DueAt
    <2>1. RightLoop(h, m, loopOf[c]) /\ Due(h, conn[c], c \in connections)
      BY <1>1 DEF WorkOK
    <2>2. Calm => h.op # "destroyed"
      BY NoOther DEF SoleOps
    <2>3. o.k.state # "connecting" /\ ("in" \notin conn[c].events => "in" \notin o.k.events)
      BY <1>2, <1>4
    <2>4. Due(h, o.k, c \in connections)
      BY <1>2, <2>1, <2>2, <2>3 DEF Due
    <2> QED BY <2>1, <2>4
  <1>7. NoShutdown => o.k.downs = 1
    BY <1>2, <1>4
  <1>8. o.k.state # "connecting"
    BY <1>2, <1>4
  <1> QED BY <1>4, <1>5, <1>6, <1>7, <1>8, RunOpen

\* send(), shutdown() and write_complete_callback_.
LEMMA RunHandled ==
    ASSUME SInv, NEW l \in Loops, RunRest(l), Called(l).op \in {"complete", "send", "shutdown"},
           NEW c, c = Called(l).conn,
           NEW o \in Run(Called(l).op, Outcome(conn[c])), Apply(l, c, o), held' = held
    PROVE  SInv'
  <1> DEFINE k == conn[c]
             op == Called(l).op
  <1>1. /\ c \in Conns /\ k \in ConnType /\ ConnOK(k, c \in connections)
        /\ Called(l) \in FunctorType
        /\ RightLoop(Called(l), l, loopOf[c])
        /\ Due(Called(l), k, c \in connections)
        /\ After \in Queues
        /\ WorkOK(After, conn, loopOf, connections)
        /\ TornOK(After, conn, loopOf, connections)
    BY ONLY SInv, l \in Loops, RunRest(l), c = Called(l).conn, RunFacts,
            Called(l).op \in {"complete", "send", "shutdown"}
  <1>2. k.state # "connecting" /\ (Calm => op = "complete")
    BY <1>1 DEF Due, AppOps
  <1>3. /\ Outcome(k) \in Outcomes /\ Outcome(k).k = k
        /\ Outcome(k).closes = 0 /\ Outcome(k).bad = {}
    BY <1>1, OutcomeFacts
  <1> HIDE DEF k
  <1>4. /\ Follows(Outcome(k), o)
        /\ Calm => o.k.events = k.events /\ o.k.status = k.status
        /\ NoShutdown => o.k.state = k.state
    <2>1. CASE op = "complete"
      <3>1. o \in UserCode(CompleteOps, Outcome(k))
        BY <2>1 DEF Run, k
      <3>2. CallKeeps(CompleteOps, Outcome(k), o)
        BY <1>3, <3>1, UserCodeFollows, ServerAssumption
      <3> QED BY <1>3, <3>2 DEF CallKeeps, Calm, NoShutdown
    <2>2. CASE op = "send"
      <3>1. o \in SendInLoop(Outcome(k))
        BY <2>2 DEF Run, k
      <3> QED BY <1>2, <1>3, <2>2, <3>1, SendFollows DEF NoShutdown
    <2>3. CASE op = "shutdown"
      <3>1. o \in ShutdownInLoop(Outcome(k))
        BY <2>3 DEF Run, k
      <3> QED BY <1>2, <1>3, <2>3, <3>1, ShutdownFollows DEF NoShutdown
    <2> QED BY <2>1, <2>2, <2>3
  <1>5. /\ o \in Outcomes /\ o.k \in ConnType /\ o.closes = 0 /\ o.bad = {}
        /\ Handled(k, o.k)
    BY <1>2, <1>3, <1>4 DEF Follows, Handled, Outcomes
  <1>6. o.k.state # "connecting" /\ o.k.downs = k.downs
    BY <1>5 DEF Handled, Keeps
  <1> DEFINE known == c \in connections
  <1>7. known \in BOOLEAN /\ ConnOK(k, known)
    BY <1>1
  <1> HIDE DEF known
  <1>8. /\ ConnOK(o.k, known)
        /\ \A f \in FunctorType : Due(f, k, known) => Due(f, o.k, known)
    BY <1>1, <1>5, <1>7, ConnHandled, DueHandled
  <1>9. DueAt(c, After, o.k, loopOf[c], c \in connections)
    <2> SUFFICES ASSUME NEW m \in Loops, NEW h \in Range(After[m]), h.conn = c
                 PROVE  RightLoop(h, m, loopOf[c]) /\ Due(h, o.k, known)
      BY DEF DueAt, known
    <2>1. RightLoop(h, m, loopOf[c]) /\ Due(h, k, known)
      BY <1>1 DEF WorkOK, known, k
    <2>2. h \in FunctorType
      BY <1>1, InQueue
    <2> QED BY <1>8, <2>1, <2>2
  <1>10. Calm => \/ c \in connections
                 \/ o.k.status = "new" /\ (NoShutdown => o.k.downs = 1)
                 \/ [op |-> "destroyed", conn |-> c] \in Range(After[l])
    <2>1. l = loopOf[c]
      BY <1>1 DEF RightLoop
    <2>2. Calm => TornAt(c, After, conn, loopOf, connections)
      BY <1>1 DEF TornOK, TornAt
    <2> QED BY <1>2, <1>4, <1>6, <2>1, <2>2 DEF TornAt, k
  <1>11. ConnOK(o.k, c \in connections) /\ Called(l).op # "remove"
    BY <1>8 DEF known
  <1> QED BY <1>5, <1>6, <1>9, <1>10, <1>11, RunOpen

LEMMA RunFunctorStep == ASSUME SInv, NEW l \in Loops, RunFunctor(l) PROVE SInv'
  <1> DEFINE f == Called(l)
             c == f.conn
  <1>1. /\ RunRest(l)
        /\ \/ /\ f.op = "remove"
              /\ RemoveConnectionInLoop(c, pending, {})
              /\ UNCHANGED <<conn, held>>
           \/ /\ f.op # "remove"
              /\ \E o \in Run(f.op, Outcome(conn[c])) : Apply(l, c, o)
              /\ IF f.op = "established" THEN MayHold(c) ELSE UNCHANGED held
    BY DEF RunFunctor, RunRest, Called
  <1>2. CASE f.op = "remove"
    BY <1>1, <1>2, RunRemove
  <1>3. CASE f.op # "remove"
    <2>1. PICK o \in Run(f.op, Outcome(conn[c])) : Apply(l, c, o)
      BY <1>1, <1>3
    <2>2. f \in FunctorType
      BY <1>1, RunFacts
    <2>3. CASE f.op = "established"
      <3>1. o \in ConnectEstablished(Outcome(conn[c])) /\ MayHold(c)
        BY <1>1, <1>3, <2>1, <2>3 DEF Run
      <3> QED BY <1>1, <2>1, <2>3, <3>1, RunEstablished
    <2>4. CASE f.op = "destroyed"
      <3>1. o \in ConnectDestroyed(Outcome(conn[c])) /\ held' = held
        BY <1>1, <1>3, <2>1, <2>4 DEF Run
      <3> QED BY <1>1, <2>1, <2>4, <3>1, RunDestroyed
    <2>5. CASE f.op \in {"complete", "send", "shutdown"}
      <3>1. held' = held
        BY <1>1, <2>5
      <3> QED BY <1>1, <2>1, <2>5, <3>1, RunHandled
    <2> QED BY <1>3, <2>2, <2>3, <2>4, <2>5 DEF FunctorType
  <1> QED BY <1>2, <1>3

-----------------------------------------------------------------------------
(* Acceptor::handleRead() and TcpServer::newConnection(). *)

LEMMA NextLoopFacts ==
    ASSUME ServerType
    PROVE  /\ GetNextLoop(next).loop \in Loops
           /\ GetNextLoop(next).next \in 0 .. (IF loops = <<>> THEN 0 ELSE Len(loops) - 1)
  <1>1. loops \in Seq(Workers) /\ Len(loops) \in Nat
    BY ServerAssumption DEF ServerType
  <1>2. CASE loops = <<>>
    BY <1>2 DEF GetNextLoop, Loops, ServerType
  <1>3. CASE loops # <<>>
    <2>1. Len(loops) # 0 /\ next \in 0 .. Len(loops) - 1
      BY <1>1, <1>3 DEF ServerType
    <2>2. next + 1 \in 1 .. Len(loops)
      BY <1>1, <2>1
    <2>3. loops[next + 1] \in Workers
      BY <1>1, <2>2
    <2>4. (IF next + 1 >= Len(loops) THEN 0 ELSE next + 1) \in 0 .. Len(loops) - 1
      BY <1>1, <2>1
    <2> QED BY <1>3, <2>3, <2>4 DEF GetNextLoop, Loops
  <1> QED BY <1>2, <1>3

\* A connection not yet accepted is not known, has no functors and no events.
LEMMA BacklogFacts ==
    ASSUME SInv, NEW c \in Conns, conn[c].life # "accepted"
    PROVE  /\ conn[c] \in ConnType /\ conn[c].state = "connecting" /\ c \notin connections
           /\ conn[c].events = {} /\ conn[c].status = "new"
           /\ conn[c].ups = 0 /\ conn[c].downs = 0
           /\ \A m \in Loops : \A f \in Range(Work[m]) : f.conn # c
           /\ \A m \in Loops : \A a \in active[m] : a.conn # c
           /\ c \notin held
  <1>1. conn[c] \in ConnType /\ ConnOK(conn[c], c \in connections)
    BY DEF SInv, ServerType, ConnInv
  <1>2. /\ conn[c].state = "connecting" /\ c \notin connections
        /\ conn[c].events = {} /\ conn[c].status = "new"
        /\ conn[c].ups = 0 /\ conn[c].downs = 0
    BY <1>1 DEF ConnOK
  <1>3. ASSUME NEW m \in Loops, NEW f \in Range(Work[m]) PROVE f.conn # c
    <2>1. Due(f, conn[f.conn], f.conn \in connections)
      BY <1>3 DEF SInv, WorkOK
    <2> QED BY <1>2, <2>1 DEF Due
  <1>4. \A m \in Loops : \A a \in active[m] : a.conn # c
    BY <1>2 DEF SInv, ActiveInv
  <1>5. c \notin held
    BY <1>2 DEF SInv, ForeignInv
  <1> QED BY <1>1, <1>2, <1>3, <1>4, <1>5

AcceptRest(c) ==
    /\ accepting' = FALSE
    /\ loopOf' = [loopOf EXCEPT ![c] = GetNextLoop(next).loop]
    /\ next' = GetNextLoop(next).next
    /\ connections' = connections \cup {c}
    /\ UNCHANGED <<loops, lpc, active, batch, ran, fpc, budget>>

LEMMA AcceptParts ==
    ASSUME SInv, NEW c \in Conns, conn[c].life = "backlog", AcceptRest(c),
           NEW k \in ConnType, conn' = SetConn(c, k), pending' \in Queues,
           ConnOK(k, TRUE), held' = held \/ (~Calm /\ held' = held \cup {c}),
           c \in held' => k.state # "connecting", failed' = failed,
           WorkOK(Waiting(pending', batch, ran), conn', loopOf', connections'),
           \A m \in Loops : Range(Work[m]) \subseteq Range(Waiting(pending', batch, ran)[m])
    PROVE  SInv'
  <1> DEFINE V == Waiting(pending', batch, ran)
  <1>1. /\ loopOf' \in [Conns -> Loops] /\ connections' \in SUBSET Conns
        /\ next' \in 0 .. (IF loops = <<>> THEN 0 ELSE Len(loops) - 1)
        /\ conn' \in [Conns -> ConnType] /\ conn'[c] = k /\ c \in connections'
        /\ held' \in SUBSET Conns /\ loopOf \in [Conns -> Loops]
    <2>1. ServerType
      BY DEF SInv
    <2> QED BY <2>1, NextLoopFacts DEF ServerType, AcceptRest, SetConn
  <1>2. Only(c)
    BY DEF Only, OnlyAt, AcceptRest, SetConn, SInv, ServerType
  <1>3. ServerType' /\ RoundInv'
    <2>1. ServerType'
      BY <1>1 DEF SInv, ServerType, AcceptRest
    <2>2. RoundInv'
      BY DEF SInv, RoundInv, AcceptRest
    <2> QED BY <2>1, <2>2
  <1>4. ConnInv'
    <2>1. ConnOK(conn'[c], c \in connections')
      BY <1>1 DEF ConnOK
    <2> QED BY <1>2, <2>1, ConnStep DEF SInv
  <1>5. ActiveInv'
    <2>1. active' = active
      BY DEF AcceptRest
    <2> QED BY <1>2, <2>1, BacklogFacts, ActiveStep DEF SInv
  <1>6. ForeignInv'
    <2>1. /\ held' \subseteq held \cup {c} /\ (Calm => held' = held) /\ fpc' = fpc
          /\ conn[c].state = "connecting"
      BY BacklogFacts DEF AcceptRest
    <2> QED BY <1>1, <1>2, <2>1, ForeignStep DEF SInv
  <1>7. TornOK(V, conn', loopOf', connections')
    <2>1. DestroyedStay(c, Work, V)
      BY DEF DestroyedStay
    <2>2. Calm => TornAt(c, V, conn', loopOf', connections')
      BY <1>1 DEF TornAt
    <2>3. /\ TornOK(Work, conn, loopOf, connections)
          /\ OnlyAt(c, conn, loopOf, connections, conn', loopOf', connections')
      BY <1>2 DEF SInv, Only
    <2> HIDE DEF V
    <2> QED BY ONLY <1>1, <2>1, <2>2, <2>3, c \in Conns, TornStep, Zenon
  <1>8. Work' = V
    BY DEF Work, Waiting, AcceptRest
  <1>9. FailedInv'
    BY DEF SInv, FailedInv
  <1> QED BY <1>3, <1>4, <1>5, <1>6, <1>7, <1>8, <1>9 DEF SInv

LEMMA AcceptStep == ASSUME SInv, Accept PROVE SInv'
  <1> DEFINE x == GetNextLoop(next).loop
             Elsewhere(c, k) ==
                 /\ x # Base
                 /\ conn' = SetConn(c, k)
                 /\ pending' = Queue(pending, x, "established", c)
                 /\ UNCHANGED <<failed, held>>
             AtBase(c, k) ==
                 /\ x = Base
                 /\ \E o \in ConnectEstablished(Outcome(k)) :
                       /\ conn' = SetConn(c, o.k)
                       /\ pending' = QueueAll(pending, Base, Completes(o.q, c))
                       /\ failed' = failed \cup o.bad
                 /\ MayHold(c)
  <1>1. PICK c \in Conns :
            /\ conn[c].life = "backlog" /\ AcceptRest(c)
            /\ \/ Elsewhere(c, [conn[c] EXCEPT !.life = "accepted"])
               \/ AtBase(c, [conn[c] EXCEPT !.life = "accepted"])
    BY DEF Accept, AcceptRest, SetConn, QueueAll, Completes
  <1> DEFINE k == [conn[c] EXCEPT !.life = "accepted"]
             W == Waiting(pending, batch, ran)
             V == Waiting(pending', batch, ran)
  <1>2. /\ conn[c] \in ConnType /\ conn[c].state = "connecting" /\ c \notin connections
        /\ conn[c].events = {} /\ conn[c].status = "new"
        /\ conn[c].ups = 0 /\ conn[c].downs = 0
        /\ \A m \in Loops : \A f \in Range(W[m]) : f.conn # c
        /\ c \notin held
    BY <1>1, BacklogFacts DEF Work
  <1>3. /\ k \in ConnType /\ k.state = "connecting" /\ k.life = "accepted" /\ k.events = {}
        /\ k.status = "new" /\ k.ups = 0 /\ k.downs = 0
    BY <1>2 DEF ConnType
  <1> HIDE DEF k
  <1>4. /\ ServerType /\ x \in Loops /\ Base \in Loops
        /\ ran \in Counts /\ \A m \in Loops : ran[m] <= Len(batch[m])
        /\ WorkOK(W, conn, loopOf, connections)
        /\ loopOf'[c] = x /\ c \in connections'
    BY <1>1, NextLoopFacts DEF SInv, ServerType, RoundInv, Work, AcceptRest, Loops
  <1>5. ASSUME NEW j, conn' = SetConn(c, j)
        PROVE  /\ OnlyAt(c, conn, loopOf, connections, conn', loopOf', connections')
               /\ conn'[c] = j
    BY <1>1, <1>5 DEF OnlyAt, AcceptRest, SetConn, SInv, ServerType
  <1>6. ASSUME NEW j, NEW home, NEW known PROVE DueAt(c, W, j, home, known)
    BY <1>2 DEF DueAt
  <1> HIDE DEF x
  <1>7. CASE Elsewhere(c, k)
    <2> DEFINE g == [op |-> "established", conn |-> c]
    <2>1. /\ conn' = SetConn(c, k) /\ x # Base /\ failed' = failed /\ held' = held
          /\ pending' = Queue(pending, x, "established", c)
      BY <1>7
    <2>2. g.op = "established" /\ g.conn = c /\ g \in FunctorType
      BY DEF FunctorType
    <2>3. g \notin Range(W[x])
      BY <1>2, <1>4, <2>2
    <2> HIDE DEF g
    <2>4. RightLoop(g, x, loopOf'[c]) /\ Due(g, conn'[c], c \in connections')
      BY <1>3, <1>4, <1>5, <2>1, <2>2 DEF RightLoop, Due, AppOps
    <2>5. /\ DueAt(c, W, conn'[c], loopOf'[c], c \in connections')
          /\ OnlyAt(c, conn, loopOf, connections, conn', loopOf', connections')
      BY <1>5, <1>6, <2>1
    <2>6. /\ pending' \in Queues /\ More(W, V, x, "established", c)
          /\ WorkOK(V, conn', loopOf', connections')
      <3>1. pending' = Queue(pending, x, "established", c)
        BY <2>1
      <3> QED BY ONLY <1>4, <2>2, <2>3, <2>4, <2>5, <3>1, c \in Conns, GrowOne, Zenon DEF g
    <2>7. ConnOK(k, TRUE)
      BY <1>3 DEF ConnOK, NoShutdown
    <2>8. \A m \in Loops : Range(Work[m]) \subseteq Range(V[m])
      BY <2>6 DEF More, Work
    <2> QED BY <1>1, <1>2, <1>3, <2>1, <2>6, <2>7, <2>8, AcceptParts
  <1>8. CASE AtBase(c, k)
    <2>1. PICK o \in ConnectEstablished(Outcome(k)) :
              /\ conn' = SetConn(c, o.k)
              /\ pending' = QueueAll(pending, Base, Completes(o.q, c))
              /\ failed' = failed \cup o.bad
      BY <1>8
    <2>2. x = Base /\ MayHold(c)
      BY <1>8
    <2>3. /\ Outcome(k) \in Outcomes /\ Outcome(k).k = k
          /\ Outcome(k).closes = 0 /\ Outcome(k).bad = {}
      BY <1>3, OutcomeFacts
    <2>4. /\ o \in Outcomes /\ o.bad = {}
          /\ o.k.life = "accepted" /\ o.k.ups = 1 /\ o.k.downs = 0
          /\ "in" \in o.k.events /\ o.k.status = "added"
          /\ o.k.state \in {"connected", "disconnecting"}
          /\ "shutdown" \notin UpOps => o.k.state = "connected"
      BY <1>3, <2>3, EstablishedFacts
    <2>5. o.k \in ConnType /\ o.q \in Seq({"complete"})
      BY <2>4 DEF Outcomes
    <2>6. ConnOK(o.k, TRUE)
      BY <2>4 DEF ConnOK, NoShutdown
    <2>7. /\ DueAt(c, W, conn'[c], loopOf'[c], c \in connections')
          /\ OnlyAt(c, conn, loopOf, connections, conn', loopOf', connections')
          /\ conn'[c].state # "connecting" /\ loopOf'[c] = Base
      BY <1>4, <1>5, <1>6, <2>1, <2>2, <2>4
    <2>8. /\ pending' \in Queues /\ More(W, V, Base, "complete", c)
          /\ WorkOK(V, conn', loopOf', connections')
      BY ONLY <1>4, <2>1, <2>5, <2>7, c \in Conns, GrowMany, Zenon
    <2>9. \A m \in Loops : Range(Work[m]) \subseteq Range(V[m])
      BY <2>8 DEF More, Work
    <2>10. held' = held \/ (~Calm /\ held' = held \cup {c})
      BY <2>2 DEF MayHold, Calm
    <2>11. failed' = failed
      BY <2>1, <2>4
    <2>12. c \in held' => o.k.state # "connecting"
      BY <2>4
    <2> QED BY <1>1, <2>1, <2>5, <2>6, <2>8, <2>9, <2>10, <2>11, <2>12, AcceptParts
  <1> QED BY <1>1, <1>7, <1>8 DEF k

-----------------------------------------------------------------------------
(* The steps of a loop that change no connection. *)

LEMMA QuietParts ==
    ASSUME SInv, UNCHANGED <<conn, loopOf, connections, failed>>, Work' = Work
    PROVE  /\ ConnInv' /\ FailedInv'
           /\ WorkOK(Work, conn, loopOf, connections)'
           /\ TornOK(Work, conn, loopOf, connections)'
  <1>1. ConnInv'
    BY DEF SInv, ConnInv
  <1>2. FailedInv'
    BY DEF SInv, FailedInv
  <1>3. WorkOK(Work', conn', loopOf', connections')
    BY DEF SInv
  <1>4. TornOK(Work', conn', loopOf', connections')
    BY DEF SInv
  <1> QED BY <1>1, <1>2, <1>3, <1>4

\* What poll() reports is registered, and so belongs to a connection that is up.
LEMMA ReportedIsUp ==
    ASSUME SInv, NEW c \in Conns, NEW w, Revents(conn[c], w) # {}
    PROVE  /\ conn[c].state \in {"connected", "disconnecting"}
           /\ Calm => "in" \in conn[c].events
  <1>1. conn[c] \in ConnType /\ ConnOK(conn[c], c \in connections)
    BY DEF SInv, ServerType, ConnInv
  <1>2. conn[c].status = "added"
    BY DEF Revents
  <1> QED BY <1>1, <1>2 DEF ConnOK, ConnType

LEMMA PollStep == ASSUME SInv, NEW l \in Loops, Poll(l) PROVE SInv'
  <1>1. PICK room \in SUBSET Conns :
            active' = [active EXCEPT ![l] =
                {a \in [conn : Conns, rev : SUBSET {"in", "out", "hup", "err"}] :
                    /\ conn[a.conn].life = "accepted" /\ ~Destroyed(a.conn)
                    /\ loopOf[a.conn] = l
                    /\ a.rev = Revents(conn[a.conn], a.conn \in room)
                    /\ a.rev # {}}]
    BY DEF Poll
  <1>2. /\ lpc[l] = "poll" /\ lpc' = [lpc EXCEPT ![l] = "events"]
        /\ accepting' = IF l = Base THEN \E c \in Conns : conn[c].life = "backlog"
                        ELSE accepting
        /\ UNCHANGED <<conn, serverVars, pending, batch, ran, foreignVars, failed>>
    BY DEF Poll
  <1>3. /\ \A m \in Loops : m # l => active'[m] = active[m]
        /\ active' \in [Loops -> SUBSET ActiveType]
        /\ \A a \in active'[l] : /\ a \in ActiveType /\ loopOf[a.conn] = l
                                 /\ a.rev = Revents(conn[a.conn], a.conn \in room)
                                 /\ a.rev # {}
    BY <1>1 DEF SInv, ServerType, ActiveType
  <1>4. ServerType'
    <2>1. accepting' \in BOOLEAN
      BY <1>2 DEF SInv, ServerType
    <2> QED BY <1>2, <1>3, <2>1 DEF SInv, ServerType, serverVars, foreignVars
  <1>5. RoundInv'
    BY <1>2, <1>3 DEF SInv, ServerType, RoundInv
  <1>6. ActiveInv'
    <2> SUFFICES ASSUME NEW m \in Loops, NEW a \in active'[m]
                 PROVE  /\ loopOf[a.conn] = m
                        /\ conn[a.conn].state \in {"connected", "disconnecting"}
                        /\ Calm => /\ "in" \in conn[a.conn].events
                                   /\ \A b \in active'[m] : b.conn = a.conn => b = a
      BY <1>2 DEF ActiveInv, serverVars
    <2>1. CASE m = l
      <3>1. a.conn \in Conns /\ Revents(conn[a.conn], a.conn \in room) # {}
        BY <1>3, <2>1 DEF ActiveType
      <3>2. ASSUME NEW b \in active'[m], b.conn = a.conn PROVE b = a
        BY <1>3, <2>1, <3>2 DEF ActiveType
      <3> QED BY <1>3, <2>1, <3>1, <3>2, ReportedIsUp
    <2>2. CASE m # l
      BY <1>3, <2>2 DEF SInv, ActiveInv
    <2> QED BY <2>1, <2>2
  <1>7. ForeignInv'
    BY <1>2 DEF SInv, ForeignInv, foreignVars
  <1>8. Work' = Work
    BY <1>2 DEF Work
  <1>9. UNCHANGED <<conn, loopOf, connections, failed>>
    BY <1>2 DEF serverVars
  <1> QED BY <1>4, <1>5, <1>6, <1>7, <1>8, <1>9, QuietParts DEF SInv

LEMMA SwapFunctorsStep == ASSUME SInv, NEW l \in Loops, SwapFunctors(l) PROVE SInv'
  <1>1. /\ lpc[l] = "events" /\ active[l] = {}
        /\ batch' = [batch EXCEPT ![l] = pending[l]]
        /\ pending' = [pending EXCEPT ![l] = <<>>]
        /\ lpc' = [lpc EXCEPT ![l] = IF pending[l] = <<>> THEN "poll" ELSE "functors"]
        /\ UNCHANGED <<conn, serverVars, active, accepting, ran, foreignVars, failed>>
    BY DEF SwapFunctors
  <1>2. batch[l] = <<>> /\ ran[l] = 0 /\ ran[l] <= Len(pending[l])
    BY <1>1 DEF SInv, RoundInv, ServerType, Queues
  <1>3. ServerType'
    <2>1. pending[l] \in Seq(FunctorType) /\ <<>> \in Seq(FunctorType)
      BY DEF SInv, ServerType, Queues
    <2>2. batch' \in Queues /\ pending' \in Queues
      BY <1>1, <2>1 DEF SInv, ServerType, Queues
    <2>3. lpc' \in [Loops -> {"poll", "events", "functors"}]
      BY <1>1 DEF SInv, ServerType
    <2> QED BY <1>1, <2>2, <2>3 DEF SInv, ServerType, serverVars, foreignVars
  <1>4. RoundInv'
    <2> SUFFICES ASSUME NEW m \in Loops
                 PROVE  /\ lpc'[m] # "functors" => batch'[m] = <<>> /\ ran[m] = 0
                        /\ ran[m] <= Len(batch'[m])
                        /\ lpc'[m] # "events" => active[m] = {}
      BY <1>1 DEF RoundInv
    <2>1. CASE m = l
      BY <1>1, <1>2, <2>1 DEF SInv, ServerType, Queues
    <2>2. CASE m # l
      BY <1>1, <2>2 DEF SInv, ServerType, RoundInv, Queues
    <2> QED BY <2>1, <2>2
  <1>5. ActiveInv'
    BY <1>1 DEF SInv, ActiveInv, serverVars
  <1>6. ForeignInv'
    BY <1>1 DEF SInv, ForeignInv, foreignVars
  <1>7. Work' = Work
    <2>1. /\ pending \in Queues /\ ElseSame(l, pending, pending')
          /\ ElseSame(l, batch, batch') /\ pending'[l] = <<>> /\ batch'[l] = pending[l]
      BY <1>1 DEF SInv, ServerType, Queues, ElseSame
    <2>2. Waiting(pending', batch', ran) = Waiting(pending, batch, ran)
      BY <1>2, <2>1, WaitingSwapped
    <2> QED BY <1>1, <2>2 DEF Work
  <1>8. UNCHANGED <<conn, loopOf, connections, failed>>
    BY <1>1 DEF serverVars
  <1> QED BY <1>3, <1>4, <1>5, <1>6, <1>7, <1>8, QuietParts DEF SInv

LEMMA FinishFunctorsStep == ASSUME SInv, NEW l \in Loops, FinishFunctors(l) PROVE SInv'
  <1>1. /\ lpc[l] = "functors" /\ ran[l] = Len(batch[l])
        /\ batch' = [batch EXCEPT ![l] = <<>>]
        /\ ran' = [ran EXCEPT ![l] = 0]
        /\ lpc' = [lpc EXCEPT ![l] = "poll"]
        /\ UNCHANGED <<conn, serverVars, active, accepting, pending, foreignVars, failed>>
    BY DEF FinishFunctors
  <1>2. ServerType'
    <2>1. batch' \in Queues /\ ran' \in Counts
      BY <1>1 DEF SInv, ServerType, Queues, Counts
    <2> QED BY <1>1, <2>1 DEF SInv, ServerType, serverVars, foreignVars
  <1>3. RoundInv'
    <2> SUFFICES ASSUME NEW m \in Loops
                 PROVE  /\ lpc'[m] # "functors" => batch'[m] = <<>> /\ ran'[m] = 0
                        /\ ran'[m] <= Len(batch'[m])
                        /\ lpc'[m] # "events" => active[m] = {}
      BY <1>1 DEF RoundInv
    <2>1. CASE m = l
      <3>1. active[m] = {}
        BY <1>1, <2>1 DEF SInv, RoundInv
      <3>2. batch'[m] = <<>> /\ ran'[m] = 0
        BY <1>1, <2>1 DEF SInv, ServerType, Queues, Counts
      <3> QED BY <3>1, <3>2
    <2>2. CASE m # l
      BY <1>1, <2>2 DEF SInv, ServerType, RoundInv, Queues, Counts
    <2> QED BY <2>1, <2>2
  <1>4. ActiveInv'
    BY <1>1 DEF SInv, ActiveInv, serverVars
  <1>5. ForeignInv'
    BY <1>1 DEF SInv, ForeignInv, foreignVars
  <1>6. Work' = Work
    <2>1. /\ batch \in Queues /\ ElseSame(l, batch, batch') /\ ElseSame(l, ran, ran')
          /\ batch'[l] = <<>> /\ ran'[l] = 0 /\ ran[l] = Len(batch[l])
      BY <1>1 DEF SInv, ServerType, Queues, Counts, ElseSame
    <2>2. Waiting(pending, batch', ran') = Waiting(pending, batch, ran)
      BY ONLY <2>1, l \in Loops, WaitingFinished, SMTT(20)
    <2> QED BY <1>1, <2>2 DEF Work
  <1>7. UNCHANGED <<conn, loopOf, connections, failed>>
    BY <1>1 DEF serverVars
  <1> QED BY <1>2, <1>3, <1>4, <1>5, <1>6, <1>7, QuietParts DEF SInv

-----------------------------------------------------------------------------
(* The steps of the peers and of the other thread. *)

LEMMA ConnParts ==
    ASSUME SInv, NEW c \in Conns, NEW k \in ConnType, conn' = SetConn(c, k),
           UNCHANGED <<serverVars, loopVars, held, budget, failed>>,
           ConnOK(k, c \in connections),
           DueAt(c, Work, k, loopOf[c], c \in connections),
           \A m \in Loops : \A a \in active[m] : a.conn = c =>
               /\ k.state \in {"connected", "disconnecting"}
               /\ Calm => "in" \in k.events,
           Calm => TornAt(c, Work, conn', loopOf, connections)
    PROVE  /\ ServerType' /\ RoundInv' /\ ActiveInv' /\ ConnInv' /\ FailedInv' /\ Only(c)
           /\ WorkOK(Work, conn, loopOf, connections)'
           /\ TornOK(Work, conn, loopOf, connections)'
  <1>1. conn' \in [Conns -> ConnType] /\ conn'[c] = k
    BY DEF SInv, ServerType, SetConn
  <1>2. UNCHANGED <<loopOf, connections, loops, next, lpc, active, accepting, pending,
                    batch, ran, held, budget, failed>>
    BY DEF serverVars, loopVars
  <1>3. Only(c)
    BY <1>2 DEF Only, OnlyAt, SetConn, SInv, ServerType
  <1>4. ServerType'
    BY <1>1, <1>2 DEF SInv, ServerType
  <1>5. RoundInv'
    BY <1>2 DEF SInv, RoundInv
  <1>6. ActiveInv'
    <2>1. \A m \in Loops : active'[m] \subseteq active[m]
      BY <1>2
    <2>2. ASSUME NEW m \in Loops, NEW a \in active'[m], a.conn = c
          PROVE  /\ loopOf'[c] = m
                 /\ conn'[c].state \in {"connected", "disconnecting"}
                 /\ Calm => "in" \in conn'[c].events
      BY <1>1, <1>2, <2>2 DEF SInv, ActiveInv
    <2> QED BY <1>3, <2>1, <2>2, ActiveStep DEF SInv
  <1>7. ConnInv'
    <2>1. ConnOK(conn'[c], c \in connections')
      BY <1>1, <1>2
    <2> QED BY <1>3, <2>1, ConnStep DEF SInv
  <1>8. FailedInv'
    BY <1>2 DEF SInv, FailedInv
  <1>9. Work' = Work
    BY <1>2 DEF Work
  <1>10. Work \in Queues
    BY WaitingType DEF SInv, ServerType, RoundInv, Work
  <1>11. WorkOK(Work, conn, loopOf, connections) /\ TornOK(Work, conn, loopOf, connections)
    BY DEF SInv
  <1>12. OnlyAt(c, conn, loopOf, connections, conn', loopOf', connections')
    BY <1>3 DEF Only
  <1> DEFINE W == Work
  <1> HIDE DEF W
  <1>13. WorkOK(W, conn', loopOf', connections')
    <2>1. /\ W \in Queues /\ WorkOK(W, conn, loopOf, connections)
          /\ \A m \in Loops : Sole(W[m])
      BY <1>10, <1>11 DEF W, WorkOK
    <2>2. ASSUME NEW m \in Loops, NEW f \in Range(W[m])
          PROVE  \/ f.conn # c /\ f \in Range(W[m])
                 \/ /\ f.conn = c /\ RightLoop(f, m, loopOf'[c])
                    /\ Due(f, conn'[c], c \in connections')
      BY <1>1, <1>2 DEF DueAt, W
    <2> QED BY ONLY <1>12, <2>1, <2>2, c \in Conns, WorkStep, Zenon
  <1>14. TornOK(W, conn', loopOf', connections')
    <2>1. DestroyedStay(c, W, W)
      BY DEF DestroyedStay
    <2>2. Calm => TornAt(c, W, conn', loopOf', connections')
      BY <1>2 DEF W
    <2>3. TornOK(W, conn, loopOf, connections) /\ loopOf \in [Conns -> Loops]
      BY <1>11 DEF W, SInv, ServerType
    <2> QED BY ONLY <1>12, <2>1, <2>2, <2>3, c \in Conns, TornStep, Zenon
  <1> QED BY <1>3, <1>4, <1>5, <1>6, <1>7, <1>8, <1>9, <1>13, <1>14 DEF W

\* What waits is due, and what is torn down stays so, while nothing of the
\* connection that the program keeps has changed.
LEMMA SocketStep ==
    ASSUME SInv, NEW c \in Conns, NEW k \in ConnType, Socket(c, k),
           k.state = conn[c].state, k.events = conn[c].events, k.status = conn[c].status,
           k.ups = conn[c].ups, k.downs = conn[c].downs,
           \/ k.life = conn[c].life
           \/ conn[c].life # "accepted" /\ k.life # "accepted"
    PROVE  SInv'
  <1>1. /\ conn' = SetConn(c, k) /\ conn[c] \in ConnType /\ conn'[c] = k
        /\ ConnOK(conn[c], c \in connections)
    BY DEF Socket, SetConn, SInv, ServerType, ConnInv
  <1>2. ConnOK(k, c \in connections)
    BY <1>1 DEF ConnOK
  <1>3. DueAt(c, Work, k, loopOf[c], c \in connections)
    <2> SUFFICES ASSUME NEW m \in Loops, NEW f \in Range(Work[m]), f.conn = c
                 PROVE  RightLoop(f, m, loopOf[c]) /\ Due(f, k, c \in connections)
      BY DEF DueAt
    <2>1. RightLoop(f, m, loopOf[c]) /\ Due(f, conn[c], c \in connections)
      BY DEF SInv, WorkOK
    <2>2. k.life = conn[c].life
      BY BacklogFacts
    <2> QED BY <2>1, <2>2 DEF Due
  <1>4. Calm => TornAt(c, Work, conn', loopOf, connections)
    BY <1>1 DEF SInv, TornOK, TornAt
  <1>5. \A m \in Loops : \A a \in active[m] : a.conn = c =>
            /\ k.state \in {"connected", "disconnecting"}
            /\ Calm => "in" \in k.events
    BY DEF SInv, ActiveInv
  <1>6. UNCHANGED <<serverVars, loopVars, held, budget, failed>> /\ fpc' = fpc
    BY DEF Socket, foreignVars
  <1>7. /\ ServerType' /\ RoundInv' /\ ActiveInv' /\ ConnInv' /\ FailedInv' /\ Only(c)
        /\ WorkOK(Work, conn, loopOf, connections)'
        /\ TornOK(Work, conn, loopOf, connections)'
    BY <1>1, <1>2, <1>3, <1>4, <1>5, <1>6, ConnParts
  <1>8. ForeignInv'
    <2>1. held' \subseteq held \cup {c} /\ (Calm => held' = held)
      BY <1>6
    <2>2. conn[c].state # "connecting" \/ c \in held' => conn'[c].state # "connecting"
      BY <1>1, <1>6 DEF SInv, ForeignInv
    <2> QED BY <1>6, <1>7, <2>1, <2>2, ForeignStep DEF SInv
  <1> QED BY <1>7, <1>8 DEF SInv

LEMMA PeerStep ==
    ASSUME SInv, NEW c \in Conns,
           PeerConnects(c) \/ PeerSends(c) \/ PeerCloses(c) \/ PeerResets(c)
    PROVE  SInv'
  <1>1. conn[c] \in ConnType /\ MaxData \in Nat
    BY ServerAssumption DEF SInv, ServerType
  <1>2. CASE PeerConnects(c)
    <2> DEFINE k == [conn[c] EXCEPT !.life = "backlog"]
    <2>1. k \in ConnType /\ Socket(c, k) /\ conn[c].life = "none" /\ k.life = "backlog"
      BY <1>1, <1>2 DEF PeerConnects, ConnType
    <2>2. /\ k.state = conn[c].state /\ k.events = conn[c].events
          /\ k.status = conn[c].status /\ k.ups = conn[c].ups /\ k.downs = conn[c].downs
      BY <1>1 DEF ConnType
    <2> HIDE DEF k
    <2> QED BY <2>1, <2>2, SocketStep
  <1>3. CASE PeerSends(c)
    <2> DEFINE k == [conn[c] EXCEPT !.data = TRUE, !.sent = @ + 1]
    <2>1. k \in ConnType /\ Socket(c, k) /\ k.life = conn[c].life
      <3>1. conn[c].sent \in 0 .. MaxData /\ conn[c].sent < MaxData
        BY <1>1, <1>3 DEF PeerSends, ConnType
      <3>2. conn[c].sent + 1 \in 0 .. MaxData
        BY <1>1, <3>1
      <3>3. k \in ConnType /\ k.life = conn[c].life
        BY <1>1, <3>2 DEF ConnType
      <3>4. Socket(c, k)
        BY <1>3 DEF PeerSends
      <3> QED BY <3>3, <3>4
    <2>2. /\ k.state = conn[c].state /\ k.events = conn[c].events
          /\ k.status = conn[c].status /\ k.ups = conn[c].ups /\ k.downs = conn[c].downs
      BY <1>1 DEF ConnType
    <2> HIDE DEF k
    <2> QED BY <2>1, <2>2, SocketStep
  <1>4. CASE PeerCloses(c)
    <2> DEFINE k == [conn[c] EXCEPT !.peer = "fin"]
    <2>1. k \in ConnType /\ Socket(c, k) /\ k.life = conn[c].life
      BY <1>1, <1>4 DEF PeerCloses, ConnType
    <2>2. /\ k.state = conn[c].state /\ k.events = conn[c].events
          /\ k.status = conn[c].status /\ k.ups = conn[c].ups /\ k.downs = conn[c].downs
      BY <1>1 DEF ConnType
    <2> HIDE DEF k
    <2> QED BY <2>1, <2>2, SocketStep
  <1>5. CASE PeerResets(c)
    <2> DEFINE k == [conn[c] EXCEPT !.peer = "rst", !.err = TRUE]
    <2>1. k \in ConnType /\ Socket(c, k) /\ k.life = conn[c].life
      BY <1>1, <1>5 DEF PeerResets, ConnType
    <2>2. /\ k.state = conn[c].state /\ k.events = conn[c].events
          /\ k.status = conn[c].status /\ k.ups = conn[c].ups /\ k.downs = conn[c].downs
      BY <1>1 DEF ConnType
    <2> HIDE DEF k
    <2> QED BY <2>1, <2>2, SocketStep
  <1> QED BY <1>2, <1>3, <1>4, <1>5

\* A step of the other thread that changes no connection and queues nothing.
LEMMA ForeignCallStep ==
    ASSUME SInv, NEW op \in AppOps, NEW c \in Conns, ForeignCall(op, c)
    PROVE  SInv'
  <1>1. /\ op \in ForeignOps /\ c \in held /\ conn[c].state = "connected"
        /\ budget > 0 /\ budget' = budget - 1
        /\ fpc' = [op |-> IF op = "shutdown" THEN "setState" ELSE "send", conn |-> c]
        /\ UNCHANGED <<conn, loopOf, connections, loops, next, lpc, active, accepting,
                       pending, batch, ran, held, failed>>
    BY DEF ForeignCall, serverVars, loopVars
  <1>2. ServerType'
    <2>1. budget' \in 0 .. MaxForeign
      BY <1>1, ServerAssumption DEF SInv, ServerType
    <2> QED BY <1>1, <2>1 DEF SInv, ServerType
  <1>3. RoundInv' /\ ActiveInv'
    BY <1>1 DEF SInv, RoundInv, ActiveInv
  <1>4. ~Calm
    BY <1>1 DEF Calm
  <1>5. ForeignInv'
    <2>1. fpc' \in [op : {"setState", "send", "shutdown"}, conn : Conns] /\ fpc'.conn = c
      BY <1>1
    <2> QED BY <1>1, <1>4, <2>1 DEF SInv, ForeignInv
  <1>6. Work' = Work
    BY <1>1 DEF Work
  <1> QED BY <1>1, <1>2, <1>3, <1>5, <1>6, QuietParts DEF SInv

LEMMA ForeignDropStep == ASSUME SInv, NEW c \in Conns, ForeignDrop(c) PROVE SInv'
  <1>1. /\ held' = held \ {c}
        /\ UNCHANGED <<conn, loopOf, connections, loops, next, lpc, active, accepting,
                       pending, batch, ran, fpc, budget, failed>>
    BY DEF ForeignDrop, serverVars, loopVars
  <1>2. ServerType'
    BY <1>1 DEF SInv, ServerType
  <1>3. RoundInv' /\ ActiveInv'
    BY <1>1 DEF SInv, RoundInv, ActiveInv
  <1>4. ForeignInv'
    BY <1>1 DEF SInv, ForeignInv
  <1>5. Work' = Work
    BY <1>1 DEF Work
  <1> QED BY <1>1, <1>2, <1>3, <1>4, <1>5, QuietParts DEF SInv

\* The other thread is inside send() or shutdown().
LEMMA ForeignFacts ==
    ASSUME SInv, fpc # Idle
    PROVE  /\ ~Calm /\ ~NoShutdown
           /\ fpc \in [op : {"setState", "send", "shutdown"}, conn : Conns]
           /\ fpc.conn \in Conns /\ conn[fpc.conn] \in ConnType
           /\ conn[fpc.conn].state # "connecting"
           /\ ConnOK(conn[fpc.conn], fpc.conn \in connections)
           /\ DueAt(fpc.conn, Work, conn[fpc.conn], loopOf[fpc.conn], fpc.conn \in connections)
  <1>1. /\ ~Calm /\ fpc \in [op : {"setState", "send", "shutdown"}, conn : Conns]
        /\ conn[fpc.conn].state # "connecting"
    BY DEF SInv, ForeignInv
  <1>2. fpc.conn \in Conns
    BY <1>1
  <1>3. conn[fpc.conn] \in ConnType /\ ConnOK(conn[fpc.conn], fpc.conn \in connections)
    BY <1>2 DEF SInv, ServerType, ConnInv
  <1>4. DueAt(fpc.conn, Work, conn[fpc.conn], loopOf[fpc.conn], fpc.conn \in connections)
    BY DEF DueAt, SInv, WorkOK
  <1> QED BY <1>1, <1>2, <1>3, <1>4 DEF NoShutdown

LEMMA ForeignSetStateStep == ASSUME SInv, ForeignSetState PROVE SInv'
  <1> DEFINE c == fpc.conn
             k == [conn[c] EXCEPT !.state = "disconnecting"]
  <1>1. /\ fpc.op = "setState" /\ fpc' = [fpc EXCEPT !.op = "shutdown"]
        /\ UNCHANGED <<serverVars, loopVars, held, budget, failed>>
    BY DEF ForeignSetState
  <1>2. conn' = SetConn(c, k)
    BY DEF ForeignSetState, SetConn
  <1>3. fpc # Idle
    BY <1>1 DEF Idle
  <1>4. /\ ~Calm /\ ~NoShutdown
        /\ fpc \in [op : {"setState", "send", "shutdown"}, conn : Conns]
        /\ c \in Conns /\ conn[c] \in ConnType /\ conn[c].state # "connecting"
        /\ ConnOK(conn[c], c \in connections)
        /\ DueAt(c, Work, conn[c], loopOf[c], c \in connections)
    BY <1>3, ForeignFacts
  <1>5. /\ k \in ConnType /\ k.state = "disconnecting" /\ k.events = conn[c].events
        /\ k.status = conn[c].status /\ k.ups = conn[c].ups /\ k.downs = conn[c].downs
        /\ k.life = conn[c].life
    BY <1>4 DEF ConnType
  <1> HIDE DEF k
  <1>6. ConnOK(k, c \in connections)
    BY <1>4, <1>5 DEF ConnOK
  <1>7. DueAt(c, Work, k, loopOf[c], c \in connections)
    BY <1>4, <1>5 DEF DueAt, Due
  <1>8. /\ ServerType' /\ RoundInv' /\ ActiveInv' /\ ConnInv' /\ FailedInv' /\ Only(c)
        /\ WorkOK(Work, conn, loopOf, connections)'
        /\ TornOK(Work, conn, loopOf, connections)'
    BY <1>1, <1>2, <1>4, <1>5, <1>6, <1>7, ConnParts
  <1>9. ForeignInv'
    <2>1. /\ fpc' \in [op : {"setState", "send", "shutdown"}, conn : Conns]
          /\ fpc'.conn = c /\ held' = held
      BY <1>1, <1>4
    <2>2. \A d \in Conns : conn[d].state # "connecting" => conn'[d].state # "connecting"
      BY <1>2, <1>4, <1>5 DEF SetConn, SInv, ServerType
    <2> QED BY <1>4, <2>1, <2>2 DEF SInv, ForeignInv, ServerType
  <1> QED BY <1>8, <1>9 DEF SInv

LEMMA ForeignQueueStep == ASSUME SInv, ForeignQueue PROVE SInv'
  <1> DEFINE c == fpc.conn
             x == loopOf[c]
             g == [op |-> fpc.op, conn |-> c]
             W == Waiting(pending, batch, ran)
             V == Waiting(pending', batch, ran)
  <1>1. /\ fpc.op \in AppOps /\ fpc' = Idle
        /\ UNCHANGED <<conn, loopOf, connections, loops, next, lpc, active, accepting,
                       batch, ran, held, budget, failed>>
    BY DEF ForeignQueue, serverVars
  <1>2. pending' = Queue(pending, x, fpc.op, c)
    BY DEF ForeignQueue
  <1>3. fpc # Idle
    BY <1>1 DEF Idle, AppOps
  <1>4. /\ ~Calm /\ ~NoShutdown
        /\ c \in Conns /\ conn[c] \in ConnType /\ conn[c].state # "connecting"
        /\ DueAt(c, W, conn[c], loopOf[c], c \in connections)
    BY <1>3, ForeignFacts DEF Work
  <1>5. g.op = fpc.op /\ g.conn = c /\ g \in FunctorType
    BY <1>1, <1>4 DEF FunctorType, AppOps
  <1>6. /\ ServerType /\ x \in Loops /\ ran \in Counts
        /\ \A m \in Loops : ran[m] <= Len(batch[m])
        /\ WorkOK(W, conn, loopOf, connections)
    BY <1>4 DEF SInv, ServerType, RoundInv, Work
  <1>7. fpc.op \notin SoleOps
    BY <1>1, <1>4 DEF SoleOps, AppOps
  <1> HIDE DEF g
  <1>8. RightLoop(g, x, loopOf'[c]) /\ Due(g, conn'[c], c \in connections')
    BY <1>1, <1>4, <1>5 DEF RightLoop, Due, AppOps
  <1>9. /\ OnlyAt(c, conn, loopOf, connections, conn', loopOf', connections')
        /\ DueAt(c, W, conn'[c], loopOf'[c], c \in connections')
    BY <1>1, <1>4 DEF OnlyAt
  <1>10. fpc.op \in SoleOps => g \notin Range(W[x])
    BY <1>7
  <1>11. pending' \in Queues /\ WorkOK(V, conn', loopOf', connections')
    <2>1. c \in Conns
      BY <1>4
    <2> DEFINE op == fpc.op
    <2>2. /\ pending' = Queue(pending, x, op, c) /\ (op \in SoleOps => g \notin Range(W[x]))
          /\ g = [op |-> op, conn |-> c]
      BY <1>2, <1>10 DEF g
    <2> HIDE DEF op, c, x
    <2> QED BY ONLY <1>5, <1>6, <1>8, <1>9, <2>1, <2>2, GrowOne, Zenon
  <1>12. Work' = V
    BY <1>1 DEF Work
  <1>13. ServerType' /\ RoundInv' /\ ActiveInv' /\ ConnInv' /\ FailedInv'
    <2>1. ServerType'
      BY <1>1, <1>11 DEF SInv, ServerType
    <2>2. RoundInv' /\ ActiveInv'
      BY <1>1 DEF SInv, RoundInv, ActiveInv
    <2>3. ConnInv' /\ FailedInv'
      BY <1>1 DEF SInv, ConnInv, FailedInv
    <2> QED BY <2>1, <2>2, <2>3
  <1>14. ForeignInv'
    BY <1>1, <1>4 DEF SInv, ForeignInv
  <1>15. TornOK(Work', conn', loopOf', connections')
    BY <1>4 DEF TornOK
  <1> QED BY <1>11, <1>12, <1>13, <1>14, <1>15 DEF SInv

-----------------------------------------------------------------------------
(* The invariant holds. *)

LEMMA InitInv == ASSUME Init PROVE SInv
  <1>1. /\ conn = [c \in Conns |-> NewConn] /\ loopOf = [c \in Conns |-> Base]
        /\ connections = {} /\ loops \in Pools /\ next = 0
        /\ lpc = [l \in Loops |-> "poll"] /\ active = [l \in Loops |-> {}]
        /\ accepting = FALSE /\ pending = [l \in Loops |-> <<>>]
        /\ batch = [l \in Loops |-> <<>>] /\ ran = [l \in Loops |-> 0]
        /\ held = {} /\ fpc = Idle /\ budget = MaxForeign /\ failed = {}
    BY DEF Init
  <1>2. NewConn \in ConnType /\ ConnOK(NewConn, FALSE)
    <2>1. NewConn \in ConnType
      BY ServerAssumption DEF NewConn, ConnType
    <2>2. ConnOK(NewConn, FALSE)
      BY DEF NewConn, ConnOK
    <2> QED BY <2>1, <2>2
  <1>3. ServerType
    <2>1. conn \in [Conns -> ConnType] /\ loopOf \in [Conns -> Loops]
      BY <1>1, <1>2 DEF Loops
    <2>2. pending \in Queues /\ batch \in Queues /\ ran \in Counts
      BY <1>1 DEF Queues, Counts
    <2>3. next \in 0 .. (IF loops = <<>> THEN 0 ELSE Len(loops) - 1)
      <3>1. loops \in Seq(Workers)
        BY <1>1, ServerAssumption
      <3>2. loops # <<>> => Len(loops) \in Nat \ {0}
        BY <3>1
      <3> QED BY <1>1, <3>2
    <2>4. budget \in 0 .. MaxForeign
      BY <1>1, ServerAssumption
    <2> QED BY <1>1, <2>1, <2>2, <2>3, <2>4 DEF ServerType
  <1>4. RoundInv /\ ActiveInv
    BY <1>1 DEF RoundInv, ActiveInv
  <1>5. ConnInv
    BY <1>1, <1>2 DEF ConnInv, ConnOK
  <1>6. \A l \in Loops : Work[l] \in Seq(FunctorType) /\ Range(Work[l]) = {}
    <2>1. Work \in Queues /\ \A l \in Loops : Range(Work[l]) \subseteq Range(pending[l])
                                                                  \cup Range(batch[l])
      BY <1>3, <1>4, WaitingType DEF ServerType, RoundInv, Work
    <2>2. \A l \in Loops : Range(pending[l]) = {} /\ Range(batch[l]) = {}
      BY <1>1 DEF Range
    <2> QED BY <2>1, <2>2 DEF Queues
  <1>7. WorkOK(Work, conn, loopOf, connections)
    <2> SUFFICES ASSUME NEW l \in Loops PROVE Sole(Work[l])
      BY <1>6 DEF WorkOK
    <2>1. DOMAIN Work[l] = {}
      BY <1>6 DEF Range
    <2> QED BY <2>1 DEF Sole
  <1>8. TornOK(Work, conn, loopOf, connections)
    BY <1>1 DEF TornOK, NewConn
  <1>9. ForeignInv /\ FailedInv
    BY <1>1 DEF ForeignInv, FailedInv
  <1> QED BY <1>3, <1>4, <1>5, <1>7, <1>8, <1>9 DEF SInv

LEMMA StutterStep == ASSUME SInv, UNCHANGED vars PROVE SInv'
  <1>1. UNCHANGED <<conn, loopOf, connections, loops, next, lpc, active, accepting,
                    pending, batch, ran, held, fpc, budget, failed>>
    BY DEF vars, serverVars, loopVars, foreignVars
  <1>2. ServerType' /\ RoundInv' /\ ActiveInv' /\ ForeignInv'
    BY <1>1 DEF SInv, ServerType, RoundInv, ActiveInv, ForeignInv
  <1>3. Work' = Work
    BY <1>1 DEF Work
  <1> QED BY <1>1, <1>2, <1>3, QuietParts DEF SInv

LEMMA NextStep == ASSUME SInv, [Next]_vars PROVE SInv'
  <1>1. CASE \E l \in Loops : LoopThread(l)
    <2>1. PICK l \in Loops : LoopThread(l)
      BY <1>1
    <2> QED BY <2>1, PollStep, HandleActiveStep, AcceptStep, SwapFunctorsStep,
               RunFunctorStep, FinishFunctorsStep DEF LoopThread
  <1>2. CASE \E op \in AppOps, c \in Conns : ForeignCall(op, c)
    BY <1>2, ForeignCallStep
  <1>3. CASE ForeignSetState
    BY <1>3, ForeignSetStateStep
  <1>4. CASE ForeignQueue
    BY <1>4, ForeignQueueStep
  <1>5. CASE \E c \in Conns : ForeignDrop(c)
    BY <1>5, ForeignDropStep
  <1>6. CASE \E c \in Conns : \/ PeerConnects(c) \/ PeerSends(c)
                              \/ PeerCloses(c) \/ PeerResets(c)
    BY <1>6, PeerStep
  <1>7. CASE UNCHANGED vars
    BY <1>7, StutterStep
  <1> QED BY <1>1, <1>2, <1>3, <1>4, <1>5, <1>6, <1>7 DEF Next

LEMMA Inductive == Spec => []SInv
  <1>1. Init => SInv
    BY InitInv
  <1>2. SInv /\ [Next]_vars => SInv'
    BY NextStep
  <1> QED BY <1>1, <1>2, PTL DEF Spec

-----------------------------------------------------------------------------
(* What follows from it. *)

\* Every variable of the server, its loops and its connections keeps its type: in
\* particular next_ stays a valid index of loops_ (eventloop_thread_pool.cpp), and
\* connection_change_callback_ is called at most once each way for a connection.
THEOREM TypeCorrect == Spec => []TypeOK
  <1>1. SInv => TypeOK
    <2> SUFFICES ASSUME SInv PROVE TypeOK
      OBVIOUS
    <2>1. ServerType
      BY DEF SInv
    <2>2. ASSUME NEW l \in Loops PROVE Functors(l) \subseteq FunctorType
      <3>1. pending[l] \in Seq(FunctorType) /\ batch[l] \in Seq(FunctorType)
        BY <2>1 DEF ServerType, Queues
      <3> QED BY <3>1 DEF Functors, Range
    <2>3. ASSUME NEW l \in Loops, NEW a \in active[l] PROVE a.conn \in Conns
      BY <2>1 DEF ServerType, ActiveType
    <2> QED BY <2>1, <2>2, <2>3 DEF ServerType, TypeOK, Counts
  <1> QED BY <1>1, Inductive, PTL

\* Whatever user code on the loops and other threads do with send() and
\* shutdown(), connectEstablished() finds kConnecting, and handleClose() finds
\* kConnected or kDisconnecting.
THEOREM LoopAsserts == Spec => []LoopAssertsHold
  <1>1. SInv => LoopAssertsHold
    BY DEF SInv, FailedInv, LoopAssertsHold
  <1> QED BY <1>1, Inductive, PTL

\* A channel enabled for reading belongs to a connection that connections_ still
\* holds: handleClose() disables it before removeConnection() erases it.
THEOREM ReadsOnlyKnown == Spec => []ReadOnlyWhileKnown
  <1>1. SInv => ReadOnlyWhileKnown
    BY DEF SInv, ConnInv, ConnOK, ReadOnlyWhileKnown
  <1> QED BY <1>1, Inductive, PTL

\* A destroyed connection is in no functor that is yet to be called.
LEMMA DeadFacts ==
    ASSUME SInv, NEW c \in Conns, Destroyed(c)
    PROVE  /\ c \notin connections /\ conn[c].state # "connecting"
           /\ ConnOK(conn[c], c \in connections)
           /\ Calm => conn[c].status = "new" /\ (NoShutdown => conn[c].downs = 1)
  <1>1. c \notin connections /\ conn[c].life = "accepted"
    BY DEF Destroyed, Referenced
  <1>2. ConnOK(conn[c], c \in connections)
    BY DEF SInv, ConnInv
  <1>3. conn[c].state # "connecting"
    BY <1>1, <1>2 DEF ConnOK
  <1>4. \A l \in Loops : Range(Work[l]) \subseteq Functors(l)
    BY WaitingType DEF SInv, ServerType, RoundInv, Work, Functors
  <1>5. loopOf[c] \in Loops
    BY DEF SInv, ServerType
  <1> DEFINE g == [op |-> "destroyed", conn |-> c]
  <1>6. g \notin Range(Work[loopOf[c]])
    <2>1. g.conn = c
      OBVIOUS
    <2> HIDE DEF g
    <2> QED BY <1>4, <1>5, <2>1 DEF Destroyed, Referenced
  <1>7. Calm => TornAt(c, Work, conn, loopOf, connections)
    BY DEF SInv, TornOK, TornAt
  <1>8. Calm => conn[c].status = "new" /\ (NoShutdown => conn[c].downs = 1)
    BY <1>1, <1>3, <1>6, <1>7 DEF TornAt
  <1> QED BY <1>1, <1>2, <1>3, <1>8

\* In a server where only connection and message callbacks send, and other threads
\* leave connections alone, the assert in removeConnectionInLoop() holds too: a
\* connection is closed once, and leaves connections_ once.
THEOREM ServerAsserts == ASSUME Calm PROVE Spec => []AssertsHold
  <1>1. SInv => AssertsHold
    BY DEF SInv, FailedInv, AssertsHold
  <1> QED BY <1>1, Inductive, PTL

\* In such a server the last shared_ptr to a connection goes after
\* connectDestroyed() took its channel out of the poller, and no event of it is
\* left to dispatch.
THEOREM DiesOutOfPoller == ASSUME Calm PROVE Spec => []DiesUnregistered
  <1>1. SInv => DiesUnregistered
    <2> SUFFICES ASSUME SInv, NEW c \in Conns, Destroyed(c)
                 PROVE  /\ conn[c].status = "new"
                        /\ \A l \in Loops : \A a \in active[l] : a.conn # c
      BY DEF DiesUnregistered
    <2>1. conn[c].status = "new" /\ c \notin connections
      BY DeadFacts
    <2>2. ASSUME NEW l \in Loops, NEW a \in active[l] PROVE a.conn # c
      BY <2>1, ActiveFacts
    <2> QED BY <2>1, <2>2
  <1> QED BY <1>1, Inductive, PTL

\* When nothing calls shutdown() either, connection_change_callback_ has been
\* called once by connectEstablished() and once by connectDestroyed() by the time
\* the connection is destroyed.
THEOREM HeardOfOnce == ASSUME NoShutdown PROVE Spec => []UpAndDownOnce
  <1>1. SInv => UpAndDownOnce
    <2> SUFFICES ASSUME SInv, NEW c \in Conns, Destroyed(c)
                 PROVE  conn[c].ups = 1 /\ conn[c].downs = 1
      BY DEF UpAndDownOnce
    <2>1. Calm
      BY DEF NoShutdown
    <2>2. /\ conn[c].downs = 1 /\ conn[c].state # "connecting"
          /\ ConnOK(conn[c], c \in connections)
      BY <2>1, DeadFacts
    <2> QED BY <2>2 DEF ConnOK
  <1> QED BY <1>1, Inductive, PTL
=============================================================================
