-------------------------- MODULE EPollPollerProofs --------------------------
(***************************************************************************)
(* Proofs about core::EPollPoller for any number of channels and of        *)
(* descriptors and any initial size of the event list.                     *)
(***************************************************************************)
EXTENDS EPollPoller, TLAPS

\* The kernel hands out no descriptor twice.
DistinctFds ==
    \A c, d \in Channels : Alive(c) /\ fd[c] = fd[d] => c = d

\* The three records of what is watched agree, which is what makes each
\* epoll_ctl succeed, which in turn keeps them in agreement.
IInv ==
    /\ TypeOK
    /\ DistinctFds
    /\ InterestListMirrorsChannels
    /\ MapMirrorsChannels
    /\ EpollCtlSucceeds

USE PollerAssumption DEF NEW_POLLER, ADDED_POLLER, DELETED_POLLER

\* The poller starts with nothing registered.
LEMMA InitInv == Init => IInv
BY DEF Init, IInv, TypeOK, DistinctFds, InterestListMirrorsChannels,
       MapMirrorsChannels, EpollCtlSucceeds, Alive, Interests

\* The kernel's entry for the descriptor of a living channel is that channel's
\* or nobody's, and it is that channel's exactly when its status is ADDED.
LEMMA OwnEntry ==
  ASSUME IInv, NEW c \in Channels, Alive(c)
  PROVE  /\ fd[c] \in Fds
         /\ ptr[fd[c]] = IF status[c] = ADDED_POLLER THEN c ELSE NoChannel
         /\ channels[fd[c]] = IF status[c] = NEW_POLLER THEN NoChannel ELSE c
BY DEF IInv, TypeOK, Alive, DistinctFds, InterestListMirrorsChannels,
       MapMirrorsChannels

\* updateChannel() chooses an operation that epoll_ctl accepts.
LEMMA UpdateAccepted ==
  ASSUME IInv, NEW c \in Channels, NEW ev \in SUBSET Interests,
         Alive(c), UpdateChannel(c, ev)
  PROVE  /\ events' = [events EXCEPT ![c] = ev]
         /\ failure' = failure
         /\ \/ /\ status' = [status EXCEPT ![c] = ADDED_POLLER]
               /\ channels' = [channels EXCEPT ![fd[c]] = c]
               /\ ptr' = [ptr EXCEPT ![fd[c]] = c]
               /\ mask' = [mask EXCEPT ![fd[c]] = ev]
            \/ /\ status' = [status EXCEPT ![c] = DELETED_POLLER]
               /\ channels' = [channels EXCEPT ![fd[c]] = c]
               /\ ptr' = [ptr EXCEPT ![fd[c]] = NoChannel]
               /\ mask' = [mask EXCEPT ![fd[c]] = {}]
<1> USE OwnEntry DEF UpdateChannel, Update, CtlFails
<1>1. fd[c] \in Fds /\ c # NoChannel
  OBVIOUS
<1>2. CASE status[c] = NEW_POLLER
  BY <1>1, <1>2
<1>3. CASE status[c] = DELETED_POLLER
  <2>1. channels = [channels EXCEPT ![fd[c]] = c]
    BY <1>1, <1>3 DEF IInv, TypeOK
  <2> QED
    BY <1>1, <1>3, <2>1
<1>4. CASE status[c] = ADDED_POLLER
  <2>1. /\ channels = [channels EXCEPT ![fd[c]] = c]
        /\ status = [status EXCEPT ![c] = ADDED_POLLER]
    BY <1>1, <1>4 DEF IInv, TypeOK
  <2> QED
    BY <1>1, <1>4, <2>1
<1> QED
  BY <1>2, <1>3, <1>4 DEF IInv, TypeOK

\* Every call of enable, disable or disableAll keeps the records in agreement.
LEMMA CallKeepsInv ==
  ASSUME IInv, NEW c \in Channels, NEW ev \in SUBSET Interests, Call(c, ev)
  PROVE  IInv'
<1> USE DEF Call
<1>1. Alive(c) /\ UpdateChannel(c, ev)
  OBVIOUS
<1>2. fd[c] \in Fds
  BY <1>1, OwnEntry
<1>3. TypeOK'
  BY <1>1, <1>2, UpdateAccepted DEF IInv, TypeOK
<1>4. DistinctFds'
  BY DEF IInv, DistinctFds, Alive
<1>5. InterestListMirrorsChannels'
  BY <1>1, <1>2, UpdateAccepted
  DEF IInv, TypeOK, DistinctFds, InterestListMirrorsChannels, Alive
<1>6. MapMirrorsChannels'
  BY <1>1, <1>2, UpdateAccepted
  DEF IInv, TypeOK, DistinctFds, MapMirrorsChannels, Alive
<1>7. EpollCtlSucceeds'
  BY <1>1, UpdateAccepted DEF IInv, EpollCtlSucceeds
<1> QED
  BY <1>3, <1>4, <1>5, <1>6, <1>7 DEF IInv

\* So does remove().
LEMMA RemoveKeepsInv ==
  ASSUME IInv, NEW c \in Channels, Remove(c)
  PROVE  IInv'
<1>1. Alive(c) /\ fd[c] \in Fds
  BY OwnEntry DEF Remove
<1>2. /\ ptr' = [ptr EXCEPT ![fd[c]] = NoChannel]
      /\ failure' = failure
      /\ mask' = [mask EXCEPT ![fd[c]] = {}] \/ mask' = mask
  BY <1>1, OwnEntry DEF Remove, Update, CtlFails, kernelVars, IInv, TypeOK
<1>3. /\ channels' = [channels EXCEPT ![fd[c]] = NoChannel]
      /\ status' = [status EXCEPT ![c] = NEW_POLLER]
      /\ UNCHANGED <<fd, events, ready, active, capacity>>
  BY DEF Remove
<1>4. TypeOK'
  BY <1>1, <1>2, <1>3 DEF IInv, TypeOK
<1>5. DistinctFds'
  BY <1>3 DEF IInv, DistinctFds, Alive
<1>6. InterestListMirrorsChannels'
  BY <1>1, <1>2, <1>3
  DEF IInv, TypeOK, DistinctFds, InterestListMirrorsChannels, Alive
<1>7. MapMirrorsChannels'
  BY <1>1, <1>3 DEF IInv, TypeOK, DistinctFds, MapMirrorsChannels, Alive
<1> QED
  BY <1>2, <1>4, <1>5, <1>6, <1>7 DEF IInv, EpollCtlSucceeds

\* A new channel brings a descriptor no living channel has: nothing is
\* registered for it.
LEMMA ConstructKeepsInv ==
  ASSUME IInv, NEW c \in Channels, NEW f \in Fds, Construct(c, f)
  PROVE  IInv'
<1>1. ptr[f] = NoChannel /\ channels[f] = NoChannel
  BY DEF Construct, IInv, TypeOK, InterestListMirrorsChannels,
         MapMirrorsChannels
<1>2. /\ fd' = [fd EXCEPT ![c] = f]
      /\ events' = [events EXCEPT ![c] = {}]
      /\ status' = [status EXCEPT ![c] = NEW_POLLER]
      /\ UNCHANGED <<ptr, mask, failure, channels, ready, active, capacity>>
      /\ ~Alive(c)
      /\ \A d \in Channels : fd[d] # f
  BY DEF Construct, kernelVars
<1>3. TypeOK'
  BY <1>2 DEF IInv, TypeOK
<1>4. DistinctFds'
  BY <1>2 DEF IInv, TypeOK, DistinctFds, Alive
<1>5. InterestListMirrorsChannels'
  BY <1>1, <1>2 DEF IInv, TypeOK, InterestListMirrorsChannels, Alive
<1>6. MapMirrorsChannels'
  BY <1>1, <1>2 DEF IInv, TypeOK, MapMirrorsChannels, Alive
<1> QED
  BY <1>2, <1>3, <1>4, <1>5, <1>6 DEF IInv, EpollCtlSucceeds

\* A removed channel leaves nothing behind when it dies.
LEMMA DestroyKeepsInv ==
  ASSUME IInv, NEW c \in Channels, Destroy(c)
  PROVE  IInv'
<1>1. /\ Alive(c) /\ fd[c] \in Fds
      /\ ptr[fd[c]] = NoChannel /\ channels[fd[c]] = NoChannel
  BY OwnEntry DEF Destroy
<1>2. /\ fd' = [fd EXCEPT ![c] = NoFd]
      /\ ptr' = [ptr EXCEPT ![fd[c]] = NoChannel]
      /\ mask' = [mask EXCEPT ![fd[c]] = {}]
      /\ ready' = [ready EXCEPT ![fd[c]] = {}]
      /\ UNCHANGED <<events, status, failure, channels, active, capacity>>
  BY DEF Destroy
<1>3. TypeOK'
  BY <1>1, <1>2 DEF IInv, TypeOK
<1>4. DistinctFds'
  BY <1>2 DEF IInv, TypeOK, DistinctFds, Alive
<1>5. InterestListMirrorsChannels'
  BY <1>1, <1>2
  DEF IInv, TypeOK, DistinctFds, InterestListMirrorsChannels, Alive
<1>6. MapMirrorsChannels'
  BY <1>1, <1>2 DEF IInv, TypeOK, DistinctFds, MapMirrorsChannels, Alive
<1> QED
  BY <1>2, <1>3, <1>4, <1>5, <1>6 DEF IInv, EpollCtlSucceeds

\* What the kernel and poll() do leaves the records alone.
LEMMA PollKeepsInv ==
  ASSUME IInv, Poll \/ Handled \/ \E f \in Fds : ReadyChanges(f)
  PROVE  IInv'
<1>1. UNCHANGED <<fd, events, status, ptr, mask, failure, channels>>
  BY DEF Poll, Handled, ReadyChanges, channelVars, kernelVars
<1>2. ready' \in [Fds -> SUBSET (Interests \cup {"hup"})]
  BY DEF IInv, TypeOK, Poll, Handled, ReadyChanges
<1>3. active' \in SUBSET Channels
  <2>1. ASSUME NEW S \in SUBSET Firing
        PROVE  {ptr[f] : f \in S} \in SUBSET Channels
    BY DEF IInv, TypeOK, Firing, Fires
  <2>2. \/ active' \in {active, {}}
        \/ \E S \in SUBSET Firing : active' = {ptr[f] : f \in S}
    BY DEF Poll, Handled, ReadyChanges
  <2> QED
    BY <2>1, <2>2 DEF IInv, TypeOK
<1>4. capacity' \in Nat \ {0}
  <2>1. capacity \in Nat \ {0}
    BY DEF IInv, TypeOK
  <2>2. capacity' = capacity \/ \E n : capacity' = Grown(capacity, n)
    BY DEF Poll, Handled, ReadyChanges
  <2> QED
    BY <2>1, <2>2 DEF Grown
<1>5. TypeOK'
  BY <1>1, <1>2, <1>3, <1>4 DEF IInv, TypeOK
<1> QED
  BY <1>1, <1>5 DEF IInv, DistinctFds, InterestListMirrorsChannels,
                    MapMirrorsChannels, EpollCtlSucceeds, Alive

\* IInv is inductive.
LEMMA NextKeepsInv == IInv /\ [Next]_vars => IInv'
<1> SUFFICES ASSUME IInv, [Next]_vars
             PROVE  IInv'
  OBVIOUS
<1>1. ASSUME NEW c \in Channels,
             \/ EnableReading(c) \/ DisableReading(c) \/ EnableWriting(c)
             \/ DisableWriting(c) \/ DisableAll(c)
      PROVE  IInv'
  <2>1. events[c] \in SUBSET Interests
    BY DEF IInv, TypeOK
  <2>2. \E ev \in SUBSET Interests : Call(c, ev)
    BY <1>1, <2>1 DEF EnableReading, DisableReading, EnableWriting,
                      DisableWriting, DisableAll, Interests
  <2> QED
    BY <2>2, CallKeepsInv
<1>2. CASE UNCHANGED vars
  BY <1>2 DEF IInv, TypeOK, DistinctFds, InterestListMirrorsChannels,
              MapMirrorsChannels, EpollCtlSucceeds, Alive, vars, channelVars,
              kernelVars
<1> QED
  BY <1>1, <1>2, RemoveKeepsInv, ConstructKeepsInv, DestroyKeepsInv,
     PollKeepsInv DEF Next

\* The inductive invariant holds in every behaviour of the poller.
LEMMA Invariance == Spec => []IInv
BY InitInv, NextKeepsInv, PTL DEF Spec

\* The state of the poller, of its channels and of the interest list is well
\* typed; in particular the event list passed to epoll_wait is never empty.
THEOREM TypeCorrect == Spec => []TypeOK
<1>1. IInv => TypeOK
  BY DEF IInv
<1> QED
  BY <1>1, Invariance, PTL

\* The kernel's interest list agrees with the channels after every operation,
\* and never points to a channel that is gone.
THEOREM InterestListCorrect == Spec => []InterestListMirrorsChannels
<1>1. IInv => InterestListMirrorsChannels
  BY DEF IInv
<1> QED
  BY <1>1, Invariance, PTL

\* channels_ agrees with the channels after every operation.
THEOREM MapCorrect == Spec => []MapMirrorsChannels
<1>1. IInv => MapMirrorsChannels
  BY DEF IInv
<1> QED
  BY <1>1, Invariance, PTL

\* No sequence of channel operations makes epoll_ctl fail, and so none aborts
\* the process through LOG_FATAL.
THEOREM NoCtlFailure == Spec => []EpollCtlSucceeds
<1>1. IInv => EpollCtlSucceeds
  BY DEF IInv
<1> QED
  BY <1>1, Invariance, PTL
=============================================================================
