----------------------------- MODULE EPollPoller -----------------------------
(***************************************************************************)
(* core::EPollPoller (reactor/epoll_poller.{h,cpp}) with the core::Channel *)
(* objects of its loop (net/channel.{h,cpp}) and the kernel's epoll        *)
(* instance.  Three places record what is watched: the status_ and events_ *)
(* of a channel, the map channels_ and the kernel's interest list.  All of *)
(* it is used by the loop thread alone; what makes it hard is that the     *)
(* owners of channels (EventLoop, Acceptor, TcpConnection) call enable,    *)
(* disable and remove in every order, and that descriptors and addresses   *)
(* are used again as soon as a connection is gone.                         *)
(***************************************************************************)
EXTENDS Integers, FiniteSets, FiniteSetsExt

CONSTANTS Channels,            \* addresses at which Channel objects live
          Fds,                 \* file descriptors
          NoChannel, NoFd,     \* null pointer, no descriptor
          InitEventListSize    \* kInitEventListSize

ASSUME PollerAssumption ==
    /\ NoChannel \notin Channels
    /\ NoFd \notin Fds
    /\ InitEventListSize \in Nat \ {0}

VARIABLES
    fd,        \* fd_ of a channel; NoFd when no Channel lives at the address
    events,    \* events_: POLLIN|POLLPRI is "in", POLLOUT is "out"
    status,    \* status_
    channels,  \* channels_: fd -> Channel*
    ptr,       \* interest list of the kernel: fd -> data.ptr
    mask,      \* interest list of the kernel: fd -> events
    ready,     \* kernel: the conditions that hold on a descriptor
    active,    \* active_channels_ of the loop, not yet handled
    capacity,  \* ep_events_.size()
    failure    \* worst outcome of epoll_ctl: LOG_ERROR, or abort() by LOG_FATAL

channelVars == <<fd, events, status>>
kernelVars == <<ptr, mask, failure>>
vars == <<channelVars, kernelVars, channels, ready, active, capacity>>

Interests == {"in", "out"}

NEW_POLLER == "new"
ADDED_POLLER == "added"
DELETED_POLLER == "deleted"

Alive(c) == fd[c] # NoFd

-----------------------------------------------------------------------------
(* update(): one epoll_ctl call and what is made of its failure. *)

\* External: EEXIST for an ADD, ENOENT for a MOD or a DEL.
CtlFails(operation, f) ==
    IF operation = "ADD" THEN ptr[f] # NoChannel ELSE ptr[f] = NoChannel

Update(operation, c, ev) ==
    IF CtlFails(operation, fd[c])
    THEN /\ failure' = IF operation = "DEL" THEN "logged" ELSE "aborted"
         /\ UNCHANGED <<ptr, mask>>
    ELSE /\ ptr' = [ptr EXCEPT ![fd[c]] = IF operation = "DEL" THEN NoChannel
                                                               ELSE c]
         /\ mask' = [mask EXCEPT ![fd[c]] = IF operation = "DEL" THEN {} ELSE ev]
         /\ UNCHANGED failure

-----------------------------------------------------------------------------
(* Channel operations, each with the updateChannel() it ends with. *)

\* Faulty variant: a channel that was taken out with DEL is put back with MOD.
BugUpdateChannel(c, ev) ==
    /\ events' = [events EXCEPT ![c] = ev]
    /\ \/ /\ status[c] = NEW_POLLER
          /\ channels' = [channels EXCEPT ![fd[c]] = c]
          /\ status' = [status EXCEPT ![c] = ADDED_POLLER]
          /\ Update("ADD", c, ev)
       \/ /\ status[c] # NEW_POLLER
          /\ ev = {}
          /\ Update("DEL", c, ev)
          /\ status' = [status EXCEPT ![c] = DELETED_POLLER]
          /\ UNCHANGED channels
       \/ /\ status[c] # NEW_POLLER
          /\ ev # {}
          /\ Update("MOD", c, ev)
          /\ status' = [status EXCEPT ![c] = ADDED_POLLER]
          /\ UNCHANGED channels

\* events_ = ev; update(): ADD, DEL or MOD according to status_ and events_.
UpdateChannel(c, ev) ==
    /\ events' = [events EXCEPT ![c] = ev]
    /\ \/ /\ status[c] \in {NEW_POLLER, DELETED_POLLER}
          /\ channels' = IF status[c] = NEW_POLLER
                         THEN [channels EXCEPT ![fd[c]] = c]
                         ELSE channels
          /\ status' = [status EXCEPT ![c] = ADDED_POLLER]
          /\ Update("ADD", c, ev)
       \/ /\ status[c] = ADDED_POLLER
          /\ ev = {}
          /\ Update("DEL", c, ev)
          /\ status' = [status EXCEPT ![c] = DELETED_POLLER]
          /\ UNCHANGED channels
       \/ /\ status[c] = ADDED_POLLER
          /\ ev # {}
          /\ Update("MOD", c, ev)
          /\ UNCHANGED <<status, channels>>

Call(c, ev) ==
    /\ failure # "aborted"
    /\ Alive(c)
    /\ UpdateChannel(c, ev)
    /\ UNCHANGED <<fd, ready, active, capacity>>

EnableReading(c) == Call(c, events[c] \cup {"in"})
DisableReading(c) == Call(c, events[c] \ {"in"})
EnableWriting(c) == Call(c, events[c] \cup {"out"})
DisableWriting(c) == Call(c, events[c] \ {"out"})
DisableAll(c) == Call(c, {})

\* Faulty variant: the status is not reset.
BugRemove(c) ==
    /\ failure # "aborted"
    /\ Alive(c)
    /\ channels' = [channels EXCEPT ![fd[c]] = NoChannel]
    /\ \/ status[c] = ADDED_POLLER /\ Update("DEL", c, events[c])
       \/ status[c] # ADDED_POLLER /\ UNCHANGED kernelVars
    /\ UNCHANGED <<fd, events, status, ready, active, capacity>>

\* remove(): removeChannel().
Remove(c) ==
    /\ failure # "aborted"
    /\ Alive(c)
    /\ channels' = [channels EXCEPT ![fd[c]] = NoChannel]
    /\ \/ status[c] = ADDED_POLLER /\ Update("DEL", c, events[c])
       \/ status[c] # ADDED_POLLER /\ UNCHANGED kernelVars
    /\ status' = [status EXCEPT ![c] = NEW_POLLER]
    /\ UNCHANGED <<fd, events, ready, active, capacity>>

\* Channel(): an owner has opened descriptor f and makes a channel for it.
Construct(c, f) ==
    /\ failure # "aborted"
    /\ ~Alive(c)
    /\ \A d \in Channels : fd[d] # f
    /\ fd' = [fd EXCEPT ![c] = f]
    /\ events' = [events EXCEPT ![c] = {}]
    /\ status' = [status EXCEPT ![c] = NEW_POLLER]
    /\ UNCHANGED <<kernelVars, channels, ready, active, capacity>>

\* ~Channel() and the close() of its descriptor by its owner.  Every owner
\* calls remove() first, and connections die in doPendingFunctors(), when the
\* active channels have been handled.  The kernel forgets a closed descriptor.
Destroy(c) ==
    /\ failure # "aborted"
    /\ Alive(c)
    /\ status[c] = NEW_POLLER
    /\ active = {}
    /\ fd' = [fd EXCEPT ![c] = NoFd]
    /\ ptr' = [ptr EXCEPT ![fd[c]] = NoChannel]
    /\ mask' = [mask EXCEPT ![fd[c]] = {}]
    /\ ready' = [ready EXCEPT ![fd[c]] = {}]
    /\ UNCHANGED <<events, status, failure, channels, active, capacity>>

-----------------------------------------------------------------------------
(* The kernel and poll(). *)

\* External: something happens on an open descriptor.
ReadyChanges(f) ==
    /\ \E c \in Channels : fd[c] = f
    /\ \E r \in SUBSET (Interests \cup {"hup"}) :
           r # ready[f] /\ ready' = [ready EXCEPT ![f] = r]
    /\ UNCHANGED <<channelVars, kernelVars, channels, active, capacity>>

\* External: epoll_wait reports a hang-up whether it was asked for or not.
Fires(f) ==
    /\ ptr[f] # NoChannel
    /\ ready[f] \cap (mask[f] \cup {"hup"}) # {}

Firing == {f \in Fds : Fires(f)}

\* Faulty variant: the event list is not made larger when it was filled.
BugGrown(size, num_events) == size

\* The event list is doubled when epoll_wait has filled it.
Grown(size, num_events) == IF size = num_events THEN 2 * num_events ELSE size

\* poll(): epoll_wait fills the event list with some of the descriptors that
\* fire (which ones is up to the kernel).  A timeout or a signal changes
\* nothing.
Poll ==
    /\ failure # "aborted"
    /\ active = {}
    /\ \E S \in SUBSET Firing :
          /\ Cardinality(S) = Min({capacity, Cardinality(Firing)})
          /\ active' = {ptr[f] : f \in S}
          /\ capacity' = IF S = {} THEN capacity
                                   ELSE Grown(capacity, Cardinality(S))
    /\ UNCHANGED <<channelVars, kernelVars, channels, ready>>

\* The loop has called handleEvent() of the active channels; what the
\* callbacks do to channels are the operations above.
Handled ==
    /\ active # {}
    /\ active' = {}
    /\ UNCHANGED <<channelVars, kernelVars, channels, ready, capacity>>

-----------------------------------------------------------------------------
Init ==
    /\ fd = [c \in Channels |-> NoFd]
    /\ events = [c \in Channels |-> {}]
    /\ status = [c \in Channels |-> NEW_POLLER]
    /\ channels = [f \in Fds |-> NoChannel]
    /\ ptr = [f \in Fds |-> NoChannel]
    /\ mask = [f \in Fds |-> {}]
    /\ ready = [f \in Fds |-> {}]
    /\ active = {}
    /\ capacity = InitEventListSize
    /\ failure = "none"

Next ==
    \/ \E c \in Channels, f \in Fds : Construct(c, f)
    \/ \E c \in Channels : EnableReading(c)
    \/ \E c \in Channels : DisableReading(c)
    \/ \E c \in Channels : EnableWriting(c)
    \/ \E c \in Channels : DisableWriting(c)
    \/ \E c \in Channels : DisableAll(c)
    \/ \E c \in Channels : Remove(c)
    \/ \E c \in Channels : Destroy(c)
    \/ \E f \in Fds : ReadyChanges(f)
    \/ Poll
    \/ Handled

Spec == Init /\ [][Next]_vars

\* The loop thread keeps polling and handling; nobody has to use a channel.
FairSpec == Spec /\ WF_vars(Poll) /\ WF_vars(Handled)

-----------------------------------------------------------------------------
(* Properties. *)

TypeOK ==
    /\ fd \in [Channels -> Fds \cup {NoFd}]
    /\ events \in [Channels -> SUBSET Interests]
    /\ status \in [Channels -> {NEW_POLLER, ADDED_POLLER, DELETED_POLLER}]
    /\ channels \in [Fds -> Channels \cup {NoChannel}]
    /\ ptr \in [Fds -> Channels \cup {NoChannel}]
    /\ mask \in [Fds -> SUBSET Interests]
    /\ ready \in [Fds -> SUBSET (Interests \cup {"hup"})]
    /\ active \in SUBSET Channels
    /\ capacity \in Nat \ {0}
    /\ failure \in {"none", "logged", "aborted"}

\* The kernel watches exactly the channels whose status_ is ADDED, with the
\* events_ they have now; no entry points to a channel that is gone or that
\* lives on another descriptor.
InterestListMirrorsChannels ==
    /\ \A c \in Channels : Alive(c) =>
          /\ status[c] = ADDED_POLLER <=> ptr[fd[c]] = c
          /\ status[c] = ADDED_POLLER => mask[fd[c]] = events[c]
    /\ \A f \in Fds : ptr[f] # NoChannel => fd[ptr[f]] = f

\* channels_ holds exactly the channels that were registered and not removed,
\* each under its own descriptor: what hasChannel() answers is true.
MapMirrorsChannels ==
    /\ \A c \in Channels : Alive(c) =>
          (status[c] # NEW_POLLER <=> channels[fd[c]] = c)
    /\ \A f \in Fds : channels[f] # NoChannel => fd[channels[f]] = f

\* epoll_ctl never fails, whatever the order of enable, disable and remove and
\* however descriptors and addresses are reused: LOG_FATAL is not reached.
EpollCtlSucceeds == failure = "none"

\* A descriptor that keeps firing is reported again and again, though
\* epoll_wait may prefer others: the event list grows until all fit.
NoStarvation ==
    \A c \in Channels :
        <>[](Alive(c) /\ Fires(fd[c])) => []<>(c \in active)
=============================================================================
