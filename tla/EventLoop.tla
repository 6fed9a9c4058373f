------------------------------ MODULE EventLoop ------------------------------
(***************************************************************************)
(* core::EventLoop (reactor/event_loop.{h,cpp}): one loop thread running   *)
(* loop(), and other threads ("callers") that hand it functors with        *)
(* queueInLoop()/runInLoop() or stop it with quit().                       *)
(*                                                                         *)
(* The callables are opaque: Functors is a set of values.  What user code  *)
(* running on the loop thread (a channel callback, a timer callback, a     *)
(* functor) may do to the loop is Callback: nothing, queueInLoop() one     *)
(* functor, or quit().  The mutex_ sections are single steps; the          *)
(* unlocked tail of queueInLoop() and of quit() (the wakeup() call) is a   *)
(* step of its own for a caller.                                           *)
(***************************************************************************)
EXTENDS Integers, Sequences

CONSTANTS Functors,      \* callables
          Callers,       \* threads other than the loop thread
          MaxFunctors    \* bound: functors ever queued

ASSUME MaxFunctorsAssumption == MaxFunctors \in Nat

VARIABLES
    pc,         \* where the loop thread stands in loop()
    quit,       \* quit_
    looping,    \* looping_
    calling,    \* calling_pending_functors_
    pending,    \* pending_functors_
    functors,   \* the local vector of doPendingFunctors(), not yet called
    eventfd,    \* counter of the eventfd wakeup_fd_
    io,         \* the kernel has an event for some channel but wakeup_channel_
    active,     \* active_channels_, as the kinds of channel it holds
    cpc,        \* where each caller stands: idle, or before its wakeup()
    submitted,  \* history: every functor pushed, in push order
    executed,   \* history: every functor called, in call order
    swapped     \* history: how many functors had been pushed at the last swap

vars == <<pc, quit, looping, calling, pending, functors, eventfd, io, active,
          cpc, submitted, executed, swapped>>

PCs == {"start", "entered", "while", "poll", "events", "timers", "swap",
        "functors", "exited"}

-----------------------------------------------------------------------------
(* The wakeup file descriptor. *)

\* External: write(2) on an eventfd adds to the counter only when the buffer
\* has at least 8 bytes; a shorter one is refused with EINVAL.
EventfdWrite(counter, size) == IF size >= 8 THEN counter + 1 ELSE counter

\* wakeup() writes a uint16_t.
WakeupSize == 2

\* wakeup(): the failed write is only logged.
Wakeup(counter) == EventfdWrite(counter, WakeupSize)

\* handleWakeup(): read(2) resets the counter; reading zero is only logged.
HandleWakeup(counter) == 0

\* Faulty variant: the loop waits for an event without a timeout.
BugPollTimeoutMs == -1

\* loop() calls poll(10, ...): epoll_wait returns after 10 ms at the latest.
\* A negative timeout would wait for an event for ever.
PollTimeoutMs == 10


-----------------------------------------------------------------------------
(* queueInLoop(): the locked push, then the decision to call wakeup(). *)

Push(f) ==
    /\ Len(submitted) < MaxFunctors
    /\ pending' = Append(pending, f)
    /\ submitted' = Append(submitted, f)

\* queueInLoop() from the loop thread itself wakes the loop only while it is
\* inside doPendingFunctors().
WakeFromLoop(counter) == IF calling THEN Wakeup(counter) ELSE counter

\* User code on the loop thread; counter is wakeup_fd_'s value before it runs.
Callback(counter) ==
    \/ /\ eventfd' = counter
       /\ UNCHANGED <<quit, pending, submitted>>
    \/ /\ \E f \in Functors : Push(f)
       /\ eventfd' = WakeFromLoop(counter)
       /\ UNCHANGED quit
    \/ /\ quit' = TRUE
       /\ eventfd' = counter
       /\ UNCHANGED <<pending, submitted>>

-----------------------------------------------------------------------------
(* The loop thread. *)

\* Entry of loop(): assert(!looping_), looping_ = true.
EnterLoop ==
    /\ pc = "start"
    /\ ~looping
    /\ looping' = TRUE
    /\ pc' = "entered"
    /\ UNCHANGED <<quit, calling, pending, functors, eventfd, io, active, cpc,
                   submitted, executed, swapped>>

\* quit_ = false, which overwrites a quit() that came before it.
ClearQuit ==
    /\ pc = "entered"
    /\ quit' = FALSE
    /\ pc' = "while"
    /\ UNCHANGED <<looping, calling, pending, functors, eventfd, io, active,
                   cpc, submitted, executed, swapped>>

\* while(!quit_): next round, or out of loop().
TestQuit ==
    /\ pc = "while"
    /\ \/ /\ ~quit
          /\ active' = {}
          /\ pc' = "poll"
          /\ UNCHANGED looping
       \/ /\ quit
          /\ looping' = FALSE
          /\ pc' = "exited"
          /\ UNCHANGED active
    /\ UNCHANGED <<quit, calling, pending, functors, eventfd, io, cpc,
                   submitted, executed, swapped>>

\* epoll_wait returns when a channel has an event or the timeout has passed.
Poll ==
    /\ pc = "poll"
    /\ eventfd > 0 \/ io \/ PollTimeoutMs >= 0
    /\ active' = (IF eventfd > 0 THEN {"wakeup"} ELSE {})
                  \cup (IF io THEN {"io"} ELSE {})
    /\ pc' = "events"
    /\ UNCHANGED <<quit, looping, calling, pending, functors, eventfd, io, cpc,
                   submitted, executed, swapped>>

\* handleEvent() of every active channel.
HandleEvents ==
    /\ pc = "events"
    /\ pc' = "timers"
    /\ io' = (io /\ "io" \notin active)
    /\ LET counter == IF "wakeup" \in active THEN HandleWakeup(eventfd)
                                             ELSE eventfd
       IN  IF "io" \in active
           THEN Callback(counter)
           ELSE eventfd' = counter /\ UNCHANGED <<quit, pending, submitted>>
    /\ UNCHANGED <<looping, calling, functors, active, cpc, executed, swapped>>

\* timer_manager_.processTimers(): timer callbacks are user code.
ProcessTimers ==
    /\ pc = "timers"
    /\ pc' = "swap"
    /\ Callback(eventfd)
    /\ UNCHANGED <<looping, calling, functors, io, active, cpc, executed,
                   swapped>>

\* Faulty variant: the pending functors are copied, not swapped out.
BugSwapFunctors ==
    /\ pc = "swap"
    /\ calling' = TRUE
    /\ functors' = pending
    /\ swapped' = Len(submitted)
    /\ pc' = "functors"
    /\ UNCHANGED <<quit, looping, pending, eventfd, io, active, cpc, submitted,
                   executed>>

\* doPendingFunctors(), first half: the swap under mutex_.
SwapFunctors ==
    /\ pc = "swap"
    /\ calling' = TRUE
    /\ functors' = pending
    /\ pending' = <<>>
    /\ swapped' = Len(submitted)
    /\ pc' = "functors"
    /\ UNCHANGED <<quit, looping, eventfd, io, active, cpc, submitted,
                   executed>>

\* doPendingFunctors(), one turn of its for loop.
RunFunctor ==
    /\ pc = "functors"
    /\ functors # <<>>
    /\ functors' = Tail(functors)
    /\ executed' = Append(executed, Head(functors))
    /\ Callback(eventfd)
    /\ UNCHANGED <<pc, looping, calling, io, active, cpc, swapped>>

\* Faulty variant: the next round starts without the test of quit_.
BugFinishFunctors ==
    /\ pc = "functors"
    /\ functors = <<>>
    /\ calling' = FALSE
    /\ pc' = "poll"
    /\ UNCHANGED <<quit, looping, pending, functors, eventfd, io, active, cpc,
                   submitted, executed, swapped>>

\* Faulty variant: doPendingFunctors() goes on until nothing is pending.
BugDrainFunctors ==
    /\ pc = "functors"
    /\ functors = <<>>
    /\ functors' = pending
    /\ pending' = <<>>
    /\ calling' = (pending # <<>>)
    /\ pc' = (IF pending # <<>> THEN "functors" ELSE "while")
    /\ UNCHANGED <<quit, looping, eventfd, io, active, cpc, submitted, executed,
                   swapped>>

\* doPendingFunctors(), end: calling_pending_functors_ = false.
FinishFunctors ==
    /\ pc = "functors"
    /\ functors = <<>>
    /\ calling' = FALSE
    /\ pc' = "while"
    /\ UNCHANGED <<quit, looping, pending, functors, eventfd, io, active, cpc,
                   submitted, executed, swapped>>

LoopThread ==
    \/ EnterLoop
    \/ ClearQuit
    \/ TestQuit
    \/ Poll
    \/ HandleEvents
    \/ ProcessTimers
    \/ SwapFunctors
    \/ RunFunctor
    \/ FinishFunctors

-----------------------------------------------------------------------------
(* The other threads and the kernel. *)

\* queueInLoop() (and runInLoop(), which calls it off the loop thread).
QueueInLoop(t, f) ==
    /\ cpc[t] = "idle"
    /\ Push(f)
    /\ cpc' = [cpc EXCEPT ![t] = "wake"]
    /\ UNCHANGED <<pc, quit, looping, calling, functors, eventfd, io, active,
                   executed, swapped>>

\* quit() from another thread: the flag, then wakeup().
Quit(t) ==
    /\ cpc[t] = "idle"
    /\ quit' = TRUE
    /\ cpc' = [cpc EXCEPT ![t] = "wake"]
    /\ UNCHANGED <<pc, looping, calling, pending, functors, eventfd, io, active,
                   submitted, executed, swapped>>

\* The wakeup() both calls end with.
CallWakeup(t) ==
    /\ cpc[t] = "wake"
    /\ eventfd' = Wakeup(eventfd)
    /\ cpc' = [cpc EXCEPT ![t] = "idle"]
    /\ UNCHANGED <<pc, quit, looping, calling, pending, functors, io, active,
                   submitted, executed, swapped>>

\* External: some other registered descriptor becomes ready.
IoArrives ==
    /\ ~io
    /\ io' = TRUE
    /\ UNCHANGED <<pc, quit, looping, calling, pending, functors, eventfd,
                   active, cpc, submitted, executed, swapped>>

-----------------------------------------------------------------------------
Init ==
    /\ pc = "start"
    /\ quit = FALSE
    /\ looping = FALSE
    /\ calling = FALSE
    /\ pending = <<>>
    /\ functors = <<>>
    /\ eventfd = 0
    /\ io = FALSE
    /\ active = {}
    /\ cpc = [t \in Callers |-> "idle"]
    /\ submitted = <<>>
    /\ executed = <<>>
    /\ swapped = 0

Next ==
    \/ LoopThread
    \/ \E t \in Callers, f \in Functors : QueueInLoop(t, f)
    \/ \E t \in Callers : Quit(t)
    \/ \E t \in Callers : CallWakeup(t)
    \/ IoArrives

Spec == Init /\ [][Next]_vars

\* The loop thread is scheduled, and a call a caller has begun returns.
\* Nobody has to queue anything, to quit, or to send the process any I/O.
FairSpec ==
    /\ Spec
    /\ WF_vars(LoopThread)
    /\ \A t \in Callers : WF_vars(CallWakeup(t))

-----------------------------------------------------------------------------
(* Properties. *)

TypeOK ==
    /\ pc \in PCs
    /\ quit \in BOOLEAN
    /\ looping \in BOOLEAN
    /\ calling \in BOOLEAN
    /\ pending \in Seq(Functors)
    /\ functors \in Seq(Functors)
    /\ eventfd \in Nat
    /\ io \in BOOLEAN
    /\ active \in SUBSET {"wakeup", "io"}
    /\ cpc \in [Callers -> {"idle", "wake"}]
    /\ submitted \in Seq(Functors)
    /\ executed \in Seq(Functors)
    /\ swapped \in Nat

\* No functor handed to queueInLoop() is lost, called twice or overtaken: what
\* was called, what doPendingFunctors() still holds and what pending_functors_
\* holds are together exactly what was pushed, in push order, whatever the
\* callers do between the swap and the calls.
ExactlyOnceInOrder == submitted = (executed \o functors) \o pending

\* A round of doPendingFunctors() calls what had been pushed before its swap
\* and nothing else.  What a functor of the round queues (itself, say), or what
\* a caller queues meanwhile, waits until the loop has been through poll(),
\* the channels and the timers: functors cannot keep the loop from its events.
RoundIsClosed == Len(executed) <= swapped

\* quit() ends loop(), from whatever thread it comes and wherever the loop
\* stands, once loop() has cleared quit_.  A quit() before that is overwritten,
\* also one that finds looping_ already true.
QuitEndsLoop == (quit /\ pc \notin {"start", "entered"}) ~> (pc = "exited")

\* The functors queued from any thread form the abstract queue: the two
\* vectors are one FIFO queue.
Abstract == INSTANCE TaskQueue WITH queue <- functors \o pending,
                                    done <- executed,
                                    stopped <- (pc = "exited")

\* The loop is that queue, and calls what was queued unless it is left: the
\* 10 ms timeout of poll() brings it to a functor when wakeup() does not.
ImplementsTaskQueue == Abstract!FairSpec

\* event_loop.cpp:126 says that wakeup() writes to wakeup_fd_ to trigger its
\* channel: when every caller has returned from queueInLoop() and the loop
\* waits in poll() with functors pending, the eventfd is readable.
WakeupReachesPoll ==
    (pc = "poll" /\ pending # <<>> /\ \A t \in Callers : cpc[t] = "idle")
        => eventfd > 0
=============================================================================
