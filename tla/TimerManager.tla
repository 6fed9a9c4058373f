---------------------------- MODULE TimerManager ----------------------------
(***************************************************************************)
(* core::TimerManager (utils/timer.{h,cpp}), used by its loop thread.      *)
(* Timers are objects on the heap, known to the manager by address in two  *)
(* sets: timers_, ordered by expiration, and active_timers_, searched by   *)
(* cancel().  processTimers() collects what has expired, runs the          *)
(* callbacks (which may add and cancel timers), then restarts or deletes.  *)
(* An access to a deleted timer is recorded and ends the behaviour.  The   *)
(* callers are careful: they cancel a timer only while it waits in timers_.*)
(***************************************************************************)
EXTENDS Integers, Sequences, FiniteSets, Functions

CONSTANTS Addrs,        \* heap addresses of timers (numbers, ordered)
          MaxTimers,    \* bound: timers ever added
          MaxTime,      \* bound: the clock
          Intervals     \* intervals asked for; 0 is a timer that fires once

ASSUME TimerAssumption ==
    /\ Addrs \subseteq Nat /\ MaxTimers \in Nat /\ MaxTime \in Nat
    /\ Intervals \subseteq Nat

VARIABLES
    heap,      \* address -> the Timer object there, or Free
    timers,    \* timers_
    active,    \* active_timers_
    nextId,    \* next_timer_id_
    now,       \* the steady clock
    phase,     \* processTimers(): not running, calling back, restarting
    expired,   \* processTimers(): entries not yet called / not yet restarted
    rest,      \* processTimers(): entries already called back
    handles,   \* the TimerIds callers hold
    fires,     \* history: id -> how often its callback ran
    cancelled, \* history: ids that cancel() found and deleted
    misuse     \* a deleted timer was accessed

vars == <<heap, timers, active, nextId, now, phase, expired, rest, handles,
          fires, cancelled, misuse>>

Ids == 0 .. MaxTimers - 1
Free == [when |-> 0, interval |-> 0, id |-> -1]
Live(a) == heap[a] # Free

Entry(a) == [when |-> heap[a].when, addr |-> a]

\* std::pair comparison.
Before(e, f) == e.when < f.when \/ (e.when = f.when /\ e.addr < f.addr)

-----------------------------------------------------------------------------
(* What callers may do, from a callback or from elsewhere on the loop. *)

AddTimer(a, when, interval) ==
    /\ ~Live(a)
    /\ nextId < MaxTimers
    /\ heap' = [heap EXCEPT ![a] = [when |-> when, interval |-> interval,
                                    id |-> nextId]]
    /\ timers' = timers \cup {[when |-> when, addr |-> a]}
    /\ active' = active \cup {[addr |-> a, id |-> nextId]}
    /\ handles' = handles \cup {[addr |-> a, id |-> nextId]}
    /\ nextId' = nextId + 1
    /\ UNCHANGED cancelled

\* Faulty variant: the timer is deleted but stays in timers_.
BugCancel(h) ==
    /\ h \in active
    /\ heap' = [heap EXCEPT ![h.addr] = Free]
    /\ active' = active \ {h}
    /\ cancelled' = cancelled \cup {h.id}
    /\ UNCHANGED <<timers, nextId, handles>>

\* Faulty variant: the timer leaves active_timers_ only.
BugCancelActive(h) ==
    /\ h \in active
    /\ active' = active \ {h}
    /\ cancelled' = cancelled \cup {h.id}
    /\ UNCHANGED <<heap, timers, nextId, handles>>

\* Faulty variant: the timer is taken out of the sets but is not deleted.
BugCancelLeak(h) ==
    /\ h \in active
    /\ timers' = timers \ {Entry(h.addr)}
    /\ active' = active \ {h}
    /\ cancelled' = cancelled \cup {h.id}
    /\ UNCHANGED <<heap, nextId, handles>>

\* cancel(): nothing for an id that is not found.
Cancel(h) ==
    /\ h \in active
    /\ timers' = timers \ {Entry(h.addr)}
    /\ heap' = [heap EXCEPT ![h.addr] = Free]
    /\ active' = active \ {h}
    /\ cancelled' = cancelled \cup {h.id}
    /\ UNCHANGED <<nextId, handles>>

\* What user code may do: add a timer, or cancel one that still waits.  cancel()
\* takes any TimerId, and its find() looks as if an expired one did no harm;
\* but the entry of an expired timer is still in active_timers_ (see
\* ActiveTimersExist), and cancel() then reads and deletes the timer again.
UserCode ==
    \/ \E a \in Addrs, w \in now .. MaxTime - 1, i \in Intervals : AddTimer(a, w, i)
    \/ \E h \in handles :
          /\ heap[h.addr].id = h.id
          /\ Entry(h.addr) \in timers
          /\ Cancel(h)

\* addTimer() or cancel() outside processTimers().
Call ==
    /\ ~misuse
    /\ phase = "idle"
    /\ UserCode
    /\ UNCHANGED <<now, phase, expired, rest, fires, misuse>>

-----------------------------------------------------------------------------
(* processTimers(). *)

\* The entries S as an iterator of timers_ comes to them.
InOrder(S) ==
    {s \in [1 .. Cardinality(S) -> S] :
        /\ Range(s) = S
        /\ \A i, j \in DOMAIN s : i < j => Before(s[i], s[j])}

\* The entries S move to expired; active_timers_ loses those with id 0.
Collect(S) ==
    /\ expired' \in InOrder(S)
    /\ timers' = timers \ S
    /\ active' = active \ {[addr |-> e.addr, id |-> 0] : e \in S}

\* Faulty variant: looks at the last of timers_ to see if anything is due.
BugProcessTimers ==
    /\ ~misuse
    /\ phase = "idle"
    /\ timers # {}
    /\ \A e \in timers : e.when < now
    /\ Collect(timers)
    /\ phase' = "run"
    /\ UNCHANGED <<heap, nextId, now, rest, handles, fires, cancelled, misuse>>

\* lower_bound(Entry(now, nullptr)): what expires before now, not at now.
ProcessTimers ==
    /\ ~misuse
    /\ phase = "idle"
    /\ \E e \in timers : e.when < now
    /\ Collect({e \in timers : e.when < now})
    /\ phase' = "run"
    /\ UNCHANGED <<heap, nextId, now, rest, handles, fires, cancelled, misuse>>

\* One callback; it may add or cancel one timer.
RunTimer ==
    /\ ~misuse
    /\ phase = "run"
    /\ expired # <<>>
    /\ LET a == Head(expired).addr
       IN  /\ misuse' = ~Live(a)
           /\ fires' = IF Live(a) THEN [fires EXCEPT ![heap[a].id] = @ + 1]
                                  ELSE fires
    /\ \/ UserCode
       \/ UNCHANGED <<heap, timers, active, nextId, handles, cancelled>>
    /\ rest' = Append(rest, Head(expired))
    /\ expired' = Tail(expired)
    /\ UNCHANGED <<now, phase>>

CallbacksDone ==
    /\ ~misuse
    /\ phase = "run"
    /\ expired = <<>>
    /\ phase' = "restart"
    /\ expired' = rest
    /\ rest' = <<>>
    /\ UNCHANGED <<heap, timers, active, nextId, now, handles, fires, cancelled,
                   misuse>>

\* Timer::restart(): the interval counts from the present.
Restarted(a) == now + heap[a].interval

\* A timer that repeats goes back to both sets, under id 0 in active_timers_;
\* any other is deleted.
RestartTimer ==
    /\ ~misuse
    /\ phase = "restart"
    /\ expired # <<>>
    /\ LET a == Head(expired).addr
       IN  /\ misuse' = ~Live(a)
           /\ \/ /\ heap[a].interval > 0
                 /\ heap' = [heap EXCEPT ![a].when = Restarted(a)]
                 /\ timers' = timers \cup {[when |-> Restarted(a), addr |-> a]}
                 /\ active' = active \cup {[addr |-> a, id |-> 0]}
              \/ /\ heap[a].interval = 0
                 /\ heap' = [heap EXCEPT ![a] = Free]
                 /\ UNCHANGED <<timers, active>>
    /\ expired' = Tail(expired)
    /\ UNCHANGED <<nextId, now, phase, rest, handles, fires, cancelled>>

ProcessTimersDone ==
    /\ ~misuse
    /\ phase = "restart"
    /\ expired = <<>>
    /\ phase' = "idle"
    /\ UNCHANGED <<heap, timers, active, nextId, now, expired, rest, handles,
                   fires, cancelled, misuse>>

\* External: time passes.
Tick ==
    /\ now < MaxTime
    /\ now' = now + 1
    /\ UNCHANGED <<heap, timers, active, nextId, phase, expired, rest, handles,
                   fires, cancelled, misuse>>

-----------------------------------------------------------------------------
Init ==
    /\ heap = [a \in Addrs |-> Free]
    /\ timers = {}
    /\ active = {}
    /\ nextId = 0
    /\ now = 0
    /\ phase = "idle"
    /\ expired = <<>>
    /\ rest = <<>>
    /\ handles = {}
    /\ fires = [i \in Ids |-> 0]
    /\ cancelled = {}
    /\ misuse = FALSE

LoopThread ==
    \/ ProcessTimers
    \/ RunTimer
    \/ CallbacksDone
    \/ RestartTimer
    \/ ProcessTimersDone

Next == Call \/ LoopThread \/ Tick

Spec == Init /\ [][Next]_vars

\* The loop calls processTimers() every round, and time passes.
FairSpec == Spec /\ WF_vars(LoopThread) /\ WF_vars(Tick)

-----------------------------------------------------------------------------
(* Properties. *)

\* Callers who cancel only waiting timers never make the manager touch a
\* deleted timer, even when they cancel and add from callbacks and addresses
\* are used again.
MemorySafe == ~misuse

\* Outside processTimers() the timers on the heap are exactly those in timers_,
\* each under its own expiration: none leaks, none is forgotten.
TimersAreScheduled ==
    phase = "idle" => timers = {Entry(a) : a \in {b \in Addrs : Live(b)}}

\* The callback of a cancelled timer does not run again.
CancelledStaysQuiet ==
    [][\A i \in cancelled : fires'[i] = fires[i]]_vars

\* Every timer fires or is cancelled, if the clock gets past its expiration.
EveryTimerFires ==
    \A i \in Ids : (nextId > i) ~> (fires[i] > 0 \/ i \in cancelled)

\* timer.cpp:77 says that expired timers are deleted from active_timers_: no
\* entry outlives its timer.  It does not hold (README, section 3).
ActiveTimersExist ==
    phase = "idle" => \A e \in active : Live(e.addr)
=============================================================================
