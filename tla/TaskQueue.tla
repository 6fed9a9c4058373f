------------------------------ MODULE TaskQueue ------------------------------
(***************************************************************************)
(* What core::EventLoop promises to the threads that hand it functors      *)
(* (event_loop.h: runInLoop / queueInLoop): a first-in first-out queue     *)
(* whose elements are executed one at a time, each exactly once, in the    *)
(* order in which they were queued, until the loop stops.  The queue is    *)
(* never refused a functor; what is queued when the loop has stopped is    *)
(* simply never executed.                                                  *)
(***************************************************************************)
EXTENDS Sequences

CONSTANT Functors      \* the callables that may be queued

VARIABLES queue,       \* functors queued and not yet executed, oldest first
          done,        \* functors executed, in execution order
          stopped      \* the loop has left loop()

vars == <<queue, done, stopped>>

Init ==
    /\ queue = <<>>
    /\ done = <<>>
    /\ stopped = FALSE

Submit(f) ==
    /\ queue' = Append(queue, f)
    /\ UNCHANGED <<done, stopped>>

\* A functor may queue one more functor while it runs.
Execute ==
    /\ ~stopped
    /\ queue # <<>>
    /\ done' = Append(done, Head(queue))
    /\ \/ queue' = Tail(queue)
       \/ \E f \in Functors : queue' = Append(Tail(queue), f)
    /\ UNCHANGED stopped

Stop ==
    /\ ~stopped
    /\ stopped' = TRUE
    /\ UNCHANGED <<queue, done>>

Next == (\E f \in Functors : Submit(f)) \/ Execute \/ Stop

Spec == Init /\ [][Next]_vars

\* The loop keeps executing as long as it has not stopped.
FairSpec == Spec /\ WF_vars(Execute)
=============================================================================
