--------------------------- MODULE EventLoopProofs ---------------------------
(***************************************************************************)
(* Proofs about core::EventLoop for any set of functors, any set of        *)
(* calling threads and any bound on the number of functors.                *)
(***************************************************************************)
EXTENDS EventLoop, SequenceTheorems, TLAPS

-----------------------------------------------------------------------------
(* Facts about sequences. *)

\* Appending to the second of two queues appends to their concatenation.
LEMMA ConcatAppend ==
  ASSUME NEW S, NEW s \in Seq(S), NEW t \in Seq(S), NEW e \in S
  PROVE  s \o Append(t, e) = Append(s \o t, e)
<1>1. Append(t, e) = t \o <<e>> /\ <<e>> \in Seq(S)
  BY AppendIsConcat
<1>2. s \o t \in Seq(S)
  BY ConcatProperties
<1>3. Append(s \o t, e) = (s \o t) \o <<e>>
  BY <1>2, AppendIsConcat
<1> QED
  BY <1>1, <1>3, ConcatAssociative

\* A nonempty queue is its head followed by its tail.
LEMMA HeadThenTail ==
  ASSUME NEW S, NEW t \in Seq(S), t # <<>>
  PROVE  <<Head(t)>> \o Tail(t) = t
<1>1. /\ Head(t) \in S
      /\ Tail(t) \in Seq(S)
      /\ Len(Tail(t)) = Len(t) - 1
      /\ \A i \in 1 .. Len(Tail(t)) : Tail(t)[i] = t[i + 1]
  BY HeadTailProperties
<1>2. <<Head(t)>> \in Seq(S) /\ Len(<<Head(t)>>) = 1
  BY <1>1
<1>3. DEFINE u == <<Head(t)>> \o Tail(t)
<1>4. /\ u \in Seq(S)
      /\ Len(u) = Len(t)
      /\ \A i \in 1 .. Len(t) : u[i] = IF i <= 1 THEN <<Head(t)>>[i] ELSE Tail(t)[i - 1]
  BY <1>1, <1>2, ConcatProperties
<1>5. \A i \in 1 .. Len(t) : u[i] = t[i]
  BY <1>1, <1>4
<1> QED
  BY <1>4, <1>5, SeqEqual

\* Moving the head of the second queue to the end of the first changes nothing.
LEMMA ConcatHead ==
  ASSUME NEW S, NEW s \in Seq(S), NEW t \in Seq(S), t # <<>>
  PROVE  Append(s, Head(t)) \o Tail(t) = s \o t
<1>1. Head(t) \in S /\ Tail(t) \in Seq(S) /\ <<Head(t)>> \in Seq(S)
  BY HeadTailProperties
<1>2. Append(s, Head(t)) = s \o <<Head(t)>>
  BY <1>1, AppendIsConcat
<1> QED
  BY <1>1, <1>2, HeadThenTail, ConcatAssociative

\* The head and the tail of two queues taken as one.
LEMMA HeadTailConcat ==
  ASSUME NEW S, NEW s \in Seq(S), NEW t \in Seq(S), s # <<>>
  PROVE  /\ s \o t # <<>>
         /\ Head(s \o t) = Head(s)
         /\ Tail(s \o t) = Tail(s) \o t
<1>1. /\ s \o t \in Seq(S)
      /\ Len(s \o t) = Len(s) + Len(t)
      /\ \A i \in 1 .. Len(s) + Len(t) :
            (s \o t)[i] = IF i <= Len(s) THEN s[i] ELSE t[i - Len(s)]
  BY ConcatProperties
<1>2. Len(s) \in Nat \ {0} /\ Len(t) \in Nat
  BY LenProperties, EmptySeq
<1>3. s \o t # <<>> /\ Head(s \o t) = Head(s)
  BY <1>1, <1>2
<1>4. /\ Tail(s) \in Seq(S)
      /\ Len(Tail(s)) = Len(s) - 1
      /\ \A i \in 1 .. Len(Tail(s)) : Tail(s)[i] = s[i + 1]
  BY HeadTailProperties
<1>5. /\ Tail(s \o t) \in Seq(S)
      /\ Len(Tail(s \o t)) = Len(s) + Len(t) - 1
      /\ \A i \in 1 .. Len(Tail(s \o t)) : Tail(s \o t)[i] = (s \o t)[i + 1]
  BY <1>1, <1>3, HeadTailProperties
<1>6. /\ Tail(s) \o t \in Seq(S)
      /\ Len(Tail(s) \o t) = Len(s) - 1 + Len(t)
      /\ \A i \in 1 .. Len(s) - 1 + Len(t) :
            (Tail(s) \o t)[i] = IF i <= Len(s) - 1 THEN Tail(s)[i]
                                                   ELSE t[i - (Len(s) - 1)]
  BY <1>4, ConcatProperties
<1>7. \A i \in 1 .. Len(Tail(s \o t)) : Tail(s \o t)[i] = (Tail(s) \o t)[i]
  BY <1>1, <1>2, <1>4, <1>5, <1>6
<1>8. Tail(s \o t) = Tail(s) \o t
  BY <1>2, <1>5, <1>6, <1>7, SeqEqual
<1> QED
  BY <1>3, <1>8

-----------------------------------------------------------------------------
(* Type correctness. *)

\* The counter of the eventfd stays a natural number.
LEMMA WakeupType ==
  ASSUME NEW c \in Nat
  PROVE  Wakeup(c) \in Nat /\ WakeFromLoop(c) \in Nat /\ HandleWakeup(c) \in Nat
BY DEF Wakeup, WakeFromLoop, HandleWakeup, EventfdWrite, WakeupSize

\* A push keeps both queues sequences of functors.
LEMMA PushType ==
  ASSUME TypeOK, NEW f \in Functors, Push(f)
  PROVE  pending' \in Seq(Functors) /\ submitted' \in Seq(Functors)
BY AppendProperties DEF TypeOK, Push

\* User code on the loop thread pushes one functor or leaves the queue alone.
LEMMA CallbackEffect ==
  ASSUME TypeOK, NEW c \in Nat, Callback(c)
  PROVE  /\ quit' \in BOOLEAN
         /\ eventfd' \in Nat
         /\ pending' \in Seq(Functors)
         /\ submitted' \in Seq(Functors)
         /\ \/ UNCHANGED <<pending, submitted>>
            \/ \E f \in Functors : Push(f)
BY WakeupType, PushType DEF TypeOK, Callback

\* Every step of the loop thread, of a caller or of the kernel preserves the
\* types of the state of the loop.
LEMMA TypeStep == TypeOK /\ [Next]_vars => TypeOK'
<1> SUFFICES ASSUME TypeOK, [Next]_vars
             PROVE  TypeOK'
  OBVIOUS
<1>1. CASE EnterLoop \/ ClearQuit
  BY <1>1 DEF TypeOK, EnterLoop, ClearQuit, PCs
<1>2. CASE TestQuit
  BY <1>2 DEF TypeOK, TestQuit, PCs
<1>3. CASE Poll
  BY <1>3 DEF TypeOK, Poll, PCs
<1>4. CASE HandleEvents
  <2> DEFINE counter == IF "wakeup" \in active THEN HandleWakeup(eventfd)
                                               ELSE eventfd
  <2>1. counter \in Nat
    BY WakeupType DEF TypeOK
  <2>2. \/ Callback(counter)
        \/ eventfd' = counter /\ UNCHANGED <<quit, pending, submitted>>
    BY <1>4 DEF HandleEvents
  <2>3. /\ quit' \in BOOLEAN
        /\ eventfd' \in Nat
        /\ pending' \in Seq(Functors)
        /\ submitted' \in Seq(Functors)
    <3> HIDE DEF counter
    <3> QED BY <2>1, <2>2, CallbackEffect DEF TypeOK
  <2> QED
    BY <1>4, <2>3 DEF TypeOK, HandleEvents, PCs
<1>5. CASE ProcessTimers
  <2>1. eventfd \in Nat /\ Callback(eventfd)
    BY <1>5 DEF TypeOK, ProcessTimers
  <2> QED
    BY <1>5, <2>1, CallbackEffect DEF TypeOK, ProcessTimers, PCs
<1>6. CASE SwapFunctors
  BY <1>6 DEF TypeOK, SwapFunctors, PCs
<1>7. CASE RunFunctor
  <2>1. eventfd \in Nat /\ Callback(eventfd)
    BY <1>7 DEF TypeOK, RunFunctor
  <2>2. functors' \in Seq(Functors) /\ executed' \in Seq(Functors)
    BY <1>7, HeadTailProperties, AppendProperties DEF TypeOK, RunFunctor
  <2> QED
    BY <1>7, <2>1, <2>2, CallbackEffect DEF TypeOK, RunFunctor
<1>8. CASE FinishFunctors
  BY <1>8 DEF TypeOK, FinishFunctors, PCs
<1>9. ASSUME NEW t \in Callers, NEW f \in Functors, QueueInLoop(t, f)
      PROVE  TypeOK'
  BY <1>9, PushType DEF TypeOK, QueueInLoop
<1>10. ASSUME NEW t \in Callers, Quit(t)
       PROVE  TypeOK'
  BY <1>10 DEF TypeOK, Quit
<1>11. ASSUME NEW t \in Callers, CallWakeup(t)
       PROVE  TypeOK'
  BY <1>11, WakeupType DEF TypeOK, CallWakeup
<1>12. CASE IoArrives
  BY <1>12 DEF TypeOK, IoArrives
<1>13. CASE UNCHANGED vars
  BY <1>13 DEF TypeOK, vars
<1> QED
  BY <1>1, <1>2, <1>3, <1>4, <1>5, <1>6, <1>7, <1>8, <1>9, <1>10, <1>11,
     <1>12, <1>13 DEF Next, LoopThread

\* The loop is constructed with no functors and nothing to wake it.
LEMMA InitType == Init => TypeOK
<1> SUFFICES ASSUME Init
             PROVE  TypeOK
  OBVIOUS
<1>1. <<>> \in Seq(Functors)
  BY EmptySeq
<1>2. eventfd \in Nat
  BY DEF Init
<1>3. cpc \in [Callers -> {"idle", "wake"}]
  BY DEF Init
<1> QED
  BY <1>1, <1>2, <1>3, Zenon DEF Init, TypeOK, PCs

\* The state of the event loop is well typed in every behaviour, whatever the
\* callers and the user callbacks do.
THEOREM TypeCorrect == Spec => []TypeOK
BY InitType, TypeStep, PTL DEF Spec

-----------------------------------------------------------------------------
(* The order of the functors. *)

\* Outside doPendingFunctors() its private vector is empty: with TypeOK it
\* makes ExactlyOnceInOrder inductive, for the swap may not drop functors.
PrivateVectorEmpty == pc # "functors" => functors = <<>>

IInv == TypeOK /\ ExactlyOnceInOrder /\ PrivateVectorEmpty

\* Queueing a functor, from whichever thread, keeps the order.
LEMMA PushKeepsOrder ==
  ASSUME IInv, UNCHANGED <<functors, executed>>,
         UNCHANGED <<pending, submitted>> \/ \E f \in Functors : Push(f)
  PROVE  ExactlyOnceInOrder'
<1>1. CASE UNCHANGED <<pending, submitted>>
  BY <1>1 DEF IInv, ExactlyOnceInOrder
<1>2. ASSUME NEW f \in Functors, Push(f)
      PROVE  ExactlyOnceInOrder'
  <2>1. executed \o functors \in Seq(Functors)
    BY ConcatProperties DEF IInv, TypeOK
  <2>2. (executed \o functors) \o Append(pending, f)
            = Append((executed \o functors) \o pending, f)
    BY <2>1, ConcatAppend DEF IInv, TypeOK
  <2> QED
    BY <1>2, <2>2 DEF IInv, ExactlyOnceInOrder, Push
<1> QED
  BY <1>1, <1>2

\* Calling the head of the private vector keeps the order, even when the
\* functor queues another one.
LEMMA RunKeepsOrder ==
  ASSUME IInv, functors # <<>>,
         functors' = Tail(functors),
         executed' = Append(executed, Head(functors)),
         UNCHANGED <<pending, submitted>> \/ \E f \in Functors : Push(f)
  PROVE  ExactlyOnceInOrder'
<1>1. executed' \o functors' = executed \o functors
  BY ConcatHead DEF IInv, TypeOK
<1>2. executed \o functors \in Seq(Functors)
  BY ConcatProperties DEF IInv, TypeOK
<1>3. CASE UNCHANGED <<pending, submitted>>
  BY <1>1, <1>3 DEF IInv, ExactlyOnceInOrder
<1>4. ASSUME NEW f \in Functors, Push(f)
      PROVE  ExactlyOnceInOrder'
  <2>1. (executed \o functors) \o Append(pending, f)
            = Append((executed \o functors) \o pending, f)
    BY <1>2, ConcatAppend DEF IInv, TypeOK
  <2> QED
    BY <1>1, <1>4, <2>1 DEF IInv, ExactlyOnceInOrder, Push
<1> QED
  BY <1>3, <1>4

\* The swap moves the pending functors into an empty vector.
LEMMA SwapKeepsOrder ==
  ASSUME IInv, SwapFunctors
  PROVE  ExactlyOnceInOrder'
<1>1. functors = <<>>
  BY DEF IInv, PrivateVectorEmpty, SwapFunctors
<1>2. executed \o <<>> = executed
  BY ConcatEmptySeq DEF IInv, TypeOK
<1>3. (executed \o pending) \o <<>> = executed \o pending
  BY ConcatProperties, ConcatEmptySeq DEF IInv, TypeOK
<1> QED
  BY <1>1, <1>2, <1>3 DEF IInv, ExactlyOnceInOrder, SwapFunctors

\* IInv is inductive.
LEMMA OrderStep == IInv /\ [Next]_vars => IInv'
<1> SUFFICES ASSUME IInv, [Next]_vars
             PROVE  ExactlyOnceInOrder' /\ PrivateVectorEmpty'
  BY TypeStep DEF IInv
<1> USE DEF PrivateVectorEmpty
<1>1. ASSUME UNCHANGED <<functors, executed, pending, submitted>>
      PROVE  ExactlyOnceInOrder'
  BY <1>1 DEF IInv, ExactlyOnceInOrder
<1>2. CASE EnterLoop \/ ClearQuit
  BY <1>1, <1>2 DEF IInv, EnterLoop, ClearQuit
<1>3. CASE TestQuit
  BY <1>1, <1>3 DEF IInv, TestQuit
<1>4. CASE Poll
  BY <1>1, <1>4 DEF IInv, Poll
<1>5. CASE HandleEvents
  <2> DEFINE counter == IF "wakeup" \in active THEN HandleWakeup(eventfd)
                                               ELSE eventfd
  <2>1. counter \in Nat
    BY WakeupType DEF IInv, TypeOK
  <2>2. Callback(counter) \/ UNCHANGED <<pending, submitted>>
    BY <1>5 DEF HandleEvents
  <2>3. UNCHANGED <<pending, submitted>> \/ \E f \in Functors : Push(f)
    <3> HIDE DEF counter
    <3> QED BY <2>1, <2>2, CallbackEffect DEF IInv
  <2> QED
    BY <1>5, <2>3, PushKeepsOrder DEF IInv, HandleEvents
<1>6. CASE ProcessTimers
  <2>1. eventfd \in Nat /\ Callback(eventfd)
    BY <1>6 DEF IInv, TypeOK, ProcessTimers
  <2> QED
    BY <1>6, <2>1, CallbackEffect, PushKeepsOrder DEF IInv, ProcessTimers
<1>7. CASE SwapFunctors
  BY <1>7, SwapKeepsOrder DEF SwapFunctors
<1>8. CASE RunFunctor
  <2>1. eventfd \in Nat /\ Callback(eventfd)
    BY <1>8 DEF IInv, TypeOK, RunFunctor
  <2> QED
    BY <1>8, <2>1, CallbackEffect, RunKeepsOrder DEF IInv, RunFunctor
<1>9. CASE FinishFunctors
  BY <1>1, <1>9 DEF FinishFunctors
<1>10. ASSUME NEW t \in Callers, NEW f \in Functors, QueueInLoop(t, f)
       PROVE  ExactlyOnceInOrder' /\ PrivateVectorEmpty'
  BY <1>10, PushKeepsOrder DEF IInv, QueueInLoop
<1>11. ASSUME NEW t \in Callers, Quit(t) \/ CallWakeup(t)
       PROVE  ExactlyOnceInOrder' /\ PrivateVectorEmpty'
  BY <1>1, <1>11 DEF IInv, Quit, CallWakeup
<1>12. CASE IoArrives \/ UNCHANGED vars
  BY <1>1, <1>12 DEF IInv, IoArrives, vars
<1> QED
  BY <1>2, <1>3, <1>4, <1>5, <1>6, <1>7, <1>8, <1>9, <1>10, <1>11, <1>12
  DEF Next, LoopThread

\* The inductive invariant holds in every behaviour of the loop.
LEMMA Invariance == Spec => []IInv
<1>1. Init => IInv
  <2>1. (<<>> \o <<>>) \o <<>> = <<>>
    BY EmptySeq, ConcatEmptySeq
  <2> QED
    BY <2>1, InitType DEF Init, IInv, ExactlyOnceInOrder, PrivateVectorEmpty
<1> QED
  BY <1>1, OrderStep, PTL DEF Spec

\* queueInLoop() loses, repeats and reorders nothing, for any number of calling
\* threads and of functors.
THEOREM QueueOrder == Spec => []ExactlyOnceInOrder
<1>1. IInv => ExactlyOnceInOrder
  BY DEF IInv
<1> QED
  BY <1>1, Invariance, PTL

-----------------------------------------------------------------------------
(* The rounds of doPendingFunctors(). *)

\* What has been called and what the round still has to call is exactly what
\* had been pushed at its swap: nothing joins a round that has begun.
RoundAccount == Len(executed) + Len(functors) = swapped

\* Calling a functor moves it from one side of the account to the other.
LEMMA RunKeepsAccount ==
  ASSUME IInv, RoundAccount, RunFunctor
  PROVE  RoundAccount'
<1>1. /\ functors \in Seq(Functors) /\ functors # <<>>
      /\ executed \in Seq(Functors)
      /\ functors' = Tail(functors)
      /\ executed' = Append(executed, Head(functors))
      /\ swapped' = swapped
  BY DEF IInv, TypeOK, RunFunctor
<1>2. Len(functors') = Len(functors) - 1 /\ Head(functors) \in Functors
  BY <1>1, HeadTailProperties
<1>3. Len(executed') = Len(executed) + 1
  BY <1>1, <1>2, AppendProperties
<1>4. Len(executed) \in Nat /\ Len(functors) \in Nat
  BY <1>1, LenProperties
<1> QED
  BY <1>1, <1>2, <1>3, <1>4 DEF RoundAccount

\* The swap opens a round of all that has been pushed and not called.
LEMMA SwapOpensAccount ==
  ASSUME IInv, SwapFunctors
  PROVE  RoundAccount'
<1>1. functors = <<>> /\ executed \o <<>> = executed
  BY ConcatEmptySeq DEF IInv, TypeOK, PrivateVectorEmpty, SwapFunctors
<1>2. submitted = executed \o pending
  BY <1>1 DEF IInv, ExactlyOnceInOrder
<1>3. Len(submitted) = Len(executed) + Len(pending)
  BY <1>2, ConcatProperties DEF IInv, TypeOK
<1> QED
  BY <1>3 DEF SwapFunctors, RoundAccount

\* No functor is called in the round during which it was queued, whoever queued
\* it: every round is as long as pending_functors_ was at its swap, and the loop
\* gets back to its events, for any number of callers and of functors.
THEOREM RoundsAreClosed == Spec => []RoundIsClosed
<1>1. Init => RoundAccount
  BY DEF Init, RoundAccount
<1>2. ASSUME IInv, RoundAccount, [Next]_vars
      PROVE  RoundAccount'
  <2>1. CASE RunFunctor
    BY <1>2, <2>1, RunKeepsAccount
  <2>2. CASE SwapFunctors
    BY <1>2, <2>2, SwapOpensAccount
  <2>3. CASE ~RunFunctor /\ ~SwapFunctors
    <3>1. UNCHANGED <<executed, functors, swapped>>
      BY <1>2, <2>3
      DEF Next, LoopThread, EnterLoop, ClearQuit, TestQuit, Poll, HandleEvents,
          ProcessTimers, FinishFunctors, QueueInLoop, Quit, CallWakeup,
          IoArrives, vars
    <3> QED
      BY <1>2, <3>1 DEF RoundAccount
  <2> QED
    BY <2>1, <2>2, <2>3
<1>3. IInv /\ RoundAccount => RoundIsClosed
  <2>1. IInv => Len(executed) \in Nat /\ Len(functors) \in Nat
    BY LenProperties DEF IInv, TypeOK
  <2> QED
    BY <2>1 DEF RoundAccount, RoundIsClosed
<1> QED
  BY <1>1, <1>2, <1>3, Invariance, PTL DEF Spec

-----------------------------------------------------------------------------
(* The loop implements the abstract queue. *)

\* A push is a Submit of the abstract queue.
LEMMA PushSubmits ==
  ASSUME IInv, UNCHANGED functors, UNCHANGED executed,
         (pc' = "exited") = (pc = "exited"),
         UNCHANGED pending \/ \E f \in Functors : Push(f)
  PROVE  [Abstract!Next]_(Abstract!vars)
<1>1. CASE UNCHANGED pending
  BY <1>1 DEF Abstract!vars
<1>2. ASSUME NEW f \in Functors, Push(f)
      PROVE  Abstract!Submit(f)
  BY <1>2, ConcatAppend DEF IInv, TypeOK, Push, Abstract!Submit
<1> QED
  BY <1>1, <1>2 DEF Abstract!Next

\* Calling a functor is an Execute of the abstract queue.
LEMMA RunExecutes ==
  ASSUME IInv, RunFunctor
  PROVE  Abstract!Next
<1>1. /\ functors \o pending # <<>>
      /\ Head(functors \o pending) = Head(functors)
      /\ Tail(functors \o pending) = Tail(functors) \o pending
  BY HeadTailConcat DEF IInv, TypeOK, RunFunctor
<1>2. /\ pc = "functors" /\ pc' = "functors"
      /\ functors' = Tail(functors)
      /\ executed' = Append(executed, Head(functors))
  BY DEF RunFunctor
<1>3. Tail(functors) \in Seq(Functors)
  BY HeadTailProperties DEF IInv, TypeOK, RunFunctor
<1>4. UNCHANGED pending \/ \E f \in Functors : Push(f)
  <2>1. eventfd \in Nat /\ Callback(eventfd)
    BY DEF IInv, TypeOK, RunFunctor
  <2> QED
    BY <2>1, CallbackEffect DEF IInv
<1>5. CASE UNCHANGED pending
  BY <1>1, <1>2, <1>5 DEF Abstract!Next, Abstract!Execute
<1>6. ASSUME NEW f \in Functors, Push(f)
      PROVE  Abstract!Next
  <2>1. functors' \o pending' = Append(Tail(functors \o pending), f)
    <3>1. Tail(functors) \o Append(pending, f) = Append(Tail(functors) \o pending, f)
      BY <1>3, ConcatAppend DEF IInv, TypeOK
    <3> QED
      BY <1>1, <1>2, <1>6, <3>1 DEF Push
  <2> QED
    BY <1>1, <1>2, <2>1 DEF Abstract!Next, Abstract!Execute
<1> QED
  BY <1>4, <1>5, <1>6

\* The swap is invisible: the abstract queue keeps its elements.
LEMMA SwapStutters ==
  ASSUME IInv, SwapFunctors
  PROVE  UNCHANGED Abstract!vars
<1>1. functors = <<>>
  BY DEF IInv, PrivateVectorEmpty, SwapFunctors
<1>2. <<>> \o pending = pending /\ pending \o <<>> = pending
  BY ConcatEmptySeq DEF IInv, TypeOK
<1> QED
  BY <1>1, <1>2 DEF SwapFunctors, Abstract!vars

\* Every step of the event loop is a step of the abstract queue or none at all.
LEMMA RefinementStep == IInv /\ [Next]_vars => [Abstract!Next]_(Abstract!vars)
<1> SUFFICES ASSUME IInv, [Next]_vars
             PROVE  [Abstract!Next]_(Abstract!vars)
  OBVIOUS
<1>1. ASSUME UNCHANGED <<functors, executed, pending>>,
             (pc' = "exited") = (pc = "exited")
      PROVE  [Abstract!Next]_(Abstract!vars)
  BY <1>1, PushSubmits
<1>2. CASE EnterLoop \/ ClearQuit \/ Poll \/ FinishFunctors
  BY <1>1, <1>2 DEF EnterLoop, ClearQuit, Poll, FinishFunctors
<1>3. CASE TestQuit
  BY <1>3 DEF TestQuit, Abstract!vars, Abstract!Next, Abstract!Stop
<1>4. CASE HandleEvents
  <2> DEFINE counter == IF "wakeup" \in active THEN HandleWakeup(eventfd)
                                               ELSE eventfd
  <2>1. counter \in Nat
    BY WakeupType DEF IInv, TypeOK
  <2>2. Callback(counter) \/ UNCHANGED pending
    BY <1>4 DEF HandleEvents
  <2>3. UNCHANGED pending \/ \E f \in Functors : Push(f)
    <3> HIDE DEF counter
    <3> QED BY <2>1, <2>2, CallbackEffect DEF IInv
  <2> QED
    BY <1>4, <2>3, PushSubmits DEF HandleEvents
<1>5. CASE ProcessTimers
  <2>1. eventfd \in Nat /\ Callback(eventfd)
    BY <1>5 DEF IInv, TypeOK, ProcessTimers
  <2> QED
    BY <1>5, <2>1, CallbackEffect, PushSubmits DEF IInv, ProcessTimers
<1>6. CASE SwapFunctors
  BY <1>6, SwapStutters
<1>7. CASE RunFunctor
  BY <1>7, RunExecutes
<1>8. ASSUME NEW t \in Callers, NEW f \in Functors, QueueInLoop(t, f)
      PROVE  [Abstract!Next]_(Abstract!vars)
  BY <1>8, PushSubmits DEF QueueInLoop
<1>9. ASSUME NEW t \in Callers, Quit(t) \/ CallWakeup(t)
      PROVE  [Abstract!Next]_(Abstract!vars)
  BY <1>1, <1>9 DEF Quit, CallWakeup
<1>10. CASE IoArrives \/ UNCHANGED vars
  BY <1>1, <1>10 DEF IoArrives, vars
<1> QED
  BY <1>2, <1>3, <1>4, <1>5, <1>6, <1>7, <1>8, <1>9, <1>10
  DEF Next, LoopThread

\* The event loop is a FIFO task queue: the vector the callers fill and the one
\* doPendingFunctors() empties are one queue to everybody else.
THEOREM Refinement == Spec => Abstract!Spec
<1>1. Init => Abstract!Init
  <2>1. <<>> \o <<>> = <<>>
    BY EmptySeq, ConcatEmptySeq
  <2> QED
    BY <2>1 DEF Init, Abstract!Init
<1> QED
  BY <1>1, RefinementStep, Invariance, PTL DEF Spec, Abstract!Spec
=============================================================================
