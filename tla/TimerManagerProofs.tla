------------------------- MODULE TimerManagerProofs -------------------------
(***************************************************************************)
(* Proofs about TimerManager for every heap, every number of timers and    *)
(* every set of intervals.  A timer is known by its address, and addresses *)
(* come back; so what keeps the manager from a deleted timer is that every *)
(* timer on the heap is in exactly one place, timers_ or the entries that  *)
(* processTimers() has taken out of it, and is there once (IInv).          *)
(***************************************************************************)
EXTENDS TimerManager, FiniteSetTheorems, TLAPS

EntryType == [when : Nat, addr : Addrs]
TimerType == [when : Nat, interval : Nat, id : Ids]

TypeOK ==
    /\ heap \in [Addrs -> TimerType \cup {Free}]
    /\ timers \subseteq EntryType /\ IsFiniteSet(timers)
    /\ active \subseteq [addr : Addrs, id : Nat]
    /\ nextId \in 0 .. MaxTimers
    /\ now \in Nat
    /\ phase \in {"idle", "run", "restart"}
    /\ expired \in Seq(EntryType) /\ rest \in Seq(EntryType)
    /\ handles \subseteq [addr : Addrs, id : Ids]
    /\ fires \in [Ids -> Nat]
    /\ cancelled \subseteq Ids
    /\ misuse \in BOOLEAN

\* What timers_ holds is on the heap, under its own expiration.
Scheduled == \A e \in timers : Live(e.addr) /\ e.when = heap[e.addr].when

Addresses(s) == {s[i].addr : i \in DOMAIN s}

\* The timers processTimers() has taken out of timers_.
Taken == Addresses(expired) \cup Addresses(rest)

\* They are on the heap and no longer in timers_.
InProcess == \A a \in Taken : Live(a) /\ \A e \in timers : e.addr # a

\* None of them is called, restarted or deleted twice.
NoRepeats(s) == \A i, j \in DOMAIN s : s[i].addr = s[j].addr => i = j
Apart == Addresses(expired) \cap Addresses(rest) = {}

\* Nothing on the heap is forgotten.
Accounted == \A a \in Addrs : Live(a) => Entry(a) \in timers \/ a \in Taken

PhaseState ==
    /\ phase = "idle" => expired = <<>>
    /\ phase # "run" => rest = <<>>

\* Ids are given out once, and a cancelled one is not on the heap.
IdsUnique ==
    /\ \A a, b \in Addrs : Live(a) /\ Live(b) /\ heap[a].id = heap[b].id => a = b
    /\ \A a \in Addrs : Live(a) => heap[a].id < nextId /\ heap[a].id \notin cancelled
    /\ \A i \in cancelled : i < nextId

IInv ==
    /\ TypeOK
    /\ Scheduled
    /\ InProcess
    /\ NoRepeats(expired) /\ NoRepeats(rest) /\ Apart
    /\ Accounted
    /\ PhaseState
    /\ IdsUnique
    /\ MemorySafe

-----------------------------------------------------------------------------
\* At the beginning there is no timer.
LEMMA InitIInv == Init => IInv
  <1> SUFFICES ASSUME Init PROVE IInv
    OBVIOUS
  <1>1. TypeOK
    <2>1. heap \in [Addrs -> TimerType \cup {Free}]
      BY DEF Init
    <2>2. misuse \in BOOLEAN /\ fires \in [Ids -> Nat]
      BY DEF Init
    <2>3. expired \in Seq(EntryType) /\ rest \in Seq(EntryType)
      BY DEF Init
    <2>4. IsFiniteSet(timers)
      BY FS_EmptySet DEF Init
    <2> QED BY <2>4, <2>1, <2>2, <2>3, TimerAssumption DEF Init, TypeOK
  <1>2. Addresses(expired) = {} /\ Addresses(rest) = {}
    BY DEF Init, Addresses
  <1>3. \A a \in Addrs : ~Live(a)
    BY DEF Init, Live
  <1> QED
    BY <1>1, <1>2, <1>3 DEF Init, IInv, Scheduled, Taken, InProcess, NoRepeats,
       Apart, Accounted, PhaseState, IdsUnique, MemorySafe

\* A timer object is told from freed memory by its id.
LEMMA LiveIsTimer ==
    ASSUME TypeOK, NEW a \in Addrs
    PROVE  /\ Live(a) => heap[a] \in TimerType
           /\ Live(a) <=> heap[a].id # -1
  BY DEF TypeOK, Live, TimerType, Free, Ids

LEMMA NewTimerLives ==
    ASSUME NEW w, NEW i, NEW n \in Nat
    PROVE  [when |-> w, interval |-> i, id |-> n] # Free
  BY DEF Free

\* What user code may change, whatever processTimers() is at: timers that are
\* taken stay as they are, and all others remain in timers_.
UserEffect ==
    /\ heap' \in [Addrs -> TimerType \cup {Free}]
    /\ timers' \subseteq EntryType /\ IsFiniteSet(timers')
    /\ active' \subseteq [addr : Addrs, id : Nat]
    /\ nextId' \in 0 .. MaxTimers
    /\ handles' \subseteq [addr : Addrs, id : Ids]
    /\ cancelled' \subseteq Ids
    /\ Scheduled'
    /\ \A a \in Taken : heap'[a] = heap[a] /\ \A e \in timers' : e.addr # a
    /\ \A a \in Addrs : heap'[a] # Free =>
            [when |-> heap'[a].when, addr |-> a] \in timers' \/ a \in Taken
    /\ IdsUnique'

LEMMA AddTimerEffect ==
    ASSUME IInv, NEW a \in Addrs, NEW w \in now .. MaxTime - 1,
           NEW i \in Intervals, AddTimer(a, w, i)
    PROVE  UserEffect
  <1> USE TimerAssumption
  <1>1. w \in Nat /\ i \in Nat /\ nextId \in Ids /\ nextId \in Nat
    BY DEF IInv, TypeOK, AddTimer, Ids
  <1> DEFINE new == [when |-> w, interval |-> i, id |-> nextId]
             entry == [when |-> w, addr |-> a]
  <1>2. new \in TimerType /\ new # Free /\ entry \in EntryType
    BY <1>1, NewTimerLives DEF TimerType, EntryType
  <1>3. heap' = [heap EXCEPT ![a] = new] /\ heap' \in [Addrs -> TimerType \cup {Free}]
    BY <1>2 DEF IInv, TypeOK, AddTimer
  <1>4. a \notin Taken /\ \A e \in timers : e.addr # a
    BY DEF IInv, InProcess, Scheduled, AddTimer
  <1>5. /\ timers' = timers \cup {entry}
        /\ timers' \subseteq EntryType /\ IsFiniteSet(timers')
    BY <1>2, FS_AddElement DEF IInv, TypeOK, AddTimer
  <1>6. /\ active' \subseteq [addr : Addrs, id : Nat]
        /\ handles' \subseteq [addr : Addrs, id : Ids]
    BY <1>1 DEF IInv, TypeOK, AddTimer
  <1>7. nextId' \in 0 .. MaxTimers /\ cancelled' = cancelled /\ cancelled' \subseteq Ids
    BY DEF IInv, TypeOK, AddTimer
  <1>8. Scheduled'
    <2> SUFFICES ASSUME NEW e \in timers'
                 PROVE  heap'[e.addr] # Free /\ e.when = heap'[e.addr].when
      BY DEF Scheduled, Live
    <2>1. CASE e = entry
      BY <2>1, <1>2, <1>3 DEF IInv, TypeOK
    <2>2. CASE e \in timers
      BY <2>2, <1>3, <1>4 DEF IInv, TypeOK, Scheduled, Live, EntryType
    <2> QED BY <2>1, <2>2, <1>5
  <1>9. \A b \in Taken : heap'[b] = heap[b] /\ \A e \in timers' : e.addr # b
    BY <1>3, <1>4, <1>5 DEF IInv, TypeOK, InProcess
  <1>10. ASSUME NEW b \in Addrs, heap'[b] # Free
         PROVE  [when |-> heap'[b].when, addr |-> b] \in timers' \/ b \in Taken
    <2>1. CASE b = a
      BY <2>1, <1>3, <1>5 DEF IInv, TypeOK
    <2>2. CASE b # a
      BY <2>2, <1>3, <1>5, <1>10 DEF IInv, TypeOK, Accounted, Live, Entry
    <2> QED BY <2>1, <2>2
  <1>11. IdsUnique'
    <2>1. \A b \in Addrs : heap'[b] = IF b = a THEN new ELSE heap[b]
      BY <1>3 DEF IInv, TypeOK
    <2>2. nextId' = nextId + 1 /\ nextId \notin cancelled
      BY <1>1 DEF AddTimer, IInv, IdsUnique
    <2>3. new.id = nextId
      OBVIOUS
    <2>4. \A b \in Addrs : Live(b) => heap[b].id \in Nat
      BY LiveIsTimer DEF IInv, TimerType, Ids
    <2>5. \A b, c \in Addrs : Live(b)' /\ Live(c)' /\ heap'[b].id = heap'[c].id => b = c
      BY <1>1, <2>1, <2>3, <2>4 DEF IInv, IdsUnique, Live
    <2>6. \A b \in Addrs : Live(b)' => heap'[b].id < nextId' /\ heap'[b].id \notin cancelled'
      BY <1>1, <1>7, <2>1, <2>2, <2>3, <2>4 DEF IInv, IdsUnique, Live
    <2>7. \A j \in cancelled' : j < nextId'
      BY <1>1, <1>7, <2>2 DEF IInv, TypeOK, IdsUnique, Ids
    <2> QED BY <2>5, <2>6, <2>7 DEF IdsUnique
  <1> HIDE DEF new, entry
  <1> QED
    BY <1>3, <1>5, <1>6, <1>7, <1>8, <1>9, <1>10, <1>11 DEF UserEffect

LEMMA CancelEffect ==
    ASSUME IInv, NEW h \in handles, heap[h.addr].id = h.id,
           Entry(h.addr) \in timers, Cancel(h)
    PROVE  UserEffect
  <1> DEFINE a == h.addr
             entry == Entry(a)
  <1>1. a \in Addrs /\ h.id \in Ids /\ entry.addr = a
    BY DEF IInv, TypeOK, Entry
  <1>2. Live(a) /\ a \notin Taken
    BY <1>1 DEF IInv, Scheduled, InProcess
  <1>3. heap' = [heap EXCEPT ![a] = Free] /\ heap' \in [Addrs -> TimerType \cup {Free}]
    BY <1>1 DEF IInv, TypeOK, Cancel
  <1>4. /\ timers' = timers \ {entry}
        /\ timers' \subseteq EntryType /\ IsFiniteSet(timers')
    BY FS_RemoveElement DEF IInv, TypeOK, Cancel
  <1>5. /\ active' \subseteq [addr : Addrs, id : Nat]
        /\ handles' \subseteq [addr : Addrs, id : Ids]
        /\ nextId' = nextId /\ nextId' \in 0 .. MaxTimers
        /\ cancelled' = cancelled \cup {h.id} /\ cancelled' \subseteq Ids
    BY <1>1 DEF IInv, TypeOK, Cancel
  <1>6. \A e \in timers' : e.addr # a /\ e \in timers
    <2> SUFFICES ASSUME NEW e \in timers, e.addr = a PROVE e = entry
      BY <1>4
    <2>1. e \in EntryType /\ e.when = heap[a].when
      BY DEF IInv, TypeOK, Scheduled
    <2> QED BY <2>1 DEF Entry, EntryType
  <1>7. Scheduled'
    BY <1>3, <1>6 DEF IInv, TypeOK, Scheduled, Live, EntryType
  <1>8. \A b \in Taken : heap'[b] = heap[b] /\ \A e \in timers' : e.addr # b
    BY <1>2, <1>3, <1>6 DEF IInv, TypeOK, InProcess
  <1>9. \A b \in Addrs : heap'[b] = IF b = a THEN Free ELSE heap[b]
    BY <1>3 DEF IInv, TypeOK
  <1>10. ASSUME NEW b \in Addrs, heap'[b] # Free
         PROVE  [when |-> heap'[b].when, addr |-> b] \in timers' \/ b \in Taken
    <2>1. b # a /\ heap'[b] = heap[b] /\ Live(b)
      BY <1>9, <1>10 DEF Live
    <2>2. Entry(b) \in timers \/ b \in Taken
      BY <2>1 DEF IInv, Accounted
    <2>3. Entry(b) # entry
      BY <2>1 DEF Entry
    <2> QED BY <2>1, <2>2, <2>3, <1>4 DEF Entry
  <1>11. IdsUnique'
    BY <1>1, <1>2, <1>5, <1>9 DEF IInv, IdsUnique, Live
  <1> QED
    BY <1>3, <1>4, <1>5, <1>7, <1>8, <1>10, <1>11 DEF UserEffect

LEMMA NoUserEffect ==
    ASSUME IInv, UNCHANGED <<heap, timers, active, nextId, handles, cancelled>>
    PROVE  UserEffect
  BY DEF IInv, TypeOK, UserEffect, Scheduled, Live, InProcess, Accounted, Entry,
         IdsUnique

LEMMA UserCodeEffect == ASSUME IInv, UserCode PROVE UserEffect
  BY AddTimerEffect, CancelEffect DEF UserCode

\* With processTimers() holding the same timers as before, the invariant holds
\* again after user code.
LEMMA AfterUserCode ==
    ASSUME IInv, UserEffect, Taken' = Taken
    PROVE  /\ Scheduled' /\ InProcess' /\ Accounted' /\ IdsUnique'
  BY DEF IInv, UserEffect, InProcess, Accounted, Live, Entry

LEMMA AddressType == ASSUME NEW s \in Seq(EntryType) PROVE Addresses(s) \subseteq Addrs
  <1>1. \A i \in DOMAIN s : s[i] \in EntryType
    OBVIOUS
  <1> QED BY <1>1 DEF Addresses, EntryType

\* The first entry leaves a sequence without repetitions.
LEMMA FirstLeaves ==
    ASSUME NEW s \in Seq(EntryType), s # <<>>, NoRepeats(s)
    PROVE  /\ Head(s) \in EntryType /\ Head(s).addr \in Addrs
           /\ Head(s).addr \in Addresses(s)
           /\ Tail(s) \in Seq(EntryType)
           /\ Addresses(Tail(s)) = Addresses(s) \ {Head(s).addr}
           /\ NoRepeats(Tail(s))
  <1>1. /\ Head(s) = s[1] /\ 1 \in DOMAIN s /\ Head(s) \in EntryType
        /\ Tail(s) \in Seq(EntryType) /\ Len(Tail(s)) = Len(s) - 1 /\ Len(s) \in Nat
    OBVIOUS
  <1>2. /\ \A i \in DOMAIN Tail(s) : i + 1 \in DOMAIN s /\ Tail(s)[i] = s[i + 1]
        /\ DOMAIN Tail(s) = 1 .. Len(s) - 1 /\ DOMAIN s = 1 .. Len(s)
    OBVIOUS
  <1>3. NoRepeats(Tail(s))
    BY <1>1, <1>2 DEF NoRepeats
  <1>4. Addresses(Tail(s)) \subseteq Addresses(s) \ {Head(s).addr}
    BY <1>1, <1>2 DEF NoRepeats, Addresses
  <1>5. ASSUME NEW i \in DOMAIN s, s[i].addr # Head(s).addr
        PROVE  s[i].addr \in Addresses(Tail(s))
    <2>1. i - 1 \in DOMAIN Tail(s)
      BY <1>1, <1>2, <1>5
    <2>2. Tail(s)[i - 1] = s[i]
      BY <1>2, <2>1
    <2> QED BY <2>1, <2>2 DEF Addresses
  <1>6. Head(s).addr \in Addrs /\ Head(s).addr \in Addresses(s)
    BY <1>1 DEF EntryType, Addresses
  <1>7. Addresses(s) \ {Head(s).addr} \subseteq Addresses(Tail(s))
    BY <1>5 DEF Addresses
  <1> QED BY <1>1, <1>3, <1>4, <1>6, <1>7

-----------------------------------------------------------------------------
(* The steps. *)

\* addTimer() and cancel() outside processTimers().
LEMMA CallStep == ASSUME IInv, Call PROVE IInv'
  <1>1. UserEffect
    BY UserCodeEffect DEF Call
  <1>2. UNCHANGED <<now, phase, expired, rest, fires, misuse>>
    BY DEF Call
  <1>3. Taken' = Taken
    BY <1>2 DEF Taken, Addresses
  <1>4. TypeOK'
    BY <1>1, <1>2 DEF IInv, TypeOK, UserEffect
  <1>5. Scheduled' /\ InProcess' /\ Accounted' /\ IdsUnique'
    BY <1>1, <1>3, AfterUserCode
  <1>6. NoRepeats(expired)' /\ NoRepeats(rest)' /\ Apart' /\ PhaseState' /\ MemorySafe'
    BY <1>2 DEF IInv, NoRepeats, Apart, Addresses, PhaseState, MemorySafe
  <1> QED BY <1>4, <1>5, <1>6 DEF IInv

\* Entries of timers_ move to expired; no address comes twice, for an address
\* has one expiration.
LEMMA ProcessTimersStep == ASSUME IInv, ProcessTimers PROVE IInv'
  <1> DEFINE S == {e \in timers : e.when < now}
  <1>1. /\ expired' \in InOrder(S) /\ timers' = timers \ S
        /\ active' \subseteq active /\ phase' = "run"
        /\ UNCHANGED <<heap, nextId, now, rest, handles, fires, cancelled, misuse>>
    BY DEF ProcessTimers, Collect
  <1>2. rest = <<>> /\ expired = <<>>
    BY DEF ProcessTimers, IInv, PhaseState
  <1>3. Taken = {} /\ Addresses(rest') = {}
    BY <1>1, <1>2 DEF Taken, Addresses
  <1>4. /\ expired' \in Seq(S)
        /\ \A e \in S : \E i \in DOMAIN expired' : expired'[i] = e
        /\ \A i \in DOMAIN expired' : expired'[i] \in S
        /\ \A i, j \in DOMAIN expired' : i < j => Before(expired'[i], expired'[j])
        /\ DOMAIN expired' \subseteq Int
    <2>1. expired' \in [1 .. Cardinality(S) -> S] /\ Range(expired') = S
      BY <1>1 DEF InOrder
    <2>2. Cardinality(S) \in Nat
      BY FS_Subset, FS_CardinalityType DEF IInv, TypeOK
    <2> HIDE DEF S
    <2>3. expired' \in Seq(S)
      BY <2>1, <2>2
    <2>4. \A e \in S : \E i \in DOMAIN expired' : expired'[i] = e
      BY <2>1 DEF Range
    <2>5. \A i, j \in DOMAIN expired' : i < j => Before(expired'[i], expired'[j])
      BY <1>1 DEF InOrder
    <2> QED BY <2>1, <2>3, <2>4, <2>5
  <1>5. Addresses(expired') = {e.addr : e \in S}
    BY <1>4 DEF Addresses
  <1>6. \A e, f \in timers : e.addr = f.addr => e = f
    BY DEF IInv, TypeOK, Scheduled, EntryType
  <1>7. TypeOK'
    <2>1. IsFiniteSet(timers')
      BY <1>1, FS_Subset DEF IInv, TypeOK
    <2> QED BY <1>1, <1>4, <2>1 DEF IInv, TypeOK
  <1>8. Scheduled'
    BY <1>1 DEF IInv, Scheduled, Live
  <1>9. InProcess'
    BY <1>1, <1>3, <1>5, <1>6 DEF IInv, Scheduled, InProcess, Taken, Live
  <1>10. NoRepeats(expired')
    <2> SUFFICES ASSUME NEW i \in DOMAIN expired', NEW j \in DOMAIN expired',
                        expired'[i].addr = expired'[j].addr, i < j
                 PROVE  FALSE
      BY <1>4 DEF NoRepeats
    <2>1. expired'[i] = expired'[j] /\ expired'[i] \in EntryType
      BY <1>4, <1>6 DEF IInv, TypeOK
    <2>2. Before(expired'[i], expired'[j])
      BY <1>4
    <2>3. \A e \in EntryType : ~Before(e, e)
      <3> SUFFICES ASSUME NEW e \in EntryType PROVE ~Before(e, e)
        OBVIOUS
      <3>1. e.when \in Nat /\ e.addr \in Nat
        BY TimerAssumption DEF EntryType
      <3> QED BY <3>1 DEF Before
    <2> QED BY <2>1, <2>2, <2>3
  <1>11. Accounted'
    BY <1>1, <1>3, <1>5 DEF IInv, Accounted, Taken, Live, Entry
  <1> HIDE DEF S
  <1> QED
    BY <1>1, <1>2, <1>3, <1>7, <1>8, <1>9, <1>10, <1>11
    DEF IInv, NoRepeats, Apart, PhaseState, IdsUnique, Live, MemorySafe

\* One callback: the entry goes from expired to rest.
LEMMA RunTimerStep == ASSUME IInv, RunTimer PROVE IInv'
  <1> DEFINE e == Head(expired)
  <1>1. /\ expired # <<>> /\ expired \in Seq(EntryType) /\ rest \in Seq(EntryType)
        /\ expired' = Tail(expired) /\ rest' = Append(rest, e)
        /\ UNCHANGED <<now, phase>> /\ phase = "run"
    BY DEF RunTimer, IInv, TypeOK
  <1>2. /\ e \in EntryType /\ e.addr \in Addrs /\ e.addr \in Addresses(expired)
        /\ Addresses(expired') = Addresses(expired) \ {e.addr}
        /\ NoRepeats(expired') /\ expired' \in Seq(EntryType)
    BY <1>1, FirstLeaves DEF IInv
  <1> HIDE DEF e
  <1>3. Live(e.addr) /\ heap[e.addr].id \in Ids
    BY <1>2, LiveIsTimer DEF IInv, InProcess, Taken, TimerType
  <1>4. /\ misuse' = FALSE
        /\ fires' = [fires EXCEPT ![heap[e.addr].id] = @ + 1]
    BY <1>3 DEF RunTimer, e
  <1>5. UserEffect
    BY UserCodeEffect, NoUserEffect DEF RunTimer
  <1>6. Addresses(rest') = Addresses(rest) \cup {e.addr}
    <2>1. /\ DOMAIN rest = 1 .. Len(rest) /\ DOMAIN rest' = 1 .. Len(rest) + 1
          /\ \A i \in 1 .. Len(rest) : rest'[i] = rest[i]
          /\ rest'[Len(rest) + 1] = e /\ Len(rest) \in Nat
      BY <1>1, <1>2
    <2> QED BY <2>1 DEF Addresses
  <1>7. Taken' = Taken
    BY <1>2, <1>6 DEF Taken
  <1>8. TypeOK'
    <2>1. rest' \in Seq(EntryType)
      BY <1>1, <1>2
    <2>2. fires' \in [Ids -> Nat]
      BY <1>3, <1>4 DEF IInv, TypeOK
    <2>3. misuse' \in BOOLEAN
      BY <1>4
    <2> QED BY <1>1, <1>2, <1>5, <2>1, <2>2, <2>3 DEF IInv, TypeOK, UserEffect
  <1>9. Scheduled' /\ InProcess' /\ Accounted' /\ IdsUnique'
    BY <1>5, <1>7, AfterUserCode
  <1>10. NoRepeats(rest')
    <2>1. e.addr \notin Addresses(rest)
      BY <1>2 DEF IInv, Apart
    <2>2. Len(rest') = Len(rest) + 1 /\ Len(rest) \in Nat
      BY <1>1
    <2>3. \A i \in DOMAIN rest' :
             rest'[i] = IF i \in DOMAIN rest THEN rest[i] ELSE e
      BY <1>1, <1>2
    <2> QED BY <1>1, <2>1, <2>2, <2>3 DEF NoRepeats, Addresses, IInv
  <1>11. Apart' /\ PhaseState'
    BY <1>1, <1>2, <1>6 DEF IInv, Apart, PhaseState
  <1> QED
    BY <1>2, <1>4, <1>6, <1>8, <1>9, <1>10, <1>11 DEF IInv, NoRepeats, MemorySafe

\* The callbacks are through, and restarting begins with the first entry again.
LEMMA CallbacksDoneStep == ASSUME IInv, CallbacksDone PROVE IInv'
  <1>1. Taken' = Taken
    BY DEF CallbacksDone, Taken, Addresses
  <1>2. TypeOK'
    BY DEF CallbacksDone, IInv, TypeOK
  <1>3. NoRepeats(expired') /\ NoRepeats(rest') /\ Apart' /\ PhaseState'
    BY DEF CallbacksDone, IInv, NoRepeats, Apart, Addresses, PhaseState
  <1> QED
    BY <1>1, <1>2, <1>3
    DEF CallbacksDone, IInv, Scheduled, InProcess, Accounted, Live, Entry, IdsUnique,
        NoRepeats, MemorySafe

\* The entry leaves the ones taken: back to timers_, or off the heap.
LEMMA RestartTimerStep == ASSUME IInv, RestartTimer PROVE IInv'
  <1> DEFINE e == Head(expired)
             a == e.addr
  <1>1. /\ expired # <<>> /\ expired \in Seq(EntryType) /\ rest = <<>>
        /\ expired' = Tail(expired)
        /\ UNCHANGED <<nextId, now, phase, rest, handles, fires, cancelled>>
        /\ phase = "restart"
    BY DEF RestartTimer, IInv, TypeOK, PhaseState
  <1>2. /\ e \in EntryType /\ a \in Addrs /\ a \in Addresses(expired)
        /\ Addresses(expired') = Addresses(expired) \ {a}
        /\ NoRepeats(expired') /\ expired' \in Seq(EntryType)
    BY <1>1, FirstLeaves DEF IInv
  <1>3. a \in Taken /\ Live(a) /\ \A f \in timers : f.addr # a
    BY <1>2 DEF IInv, InProcess, Taken
  <1>4. misuse' = FALSE
    BY <1>3 DEF RestartTimer
  <1>5. Addresses(rest) = {} /\ Addresses(rest') = {}
    BY <1>1 DEF Addresses
  <1>6. Taken' = Taken \ {a} /\ Taken \subseteq Addrs
    BY <1>1, <1>2, <1>5, AddressType DEF Taken
  <1>7. Apart' /\ PhaseState' /\ NoRepeats(rest')
    BY <1>1, <1>5 DEF Apart, PhaseState, NoRepeats
  <1>8. heap[a] \in TimerType /\ Restarted(a) \in Nat
    BY <1>2, <1>3, LiveIsTimer DEF IInv, TypeOK, Restarted, TimerType
  <1>9. CASE heap[a].interval > 0
    <2> DEFINE new == [heap[a] EXCEPT !.when = Restarted(a)]
               entry == [when |-> Restarted(a), addr |-> a]
    <2>1. /\ heap' = [heap EXCEPT ![a] = new]
          /\ timers' = timers \cup {entry}
          /\ active' = active \cup {[addr |-> a, id |-> 0]}
      BY <1>8, <1>9 DEF RestartTimer, TimerType
    <2>2. /\ new \in TimerType /\ new # Free /\ new.id = heap[a].id
          /\ new.when = Restarted(a) /\ entry \in EntryType
      BY <1>2, <1>8 DEF TimerType, Free, Ids, EntryType
    <2>3. \A b \in Addrs : heap'[b] = IF b = a THEN new ELSE heap[b]
      BY <2>1, <1>2 DEF IInv, TypeOK
    <2> HIDE DEF new
    <2>4. TypeOK'
      <3>1. timers' \subseteq EntryType /\ IsFiniteSet(timers')
        BY <2>1, <2>2, FS_AddElement DEF IInv, TypeOK
      <3>2. active' \subseteq [addr : Addrs, id : Nat]
        BY <2>1, <1>2 DEF IInv, TypeOK
      <3>3. misuse' \in BOOLEAN
        BY <1>4
      <3>4. heap' \in [Addrs -> TimerType \cup {Free}]
        BY <2>1, <2>2, <1>2 DEF IInv, TypeOK
      <3> QED BY <1>1, <1>2, <3>1, <3>2, <3>3, <3>4 DEF IInv, TypeOK
    <2>5. Scheduled'
      BY <1>3, <2>1, <2>2, <2>3 DEF IInv, TypeOK, Scheduled, Live, EntryType
    <2>6. InProcess' /\ Accounted'
      <3>1. InProcess'
        BY <1>6, <2>1, <2>3 DEF IInv, InProcess, Live
      <3>2. Accounted'
        BY <1>6, <2>1, <2>2, <2>3 DEF IInv, Accounted, Live, Entry
      <3> QED BY <3>1, <3>2
    <2>7. IdsUnique'
      BY <1>1, <1>2, <1>3, <2>2, <2>3 DEF IInv, IdsUnique, Live
    <2> QED
      BY <1>2, <1>4, <1>7, <2>4, <2>5, <2>6, <2>7 DEF IInv, NoRepeats, MemorySafe
  <1>10. CASE heap[a].interval = 0
    <2>1. heap' = [heap EXCEPT ![a] = Free] /\ UNCHANGED <<timers, active>>
      BY <1>8, <1>10 DEF RestartTimer, TimerType
    <2>2. \A b \in Addrs : heap'[b] = IF b = a THEN Free ELSE heap[b]
      BY <2>1, <1>2 DEF IInv, TypeOK
    <2>3. TypeOK'
      <3>1. misuse' \in BOOLEAN
        BY <1>4
      <3> QED BY <1>1, <1>2, <2>1, <3>1 DEF IInv, TypeOK
    <2>4. Scheduled'
      BY <1>3, <2>1, <2>2 DEF IInv, TypeOK, Scheduled, Live, EntryType
    <2>5. InProcess' /\ Accounted'
      BY <1>6, <2>1, <2>2 DEF IInv, InProcess, Accounted, Live, Entry
    <2>6. IdsUnique'
      BY <1>1, <2>2 DEF IInv, IdsUnique, Live
    <2> QED
      BY <1>2, <1>4, <1>7, <2>3, <2>4, <2>5, <2>6 DEF IInv, NoRepeats, MemorySafe
  <1> QED BY <1>9, <1>10 DEF RestartTimer

LEMMA OtherSteps ==
    ASSUME IInv, ProcessTimersDone \/ Tick \/ UNCHANGED vars
    PROVE  IInv'
  <1>1. UNCHANGED <<heap, timers, active, nextId, expired, rest, handles, fires,
                    cancelled, misuse>>
    BY DEF ProcessTimersDone, Tick, vars
  <1>2. now' \in Nat /\ phase' \in {"idle", "run", "restart"} /\ PhaseState'
    BY DEF IInv, TypeOK, PhaseState, ProcessTimersDone, Tick, vars
  <1>3. TypeOK'
    BY <1>1, <1>2 DEF IInv, TypeOK
  <1>4. NoRepeats(expired)' /\ NoRepeats(rest)' /\ Apart' /\ Taken' = Taken
    BY <1>1 DEF IInv, Apart, Taken, Addresses, NoRepeats
  <1>5. Scheduled' /\ InProcess' /\ Accounted' /\ IdsUnique' /\ MemorySafe'
    BY <1>1, <1>4 DEF IInv, Scheduled, InProcess, Accounted, IdsUnique, Live, Entry,
                      MemorySafe
  <1> QED BY <1>2, <1>3, <1>4, <1>5 DEF IInv

LEMMA NextIInv == ASSUME IInv, [Next]_vars PROVE IInv'
  BY CallStep, ProcessTimersStep, RunTimerStep, CallbacksDoneStep, RestartTimerStep,
     OtherSteps
  DEF Next, LoopThread

-----------------------------------------------------------------------------
LEMMA Inductive == Spec => []IInv
  <1>1. Init => IInv
    BY InitIInv
  <1>2. IInv /\ [Next]_vars => IInv'
    BY NextIInv
  <1> QED BY <1>1, <1>2, PTL DEF Spec

\* The manager keeps its types.
THEOREM TypeCorrect == Spec => []TypeOK
  <1>1. IInv => TypeOK
    BY DEF IInv
  <1> QED BY <1>1, Inductive, PTL

\* processTimers() never calls, restarts or deletes a timer that is gone,
\* whatever its callbacks add and cancel, for any number of timers at any
\* addresses, as long as only waiting timers are cancelled.
THEOREM NoDeletedTimerIsUsed == Spec => []MemorySafe
  <1>1. IInv => MemorySafe
    BY DEF IInv
  <1> QED BY <1>1, Inductive, PTL

\* Between two calls of processTimers() timers_ and the heap agree: no timer
\* leaks and none is forgotten.
THEOREM HeapMatchesTimers == Spec => []TimersAreScheduled
  <1>1. IInv => TimersAreScheduled
    <2> SUFFICES ASSUME IInv, phase = "idle"
                 PROVE  timers = {Entry(a) : a \in {b \in Addrs : Live(b)}}
      BY DEF TimersAreScheduled
    <2>1. Taken = {}
      BY DEF IInv, PhaseState, Taken, Addresses
    <2>2. ASSUME NEW e \in timers
          PROVE  e.addr \in Addrs /\ Live(e.addr) /\ e = Entry(e.addr)
      BY DEF IInv, TypeOK, Scheduled, EntryType, Entry
    <2>3. \A a \in Addrs : Live(a) => Entry(a) \in timers
      BY <2>1 DEF IInv, Accounted
    <2> QED BY <2>2, <2>3
  <1> QED BY <1>1, Inductive, PTL

\* The callback of a cancelled timer does not run again, though its address
\* may be another timer's by then.
THEOREM CancelIsFinal == Spec => CancelledStaysQuiet
  <1>1. IInv /\ [Next]_vars => [\A i \in cancelled : fires'[i] = fires[i]]_vars
    <2> SUFFICES ASSUME IInv, [Next]_vars, NEW i \in cancelled
                 PROVE  fires'[i] = fires[i]
      OBVIOUS
    <2>1. CASE RunTimer
      <3> DEFINE a == Head(expired).addr
      <3>1. a \in Addrs /\ Live(a)
        BY <2>1, FirstLeaves DEF RunTimer, IInv, TypeOK, InProcess, Taken
      <3>2. fires' = [fires EXCEPT ![heap[a].id] = @ + 1]
        BY <2>1, <3>1 DEF RunTimer
      <3>3. heap[a].id # i
        BY <3>1 DEF IInv, IdsUnique
      <3> QED BY <3>2, <3>3 DEF IInv, TypeOK
    <2>2. CASE ~RunTimer
      BY <2>2 DEF Next, vars, Call, LoopThread, ProcessTimers, CallbacksDone,
                  RestartTimer, ProcessTimersDone, Tick
    <2> QED BY <2>1, <2>2
  <1> QED BY <1>1, Inductive, PTL DEF Spec, CancelledStaysQuiet
=============================================================================
