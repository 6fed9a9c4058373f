----------------------- MODULE ConnectionOutputProofs -----------------------
(***************************************************************************)
(* Proofs about ConnectionOutput for all sizes and numbers of messages and *)
(* every high water mark: it implements the safety part of ByteStream.     *)
(* The properties of the runs do not keep themselves alone: that the end   *)
(* of the stream comes last rests on the channel being enabled for writing *)
(* exactly while there is output, until handleClose() (OpenState).         *)
(***************************************************************************)
EXTENDS ConnectionOutput, SequenceTheorems, TLAPS

Ids == 1 .. MaxMessages

OpenState ==
    ~closed => /\ watched
               /\ closing = 0
               /\ writing <=> out # <<>>
               /\ out # <<>> => ~shut

OInv == TypeOK /\ NothingOvertakes /\ OpenState

-----------------------------------------------------------------------------
(* Sequences. *)

LEMMA BytesType ==
    ASSUME NEW id \in Ids, NEW n \in Nat
    PROVE  /\ Bytes(id, n) \in Seq(Ids)
           /\ Len(Bytes(id, n)) = n
           /\ \A i \in 1 .. n : Bytes(id, n)[i] = id
  BY DEF Bytes

\* A message cut in two is the message.
LEMMA BytesCut ==
    ASSUME NEW id \in Ids, NEW len \in Nat, NEW n \in 0 .. len
    PROVE  Bytes(id, n) \o Bytes(id, len - n) = Bytes(id, len)
  <1> DEFINE b == Bytes(id, n)
             c == Bytes(id, len - n)
             m == Bytes(id, len)
  <1>1. /\ b \in Seq(Ids) /\ c \in Seq(Ids) /\ m \in Seq(Ids)
        /\ Len(b) = n /\ Len(c) = len - n /\ Len(m) = len
        /\ \A i \in 1 .. n : b[i] = id
        /\ \A i \in 1 .. len - n : c[i] = id
        /\ \A i \in 1 .. len : m[i] = id
    <2>1. n \in Nat /\ len - n \in Nat
      OBVIOUS
    <2> QED BY <2>1, BytesType
  <1> HIDE DEF b, c, m
  <1>2. b \o c \in Seq(Ids) /\ Len(b \o c) = len
    <2>1. b \o c \in Seq(Ids) /\ Len(b \o c) = Len(b) + Len(c)
      BY <1>1, ConcatProperties
    <2> QED BY <1>1, <2>1
  <1>3. \A i \in 1 .. len : (b \o c)[i] = m[i]
    BY <1>1, ConcatProperties
  <1>4. b \o c = m
    BY <1>1, <1>2, <1>3, SeqEqual
  <1> QED BY <1>4 DEF b, c, m

\* What is appended to leaves a prefix.
LEMMA PrefixOfConcat ==
    ASSUME NEW S, NEW s \in Seq(S), NEW t \in Seq(S)
    PROVE  Stream!IsPrefix(s, s \o t)
  <1>1. SubSeq(s \o t, 1, Len(s)) = s
    BY SubSeqOfConcat1, SubSeqFull
  <1> QED BY <1>1, SubSeqFull, ConcatProperties DEF Stream!IsPrefix


-----------------------------------------------------------------------------
(* sendInLoop(). *)

\* What sendInLoop() leaves behind.
SendEffect ==
    /\ out' \in Seq(Ids) /\ written' \in Seq(Ids) /\ sent' \in Seq(Ids)
    /\ writing' \in BOOLEAN /\ watched' \in BOOLEAN
    /\ lost' \in SUBSET Ids
    /\ queue' \in Seq(FunctorType)
    /\ written' = sent' \o out'
    /\ OpenState'
    /\ Stream!IsPrefix(written, written') /\ Stream!IsPrefix(sent, sent')
    /\ shut /\ ~closed => UNCHANGED <<written, sent>>

LEMMA FunctorTypes ==
    /\ Complete \in FunctorType /\ High \in FunctorType /\ Idle \in FunctorType
    /\ Functor("setState", 0, 0) \in FunctorType
    /\ Functor("shutdown", 0, 0) \in FunctorType
    /\ \A id \in Ids, len \in Sizes : Functor("send", id, len) \in FunctorType
  BY DEF Complete, High, Idle, Functor, FunctorType, Ids

\* The part of a message that is written directly goes behind what was
\* written, and the rest behind what is buffered.
LEMMA BufferStep ==
    ASSUME OInv, NEW id \in Ids, NEW len \in Nat, NEW n \in 0 .. len,
           n = 0 \/ out = <<>>, NEW q \in Seq(FunctorType), ~closed => ~shut,
           Buffer(id, len, n, q), UNCHANGED <<shut, closed, closing>>
    PROVE  SendEffect
  <1> DEFINE all == Bytes(id, len)
             now == Bytes(id, n)
             rest == Bytes(id, len - n)
  <1>1. all \in Seq(Ids) /\ now \in Seq(Ids) /\ rest \in Seq(Ids)
    <2>1. n \in Nat /\ len - n \in Nat
      OBVIOUS
    <2> QED BY <2>1, BytesType
  <1>2. all = now \o rest
    BY BytesCut
  <1>3. n = 0 => now = <<>>
    BY BytesType, <1>1
  <1>4. /\ written' = written \o all
        /\ sent' = sent \o now
        /\ out' = out \o rest
        /\ writing' = (writing \/ rest # <<>>)
        /\ watched' = (watched \/ (rest # <<>> /\ ~writing))
        /\ queue' = q \/ queue' = Append(q, High)
        /\ UNCHANGED lost
    BY DEF Buffer
  <1>5. out \in Seq(Ids) /\ written \in Seq(Ids) /\ sent \in Seq(Ids)
        /\ written = sent \o out
    BY DEF OInv, TypeOK, NothingOvertakes, Ids
  <1> HIDE DEF all, now, rest
  <1>6. out' \in Seq(Ids) /\ written' \in Seq(Ids) /\ sent' \in Seq(Ids)
    BY <1>1, <1>4, <1>5, ConcatProperties
  <1>7. written' = sent' \o out'
    <2>1. CASE n = 0
      <3>1. sent' = sent
        BY <1>3, <1>4, <1>5, <2>1, ConcatEmptySeq
      <3>2. all = rest
        BY <1>1, <1>2, <1>3, <2>1, ConcatEmptySeq
      <3>3. (sent \o out) \o rest = sent \o (out \o rest)
        <4>1. sent \in Seq(Ids) /\ out \in Seq(Ids) /\ rest \in Seq(Ids)
          BY <1>1, <1>5
        <4> QED BY ONLY <4>1, ConcatAssociative, SMTT(30)
      <3> QED BY <1>4, <1>5, <3>1, <3>2, <3>3
    <2>2. CASE out = <<>>
      <3>1. written = sent /\ out' = rest
        BY <1>1, <1>4, <1>5, <2>2, ConcatEmptySeq
      <3>2. (sent \o now) \o rest = sent \o (now \o rest)
        <4>1. sent \in Seq(Ids) /\ now \in Seq(Ids) /\ rest \in Seq(Ids)
          BY <1>1, <1>5
        <4> QED BY ONLY <4>1, ConcatAssociative, SMTT(30)
      <3> QED BY <1>2, <1>4, <3>1, <3>2
    <2> QED BY <2>1, <2>2
  <1>8. Stream!IsPrefix(written, written') /\ Stream!IsPrefix(sent, sent')
    BY <1>1, <1>4, <1>5, PrefixOfConcat
  <1>9. writing' \in BOOLEAN /\ watched' \in BOOLEAN /\ lost' \in SUBSET Ids
    BY <1>4 DEF OInv, TypeOK, Ids
  <1>10. queue' \in Seq(FunctorType)
    <2>1. High \in FunctorType
      BY FunctorTypes
    <2>2. Append(q, High) \in Seq(FunctorType)
      BY ONLY <2>1, q \in Seq(FunctorType), AppendProperties
    <2> QED BY <1>4, <2>2
  <1>11. OpenState'
    <2>1. out' # <<>> <=> out # <<>> \/ rest # <<>>
      BY <1>1, <1>4, <1>5, ConcatProperties, EmptySeq
    <2> QED BY <1>4, <2>1 DEF OInv, OpenState
  <1> QED BY <1>6, <1>7, <1>8, <1>9, <1>10, <1>11 DEF SendEffect

\* A message that is given up changes nothing but lost.
LEMMA GiveUpStep ==
    ASSUME OInv, NEW id \in Ids, GiveUpWriting(id), queue' \in Seq(FunctorType),
           UNCHANGED <<shut, closed, closing>>
    PROVE  SendEffect
  <1>1. UNCHANGED <<writing, watched, out, written, sent>> /\ lost' = lost \cup {id}
    BY DEF GiveUpWriting, channelVars
  <1>2. out \in Seq(Ids) /\ written \in Seq(Ids) /\ sent \in Seq(Ids)
        /\ written = sent \o out
    BY DEF OInv, TypeOK, NothingOvertakes, Ids
  <1>3. Stream!IsPrefix(written, written) /\ Stream!IsPrefix(sent, sent)
    BY <1>2 DEF Stream!IsPrefix
  <1>4. writing' \in BOOLEAN /\ watched' \in BOOLEAN /\ lost' \in SUBSET Ids
    BY <1>1 DEF OInv, TypeOK, Ids
  <1>5. OpenState'
    BY <1>1 DEF OInv, OpenState
  <1> QED BY <1>1, <1>2, <1>3, <1>4, <1>5 DEF SendEffect

LEMMA SendStep ==
    ASSUME OInv, NEW id \in Ids, NEW len \in Nat, NEW q \in Seq(FunctorType),
           SendInLoop(id, len, q), UNCHANGED <<shut, closed, closing>>
    PROVE  SendEffect
  <1>1. CASE GiveUpWriting(id) /\ queue' = q
    BY <1>1, GiveUpStep
  <1>2. CASE (writing \/ out # <<>>) /\ Buffer(id, len, 0, q)
    <2>1. ~closed => ~shut
      BY <1>2 DEF OInv, OpenState
    <2> QED BY <1>2, <2>1, BufferStep
  <1>3. CASE ~writing /\ out = <<>> /\ WriteDirectly(id, len, q)
    <2>1. PICK r \in WriteResults(len) :
             \/ r = Fault /\ GiveUpWriting(id) /\ queue' = q
             \/ r = Fails /\ Buffer(id, len, 0, q)
             \/ r = len /\ Buffer(id, len, len, Append(q, Complete))
             \/ r \in 0 .. len - 1 /\ Buffer(id, len, r, q)
      BY <1>3 DEF WriteDirectly
    <2>2. CASE r = Fault /\ GiveUpWriting(id) /\ queue' = q
      BY <2>2, GiveUpStep
    <2>3. r # Fault => ~shut
      BY <2>1 DEF WriteResults
    <2>4. CASE r = Fails /\ Buffer(id, len, 0, q)
      BY <1>3, <2>3, <2>4, BufferStep DEF Fails, Fault
    <2>5. CASE r = len /\ Buffer(id, len, len, Append(q, Complete))
      <3>1. Append(q, Complete) \in Seq(FunctorType) /\ r # Fault /\ len \in 0 .. len
        BY <2>5, FunctorTypes DEF Fault
      <3> QED BY <1>3, <2>3, <2>5, <3>1, BufferStep
    <2>6. CASE r \in 0 .. len - 1 /\ Buffer(id, len, r, q)
      <3>1. r # Fault /\ r \in 0 .. len
        BY <2>6 DEF Fault
      <3> QED BY <1>3, <2>3, <2>6, <3>1, BufferStep
    <2> QED BY <2>1, <2>2, <2>4, <2>5, <2>6
  <1> QED BY <1>1, <1>2, <1>3 DEF SendInLoop

-----------------------------------------------------------------------------
(* handleWrite(). *)

\* What handleWrite() leaves behind.
WriteEffect ==
    /\ out' \in Seq(Ids) /\ sent' \in Seq(Ids)
    /\ written' = sent' \o out'
    /\ OpenState'
    /\ Stream!Deliver

LEMMA WriteStep ==
    ASSUME OInv, NEW n \in 1 .. Len(out), HandleWrite(n)
    PROVE  WriteEffect
  <1> DEFINE a == SubSeq(out, 1, n)
             b == SubSeq(out, n + 1, Len(out))
  <1>1. /\ out \in Seq(Ids) /\ sent \in Seq(Ids) /\ written \in Seq(Ids)
        /\ written = sent \o out
    BY DEF OInv, TypeOK, NothingOvertakes, Ids
  <1>2. a \in Seq(Ids) /\ Len(a) = n /\ b \in Seq(Ids) /\ Len(b) = Len(out) - n
    BY <1>1
  <1>3. out = a \o b
    <2>1. 1 \in 1 .. Len(out) + 1 /\ n \in 1 - 1 .. Len(out) /\ Len(out) \in n .. Len(out)
      BY <1>1
    <2>2. a \o b = SubSeq(out, 1, Len(out))
      BY <1>1, <2>1, ConcatAdjacentSubSeq
    <2> QED BY <1>1, <2>2, SubSeqFull
  <1>4. /\ sent' = sent \o a /\ out' = b /\ UNCHANGED <<written, closed, closing, peer, watched>>
        /\ n = Len(out) => Drained
        /\ n # Len(out) => UNCHANGED <<writing, shut>>
        /\ writing /\ watched
    BY DEF HandleWrite, closeVars
  <1> HIDE DEF a, b
  <1>5. sent \o a \in Seq(Ids) /\ Len(sent \o a) = Len(sent) + n
    <2>1. sent \o a \in Seq(Ids) /\ Len(sent \o a) = Len(sent) + Len(a)
      BY <1>1, <1>2, ConcatProperties
    <2> QED BY <1>2, <2>1
  <1>6. written = (sent \o a) \o b
    <2>1. (sent \o a) \o b = sent \o (a \o b)
      <3>1. sent \in Seq(Ids) /\ a \in Seq(Ids) /\ b \in Seq(Ids)
        BY <1>1, <1>2
      <3> QED BY ONLY <3>1, ConcatAssociative, SMTT(30)
    <2> QED BY <1>1, <1>3, <2>1
  <1>7. b = <<>> <=> n = Len(out)
    BY <1>1, <1>2
  <1>8. Drained => writing' = FALSE /\ (shut' = shut \/ shut' = TRUE)
    BY DEF Drained, SendEnd
  <1>9. OpenState'
    <2>1. CASE n = Len(out)
      BY <1>4, <1>7, <1>8, <2>1 DEF OInv, OpenState
    <2>2. CASE n # Len(out)
      <3>1. out # <<>>
        BY <1>1
      <3> QED BY <1>4, <1>7, <2>2, <3>1 DEF OInv, OpenState
    <2> QED BY <2>1, <2>2
  <1>10. Stream!Deliver
    <2> DEFINE m == Len(sent) + n
    <2>1. Len(written) = Len(sent) + Len(out)
      BY <1>1, ConcatProperties
    <2>2. m \in Len(sent) + 1 .. Len(written)
      BY <1>1, <2>1
    <2>3. sent' = SubSeq(written, 1, m)
      <3>1. SubSeq((sent \o a) \o b, 1, Len(sent \o a)) = sent \o a
        <4>1. Len(sent \o a) \in 1 .. Len(sent \o a) /\ 1 \in 1 .. Len(sent \o a)
          BY <1>1, <1>5
        <4>2. SubSeq((sent \o a) \o b, 1, Len(sent \o a))
                 = SubSeq(sent \o a, 1, Len(sent \o a))
          BY <1>2, <1>5, <4>1, SubSeqOfConcat1
        <4> QED BY <1>5, <4>2, SubSeqFull
      <3> QED BY <1>4, <1>5, <1>6, <3>1
    <2>4. shut' = shut \/ (shut' = TRUE /\ m = Len(written))
      BY <1>4, <1>8, <2>1
    <2>5. shut' \in {shut, shut \/ m = Len(written)}
      <3>1. shut \in BOOLEAN
        BY DEF OInv, TypeOK
      <3> HIDE DEF m
      <3> QED BY <2>4, <3>1
    <2>6. UNCHANGED <<written, Broken>>
      BY <1>4 DEF Broken
    <2> HIDE DEF m
    <2> QED BY <2>2, <2>3, <2>5, <2>6 DEF Stream!Deliver
  <1> QED BY <1>2, <1>4, <1>5, <1>6, <1>9, <1>10 DEF WriteEffect

-----------------------------------------------------------------------------
(* The steps. *)

\* send() on the loop.
LEMMA LoopSends ==
    ASSUME OInv, NEW len \in Sizes, SendOnLoop(len)
    PROVE  SendEffect /\ count' \in 0 .. MaxMessages
  <1>1. count' = count + 1 /\ count + 1 \in Ids /\ len \in Nat
    BY OutputAssumption DEF SendOnLoop, OInv, TypeOK, Ids
  <1>2. SendInLoop(count', len, queue)
    BY DEF SendOnLoop
  <1>3. UNCHANGED <<shut, closed, closing>>
    BY DEF SendOnLoop, closeVars
  <1>4. queue \in Seq(FunctorType)
    BY DEF OInv, TypeOK
  <1>5. count' \in Ids
    BY <1>1
  <1>6. SendEffect
    BY <1>1, <1>2, <1>3, <1>4, <1>5, SendStep
  <1> QED BY <1>1, <1>6 DEF Ids

\* The functor of a send() from another thread.
LEMMA FunctorSends ==
    ASSUME OInv, RunFunctor, Head(queue).op = "send"
    PROVE  SendEffect /\ UNCHANGED <<shut, endBy, full>>
  <1>1. queue \in Seq(FunctorType) /\ queue # <<>>
    BY DEF OInv, TypeOK, RunFunctor
  <1>2. Head(queue) \in FunctorType /\ Tail(queue) \in Seq(FunctorType)
    BY <1>1, HeadTailProperties
  <1>3. Head(queue).id \in Ids /\ Head(queue).len \in Nat
    BY <1>2, OutputAssumption DEF FunctorType, Ids
  <1>4. SendInLoop(Head(queue).id, Head(queue).len, Tail(queue))
        /\ UNCHANGED <<shut, endBy, full>>
    BY DEF RunFunctor
  <1>5. UNCHANGED <<closed, closing>>
    BY DEF RunFunctor, closeVars
  <1> QED BY <1>2, <1>3, <1>4, <1>5, SendStep

\* Other functors leave the stream alone, but for its end.
LEMMA FunctorEnds ==
    ASSUME OInv, RunFunctor, Head(queue).op # "send"
    PROVE  /\ UNCHANGED <<channelVars, streamVars, state, closeVars, fpc, count>>
           /\ queue' = Tail(queue)
           /\ \/ UNCHANGED <<shut, endBy>>
              \/ ~writing /\ shut' = TRUE /\ endBy' \in {endBy, "functor"}
           /\ full' \in {full, TRUE, FALSE}
  BY DEF RunFunctor, ShutdownInLoop, SendEnd

\* A connection that has just been established.
LEMMA InitOInv == Init => OInv
  <1> SUFFICES ASSUME Init PROVE OInv
    OBVIOUS
  <1>1. out \in Seq(Ids) /\ written \in Seq(Ids) /\ sent \in Seq(Ids)
        /\ queue \in Seq(FunctorType) /\ fpc \in FunctorType
        /\ lost \in SUBSET Ids
    BY FunctorTypes DEF Init
  <1>2. /\ writing \in BOOLEAN /\ watched \in BOOLEAN /\ shut \in BOOLEAN
        /\ closed \in BOOLEAN /\ full \in BOOLEAN
    BY DEF Init
  <1>3. count \in 0 .. MaxMessages /\ closing \in Nat
    BY OutputAssumption DEF Init
  <1>4. TypeOK
    BY <1>1, <1>2, <1>3 DEF Init, TypeOK, Ids
  <1>5. NothingOvertakes
    <2>1. <<>> \o <<>> = <<>>
      BY ConcatEmptySeq, EmptySeq
    <2> QED BY <2>1 DEF Init, NothingOvertakes
  <1>6. OpenState
    BY DEF Init, OpenState
  <1> QED BY <1>4, <1>5, <1>6 DEF OInv

\* The types survive every step.
LEMMA TypeStep == ASSUME OInv, [Next]_vars PROVE TypeOK'
  <1> USE OutputAssumption DEF TypeOK, Ids, channelVars, streamVars, closeVars
  <1>1. ASSUME NEW len \in Sizes, SendOnLoop(len) PROVE TypeOK'
    BY <1>1, LoopSends DEF OInv, SendOnLoop, SendEffect
  <1>2. ASSUME NEW len \in Sizes, ForeignSend(len) PROVE TypeOK'
    <2>1. count' \in 0 .. MaxMessages /\ fpc' \in FunctorType
      BY <1>2, FunctorTypes DEF ForeignSend, OInv
    <2> QED BY <1>2, <2>1 DEF OInv, ForeignSend
  <1>3. CASE ShutdownOnLoop
    <2>1. shut' \in BOOLEAN /\ endBy' \in {"nobody", "loop", "functor", "drain"}
      BY <1>3 DEF OInv, ShutdownOnLoop, ShutdownInLoop, SendEnd
    <2> QED BY <1>3, <2>1 DEF OInv, ShutdownOnLoop
  <1>4. CASE ForeignShutdown
    BY <1>4, FunctorTypes DEF OInv, ForeignShutdown
  <1>5. ASSUME NEW n \in 1 .. Len(out), HandleWrite(n) PROVE TypeOK'
    <2>1. out' \in Seq(Ids) /\ sent' \in Seq(Ids)
      BY <1>5, WriteStep DEF WriteEffect
    <2>2. /\ writing' \in BOOLEAN /\ shut' \in BOOLEAN
          /\ endBy' \in {"nobody", "loop", "functor", "drain"}
      BY <1>5 DEF OInv, HandleWrite, Drained, SendEnd
    <2>3. queue' \in Seq(FunctorType)
      <3>1. queue' = queue \/ queue' = Append(queue, Complete)
        BY <1>5 DEF HandleWrite, Drained
      <3>2. Complete \in FunctorType /\ queue \in Seq(FunctorType)
        BY FunctorTypes DEF OInv
      <3>3. Append(queue, Complete) \in Seq(FunctorType)
        BY ONLY <3>2, AppendProperties
      <3> QED BY <3>1, <3>2, <3>3
    <2> QED BY <1>5, <2>1, <2>2, <2>3 DEF OInv, HandleWrite
  <1>6. CASE RunFunctor
    <2>1. CASE Head(queue).op = "send"
      BY <1>6, <2>1, FunctorSends DEF OInv, RunFunctor, SendEffect
    <2>2. CASE Head(queue).op # "send"
      <3>1. queue' \in Seq(FunctorType)
        <4>1. queue' = Tail(queue)
          BY <1>6, <2>2, FunctorEnds
        <4>2. queue \in Seq(FunctorType) /\ queue # <<>>
          BY <1>6 DEF OInv, RunFunctor
        <4>3. Tail(queue) \in Seq(FunctorType)
          BY ONLY <4>2, HeadTailProperties
        <4> QED BY <4>1, <4>3
      <3>2. shut' \in BOOLEAN /\ full' \in BOOLEAN
            /\ endBy' \in {"nobody", "loop", "functor", "drain"}
        BY <1>6, <2>2, FunctorEnds DEF OInv
      <3> QED BY <1>6, <2>2, <3>1, <3>2, FunctorEnds DEF OInv
    <2> QED BY <2>1, <2>2
  <1>7. CASE ForeignSetState
    BY <1>7, FunctorTypes DEF OInv, ForeignSetState
  <1>8. CASE ForeignQueue
    <2>1. queue' \in Seq(FunctorType)
      BY <1>8, AppendProperties DEF OInv, ForeignQueue
    <2> QED BY <1>8, <2>1, FunctorTypes DEF OInv, ForeignQueue
  <1>9. CASE HandleClose
    <2>1. writing' \in BOOLEAN /\ watched' \in BOOLEAN /\ closed' \in BOOLEAN
      BY <1>9 DEF HandleClose
    <2>2. closing' \in Nat
      BY <1>9 DEF OInv, HandleClose
    <2> QED BY <1>9, <2>1, <2>2 DEF OInv, HandleClose
  <1>10. CASE ConnectDestroyed
    <2>1. writing' \in BOOLEAN /\ watched' \in BOOLEAN
      BY <1>10 DEF OInv, ConnectDestroyed
    <2>2. closing' \in Nat
      BY <1>10 DEF OInv, ConnectDestroyed
    <2>3. state' \in {"connected", "disconnecting", "disconnected"}
      BY <1>10 DEF OInv, ConnectDestroyed
    <2> QED BY <1>10, <2>1, <2>2, <2>3 DEF OInv, ConnectDestroyed
  <1>11. CASE PeerLeaves
    BY <1>11 DEF OInv, PeerLeaves
  <1>12. CASE UNCHANGED vars
    BY <1>12 DEF OInv, vars
  <1> QED
    BY <1>1, <1>2, <1>3, <1>4, <1>5, <1>6, <1>7, <1>8, <1>9, <1>10, <1>11, <1>12
    DEF Next, SomeWrite

\* Order and the state of the channel survive every step.
LEMMA OrderStep ==
    ASSUME OInv, [Next]_vars
    PROVE  NothingOvertakes' /\ OpenState'
  <1>0. ASSUME UNCHANGED <<writing, watched, out, written, sent, closed, closing>>,
               shut' = shut \/ ~writing
        PROVE  NothingOvertakes' /\ OpenState'
    BY <1>0 DEF OInv, OpenState, NothingOvertakes
  <1> USE DEF NothingOvertakes, channelVars, streamVars, closeVars
  <1>1. ASSUME NEW len \in Sizes, SendOnLoop(len)
        PROVE  NothingOvertakes' /\ OpenState'
    BY <1>1, LoopSends DEF SendEffect
  <1>2. ASSUME NEW len \in Sizes, ForeignSend(len)
        PROVE  NothingOvertakes' /\ OpenState'
    BY <1>2, <1>0 DEF ForeignSend
  <1>3. CASE ShutdownOnLoop
    BY <1>3, <1>0 DEF ShutdownOnLoop, ShutdownInLoop, SendEnd
  <1>4. CASE ForeignShutdown \/ ForeignSetState \/ ForeignQueue \/ PeerLeaves
    BY <1>4, <1>0 DEF ForeignShutdown, ForeignSetState, ForeignQueue, PeerLeaves
  <1>5. ASSUME NEW n \in 1 .. Len(out), HandleWrite(n)
        PROVE  NothingOvertakes' /\ OpenState'
    BY <1>5, WriteStep DEF WriteEffect
  <1>6. CASE RunFunctor
    <2>1. CASE Head(queue).op = "send"
      BY <1>6, <2>1, FunctorSends DEF SendEffect
    <2>2. CASE Head(queue).op # "send"
      <3>1. UNCHANGED <<writing, watched, out, written, sent, closed, closing>>
        BY <1>6, <2>2, FunctorEnds
      <3>2. shut' = shut \/ ~writing
        BY <1>6, <2>2, FunctorEnds
      <3> QED BY <1>0, <3>1, <3>2
    <2> QED BY <2>1, <2>2
  <1>7. CASE HandleClose
    BY <1>7 DEF OInv, OpenState, HandleClose
  <1>8. CASE ConnectDestroyed
    BY <1>8 DEF OInv, OpenState, ConnectDestroyed
  <1>9. CASE UNCHANGED vars
    BY <1>9, <1>0 DEF vars
  <1> QED
    BY <1>1, <1>2, <1>3, <1>4, <1>5, <1>6, <1>7, <1>8, <1>9 DEF Next, SomeWrite

THEOREM Invariance == Spec => []OInv
  <1>1. OInv /\ [Next]_vars => OInv'
    BY TypeStep, OrderStep DEF OInv
  <1> QED BY InitOInv, <1>1, PTL DEF Spec

-----------------------------------------------------------------------------
\* The connection keeps its types, for any number and size of messages.
THEOREM TypeCorrect == Spec => []TypeOK
  <1>1. OInv => TypeOK
    BY DEF OInv
  <1> QED BY <1>1, Invariance, PTL

\* What sendInLoop() accepted is, in this order, what write(2) took and what
\* is buffered, for any number and size of messages.
THEOREM Order == Spec => []NothingOvertakes
  <1>1. OInv => NothingOvertakes
    BY DEF OInv
  <1> QED BY <1>1, Invariance, PTL

\* Output waits only where handleWrite() will be called for it.
THEOREM Draining == Spec => []BufferIsDrained
  <1>1. OInv => BufferIsDrained
    BY DEF OInv, OpenState, BufferIsDrained, Broken
  <1> QED BY <1>1, Invariance, PTL

\* Every step of the connection is one of the abstract stream or leaves it as
\* it is.
LEMMA StreamStep ==
    ASSUME OInv, [Next]_vars
    PROVE  [Stream!Next]_Stream!vars
  <1> USE DEF channelVars, streamVars, closeVars
  <1>1. ASSUME SendEffect, UNCHANGED <<shut, closed, peer>>
        PROVE  [Stream!Next]_Stream!vars
    <2>1. Stream!IsPrefix(sent', written')
      BY <1>1, PrefixOfConcat DEF SendEffect
    <2>2. UNCHANGED <<shut, Broken>>
      BY <1>1 DEF Broken
    <2>3. CASE shut => Broken
      BY <1>1, <2>1, <2>2, <2>3 DEF SendEffect, Stream!Write, Stream!Next
    <2>4. CASE shut /\ ~Broken
      BY <1>1, <2>2, <2>4 DEF SendEffect, Broken, Stream!vars
    <2> QED BY <2>3, <2>4
  \* The end comes when nothing is buffered.
  <1>2. ASSUME UNCHANGED <<written, sent, closed, peer>>, shut' = shut \/ (~writing /\ shut' = TRUE)
        PROVE  [Stream!Next]_Stream!vars
    <2>1. UNCHANGED <<written, sent, Broken>>
      BY <1>2 DEF Broken
    <2>2. CASE shut' = shut
      BY <2>1, <2>2 DEF Stream!vars
    <2>3. CASE ~writing /\ shut' = TRUE
      <3>1. Broken \/ sent = written
        <4>1. ~closed => out = <<>>
          BY <2>3 DEF OInv, OpenState
        <4>2. out = <<>> => written = sent
          BY ConcatEmptySeq DEF OInv, TypeOK, NothingOvertakes
        <4> QED BY <4>1, <4>2 DEF Broken
      <3> QED BY <2>1, <2>3, <3>1 DEF Stream!End, Stream!Next
    <2> QED BY <1>2, <2>2, <2>3
  <1>3. ASSUME NEW len \in Sizes, SendOnLoop(len)
        PROVE  [Stream!Next]_Stream!vars
    BY <1>1, <1>3, LoopSends DEF SendOnLoop
  <1>4. ASSUME NEW len \in Sizes, ForeignSend(len)
        PROVE  [Stream!Next]_Stream!vars
    BY <1>2, <1>4 DEF ForeignSend
  <1>5. CASE ShutdownOnLoop
    BY <1>2, <1>5 DEF ShutdownOnLoop, ShutdownInLoop, SendEnd
  <1>6. CASE ForeignShutdown \/ ForeignSetState \/ ForeignQueue
    BY <1>2, <1>6 DEF ForeignShutdown, ForeignSetState, ForeignQueue
  <1>7. ASSUME NEW n \in 1 .. Len(out), HandleWrite(n)
        PROVE  [Stream!Next]_Stream!vars
    BY <1>7, WriteStep DEF WriteEffect, Stream!Next
  <1>8. CASE RunFunctor
    <2>1. CASE Head(queue).op = "send"
      <3>1. SendEffect /\ UNCHANGED shut
        BY <1>8, <2>1, FunctorSends
      <3>2. UNCHANGED <<closed, peer>>
        BY <1>8 DEF RunFunctor
      <3> QED BY <1>1, <3>1, <3>2
    <2>2. CASE Head(queue).op # "send"
      BY <1>2, <1>8, <2>2, FunctorEnds
    <2> QED BY <2>1, <2>2
  <1>9. CASE HandleClose \/ PeerLeaves
    <2>1. UNCHANGED <<written, sent, shut>>
      BY <1>9 DEF HandleClose, PeerLeaves
    <2>2. Broken' = TRUE \/ Broken' = Broken
      BY <1>9 DEF HandleClose, PeerLeaves, Broken
    <2> QED BY <2>1, <2>2 DEF Stream!Break, Stream!Next, Stream!vars
  <1>10. CASE ConnectDestroyed
    BY <1>2, <1>10 DEF ConnectDestroyed
  <1>11. CASE UNCHANGED vars
    BY <1>2, <1>11 DEF vars
  <1> QED
    BY <1>3, <1>4, <1>5, <1>6, <1>7, <1>8, <1>9, <1>10, <1>11 DEF Next, SomeWrite

\* The connection implements the byte stream (without its fairness): bytes
\* arrive in order, and the end of an unbroken stream after the last of them,
\* for any number and size of messages and every high water mark.
THEOREM Refinement == Spec => Stream!Spec
  <1>1. Init => Stream!Init
    <2> SUFFICES ASSUME Init PROVE Stream!Init
      OBVIOUS
    <2>1. Broken = FALSE
      BY DEF Init, Broken
    <2> QED BY <2>1 DEF Init, Stream!Init
  <1>2. OInv /\ [Next]_vars => [Stream!Next]_Stream!vars
    BY StreamStep
  <1> QED BY <1>1, <1>2, Invariance, PTL DEF Spec, Stream!Spec

-----------------------------------------------------------------------------
(* What the loop's queue still holds for the application: the callbacks of *)
(* the high water mark and of a completed write, and the order of send()   *)
(* and shutdown() of another thread.                                       *)

Has(q, op) == \E i \in DOMAIN q : q[i].op = op

\* Whoever was told, or will be told, that the mark was reached will also be
\* told that the write is complete.
ReleaseComes(q, o) == o # <<>> \/ Has(q, "complete")
HighIsFollowed(q, o) ==
    \A i \in DOMAIN q : q[i].op = "high" =>
        o # <<>> \/ \E j \in DOMAIN q : j > i /\ q[j].op = "complete"

ReleaseInv ==
    /\ full => ReleaseComes(queue, out)
    /\ HighIsFollowed(queue, out)

\* No send() of the other thread comes after its shutdown().
ShutdownIsLast(q) ==
    \A i, j \in DOMAIN q : i < j /\ q[i].op = "shutdown" => q[j].op # "send"

EndInv ==
    /\ ShutdownIsLast(queue)
    /\ Has(queue, "shutdown") \/ fpc.op = "shutdown" \/ endBy = "functor"
           => state # "connected"
    /\ Has(queue, "shutdown") \/ endBy = "functor" => fpc.op # "send"
    /\ endBy = "functor" => ~Has(queue, "send")
    /\ shut <=> endBy # "nobody"
    /\ state = "disconnected" => closed
    /\ lost # {} /\ ~Broken => shut /\ endBy # "functor"

\* One element more at the end, or one less in front.
LEMMA AppendShape ==
    ASSUME NEW q \in Seq(FunctorType), NEW f \in FunctorType
    PROVE  /\ Append(q, f) \in Seq(FunctorType)
           /\ DOMAIN q = 1 .. Len(q) /\ Len(q) \in Nat
           /\ DOMAIN Append(q, f) = 1 .. Len(q) + 1
           /\ \A i \in 1 .. Len(q) : Append(q, f)[i] = q[i]
           /\ Append(q, f)[Len(q) + 1] = f
  OBVIOUS

LEMMA TailShape ==
    ASSUME NEW q \in Seq(FunctorType), q # <<>>
    PROVE  /\ Tail(q) \in Seq(FunctorType)
           /\ Head(q) = q[1] /\ Head(q) \in FunctorType /\ 1 \in DOMAIN q
           /\ DOMAIN q = 1 .. Len(q) /\ Len(q) \in Nat
           /\ DOMAIN Tail(q) = 1 .. Len(q) - 1
           /\ \A i \in 1 .. Len(q) - 1 : Tail(q)[i] = q[i + 1]
  OBVIOUS

LEMMA HasAppend ==
    ASSUME NEW q \in Seq(FunctorType), NEW f \in FunctorType, NEW op
    PROVE  Has(Append(q, f), op) <=> Has(q, op) \/ f.op = op
  BY AppendShape DEF Has

LEMMA HasTail ==
    ASSUME NEW q \in Seq(FunctorType), q # <<>>, NEW op
    PROVE  Has(q, op) <=> Has(Tail(q), op) \/ Head(q).op = op
  <1>1. Has(Tail(q), op) => Has(q, op)
    BY TailShape DEF Has
  <1>2. ASSUME NEW i \in DOMAIN q, q[i].op = op, i # 1
        PROVE  Has(Tail(q), op)
    <2>1. i - 1 \in 1 .. Len(q) - 1 /\ (i - 1) + 1 = i
      BY <1>2, TailShape
    <2>2. Tail(q)[i - 1] = q[i] /\ i - 1 \in DOMAIN Tail(q)
      BY <2>1, TailShape
    <2> QED BY <1>2, <2>2 DEF Has
  <1> QED BY <1>1, <1>2, TailShape DEF Has

\* Functors added at the end leave what is promised in front of them.
LEMMA FollowedAppend ==
    ASSUME NEW q \in Seq(FunctorType), NEW f \in FunctorType, NEW o, NEW p,
           HighIsFollowed(q, o),
           o # <<>> => p # <<>> \/ f.op = "complete",
           f.op = "high" => p # <<>>
    PROVE  HighIsFollowed(Append(q, f), p)
  <1> SUFFICES ASSUME NEW i \in DOMAIN Append(q, f), Append(q, f)[i].op = "high",
                      p = <<>>
               PROVE  \E j \in DOMAIN Append(q, f) :
                          j > i /\ Append(q, f)[j].op = "complete"
    BY DEF HighIsFollowed
  <1>1. i \in 1 .. Len(q) /\ q[i].op = "high" /\ i < Len(q) + 1
    BY AppendShape
  <1>2. CASE f.op = "complete"
    <2>1. Len(q) + 1 \in DOMAIN Append(q, f) /\ Append(q, f)[Len(q) + 1].op = "complete"
      BY <1>2, AppendShape
    <2> QED BY <1>1, <2>1
  <1>3. CASE f.op # "complete"
    <2>1. PICK j \in DOMAIN q : j > i /\ q[j].op = "complete"
      BY <1>1, <1>3, AppendShape DEF HighIsFollowed
    <2> QED BY <2>1, AppendShape
  <1> QED BY <1>2, <1>3

LEMMA FollowedTail ==
    ASSUME NEW q \in Seq(FunctorType), q # <<>>, NEW o, HighIsFollowed(q, o)
    PROVE  /\ HighIsFollowed(Tail(q), o)
           /\ Head(q).op = "high" => ReleaseComes(Tail(q), o)
  <1>1. ASSUME NEW i \in DOMAIN q, q[i].op = "high", o = <<>>
        PROVE  \E j \in DOMAIN Tail(q) : j + 1 > i /\ Tail(q)[j].op = "complete"
    <2>1. PICK j \in DOMAIN q : j > i /\ q[j].op = "complete"
      BY <1>1 DEF HighIsFollowed
    <2>2. j - 1 \in 1 .. Len(q) - 1 /\ (j - 1) + 1 = j
      BY <2>1, TailShape
    <2>3. j - 1 \in DOMAIN Tail(q) /\ Tail(q)[j - 1] = q[j]
      BY <2>2, TailShape
    <2> QED BY <2>1, <2>2, <2>3
  <1>2. HighIsFollowed(Tail(q), o)
    <2> SUFFICES ASSUME NEW i \in DOMAIN Tail(q), Tail(q)[i].op = "high", o = <<>>
                 PROVE  \E j \in DOMAIN Tail(q) : j > i /\ Tail(q)[j].op = "complete"
      BY DEF HighIsFollowed
    <2>1. i + 1 \in DOMAIN q /\ q[i + 1].op = "high" /\ i \in Nat
      BY TailShape
    <2>2. PICK j \in DOMAIN Tail(q) : j + 1 > i + 1 /\ Tail(q)[j].op = "complete"
      BY <1>1, <2>1
    <2>3. j \in Nat
      BY TailShape
    <2>4. j > i
      BY <2>1, <2>2, <2>3
    <2> QED BY <2>2, <2>4
  <1>3. Head(q).op = "high" => ReleaseComes(Tail(q), o)
    BY <1>1, TailShape DEF ReleaseComes, Has
  <1> QED BY <1>2, <1>3

LEMMA LastAppend ==
    ASSUME NEW q \in Seq(FunctorType), NEW f \in FunctorType, ShutdownIsLast(q),
           f.op = "send" => ~Has(q, "shutdown")
    PROVE  ShutdownIsLast(Append(q, f))
  BY AppendShape DEF ShutdownIsLast, Has

LEMMA LastTail ==
    ASSUME NEW q \in Seq(FunctorType), q # <<>>, ShutdownIsLast(q)
    PROVE  /\ ShutdownIsLast(Tail(q))
           /\ Head(q).op = "shutdown" => ~Has(Tail(q), "send")
  BY TailShape DEF ShutdownIsLast, Has

\* What sendInLoop() adds to the queue q it finds: at most a callback, and the
\* one for the high water mark only behind buffered output.
SendQueues(q) ==
    /\ out # <<>> => out' # <<>>
    /\ \/ queue' = q
       \/ queue' = Append(q, High) /\ out' # <<>>
       \/ queue' = Append(q, Complete)

LEMMA BufferQueues ==
    ASSUME TypeOK, NEW id \in Ids, NEW len \in Nat, NEW n \in 0 .. len,
           NEW q \in Seq(FunctorType), Buffer(id, len, n, q)
    PROVE  /\ out # <<>> => out' # <<>>
           /\ queue' = q \/ (queue' = Append(q, High) /\ n # len /\ out' # <<>>)
  <1> DEFINE rest == Bytes(id, len - n)
  <1>1. rest \in Seq(Ids) /\ Len(rest) = len - n /\ len - n \in Nat
    BY BytesType
  <1>2. out \in Seq(Ids) /\ out' = out \o rest
    BY DEF TypeOK, Ids, Buffer
  <1>3. queue' = q \/ (queue' = Append(q, High) /\ rest # <<>>)
    BY DEF Buffer
  <1> HIDE DEF rest
  <1>4. Len(out') = Len(out) + Len(rest) /\ out' \in Seq(Ids)
    BY <1>1, <1>2, ConcatProperties
  <1>5. out # <<>> => out' # <<>>
    BY <1>2, <1>1, <1>4
  <1>6. rest # <<>> => out' # <<>> /\ n # len
    BY <1>2, <1>1, <1>4
  <1> QED BY <1>3, <1>5, <1>6

LEMMA SendQueueing ==
    ASSUME TypeOK, NEW id \in Ids, NEW len \in Nat, NEW q \in Seq(FunctorType),
           SendInLoop(id, len, q)
    PROVE  SendQueues(q)
  <1>1. Append(q, Complete) \in Seq(FunctorType) /\ 0 \in 0 .. len /\ len \in 0 .. len
    BY FunctorTypes, AppendShape
  <1>2. CASE GiveUpWriting(id) /\ queue' = q
    BY <1>2 DEF GiveUpWriting, channelVars, SendQueues
  <1>3. CASE Buffer(id, len, 0, q)
    BY <1>1, <1>3, BufferQueues DEF SendQueues
  <1>4. CASE Buffer(id, len, len, Append(q, Complete))
    BY <1>1, <1>4, BufferQueues DEF SendQueues
  <1>5. ASSUME NEW r \in 0 .. len - 1, Buffer(id, len, r, q) PROVE SendQueues(q)
    <2>1. r \in 0 .. len
      OBVIOUS
    <2> QED BY <1>5, <2>1, BufferQueues DEF SendQueues
  <1> QED BY <1>2, <1>3, <1>4, <1>5 DEF SendInLoop, WriteDirectly

\* A message is given up only when the stream has ended or is broken.
LEMMA LostOnlyAtEnd ==
    ASSUME NEW id \in Ids, NEW len \in Nat, NEW q, SendInLoop(id, len, q)
    PROVE  \/ lost' = lost
           \/ lost' = lost \cup {id} /\ (state = "disconnected" \/ shut \/ peer = "reset")
  <1>1. CASE state = "disconnected" /\ GiveUpWriting(id)
    BY <1>1 DEF GiveUpWriting
  <1>2. CASE WriteDirectly(id, len, q)
    <2>1. PICK r \in WriteResults(len) :
             \/ r = Fault /\ GiveUpWriting(id) /\ queue' = q
             \/ r = Fails /\ Buffer(id, len, 0, q)
             \/ r = len /\ Buffer(id, len, len, Append(q, Complete))
             \/ r \in 0 .. len - 1 /\ Buffer(id, len, r, q)
      BY <1>2 DEF WriteDirectly
    <2>2. r = Fault => shut \/ peer = "reset"
      BY <2>1 DEF WriteResults, Fault, Fails
    <2> QED BY <2>1, <2>2 DEF GiveUpWriting, Buffer
  <1>3. CASE Buffer(id, len, 0, q)
    BY <1>3 DEF Buffer
  <1> QED BY <1>1, <1>2, <1>3 DEF SendInLoop

\* The queue q a send() finds, and what it leaves.
LEMMA ReleaseSend ==
    ASSUME TypeOK, NEW q \in Seq(FunctorType), SendQueues(q), full' = full,
           HighIsFollowed(q, out), full => ReleaseComes(q, out)
    PROVE  ReleaseInv'
  <1>1. /\ Complete \in FunctorType /\ Complete.op = "complete"
        /\ High \in FunctorType /\ High.op = "high"
    BY FunctorTypes DEF Complete, High, Functor
  <1>2. CASE queue' = q
    BY <1>2 DEF SendQueues, ReleaseInv, ReleaseComes, HighIsFollowed
  <1>3. CASE queue' = Append(q, High) /\ out' # <<>>
    BY <1>1, <1>3, FollowedAppend DEF ReleaseInv, ReleaseComes
  <1>4. CASE queue' = Append(q, Complete)
    <2>1. HighIsFollowed(queue', out')
      BY <1>1, <1>4, FollowedAppend
    <2>2. Has(queue', "complete")
      BY <1>1, <1>4, HasAppend
    <2> QED BY <2>1, <2>2 DEF ReleaseInv, ReleaseComes
  <1> QED BY <1>2, <1>3, <1>4 DEF SendQueues

LEMMA ReleaseStep == ASSUME OInv, ReleaseInv, [Next]_vars PROVE ReleaseInv'
  <1>0. TypeOK /\ queue \in Seq(FunctorType) /\ fpc \in FunctorType
    BY DEF OInv, TypeOK
  <1>1. ASSUME UNCHANGED <<queue, out, full>> PROVE ReleaseInv'
    BY <1>1 DEF ReleaseInv
  <1> USE DEF channelVars
  <1>2. ASSUME NEW len \in Sizes, SendOnLoop(len) PROVE ReleaseInv'
    <2>1. count' \in Ids /\ len \in Nat /\ SendInLoop(count', len, queue) /\ full' = full
      BY <1>2, OutputAssumption DEF SendOnLoop, OInv, TypeOK, Ids
    <2> QED BY <1>0, <2>1, SendQueueing, ReleaseSend DEF ReleaseInv
  <1>3. ASSUME NEW n \in 1 .. Len(out), HandleWrite(n) PROVE ReleaseInv'
    <2>1. CASE n = Len(out)
      <3>1. queue' = Append(queue, Complete) /\ full' = full
        BY <1>3, <2>1 DEF HandleWrite, Drained
      <3>2. Complete \in FunctorType /\ Complete.op = "complete"
        BY FunctorTypes DEF Complete, Functor
      <3>3. HighIsFollowed(queue', out')
        BY <1>0, <3>1, <3>2, FollowedAppend DEF ReleaseInv
      <3>4. Has(queue', "complete")
        BY <1>0, <3>1, <3>2, HasAppend
      <3> QED BY <3>3, <3>4 DEF ReleaseInv, ReleaseComes
    <2>2. CASE n # Len(out)
      <3>1. out \in Seq(Ids) /\ out' = SubSeq(out, n + 1, Len(out))
        BY <1>3 DEF OInv, TypeOK, Ids, HandleWrite
      <3>2. out' # <<>>
        <4>1. SubSeq(out, n + 1, Len(out)) \in Seq(Ids)
              /\ Len(SubSeq(out, n + 1, Len(out))) = Len(out) - n
          BY <3>1
        <4>2. Len(out) - n # 0
          BY <2>2, <3>1
        <4> QED BY <3>1, <4>1, <4>2
      <3>4. UNCHANGED <<queue, full>>
        BY <1>3, <2>2 DEF HandleWrite
      <3> QED BY <3>2, <3>4 DEF ReleaseInv, ReleaseComes, HighIsFollowed
    <2> QED BY <2>1, <2>2
  <1>4. CASE RunFunctor
    <2> DEFINE f == Head(queue)
               q == Tail(queue)
    <2>1. queue # <<>> /\ q \in Seq(FunctorType) /\ f \in FunctorType
      BY <1>0, <1>4, TailShape DEF RunFunctor
    <2>2. HighIsFollowed(q, out) /\ (f.op = "high" => ReleaseComes(q, out))
      BY <1>0, <2>1, FollowedTail DEF ReleaseInv
    <2>3. f.op # "complete" /\ full => ReleaseComes(q, out)
      BY <1>0, <2>1, HasTail DEF ReleaseInv, ReleaseComes
    <2>4. CASE f.op = "send"
      <3>1. f.id \in Ids /\ f.len \in Nat
        BY <2>1, <2>4, OutputAssumption DEF FunctorType, Ids
      <3>2. SendInLoop(f.id, f.len, q) /\ full' = full
        BY <1>4, <2>4 DEF RunFunctor
      <3> HIDE DEF f, q
      <3>3. SendQueues(q)
        BY <1>0, <2>1, <3>1, <3>2, SendQueueing
      <3>4. full => ReleaseComes(q, out)
        BY <2>3, <2>4
      <3> QED BY <1>0, <2>1, <2>2, <3>2, <3>3, <3>4, ReleaseSend
    <2>5. CASE f.op # "send"
      <3>1. queue' = q /\ UNCHANGED out
        BY <1>4, <2>5 DEF RunFunctor
      <3>2. \/ full' = full /\ f.op = "shutdown"
            \/ f.op \in {"complete", "high"} /\ full' = (f.op = "high")
        BY <1>4, <2>5 DEF RunFunctor
      <3>3. full' => ReleaseComes(q, out)
        <4>1. CASE f.op = "high"
          BY <2>2, <4>1
        <4>2. CASE f.op = "shutdown"
          BY <2>3, <3>2, <4>2
        <4>3. CASE f.op = "complete"
          BY <3>2, <4>3
        <4> QED BY <3>2, <4>1, <4>2, <4>3
      <3> HIDE DEF f, q
      <3> QED BY <2>2, <3>1, <3>3 DEF ReleaseInv
    <2> QED BY <2>4, <2>5
  <1>5. CASE ForeignQueue
    <2>1. queue' = Append(queue, fpc) /\ UNCHANGED <<out, full>>
          /\ fpc.op \in {"send", "shutdown"}
      BY <1>5 DEF ForeignQueue
    <2>2. HighIsFollowed(queue', out')
      BY <1>0, <2>1, FollowedAppend DEF ReleaseInv
    <2>3. Has(queue, "complete") => Has(queue', "complete")
      BY <1>0, <2>1, HasAppend
    <2> QED BY <2>1, <2>2, <2>3 DEF ReleaseInv, ReleaseComes
  <1>6. ASSUME NEW len \in Sizes, ForeignSend(len) PROVE ReleaseInv'
    BY <1>1, <1>6 DEF ForeignSend
  <1>7. CASE \/ ShutdownOnLoop \/ ForeignShutdown \/ ForeignSetState \/ PeerLeaves
             \/ HandleClose \/ ConnectDestroyed \/ UNCHANGED vars
    BY <1>1, <1>7 DEF ShutdownOnLoop, ForeignShutdown, ForeignSetState, PeerLeaves,
                      HandleClose, ConnectDestroyed, vars
  <1> QED BY <1>2, <1>3, <1>4, <1>5, <1>6, <1>7 DEF Next, SomeWrite

\* An application that was told to stop producing will be told to go on: the
\* two callbacks never reach it in an order that leaves it waiting, for any
\* sizes of messages and every high water mark.
THEOREM Release == Spec => []FullIsReleased
  <1>1. Init => ReleaseInv
    BY DEF Init, ReleaseInv, HighIsFollowed
  <1>2. OInv /\ ReleaseInv /\ [Next]_vars => ReleaseInv'
    BY ReleaseStep
  <1>3. OInv /\ ReleaseInv => FullIsReleased
    <2> SUFFICES ASSUME OInv, ReleaseInv, full, out = <<>>
                 PROVE  \E i \in DOMAIN queue : queue[i] = Complete
      BY DEF FullIsReleased
    <2>1. PICK i \in DOMAIN queue : queue[i].op = "complete"
      BY DEF ReleaseInv, ReleaseComes, Has
    <2>2. queue[i] \in FunctorType
      BY DEF OInv, TypeOK
    <2> QED BY <2>1, <2>2 DEF FunctorType, Complete, Functor
  <1> QED BY <1>1, <1>2, <1>3, Invariance, PTL DEF Spec

\* What sendInLoop() does to the order of the functors and to lost.
LEMMA EndSend ==
    ASSUME OInv, NEW id \in Ids, NEW len \in Nat, NEW q \in Seq(FunctorType),
           SendInLoop(id, len, q), UNCHANGED <<shut, endBy, peer, closed>>,
           ShutdownIsLast(q), state = "disconnected" => closed,
           lost # {} /\ ~Broken => shut /\ endBy # "functor",
           endBy # "functor" \/ Broken
    PROVE  /\ ShutdownIsLast(queue')
           /\ \A op \in {"send", "shutdown"} : Has(queue', op) <=> Has(q, op)
           /\ lost' # {} /\ ~Broken' => shut' /\ endBy' # "functor"
  <1>1. /\ Complete \in FunctorType /\ Complete.op = "complete"
        /\ High \in FunctorType /\ High.op = "high"
    BY FunctorTypes DEF Complete, High, Functor
  <1>2. SendQueues(q)
    BY SendQueueing DEF OInv
  <1>3. ShutdownIsLast(queue')
    BY <1>1, <1>2, LastAppend DEF SendQueues
  <1>4. \A op \in {"send", "shutdown"} : Has(queue', op) <=> Has(q, op)
    <2> SUFFICES ASSUME NEW op \in {"send", "shutdown"}
                 PROVE  Has(queue', op) <=> Has(q, op)
      OBVIOUS
    <2>1. Has(Append(q, High), op) <=> Has(q, op)
      BY <1>1, HasAppend
    <2>2. Has(Append(q, Complete), op) <=> Has(q, op)
      BY <1>1, HasAppend
    <2> QED BY <1>2, <2>1, <2>2 DEF SendQueues
  <1>5. lost' # {} /\ ~Broken' => shut' /\ endBy' # "functor"
    BY LostOnlyAtEnd DEF Broken
  <1> QED BY <1>3, <1>4, <1>5

LEMMA EndStep == ASSUME OInv, EndInv, [Next]_vars PROVE EndInv'
  <1>0. TypeOK /\ queue \in Seq(FunctorType) /\ fpc \in FunctorType
    BY DEF OInv, TypeOK
  <1> USE DEF closeVars, streamVars
  <1>1. ASSUME NEW len \in Sizes, SendOnLoop(len) PROVE EndInv'
    <2>1. /\ count' \in Ids /\ len \in Nat /\ SendInLoop(count', len, queue)
          /\ UNCHANGED <<state, shut, endBy, peer, closed, fpc>> /\ state = "connected"
      BY <1>1, OutputAssumption DEF SendOnLoop, OInv, TypeOK, Ids
    <2>2. /\ ShutdownIsLast(queue')
          /\ \A op \in {"send", "shutdown"} : Has(queue', op) <=> Has(queue, op)
          /\ lost' # {} /\ ~Broken' => shut' /\ endBy' # "functor"
      BY <1>0, <2>1, EndSend DEF EndInv
    <2> QED BY <2>1, <2>2 DEF EndInv
  <1>2. CASE ShutdownOnLoop
    <2>1. UNCHANGED <<queue, fpc, lost, peer, closed>> /\ state' = "disconnecting"
      BY <1>2 DEF ShutdownOnLoop
    <2>2. UNCHANGED <<shut, endBy>> \/ (shut' = TRUE /\ endBy' = IF shut THEN endBy ELSE "loop")
      BY <1>2 DEF ShutdownOnLoop, ShutdownInLoop, SendEnd
    <2> QED BY <2>1, <2>2 DEF EndInv, Broken
  <1>3. ASSUME NEW n \in 1 .. Len(out), HandleWrite(n) PROVE EndInv'
    <2>1. UNCHANGED <<state, fpc, lost, peer, closed>>
      BY <1>3 DEF HandleWrite
    <2>2. UNCHANGED <<shut, endBy>> \/ (shut' = TRUE /\ endBy' = IF shut THEN endBy ELSE "drain")
      BY <1>3 DEF HandleWrite, Drained, SendEnd
    <2>3. queue' = queue \/ queue' = Append(queue, Complete)
      BY <1>3 DEF HandleWrite, Drained
    <2>4. Complete \in FunctorType /\ Complete.op = "complete"
      BY FunctorTypes DEF Complete, Functor
    <2>5. /\ ShutdownIsLast(queue')
          /\ \A op \in {"send", "shutdown"} : Has(queue', op) <=> Has(queue, op)
      <3>1. ShutdownIsLast(queue')
        BY <1>0, <2>3, <2>4, LastAppend DEF EndInv
      <3>2. ASSUME NEW op \in {"send", "shutdown"}
            PROVE  Has(Append(queue, Complete), op) <=> Has(queue, op)
        BY <1>0, <2>4, HasAppend
      <3> QED BY <2>3, <3>1, <3>2
    <2> QED BY <2>1, <2>2, <2>5 DEF EndInv, Broken
  <1>4. CASE RunFunctor
    <2> DEFINE f == Head(queue)
               q == Tail(queue)
    <2>1. queue # <<>> /\ q \in Seq(FunctorType) /\ f \in FunctorType
      BY <1>0, <1>4, TailShape DEF RunFunctor
    <2>2. ShutdownIsLast(q) /\ (f.op = "shutdown" => ~Has(q, "send"))
      BY <1>0, <2>1, LastTail DEF EndInv
    <2>3. \A op \in {"send", "shutdown"} : Has(queue, op) <=> Has(q, op) \/ f.op = op
      BY <1>0, <2>1, HasTail
    <2>4. UNCHANGED <<state, fpc, peer, closed>>
      BY <1>4 DEF RunFunctor
    <2>5. CASE f.op = "send"
      <3>1. f.id \in Ids /\ f.len \in Nat
        BY <2>1, <2>5, OutputAssumption DEF FunctorType, Ids
      <3>2. SendInLoop(f.id, f.len, q) /\ UNCHANGED <<shut, endBy>>
        BY <1>4, <2>5 DEF RunFunctor
      <3>3. endBy # "functor"
        BY <2>3, <2>5 DEF EndInv
      <3> HIDE DEF f, q
      <3>4. /\ ShutdownIsLast(queue')
            /\ \A op \in {"send", "shutdown"} : Has(queue', op) <=> Has(q, op)
            /\ lost' # {} /\ ~Broken' => shut' /\ endBy' # "functor"
        BY <2>1, <2>2, <2>4, <3>1, <3>2, <3>3, EndSend DEF EndInv
      <3> QED BY <2>3, <2>4, <3>2, <3>4 DEF EndInv
    <2>6. CASE f.op = "shutdown"
      <3>1. queue' = q /\ UNCHANGED lost
        BY <1>4, <2>6 DEF RunFunctor
      <3>2. \/ UNCHANGED <<shut, endBy>>
            \/ shut' = TRUE /\ endBy' = IF shut THEN endBy ELSE "functor"
        BY <1>4, <2>6 DEF RunFunctor, ShutdownInLoop, SendEnd
      <3> HIDE DEF f, q
      <3> QED BY <2>2, <2>3, <2>4, <2>6, <3>1, <3>2 DEF EndInv, Broken
    <2>7. CASE f.op \notin {"send", "shutdown"}
      <3>1. queue' = q /\ UNCHANGED <<lost, shut, endBy>>
        BY <1>4, <2>7 DEF RunFunctor
      <3> HIDE DEF f, q
      <3> QED BY <2>2, <2>3, <2>4, <2>7, <3>1 DEF EndInv, Broken
    <2> QED BY <2>5, <2>6, <2>7
  <1>5. CASE ForeignQueue
    <2>1. /\ queue' = Append(queue, fpc) /\ fpc.op \in {"send", "shutdown"}
          /\ UNCHANGED <<state, shut, endBy, lost, peer, closed>>
          /\ fpc' = Idle
      BY <1>5 DEF ForeignQueue
    <2>2. ShutdownIsLast(queue')
      BY <1>0, <2>1, LastAppend DEF EndInv
    <2>3. \A op \in {"send", "shutdown"} : Has(queue', op) <=> Has(queue, op) \/ fpc.op = op
      BY <1>0, <2>1, HasAppend
    <2>4. fpc'.op = "idle"
      BY <2>1 DEF Idle, Functor
    <2> QED BY <2>1, <2>2, <2>3, <2>4 DEF EndInv, Broken
  <1>6. ASSUME NEW len \in Sizes, ForeignSend(len) PROVE EndInv'
    <2>1. /\ state = "connected" /\ fpc'.op = "send"
          /\ UNCHANGED <<state, queue, shut, endBy, lost, peer, closed>>
      BY <1>6 DEF ForeignSend, Functor
    <2> QED BY <2>1 DEF EndInv, Broken
  <1>7. CASE ForeignShutdown
    <2>1. /\ fpc'.op = "setState"
          /\ UNCHANGED <<state, queue, shut, endBy, lost, peer, closed>>
      BY <1>7 DEF ForeignShutdown, Functor
    <2> QED BY <2>1 DEF EndInv, Broken
  <1>8. CASE ForeignSetState
    <2>1. /\ fpc'.op = "shutdown" /\ state' = "disconnecting"
          /\ UNCHANGED <<queue, shut, endBy, lost, peer, closed>>
      BY <1>8 DEF ForeignSetState, Functor
    <2> QED BY <2>1 DEF EndInv, Broken
  <1>9. CASE PeerLeaves
    <2>1. UNCHANGED <<state, queue, fpc, shut, endBy, lost, closed>>
      BY <1>9 DEF PeerLeaves
    <2>2. Broken => Broken'
      BY <1>9 DEF PeerLeaves, Broken
    <2> QED BY <2>1, <2>2 DEF EndInv
  <1>10. CASE HandleClose
    <2>1. UNCHANGED <<state, queue, fpc, shut, endBy, lost>> /\ closed' = TRUE
      BY <1>10 DEF HandleClose
    <2> QED BY <2>1 DEF EndInv, Broken
  <1>11. CASE ConnectDestroyed
    <2>1. UNCHANGED <<queue, fpc, shut, endBy, lost, closed, peer>>
          /\ state' = (IF state = "connected" THEN "disconnected" ELSE state)
      BY <1>11 DEF ConnectDestroyed
    <2>2. closed
      BY <1>11 DEF ConnectDestroyed, OInv, OpenState
    <2> QED BY <2>1, <2>2 DEF EndInv, Broken
  <1>12. CASE UNCHANGED vars
    BY <1>12 DEF vars, EndInv, Broken
  <1> QED
    BY <1>1, <1>2, <1>3, <1>4, <1>5, <1>6, <1>7, <1>8, <1>9, <1>10, <1>11, <1>12
    DEF Next, SomeWrite

\* A thread that sends and then shuts down loses nothing to its own shutdown():
\* the end of the stream its functor sends comes behind all its messages, for
\* any number and size of them.
THEOREM OwnShutdownDropsNothing == Spec => []NothingDropped
  <1>1. Init => EndInv
    BY DEF Init, EndInv, ShutdownIsLast, Has, Idle, Functor
  <1>2. OInv /\ EndInv /\ [Next]_vars => EndInv'
    BY EndStep
  <1>3. EndInv => NothingDropped
    BY DEF EndInv, NothingDropped
  <1> QED BY <1>1, <1>2, <1>3, Invariance, PTL DEF Spec
=============================================================================
