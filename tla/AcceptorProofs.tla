--------------------------- MODULE AcceptorProofs ---------------------------
(***************************************************************************)
(* Proofs about Acceptor for every size of the descriptor table and every  *)
(* set of clients.  What the acceptor owns depends on how far handleRead() *)
(* has come, for idle_fd_ keeps its number after it was closed (Ownership);*)
(* and as long as nobody has opened a descriptor in its windows, what it   *)
(* gave up is still free when it asks again (SpareIsThere), unless the     *)
(* system has no file for it (starved).                                    *)
(***************************************************************************)
EXTENDS Acceptor, SequenceTheorems, TLAPS

\* idle_fd_ is open and the acceptor's own exactly in these places.
Holding == pc \in {"built", "poll", "accept", "failed", "close"}

Ownership ==
    /\ Holding => \A fd \in Fds : owner[fd] = "acceptor" <=> fd = idle
    /\ pc \in {"new", "again", "reopen", "ended"}
          => \A fd \in Fds : owner[fd] # "acceptor"

SpareIsThere ==
    ~raced /\ ~starved =>
        /\ pc \in {"built", "poll", "accept", "failed"} => idle # None
        /\ pc \in {"again", "reopen"} => ~Full
        /\ pc = "close" => idle # None \/ ~Full

IInv == TypeOK /\ Ownership /\ SpareIsThere /\ ClosesOnlyItsOwn

\* Minus one is no descriptor.
LEMMA NoneIsNoFd == None \notin Fds
  BY AcceptorAssumption DEF None, Fds

LEMMA InitIInv == Init => IInv
  <1> SUFFICES ASSUME Init PROVE IInv
    OBVIOUS
  <1>1. callback \in BOOLEAN /\ stray \in BOOLEAN /\ raced \in BOOLEAN
        /\ starved \in BOOLEAN
    BY DEF Init
  <1>2. backlog \in Seq(Peers) /\ idle \in Fds \cup {None}
    BY DEF Init
  <1>3. TypeOK
    BY <1>1, <1>2 DEF Init, TypeOK
  <1>4. Ownership /\ SpareIsThere /\ ClosesOnlyItsOwn
    BY DEF Init, Ownership, SpareIsThere, ClosesOnlyItsOwn, Holding
  <1> QED BY <1>3, <1>4 DEF IInv

-----------------------------------------------------------------------------
PeerStates == {"none", "waiting", "taken", "served", "refused", "gone"}

\* accept() leaves queue and clients what they are.
LEMMA TakePeerTypes ==
    ASSUME TypeOK, NEW a \in PeerStates, TakePeer(a)
    PROVE  backlog' \in Seq(Peers) /\ peer' \in [Peers -> PeerStates]
  <1>1. backlog \in Seq(Peers) /\ backlog # <<>>
    BY DEF TypeOK, TakePeer
  <1>2. Tail(backlog) \in Seq(Peers) /\ Head(backlog) \in Peers
    BY ONLY <1>1, HeadTailProperties
  <1> QED BY <1>2 DEF TypeOK, TakePeer, PeerStates

\* The types survive every step.
LEMMA TypeStep == ASSUME TypeOK, [Next]_vars PROVE TypeOK'
  <1> USE AcceptorAssumption, NoneIsNoFd DEF TypeOK, acceptorVars, peerVars
  <1>1. CASE Construct
    BY <1>1 DEF Construct, Allocate, Lowest
  <1>2. CASE Listen \/ HandleRead \/ LeaveWaiting
    BY <1>2 DEF Listen, HandleRead, LeaveWaiting
  <1>3. CASE Destroy
    BY <1>3 DEF Destroy, Close
  <1>4. CASE Accept
    <2>1. PICK a \in PeerStates : TakePeer(a)
      BY <1>4 DEF Accept, PeerStates
    <2>2. backlog' \in Seq(Peers) /\ peer' \in [Peers -> PeerStates]
      BY <2>1, TakePeerTypes
    <2>3. owner' \in [Fds -> {"free", "acceptor", "other"}]
      BY <1>4 DEF Accept, Allocate, Lowest
    <2> QED BY <1>4, <2>2, <2>3 DEF Accept, PeerStates
  <1>5. CASE AcceptFailed
    BY <1>5 DEF AcceptFailed, AcceptErrors
  <1>6. CASE GiveUpSpare
    BY <1>6 DEF GiveUpSpare, Close
  <1>7. CASE AcceptAgain
    <2>1. backlog' \in Seq(Peers) /\ peer' \in [Peers -> PeerStates]
      <3>1. CASE TakePeer("taken")
        BY <3>1, TakePeerTypes DEF PeerStates
      <3>2. CASE UNCHANGED peerVars
        BY <3>2 DEF PeerStates
      <3> QED BY <1>7, <3>1, <3>2 DEF AcceptAgain
    <2>2. /\ owner' \in [Fds -> {"free", "acceptor", "other"}]
          /\ idle' \in Fds \cup {None}
          /\ errno' \in {"EMFILE", "EAGAIN", "other"}
      BY <1>7 DEF AcceptAgain, Allocate, Lowest, AcceptErrors
    <2> QED BY <1>7, <2>1, <2>2 DEF AcceptAgain, PeerStates
  <1>8. CASE CloseAccepted
    BY <1>8 DEF CloseAccepted, Close
  <1>9. CASE Reopen
    BY <1>9 DEF Reopen, Allocate, Lowest
  <1>10. CASE OtherOpens
    BY <1>10 DEF OtherOpens, Allocate, Lowest
  <1>11. ASSUME NEW fd \in Fds, OtherCloses(fd) PROVE TypeOK'
    BY <1>11 DEF OtherCloses
  <1>12. ASSUME NEW p \in Peers, PeerConnects(p) PROVE TypeOK'
    BY <1>12 DEF PeerConnects
  <1>13. ASSUME NEW p \in Peers, PeerGivesUp(p) PROVE TypeOK'
    <2>1. backlog' \in Seq(Peers)
      BY <1>13 DEF PeerGivesUp, RemoveAt
    <2> QED BY <1>13, <2>1 DEF PeerGivesUp
  <1>14. CASE UNCHANGED vars
    BY <1>14 DEF vars
  <1> QED
    BY <1>1, <1>2, <1>3, <1>4, <1>5, <1>6, <1>7, <1>8, <1>9, <1>10, <1>11, <1>12,
       <1>13, <1>14
    DEF Next, AcceptorStep

\* Steps of others touch neither idle_fd_ nor what the acceptor owns; only
\* they can make the table full in its windows, and then raced says so.
LEMMA OthersStep ==
    ASSUME IInv,
           \/ OtherOpens
           \/ \E fd \in Fds : OtherCloses(fd)
           \/ \E p \in Peers : PeerConnects(p) \/ PeerGivesUp(p)
           \/ UNCHANGED vars
    PROVE  (Ownership /\ SpareIsThere /\ ClosesOnlyItsOwn)'
  <1> USE DEF IInv, TypeOK, Ownership, SpareIsThere, ClosesOnlyItsOwn, Holding,
              acceptorVars, peerVars, Full
  <1>1. CASE OtherOpens
    BY <1>1 DEF OtherOpens, Allocate, Lowest
  <1>2. ASSUME NEW fd \in Fds, OtherCloses(fd)
        PROVE  (Ownership /\ SpareIsThere /\ ClosesOnlyItsOwn)'
    BY <1>2 DEF OtherCloses
  <1>3. ASSUME NEW p \in Peers, PeerConnects(p) \/ PeerGivesUp(p)
        PROVE  (Ownership /\ SpareIsThere /\ ClosesOnlyItsOwn)'
    BY <1>3 DEF PeerConnects, PeerGivesUp
  <1>4. CASE UNCHANGED vars
    BY <1>4 DEF vars
  <1> QED BY <1>1, <1>2, <1>3, <1>4

\* Steps of the acceptor.
LEMMA AcceptorSteps ==
    ASSUME IInv, Construct \/ Listen \/ Destroy \/ AcceptorStep
    PROVE  (Ownership /\ SpareIsThere /\ ClosesOnlyItsOwn)'
  <1> USE NoneIsNoFd DEF IInv, TypeOK, Ownership, SpareIsThere, ClosesOnlyItsOwn,
                         Holding, acceptorVars, peerVars, Full
  <1>1. CASE Construct
    BY <1>1 DEF Construct, Allocate, Lowest
  <1>2. CASE Listen \/ HandleRead \/ LeaveWaiting \/ AcceptFailed
    BY <1>2 DEF Listen, HandleRead, LeaveWaiting, AcceptFailed
  <1>3. CASE Accept
    BY <1>3 DEF Accept, Allocate, Lowest
  <1>4. CASE GiveUpSpare
    BY <1>4 DEF GiveUpSpare, Close
  <1>5. CASE AcceptAgain
    BY <1>5 DEF AcceptAgain, Allocate, Lowest
  <1>6. CASE CloseAccepted
    BY <1>6 DEF CloseAccepted, Close
  <1>7. CASE Reopen
    BY <1>7 DEF Reopen, Allocate, Lowest
  <1>8. CASE Destroy
    BY <1>8 DEF Destroy, Close
  <1> QED
    BY <1>1, <1>2, <1>3, <1>4, <1>5, <1>6, <1>7, <1>8 DEF AcceptorStep

THEOREM Invariance == Spec => []IInv
  <1>1. IInv /\ [Next]_vars => IInv'
    BY TypeStep, OthersStep, AcceptorSteps DEF IInv, Next
  <1> QED BY InitIInv, <1>1, PTL DEF Spec

-----------------------------------------------------------------------------
\* The acceptor keeps its types, whatever other threads do to the table.
THEOREM TypeCorrect == Spec => []TypeOK
  <1>1. IInv => TypeOK
    BY DEF IInv
  <1> QED BY <1>1, Invariance, PTL

\* No close() of the acceptor ever hits a descriptor of somebody else, for
\* tables of every size.
THEOREM NoStrayClose == Spec => []ClosesOnlyItsOwn
  <1>1. IInv => ClosesOnlyItsOwn
    BY DEF IInv
  <1> QED BY <1>1, Invariance, PTL

\* Between two calls of handleRead() the acceptor owns its spare and nothing
\* else, and nothing at all when it is gone.
THEOREM NoLeak == Spec => []NothingLeaks
  <1>1. IInv => NothingLeaks
    BY NoneIsNoFd DEF IInv, TypeOK, Ownership, Holding, NothingLeaks
  <1> QED BY <1>1, Invariance, PTL

\* The spare is lost only to a thread that opens a descriptor in handleRead()'s
\* windows, or to the system refusing the new one: no failure of accept(),
\* for whatever reason, loses it.
THEOREM SpareSurvives == Spec => []SpareKept
  <1>1. IInv => SpareKept
    BY DEF IInv, SpareIsThere, SpareKept
  <1> QED BY <1>1, Invariance, PTL
=============================================================================
