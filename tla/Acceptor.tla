------------------------------ MODULE Acceptor ------------------------------
(***************************************************************************)
(* core::Acceptor and Socket::accept() when the process runs out of        *)
(* descriptors.  The acceptor keeps a spare descriptor, idle_fd_; accept() *)
(* failing with EMFILE makes handleRead() close the spare, accept the      *)
(* waiting peer on it, close that, and open a new spare.  Every system     *)
(* call is a step of its own: threads of the pool, connections and the     *)
(* application open and close descriptors of the same table in between.    *)
(* The listening socket's own descriptor is not in the table.  accept()    *)
(* and open() may also fail for a shortage that is not this process's.     *)
(***************************************************************************)
EXTENDS Integers, Sequences, SequencesExt

CONSTANTS Peers,   \* clients that may connect
          MaxFd    \* bound: the descriptors the process may have are 0 .. MaxFd

ASSUME AcceptorAssumption == MaxFd \in Nat

Fds == 0 .. MaxFd
None == -1

VARIABLES
    owner,     \* the descriptor table: whose each descriptor is
    idle,      \* idle_fd_
    pc,        \* where the base thread is in the acceptor's code
    errno,     \* errno of the base thread
    callback,  \* new_connection_callback_ is set
    backlog,   \* the listening socket's queue
    peer,      \* what each client has got
    stray,     \* history: close() hit a descriptor of somebody else
    raced,     \* history: a descriptor was opened while the spare was given up
    starved    \* history: open() of the spare failed though the table had room

vars == <<owner, idle, pc, errno, callback, backlog, peer, stray, raced,
          starved>>
acceptorVars == <<idle, pc, errno, callback>>
peerVars == <<backlog, peer>>

-----------------------------------------------------------------------------
(* External: the descriptor table. *)

Full == \A fd \in Fds : owner[fd] # "free"

\* The kernel gives out the lowest free descriptor.
Lowest(fd) ==
    /\ owner[fd] = "free"
    /\ \A g \in Fds : g < fd => owner[g] # "free"

Allocate(fd, who) == Lowest(fd) /\ owner' = [owner EXCEPT ![fd] = who]

\* close() of the acceptor; of -1 it fails and does nothing.
Close(fd) ==
    /\ owner' = [f \in Fds |-> IF f = fd THEN "free" ELSE owner[f]]
    /\ stray' = (stray \/ (fd \in Fds /\ owner[fd] # "acceptor"))

OtherOpens ==
    /\ \E fd \in Fds : Allocate(fd, "other")
    /\ raced' = (raced \/ pc \in {"again", "close", "reopen"})
    /\ UNCHANGED <<acceptorVars, peerVars, stray, starved>>

OtherCloses(fd) ==
    /\ owner[fd] = "other"
    /\ owner' = [owner EXCEPT ![fd] = "free"]
    /\ UNCHANGED <<acceptorVars, peerVars, stray, raced, starved>>

-----------------------------------------------------------------------------
(* External: the clients. *)

PeerConnects(p) ==
    /\ peer[p] = "none"
    /\ pc \notin {"new", "built", "aborted", "ended"}
    /\ backlog' = Append(backlog, p)
    /\ peer' = [peer EXCEPT ![p] = "waiting"]
    /\ UNCHANGED <<owner, acceptorVars, stray, raced, starved>>

\* A client leaves the queue before it was accepted.
PeerGivesUp(p) ==
    /\ peer[p] = "waiting"
    /\ \E i \in DOMAIN backlog : backlog[i] = p /\ backlog' = RemoveAt(backlog, i)
    /\ peer' = [peer EXCEPT ![p] = "gone"]
    /\ UNCHANGED <<owner, acceptorVars, stray, raced, starved>>

-----------------------------------------------------------------------------
(* The acceptor. *)

\* The constructor opens the spare; bind() may fail, which is LOG_FATAL, and
\* so may the assert that there is a spare, whyever open() has failed.
Construct ==
    /\ pc = "new"
    /\ \/ \E fd \in Fds : /\ Allocate(fd, "acceptor")
                          /\ idle' = fd
                          /\ pc' \in {"built", "aborted"}
       \/ pc' = "aborted" /\ UNCHANGED <<owner, idle>>
    /\ UNCHANGED <<errno, callback, peerVars, stray, raced, starved>>

\* listen(2) failing is LOG_FATAL too.
Listen ==
    /\ pc = "built"
    /\ pc' \in {"poll", "aborted"}
    /\ UNCHANGED <<owner, idle, errno, callback, peerVars, stray, raced,
                   starved>>

\* The loop finds the listening socket readable and calls handleRead().
HandleRead ==
    /\ pc = "poll"
    /\ backlog # <<>>
    /\ pc' = "accept"
    /\ UNCHANGED <<owner, idle, errno, callback, peerVars, stray, raced,
                   starved>>

\* How accept() may fail.  The table is looked at before the queue; and the
\* system may refuse it at any time, whatever the table and the queue hold:
\* "other" is ENFILE, ENOMEM, EINTR or ECONNABORTED.
AcceptErrors ==
    {"other"} \cup {e \in {"EMFILE"} : Full}
              \cup {e \in {"EAGAIN"} : ~Full /\ backlog = <<>>}

\* accept() takes the first client off the queue, which gets the answer a.
TakePeer(a) ==
    /\ backlog # <<>>
    /\ backlog' = Tail(backlog)
    /\ peer' = [peer EXCEPT ![Head(backlog)] = a]

\* The first accept() succeeds: the descriptor is the callback's, or it is
\* closed at once (accept and close are one step here).
Accept ==
    /\ pc = "accept"
    /\ pc' = "poll"
    /\ ~Full
    /\ \/ /\ callback
          /\ \E fd \in Fds : Allocate(fd, "other")
          /\ TakePeer("served")
       \/ /\ ~callback
          /\ TakePeer("refused")
          /\ UNCHANGED owner
    /\ UNCHANGED <<idle, errno, callback, stray, raced, starved>>

AcceptFailed ==
    /\ pc = "accept"
    /\ errno' \in AcceptErrors
    /\ pc' = "failed"
    /\ UNCHANGED <<owner, idle, callback, peerVars, stray, raced, starved>>

\* errno has survived the two LOG_ERROR calls and is EMFILE: close(idle_fd_).
GiveUpSpare ==
    /\ pc = "failed"
    /\ errno = "EMFILE"
    /\ Close(idle)
    /\ pc' = "again"
    /\ UNCHANGED <<idle, errno, callback, peerVars, raced, starved>>

\* It is another error, or the logging has overwritten errno: the client waits.
LeaveWaiting ==
    /\ pc = "failed"
    /\ pc' = "poll"
    /\ errno' \in {errno, "other"}
    /\ errno' # "EMFILE"
    /\ UNCHANGED <<owner, idle, callback, peerVars, stray, raced, starved>>

\* Faulty variant: idle_fd_ keeps its old value when accept() fails.
BugAcceptAgain ==
    /\ pc = "again"
    /\ pc' = "close"
    /\ \/ /\ \E fd \in Fds : Allocate(fd, "acceptor") /\ idle' = fd
          /\ TakePeer("taken")
          /\ UNCHANGED errno
       \/ /\ errno' \in AcceptErrors
          /\ UNCHANGED <<idle, owner, peerVars>>
    /\ UNCHANGED <<callback, stray, raced, starved>>

\* idle_fd_ = accept().
AcceptAgain ==
    /\ pc = "again"
    /\ pc' = "close"
    /\ \/ /\ \E fd \in Fds : Allocate(fd, "acceptor") /\ idle' = fd
          /\ TakePeer("taken")
          /\ UNCHANGED errno
       \/ /\ idle' = None
          /\ errno' \in AcceptErrors
          /\ UNCHANGED <<owner, peerVars>>
    /\ UNCHANGED <<callback, stray, raced, starved>>

\* Faulty variant: the accepted connection is not closed.
BugCloseAccepted ==
    /\ pc = "close"
    /\ pc' = "reopen"
    /\ UNCHANGED <<owner, idle, errno, callback, peerVars, stray, raced,
                   starved>>

\* close(idle_fd_), now the accepted connection.
CloseAccepted ==
    /\ pc = "close"
    /\ Close(idle)
    /\ peer' = [p \in Peers |-> IF peer[p] = "taken" THEN "refused" ELSE peer[p]]
    /\ pc' = "reopen"
    /\ UNCHANGED <<idle, errno, callback, backlog, raced, starved>>

\* Faulty variant: the spare is not opened again.
BugReopen ==
    /\ pc = "reopen"
    /\ idle' = None
    /\ pc' = "poll"
    /\ UNCHANGED <<owner, errno, callback, peerVars, stray, raced, starved>>

\* idle_fd_ = open("/dev/null"), which fails when the table is full, or when
\* the system has no file or no memory left (ENFILE, ENOMEM).
Reopen ==
    /\ pc = "reopen"
    /\ \/ /\ \E fd \in Fds : Allocate(fd, "acceptor") /\ idle' = fd
          /\ UNCHANGED starved
       \/ /\ idle' = None
          /\ starved' = (starved \/ ~Full)
          /\ UNCHANGED owner
    /\ pc' = "poll"
    /\ UNCHANGED <<errno, callback, peerVars, stray, raced>>

\* ~Acceptor(): the spare is closed, and the socket with whoever is queued.
Destroy ==
    /\ pc \in {"built", "poll"}
    /\ Close(idle)
    /\ pc' = "ended"
    /\ backlog' = <<>>
    /\ peer' = [p \in Peers |-> IF peer[p] = "waiting" THEN "gone" ELSE peer[p]]
    /\ UNCHANGED <<idle, errno, callback, raced, starved>>

-----------------------------------------------------------------------------
Init ==
    /\ owner = [fd \in Fds |-> "free"]
    /\ idle = None
    /\ pc = "new"
    /\ errno = "other"
    /\ callback \in BOOLEAN
    /\ backlog = <<>>
    /\ peer = [p \in Peers |-> "none"]
    /\ stray = FALSE
    /\ raced = FALSE
    /\ starved = FALSE

AcceptorStep ==
    \/ HandleRead
    \/ Accept \/ AcceptFailed
    \/ GiveUpSpare \/ LeaveWaiting
    \/ AcceptAgain \/ CloseAccepted \/ Reopen

Next ==
    \/ Construct \/ Listen \/ Destroy
    \/ AcceptorStep
    \/ OtherOpens
    \/ \E fd \in Fds : OtherCloses(fd)
    \/ \E p \in Peers : PeerConnects(p) \/ PeerGivesUp(p)

Spec == Init /\ [][Next]_vars

\* accept() as the table and the queue decide it, no shortage of the system.
AcceptDecided == Accept \/ (AcceptFailed /\ errno' # "other")

\* The base loop is scheduled, logging does not overwrite errno each time, and
\* a shortage of the system does not meet every accept().
FairSpec ==
    /\ Spec
    /\ WF_vars(AcceptorStep)
    /\ SF_vars(GiveUpSpare)
    /\ SF_vars(AcceptDecided)
    /\ SF_vars(AcceptAgain /\ idle' # None)

-----------------------------------------------------------------------------
(* Properties. *)

TypeOK ==
    /\ owner \in [Fds -> {"free", "acceptor", "other"}]
    /\ idle \in Fds \cup {None}
    /\ pc \in {"new", "built", "poll", "accept", "failed", "again", "close",
               "reopen", "aborted", "ended"}
    /\ errno \in {"EMFILE", "EAGAIN", "other"}
    /\ callback \in BOOLEAN
    /\ backlog \in Seq(Peers)
    /\ peer \in [Peers -> {"none", "waiting", "taken", "served", "refused", "gone"}]
    /\ stray \in BOOLEAN /\ raced \in BOOLEAN /\ starved \in BOOLEAN

\* close() in handleRead() and ~Acceptor() never hits a descriptor that
\* another thread has been given meanwhile, though idle_fd_ keeps a number
\* that was given back and is reused while handleRead() runs.
ClosesOnlyItsOwn == ~stray

\* Between two calls of handleRead() the acceptor owns its spare and nothing
\* else; when it is gone it owns nothing.
NothingLeaks ==
    LET mine == {fd \in Fds : owner[fd] = "acceptor"}
    IN  /\ pc \in {"poll", "accept", "failed"} => mine = {idle} \ {None}
        /\ pc = "ended" => mine = {}

\* The spare is lost only to a thread that opens a descriptor while
\* handleRead() has given it up, or to the system refusing the new one; no
\* failure of accept() loses it.
SpareKept == pc = "poll" /\ idle = None => raced \/ starved

\* A client in the queue is served or turned away in the end, however full
\* the table is, unless the spare was open to loss: another thread opened a
\* descriptor while it was given up, or the system refused the new one.
PeersAnswered ==
    \A p \in Peers : (peer[p] = "waiting")
                        ~> (peer[p] # "waiting" \/ raced \/ starved)
=============================================================================
