----------------------------- MODULE ByteStream -----------------------------
(***************************************************************************)
(* What core::TcpConnection promises to those who send on it: the bytes    *)
(* written reach the peer in the order in which they were written, none    *)
(* twice and none left out, and the end of the stream comes after the last *)
(* of them.  A broken stream (the peer is gone, or has closed) may stop    *)
(* short, but what does arrive is still a prefix of what was written.      *)
(***************************************************************************)
EXTENDS Sequences, Integers, SequencesExt

VARIABLES written,   \* the bytes accepted from the application
          received,  \* the bytes handed to the peer
          ended,     \* the end of the stream was sent
          broken     \* the peer is gone or has closed its side

vars == <<written, received, ended, broken>>

Init ==
    /\ written = <<>>
    /\ received = <<>>
    /\ ended = FALSE
    /\ broken = FALSE

\* Bytes are written, and some may be handed over at once.
Write ==
    /\ ended => broken
    /\ IsPrefix(written, written')
    /\ IsPrefix(received, received')
    /\ IsPrefix(received', written')
    /\ UNCHANGED <<ended, broken>>

\* Bytes are handed over, and the end may follow the last of them.
Deliver ==
    /\ \E n \in Len(received) + 1 .. Len(written) :
          /\ received' = SubSeq(written, 1, n)
          /\ ended' \in {ended, ended \/ n = Len(written)}
    /\ UNCHANGED <<written, broken>>

\* The end of the stream; only a broken one ends with bytes missing.
End ==
    /\ ended' = TRUE
    /\ broken \/ received = written
    /\ UNCHANGED <<written, received, broken>>

Break ==
    /\ broken' = TRUE
    /\ UNCHANGED <<written, received, ended>>

Next == Write \/ Deliver \/ End \/ Break

Spec == Init /\ [][Next]_vars

\* What was written is handed over, as long as the stream is not broken.
FairSpec == Spec /\ WF_vars(~broken /\ Deliver)
=============================================================================
