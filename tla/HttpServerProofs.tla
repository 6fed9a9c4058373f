-------------------------- MODULE HttpServerProofs --------------------------
(***************************************************************************)
(* Proofs about HttpServer, for every set of requests, any number of them  *)
(* and every cut of the stream, and about Buffer, which the stream is read *)
(* into, for every size and every careful way to use it.                   *)
(*                                                                         *)
(* HttpServer.  SInv holds whatever the client sends: a complete request   *)
(* is in the parser only while it is answered, so parseRequest() never     *)
(* starts in kGotAll, and a closing answer is the last.  When the requests *)
(* are well formed, TInv adds where the server is in the stream: off[i] is *)
(* the place of request i in what the server has not taken from its buffer *)
(* (Ahead), and the parser holds what precedes that place of the current   *)
(* request (Follows).                                                      *)
(*                                                                         *)
(* Buffer.  The invariants of the run are not inductive: makeSpace() moves *)
(* the readable bytes to the reserve's end, which is right only while the  *)
(* reader has not gone into the reserve, and its free space is a size_t,   *)
(* which is right only while the array is shorter than Word.  BInv says    *)
(* that, and it says byte by byte what the array holds.                    *)
(***************************************************************************)
EXTENDS HttpServer, Buffer, SequenceTheorems, WellFoundedInduction, TLAPS

States == {"expectRequestLine", "expectHeaders", "expectBody", "gotAll"}

ParsedRequests == [version : RequestLines \cup {"unknown", "bad"},
                   headers : SUBSET Seq(Units), body : Seq(Units)]

Parsers == [state : States, request : ParsedRequests, contentLength : Nat]

\* What the members of the connection and of its parser may hold.
HttpTypeOK ==
    /\ asked \in Seq(Requests)
    /\ waited \in BOOLEAN
    /\ wire \in Seq(Units)
    /\ callback \in {"default", "user"}
    /\ conn \in {"connected", "disconnecting"}
    /\ buf \in Seq(Units)
    /\ parser \in Parsers
    /\ pc \in {"idle", "parse", "bad", "request", "respond", "overflow"}
    /\ answers \in Seq([to : ParsedRequests, end : {"close", "length"}])

\* A request is complete from the round that completes it to the reset.
CompleteWhileAnswered ==
    parser.state = "gotAll" <=> pc \in {"request", "respond", "overflow"}

-----------------------------------------------------------------------------
(* Lines of the buffer. *)

\* A set of numbers that is not empty has a least one.
LEMMA LeastNumber ==
    ASSUME NEW I \in SUBSET Nat, I # {}
    PROVE  /\ Min(I) \in I
           /\ \A j \in I : Min(I) <= j
  <1>1. PICK x \in I : \A y \in I : ~(<<y, x>> \in OpToRel(<, Nat))
    BY NatLessThanWellFounded, WFMin, Zenon
  <1>2. \A y \in I : ~(y < x)
    BY <1>1 DEF OpToRel
  <1>3. x \in I /\ \A y \in I : x <= y
    BY <1>2
  <1> QED BY <1>3 DEF Min

Ends(b) == {i \in 1 .. Len(b) : b[i] = "crlf"}

LEMMA FirstEnd ==
    ASSUME NEW b \in Seq(Units)
    PROVE  /\ HasCRLF(b) <=> Ends(b) # {}
           /\ HasCRLF(b) => SelectInSeq(b, LAMBDA u : u = "crlf") = Min(Ends(b))
  <1>1. HasCRLF(b) <=> Ends(b) # {}
    BY DEF HasCRLF, Range, Ends
  <1>2. HasCRLF(b) => SelectInSeq(b, LAMBDA u : u = "crlf") = Min(Ends(b))
    BY <1>1 DEF SelectInSeq, Ends
  <1> QED BY <1>1, <1>2

\* What findCRLF() and retrieveUntil() do, given the place of the first end.
LEMMA LineFacts ==
    ASSUME NEW b \in Seq(Units), HasCRLF(b)
    PROVE  \E n \in 1 .. Len(b) :
              /\ b[n] = "crlf"
              /\ \A i \in 1 .. n - 1 : b[i] # "crlf"
              /\ Line(b) = SubSeq(b, 1, n - 1)
              /\ AfterLine(b) = SubSeq(b, n + 1, Len(b))
  <1> DEFINE n == Min(Ends(b))
  <1>1. Ends(b) \in SUBSET Nat /\ Ends(b) # {}
    <2>1. Ends(b) \in SUBSET Nat
      BY DEF Ends
    <2>2. Ends(b) # {}
      BY FirstEnd, Zenon
    <2> QED BY <2>1, <2>2
  <1>2. n \in Ends(b) /\ \A j \in Ends(b) : n <= j
    BY <1>1, LeastNumber
  <1>3. Line(b) = SubSeq(b, 1, n - 1) /\ AfterLine(b) = SubSeq(b, n + 1, Len(b))
    BY FirstEnd, Zenon DEF Line, AfterLine
  <1> HIDE DEF n
  <1>4. n \in 1 .. Len(b) /\ b[n] = "crlf"
    BY <1>2 DEF Ends
  <1>5. ASSUME NEW i \in 1 .. n - 1 PROVE b[i] # "crlf"
    <2>1. i \in 1 .. Len(b) /\ ~(n <= i)
      BY <1>4
    <2> QED BY <1>2, <2>1 DEF Ends
  <1> QED BY <1>3, <1>4, <1>5

LEMMA FirstOf ==
    ASSUME NEW S, NEW b \in Seq(S), NEW n \in 0 .. Len(b)
    PROVE  /\ SubSeq(b, 1, n) \in Seq(S)
           /\ Len(SubSeq(b, 1, n)) = n
           /\ \A i \in 1 .. n : SubSeq(b, 1, n)[i] = b[i]
  OBVIOUS

LEMMA RestOf ==
    ASSUME NEW S, NEW b \in Seq(S), NEW n \in 0 .. Len(b)
    PROVE  /\ SubSeq(b, n + 1, Len(b)) \in Seq(S)
           /\ Len(SubSeq(b, n + 1, Len(b))) = Len(b) - n
           /\ \A i \in 1 .. Len(b) - n : SubSeq(b, n + 1, Len(b))[i] = b[n + i]
  OBVIOUS

\* A line is a part of the buffer, and what is behind it is shorter.
LEMMA LineType ==
    ASSUME NEW b \in Seq(Units), HasCRLF(b)
    PROVE  /\ Line(b) \in Seq(Units)
           /\ AfterLine(b) \in Seq(Units)
           /\ Len(AfterLine(b)) < Len(b)
  <1>1. PICK n \in 1 .. Len(b) :
           Line(b) = SubSeq(b, 1, n - 1) /\ AfterLine(b) = SubSeq(b, n + 1, Len(b))
    BY LineFacts
  <1>2. Len(b) \in Nat
    OBVIOUS
  <1>3. n \in 0 .. Len(b) /\ n - 1 \in 0 .. Len(b)
    BY <1>2
  <1>4. SubSeq(b, 1, n - 1) \in Seq(Units)
    BY <1>3, FirstOf
  <1>5. SubSeq(b, n + 1, Len(b)) \in Seq(Units) /\ Len(SubSeq(b, n + 1, Len(b))) = Len(b) - n
    BY <1>3, RestOf
  <1> QED BY <1>1, <1>2, <1>4, <1>5

-----------------------------------------------------------------------------
(* A round of parseRequest(), whatever is in the buffer. *)

\* A round leaves a parser and a shorter buffer or the same; it goes on only
\* when it has taken something from the buffer, and only to another step of the
\* request; it refuses only a request line.
RoundIsSound(p, b, r) ==
    /\ r.parser \in Parsers
    /\ r.buf \in Seq(Units)
    /\ r.ok \in BOOLEAN
    /\ r.more \in BOOLEAN
    /\ r.more => Len(r.buf) < Len(b) /\ r.parser.state # "gotAll"
    /\ ~r.ok => ~r.more /\ r.parser = p /\ p.state = "expectRequestLine"

LEMMA ResultParts ==
    ASSUME NEW p, NEW b, NEW ok, NEW more
    PROVE  /\ Result(p, b, ok, more).parser = p
           /\ Result(p, b, ok, more).buf = b
           /\ Result(p, b, ok, more).ok = ok
           /\ Result(p, b, ok, more).more = more
  BY DEF Result

LEMMA ResultSound ==
    ASSUME NEW p, NEW b, NEW q \in Parsers, NEW c \in Seq(Units),
           NEW ok \in BOOLEAN, NEW more \in BOOLEAN,
           more => Len(c) < Len(b) /\ q.state # "gotAll",
           ~ok => ~more /\ q = p /\ p.state = "expectRequestLine"
    PROVE  RoundIsSound(p, b, Result(q, c, ok, more))
  <1> DEFINE r == Result(q, c, ok, more)
  <1>1. r.parser = q /\ r.buf = c /\ r.ok = ok /\ r.more = more
    BY ResultParts
  <1> HIDE DEF r
  <1>2. RoundIsSound(p, b, r)
    BY <1>1, Zenon DEF RoundIsSound
  <1> QED BY <1>2 DEF r

LEMMA IncompleteSound ==
    ASSUME NEW p \in Parsers, NEW b \in Seq(Units)
    PROVE  RoundIsSound(p, b, Incomplete(p, b))
  BY ResultSound DEF Incomplete

LEMMA RequestLineSound ==
    ASSUME NEW p \in Parsers, NEW b \in Seq(Units), p.state = "expectRequestLine"
    PROVE  RoundIsSound(p, b, RequestLineRound(p, b))
  <1>1. CASE ~HasCRLF(b)
    BY <1>1, IncompleteSound DEF RequestLineRound
  <1>2. CASE HasCRLF(b) /\ Line(b) \in {<<l>> : l \in RequestLines}
    <2> DEFINE q == [p EXCEPT !.request.version = Line(b)[1],
                              !.state = "expectHeaders"]
    <2>1. Line(b)[1] \in RequestLines
      BY <1>2
    <2>2. q \in Parsers /\ q.state = "expectHeaders"
      BY <2>1 DEF Parsers, ParsedRequests, States
    <2>3. RequestLineRound(p, b) = Result(q, AfterLine(b), TRUE, TRUE)
      BY <1>2 DEF RequestLineRound
    <2> HIDE DEF q
    <2>4. AfterLine(b) \in Seq(Units) /\ Len(AfterLine(b)) < Len(b)
      BY <1>2, LineType
    <2>5. RoundIsSound(p, b, Result(q, AfterLine(b), TRUE, TRUE))
      BY <2>2, <2>4, ResultSound
    <2> QED BY <2>3, <2>5
  <1>3. CASE HasCRLF(b) /\ Line(b) \notin {<<l>> : l \in RequestLines}
    <2>1. RequestLineRound(p, b) = Result(p, b, FALSE, FALSE)
      BY <1>3 DEF RequestLineRound
    <2> QED BY <2>1, ResultSound
  <1> QED BY <1>1, <1>2, <1>3

LEMMA HeaderSound ==
    ASSUME NEW p \in Parsers, NEW b \in Seq(Units), p.state = "expectHeaders"
    PROVE  RoundIsSound(p, b, HeaderRound(p, b))
  <1> DEFINE line == Line(b)
             found == Range(line) \cap Headers
             isLength == line \in {<<h>> : h \in DOMAIN Stoul}
             q == [p EXCEPT !.request.headers = @ \cup {line},
                            !.contentLength = IF isLength THEN Stoul[line[1]] ELSE @]
             e == [p EXCEPT !.state = IF p.contentLength > 0
                                      THEN "expectBody" ELSE "gotAll"]
  <1>1. CASE ~HasCRLF(b)
    BY <1>1, IncompleteSound DEF HeaderRound
  <1>2. CASE HasCRLF(b) /\ found # {}
    <2>1. HeaderRound(p, b) = Result(q, AfterLine(b), TRUE, TRUE)
      BY <1>2 DEF HeaderRound
    <2>2. line \in Seq(Units) /\ AfterLine(b) \in Seq(Units) /\ Len(AfterLine(b)) < Len(b)
      BY <1>2, LineType
    <2>3. isLength => Stoul[line[1]] \in Nat
      <3> SUFFICES ASSUME isLength PROVE Stoul[line[1]] \in Nat
        OBVIOUS
      <3> HIDE DEF line
      <3>1. line[1] \in DOMAIN Stoul
        OBVIOUS
      <3> QED BY <3>1, ParserAssumption
    <2>4. q \in Parsers /\ q.state = p.state
      <3> HIDE DEF line, isLength
      <3> QED BY <2>2, <2>3 DEF Parsers, ParsedRequests
    <2> HIDE DEF q
    <2>5. RoundIsSound(p, b, Result(q, AfterLine(b), TRUE, TRUE))
      BY <2>2, <2>4, ResultSound
    <2> QED BY <2>1, <2>5
  <1>3. CASE HasCRLF(b) /\ found = {}
    <2>1. HeaderRound(p, b) = Result(e, AfterLine(b), TRUE, p.contentLength > 0)
      BY <1>3 DEF HeaderRound
    <2>2. AfterLine(b) \in Seq(Units) /\ Len(AfterLine(b)) < Len(b)
      BY <1>3, LineType
    <2>3. /\ e \in Parsers /\ e.state = IF p.contentLength > 0 THEN "expectBody" ELSE "gotAll"
          /\ (p.contentLength > 0) \in BOOLEAN
      BY DEF Parsers, States
    <2> HIDE DEF e
    <2>4. RoundIsSound(p, b, Result(e, AfterLine(b), TRUE, p.contentLength > 0))
      BY <2>2, <2>3, ResultSound
    <2> QED BY <2>1, <2>4
  <1> QED BY <1>1, <1>2, <1>3

LEMMA BodySound ==
    ASSUME NEW p \in Parsers, NEW b \in Seq(Units)
    PROVE  RoundIsSound(p, b, BodyRound(p, b))
  <1> DEFINE q == [p EXCEPT !.request.body = SubSeq(b, 1, p.contentLength),
                            !.state = "gotAll"]
  <1>1. CASE Len(b) < p.contentLength
    BY <1>1, IncompleteSound DEF BodyRound
  <1>2. CASE ~(Len(b) < p.contentLength)
    <2>1. BodyRound(p, b) = Result(q, SubSeq(b, p.contentLength + 1, Len(b)), TRUE, FALSE)
      BY <1>2 DEF BodyRound
    <2>2. p.contentLength \in 0 .. Len(b)
      BY <1>2 DEF Parsers
    <2>3. /\ SubSeq(b, 1, p.contentLength) \in Seq(Units)
          /\ SubSeq(b, p.contentLength + 1, Len(b)) \in Seq(Units)
      BY <2>2, FirstOf, RestOf
    <2>4. q \in Parsers
      BY <2>3 DEF Parsers, ParsedRequests, States
    <2> HIDE DEF q
    <2> QED BY <2>1, <2>3, <2>4, ResultSound
  <1> QED BY <1>1, <1>2

LEMMA RoundSound ==
    ASSUME NEW p \in Parsers, NEW b \in Seq(Units), p.state # "gotAll"
    PROVE  RoundIsSound(p, b, Round(p, b))
  <1>1. p.state \in {"expectRequestLine", "expectHeaders", "expectBody"}
    BY DEF Parsers, States
  <1> QED BY <1>1, RequestLineSound, HeaderSound, BodySound DEF Round

-----------------------------------------------------------------------------
(* What holds whatever the client sends. *)

Answers == [to : ParsedRequests, end : {"close", "length"}]

\* An answer without its length is followed by shutdown() at once.
OpenHasLengths ==
    conn = "connected" => \A i \in DOMAIN answers : answers[i].end # "close"

SInv ==
    /\ HttpTypeOK
    /\ CompleteWhileAnswered
    /\ OpenHasLengths
    /\ AnswersAreDelimited

LEMMA Joined ==
    \A s, t \in Seq(Units) :
        /\ s \o t \in Seq(Units)
        /\ Len(s \o t) = Len(s) + Len(t)
        /\ \A i \in 1 .. Len(s) : (s \o t)[i] = s[i]
        /\ \A i \in 1 .. Len(t) : (s \o t)[Len(s) + i] = t[i]
  <1> SUFFICES ASSUME NEW s \in Seq(Units), NEW t \in Seq(Units)
               PROVE  /\ s \o t \in Seq(Units)
                      /\ Len(s \o t) = Len(s) + Len(t)
                      /\ \A i \in 1 .. Len(s) : (s \o t)[i] = s[i]
                      /\ \A i \in 1 .. Len(t) : (s \o t)[Len(s) + i] = t[i]
    OBVIOUS
  <1>1. /\ s \o t \in Seq(Units) /\ Len(s \o t) = Len(s) + Len(t)
        /\ \A i \in 1 .. Len(s) + Len(t) :
              (s \o t)[i] = IF i <= Len(s) THEN s[i] ELSE t[i - Len(s)]
        /\ Len(s) \in Nat /\ Len(t) \in Nat
    BY ConcatProperties
  <1>2. \A i \in 1 .. Len(s) : i \in 1 .. Len(s) + Len(t) /\ i <= Len(s)
    BY <1>1
  <1>3. \A i \in 1 .. Len(t) : /\ Len(s) + i \in 1 .. Len(s) + Len(t)
                               /\ ~(Len(s) + i <= Len(s)) /\ (Len(s) + i) - Len(s) = i
    BY <1>1
  <1> QED BY <1>1, <1>2, <1>3

LEMMA JoinedTwice ==
    \A s, t, u \in Seq(Units) : (s \o t) \o u = s \o (t \o u)
  <1> SUFFICES ASSUME NEW s \in Seq(Units), NEW t \in Seq(Units), NEW u \in Seq(Units)
               PROVE  (s \o t) \o u = s \o (t \o u)
    OBVIOUS
  <1> QED BY ConcatAssociative

LEMMA HeaderLinesFacts ==
    ASSUME NEW hs \in Seq(Units)
    PROVE  /\ HeaderLines(hs) \in Seq(Units)
           /\ Len(HeaderLines(hs)) = 2 * Len(hs)
           /\ \A i \in 1 .. Len(hs) :
                 HeaderLines(hs)[2 * i - 1] = hs[i] /\ HeaderLines(hs)[2 * i] = "crlf"
  <1> DEFINE H == Len(hs)
             L == HeaderLines(hs)
  <1>1. H \in Nat /\ "crlf" \in Units /\ \A i \in 1 .. H : hs[i] \in Units
    BY DEF Units
  <1>2. \A k \in 1 .. 2 * H : k % 2 = 1 => (k + 1) \div 2 \in 1 .. H
    BY <1>1
  <1>3. \A k \in 1 .. 2 * H : L[k] \in Units
    BY <1>1, <1>2 DEF HeaderLines
  <1>4. L \in [1 .. 2 * H -> Units]
    BY <1>3 DEF HeaderLines
  <1>5. L \in Seq(Units) /\ Len(L) = 2 * H
    BY <1>1, <1>4
  <1>6. ASSUME NEW i \in 1 .. H
        PROVE  L[2 * i - 1] = hs[i] /\ L[2 * i] = "crlf"
    <2>1. /\ 2 * i - 1 \in 1 .. 2 * H /\ 2 * i \in 1 .. 2 * H
          /\ (2 * i - 1) % 2 = 1 /\ (2 * i) % 2 # 1 /\ ((2 * i - 1) + 1) \div 2 = i
      BY <1>1
    <2> QED BY <2>1 DEF HeaderLines
  <1> QED BY <1>5, <1>6

LEMMA ThreeOrMore == \A h, b \in Nat : 3 + 2 * h + b \in Nat /\ 3 + 2 * h + b >= 3
  OBVIOUS

\* Where the parts of a request are in what the client sends for it.
LEMMA EncodeFacts ==
    ASSUME NEW r \in RequestType
    PROVE  /\ Encode(r) \in Seq(Units)
           /\ Len(r.headers) \in Nat /\ Len(r.body) \in Nat
           /\ Len(Encode(r)) = 3 + 2 * Len(r.headers) + Len(r.body)
           /\ Encode(r)[1] = r.line /\ Encode(r)[2] = "crlf"
           /\ \A i \in 1 .. Len(r.headers) :
                 /\ Encode(r)[2 * i + 1] = r.headers[i]
                 /\ Encode(r)[2 * i + 2] = "crlf"
           /\ Encode(r)[3 + 2 * Len(r.headers)] = "crlf"
           /\ \A j \in 1 .. Len(r.body) :
                 Encode(r)[3 + 2 * Len(r.headers) + j] = r.body[j]
  <1> DEFINE w == 2 * Len(r.headers)
             B == Len(r.body)
             L == HeaderLines(r.headers)
             f == <<r.line, "crlf">>
             e == <<"crlf">>
  <1>1. /\ r.line \in Units /\ r.headers \in Seq(Units) /\ r.body \in Seq(Units)
        /\ Len(r.headers) \in Nat /\ B \in Nat /\ w \in Nat /\ "crlf" \in Units
    BY DEF RequestType, Units
  <1>2. /\ L \in Seq(Units) /\ Len(L) = w
        /\ \A i \in 1 .. Len(r.headers) : L[2 * i - 1] = r.headers[i] /\ L[2 * i] = "crlf"
    BY <1>1, HeaderLinesFacts
  <1>3. /\ f \in Seq(Units) /\ Len(f) = 2 /\ f[1] = r.line /\ f[2] = "crlf"
        /\ e \in Seq(Units) /\ Len(e) = 1 /\ e[1] = "crlf"
    BY <1>1
  <1>4. \A i \in 1 .. Len(r.headers) : 2 * i - 1 \in 1 .. w /\ 2 * i \in 1 .. w
    BY <1>1
  <1>5. Encode(r) = ((f \o L) \o e) \o r.body
    BY DEF Encode
  <1> HIDE DEF w, B, L, f, e
  <1>6. /\ f \o L \in Seq(Units) /\ Len(f \o L) = 2 + w
        /\ \A k \in 1 .. 2 : (f \o L)[k] = f[k]
        /\ \A k \in 1 .. w : (f \o L)[2 + k] = L[k]
    <2>1. /\ f \o L \in Seq(Units) /\ Len(f \o L) = Len(f) + Len(L)
          /\ \A k \in 1 .. Len(f) : (f \o L)[k] = f[k]
          /\ \A k \in 1 .. Len(L) : (f \o L)[Len(f) + k] = L[k]
      BY ONLY <1>2, <1>3, Joined, Zenon
    <2> QED BY ONLY <1>1, <1>2, <1>3, <2>1
  <1>7. /\ (f \o L) \o e \in Seq(Units) /\ Len((f \o L) \o e) = (2 + w) + 1
        /\ \A k \in 1 .. 2 + w : ((f \o L) \o e)[k] = (f \o L)[k]
        /\ \A k \in 1 .. 1 : ((f \o L) \o e)[(2 + w) + k] = e[k]
    <2>1. /\ (f \o L) \o e \in Seq(Units) /\ Len((f \o L) \o e) = Len((f \o L)) + Len(e)
          /\ \A k \in 1 .. Len((f \o L)) : ((f \o L) \o e)[k] = (f \o L)[k]
          /\ \A k \in 1 .. Len(e) : ((f \o L) \o e)[Len((f \o L)) + k] = e[k]
      BY ONLY <1>3, <1>6, Joined, Zenon
    <2> QED BY ONLY <1>1, <1>3, <1>6, <2>1
  <1>8. /\ Encode(r) \in Seq(Units) /\ Len(Encode(r)) = (3 + w) + B
        /\ \A k \in 1 .. 3 + w : Encode(r)[k] = ((f \o L) \o e)[k]
        /\ \A k \in 1 .. B : Encode(r)[(3 + w) + k] = r.body[k]
    <2>1. 3 + w \in Nat /\ (2 + w) + 1 = 3 + w
      BY <1>1
    <2>2. Len(r.body) = B
      BY DEF B
    <2>3. /\ ((f \o L) \o e) \o r.body \in Seq(Units)
          /\ Len(((f \o L) \o e) \o r.body) = (3 + w) + B
          /\ \A k \in 1 .. 3 + w : (((f \o L) \o e) \o r.body)[k] = ((f \o L) \o e)[k]
          /\ \A k \in 1 .. B : (((f \o L) \o e) \o r.body)[(3 + w) + k] = r.body[k]
      <3>1. /\ ((f \o L) \o e) \o r.body \in Seq(Units) /\ Len(((f \o L) \o e) \o r.body) = Len(((f \o L) \o e)) + Len(r.body)
            /\ \A k \in 1 .. Len(((f \o L) \o e)) : (((f \o L) \o e) \o r.body)[k] = ((f \o L) \o e)[k]
            /\ \A k \in 1 .. Len(r.body) : (((f \o L) \o e) \o r.body)[Len(((f \o L) \o e)) + k] = r.body[k]
        BY ONLY <1>1, <1>7, Joined, Zenon
      <3> QED BY ONLY <1>7, <2>1, <2>2, <3>1
    <2> QED BY <1>5, <2>3, Zenon
  <1>9. \A k \in 1 .. 2 : Encode(r)[k] = f[k]
    <2>1. \A k \in 1 .. 2 : k \in 1 .. 2 + w /\ k \in 1 .. 3 + w
      BY <1>1
    <2> QED BY <1>6, <1>7, <1>8, <2>1
  <1>10. Encode(r)[1] = r.line /\ Encode(r)[2] = "crlf"
    BY <1>3, <1>9
  <1>11. \A k \in 1 .. w : Encode(r)[2 + k] = L[k]
    <2>1. \A k \in 1 .. w : 2 + k \in 1 .. 2 + w /\ 2 + k \in 1 .. 3 + w
      BY <1>1
    <2> QED BY <1>6, <1>7, <1>8, <2>1
  <1>12. ASSUME NEW i \in 1 .. Len(r.headers)
         PROVE  Encode(r)[2 * i + 1] = r.headers[i] /\ Encode(r)[2 * i + 2] = "crlf"
    <2>1. 2 + (2 * i - 1) = 2 * i + 1 /\ 2 + 2 * i = 2 * i + 2
      BY <1>1
    <2>2. /\ Encode(r)[2 + (2 * i - 1)] = L[2 * i - 1]
          /\ Encode(r)[2 + 2 * i] = L[2 * i]
      BY <1>4, <1>11
    <2> QED BY <1>2, <2>1, <2>2
  <1>13. Encode(r)[3 + w] = "crlf"
    <2>1. (2 + w) + 1 = 3 + w /\ 3 + w \in 1 .. 3 + w /\ 1 \in 1 .. 1
      BY <1>1
    <2>2. ((f \o L) \o e)[3 + w] = "crlf"
      BY <1>3, <1>7, <2>1
    <2> QED BY <1>8, <2>1, <2>2
  <1> QED BY <1>1, <1>8, <1>10, <1>12, <1>13 DEF w, B

LEMMA EncodeLength ==
    ASSUME NEW r \in RequestType
    PROVE  Len(Encode(r)) \in Nat /\ Len(Encode(r)) >= 3
  <1>1. /\ Len(Encode(r)) = 3 + 2 * Len(r.headers) + Len(r.body)
        /\ Len(r.headers) \in Nat /\ Len(r.body) \in Nat
    BY EncodeFacts
  <1>2. /\ 3 + 2 * Len(r.headers) + Len(r.body) \in Nat
        /\ 3 + 2 * Len(r.headers) + Len(r.body) >= 3
    BY <1>1, ThreeOrMore, Zenon
  <1> QED BY <1>1, <1>2

-----------------------------------------------------------------------------
(* The steps of the server, whatever the client sends. *)

LEMMA RequestFacts ==
    ASSUME NEW r \in Requests
    PROVE  r \in RequestType /\ Encode(r) \in Seq(Units)
  BY EncodeFacts, HttpAssumption

LEMMA NewParserType == NewParser \in Parsers /\ NewParser.state = "expectRequestLine"
  BY DEF NewParser, NoRequest, Parsers, ParsedRequests, States

LEMMA SendFacts ==
    ASSUME SInv, NEW req \in ParsedRequests, NEW close \in BOOLEAN,
           Send(AppendToBuffer(req, close))
    PROVE  /\ answers' \in Seq(Answers)
           /\ conn = "disconnecting" => answers' = answers
           /\ conn = "connected" =>
                 /\ answers' = Append(answers, AppendToBuffer(req, close))
                 /\ Len(answers') = Len(answers) + 1
                 /\ \A i \in 1 .. Len(answers) : answers'[i] = answers[i]
                 /\ answers'[Len(answers) + 1].to = req
                 /\ answers'[Len(answers) + 1].end = IF close THEN "close" ELSE "length"
  <1> DEFINE a == AppendToBuffer(req, close)
  <1>1. a \in Answers /\ a.to = req /\ a.end = IF close THEN "close" ELSE "length"
    BY DEF AppendToBuffer, Answers
  <1> HIDE DEF a
  <1>2. answers \in Seq(Answers) /\ conn \in {"connected", "disconnecting"}
    BY DEF SInv, HttpTypeOK, Answers
  <1>3. answers' = IF conn = "connected" THEN Append(answers, a) ELSE answers
    BY DEF Send, a
  <1>4. CASE conn = "connected"
    <2>1. answers' = Append(answers, a)
      BY <1>3, <1>4
    <2>2. /\ Append(answers, a) \in Seq(Answers)
          /\ Len(Append(answers, a)) = Len(answers) + 1
          /\ \A i \in 1 .. Len(answers) : Append(answers, a)[i] = answers[i]
          /\ Append(answers, a)[Len(answers) + 1] = a
      BY <1>1, <1>2, AppendProperties
    <2> QED BY <1>1, <1>4, <2>1, <2>2 DEF a
  <1>5. CASE conn = "disconnecting"
    BY <1>2, <1>3, <1>5
  <1> QED BY <1>2, <1>4, <1>5

\* A closing answer is the last one, and shutdown() follows it.
LEMMA SendDelimited ==
    ASSUME SInv, NEW req \in ParsedRequests, NEW close \in BOOLEAN,
           Send(AppendToBuffer(req, close)),
           conn' = IF close THEN "disconnecting" ELSE conn
    PROVE  OpenHasLengths' /\ AnswersAreDelimited'
  <1>1. /\ conn \in {"connected", "disconnecting"}
        /\ conn = "connected" => \A i \in DOMAIN answers : answers[i].end # "close"
        /\ \A i \in DOMAIN answers : answers[i].end = "close" => i = Len(answers)
        /\ answers \in Seq(Answers)
    BY DEF SInv, HttpTypeOK, OpenHasLengths, AnswersAreDelimited, Answers
  <1>2. CASE conn = "disconnecting"
    BY <1>1, <1>2, SendFacts DEF OpenHasLengths, AnswersAreDelimited
  <1>3. CASE conn = "connected"
    <2>1. /\ answers' \in Seq(Answers) /\ Len(answers') = Len(answers) + 1
          /\ \A i \in 1 .. Len(answers) : answers'[i] = answers[i]
          /\ answers'[Len(answers) + 1].end = IF close THEN "close" ELSE "length"
      BY <1>3, SendFacts
    <2>2. DOMAIN answers = 1 .. Len(answers) /\ DOMAIN answers' = 1 .. Len(answers) + 1
          /\ Len(answers) \in Nat
      BY <1>1, <2>1
    <2>3. ASSUME NEW i \in DOMAIN answers', answers'[i].end = "close"
          PROVE  i = Len(answers') /\ close
      <3>1. CASE i \in 1 .. Len(answers)
        BY <1>1, <1>3, <2>1, <2>2, <2>3, <3>1
      <3>2. CASE i = Len(answers) + 1
        BY <2>1, <2>3, <3>2
      <3> QED BY <2>2, <3>1, <3>2
    <2> QED BY <1>1, <2>3 DEF OpenHasLengths, AnswersAreDelimited
  <1> QED BY <1>1, <1>2, <1>3

LEMMA AskSafe == ASSUME SInv, NEW r \in Requests, Ask(r) PROVE SInv'
  <1>1. /\ asked' \in Seq(Requests) /\ waited' \in BOOLEAN /\ wire' \in Seq(Units)
    <2>1. asked \in Seq(Requests) /\ wire \in Seq(Units) /\ Encode(r) \in Seq(Units)
      BY RequestFacts DEF SInv, HttpTypeOK
    <2> QED BY <2>1, ConcatProperties DEF Ask
  <1> QED BY <1>1 DEF Ask, SInv, HttpTypeOK, CompleteWhileAnswered, OpenHasLengths,
                      AnswersAreDelimited

LEMMA HandleReadSafe == ASSUME SInv, NEW n \in 1 .. Len(wire), HandleRead(n) PROVE SInv'
  <1>1. wire \in Seq(Units) /\ buf \in Seq(Units) /\ n \in 0 .. Len(wire)
    BY DEF SInv, HttpTypeOK
  <1>2. SubSeq(wire, 1, n) \in Seq(Units) /\ SubSeq(wire, n + 1, Len(wire)) \in Seq(Units)
    BY <1>1, FirstOf, RestOf
  <1>3. buf' \in Seq(Units) /\ wire' \in Seq(Units)
    BY <1>1, <1>2, ConcatProperties DEF HandleRead
  <1> QED BY <1>3 DEF HandleRead, clientVars, SInv, HttpTypeOK, CompleteWhileAnswered,
                      OpenHasLengths, AnswersAreDelimited

\* The outcome of a round, and where onMessage() goes with it.
LEMMA ParseFacts ==
    ASSUME SInv, ParseRequest
    PROVE  /\ parser.state # "gotAll"
           /\ RoundIsSound(parser, buf, Round(parser, buf))
           /\ parser' = Round(parser, buf).parser /\ buf' = Round(parser, buf).buf
           /\ Round(parser, buf).more => pc' = "parse"
           /\ ~Round(parser, buf).more /\ ~Round(parser, buf).ok => pc' = "bad"
           /\ ~Round(parser, buf).more /\ Round(parser, buf).ok =>
                 pc' = IF parser'.state = "gotAll" THEN "request" ELSE "idle"
           /\ UNCHANGED <<clientVars, wire, callback, conn, answers>>
  <1> DEFINE r == Round(parser, buf)
  <1>1. parser \in Parsers /\ buf \in Seq(Units) /\ parser.state # "gotAll"
    BY DEF SInv, HttpTypeOK, CompleteWhileAnswered, ParseRequest
  <1>2. RoundIsSound(parser, buf, r)
    BY <1>1, RoundSound
  <1>3. /\ parser' = r.parser /\ buf' = r.buf
        /\ pc' = CASE r.more -> "parse"
                   [] ~r.more /\ ~r.ok -> "bad"
                   [] ~r.more /\ r.ok /\ r.parser.state = "gotAll" -> "request"
                   [] ~r.more /\ r.ok /\ r.parser.state # "gotAll" -> "idle"
        /\ UNCHANGED <<clientVars, wire, callback, conn, answers>>
    BY DEF ParseRequest
  <1> HIDE DEF r
  <1>4. r.more \in BOOLEAN /\ r.ok \in BOOLEAN
    BY <1>2 DEF RoundIsSound
  <1>5. /\ r.more => pc' = "parse"
        /\ ~r.more /\ ~r.ok => pc' = "bad"
        /\ ~r.more /\ r.ok => pc' = IF parser'.state = "gotAll" THEN "request" ELSE "idle"
    BY <1>3, <1>4
  <1> QED BY <1>1, <1>2, <1>3, <1>5 DEF r

LEMMA ParseSafe ==
    ASSUME SInv, ParseRequest
    PROVE  /\ SInv'
           /\ pc' = "parse" => Len(buf') < Len(buf)
  <1> DEFINE r == Round(parser, buf)
  <1> HIDE DEF r
  <1>1. /\ parser.state # "gotAll" /\ RoundIsSound(parser, buf, r)
        /\ parser' = r.parser /\ buf' = r.buf
        /\ r.more => pc' = "parse"
        /\ ~r.more /\ ~r.ok => pc' = "bad"
        /\ ~r.more /\ r.ok => pc' = IF parser'.state = "gotAll" THEN "request" ELSE "idle"
        /\ UNCHANGED <<clientVars, wire, callback, conn, answers>>
    BY ParseFacts DEF r
  <1>2. /\ parser' \in Parsers /\ buf' \in Seq(Units)
        /\ r.more \in BOOLEAN /\ r.ok \in BOOLEAN
        /\ r.more => Len(buf') < Len(buf) /\ parser'.state # "gotAll"
        /\ ~r.ok => parser' = parser
    BY <1>1 DEF RoundIsSound
  <1>3. /\ pc' \in {"parse", "bad", "request", "idle"}
        /\ parser'.state = "gotAll" <=> pc' = "request"
        /\ pc' = "parse" => Len(buf') < Len(buf)
    BY <1>1, <1>2
  <1>4. HttpTypeOK' /\ CompleteWhileAnswered'
    BY <1>1, <1>2, <1>3 DEF SInv, HttpTypeOK, CompleteWhileAnswered, clientVars
  <1>5. OpenHasLengths' /\ AnswersAreDelimited'
    <2>1. \A i \in DOMAIN answers : answers[i].end = "close" =>
             i = Len(answers) /\ conn = "disconnecting"
      BY DEF SInv, HttpTypeOK, OpenHasLengths, AnswersAreDelimited
    <2> QED BY <1>1, <2>1 DEF SInv, OpenHasLengths, AnswersAreDelimited
  <1> QED BY <1>3, <1>4, <1>5 DEF SInv

LEMMA AnswerBadRequestSafe == ASSUME SInv, AnswerBadRequest PROVE SInv'
  <1>1. BadRequest \in ParsedRequests
    <2>1. BadRequest = [version |-> "bad", headers |-> {}, body |-> <<>>]
      BY DEF BadRequest, NoRequest
    <2>2. <<>> \in Seq(Units)
      OBVIOUS
    <2> QED BY <2>1, <2>2 DEF ParsedRequests
  <1>2. Send(AppendToBuffer(BadRequest, TRUE)) /\ conn' = "disconnecting"
    BY DEF AnswerBadRequest
  <1>3. answers' \in Seq(Answers) /\ OpenHasLengths' /\ AnswersAreDelimited'
    BY <1>1, <1>2, SendFacts, SendDelimited
  <1> QED BY <1>3 DEF AnswerBadRequest, SInv, HttpTypeOK, CompleteWhileAnswered, Answers,
                      clientVars

LEMMA OnRequestSafe == ASSUME SInv, OnRequest PROVE SInv'
  <1>1. pc' \in {"respond", "overflow"}
    BY DEF OnRequest
  <1> QED BY <1>1 DEF OnRequest, SInv, HttpTypeOK, CompleteWhileAnswered, OpenHasLengths,
                      AnswersAreDelimited, clientVars

LEMMA RespondSafe == ASSUME SInv, NEW close \in CloseChoices, Respond(close) PROVE SInv'
  <1>1. parser.request \in ParsedRequests /\ close \in BOOLEAN
    BY HttpAssumption DEF SInv, HttpTypeOK, Parsers
  <1>2. /\ Send(AppendToBuffer(parser.request, close))
        /\ conn' = IF close THEN "disconnecting" ELSE conn
    BY DEF Respond
  <1>3. answers' \in Seq(Answers) /\ OpenHasLengths' /\ AnswersAreDelimited'
    BY <1>1, <1>2, SendFacts, SendDelimited
  <1>4. parser' = NewParser
    BY DEF Respond, Reset
  <1> QED BY <1>3, <1>4, NewParserType DEF Respond, SInv, HttpTypeOK, CompleteWhileAnswered,
                      Answers, clientVars

LEMMA SafeInit == ASSUME Init PROVE SInv
  BY NewParserType DEF Init, SInv, HttpTypeOK, CompleteWhileAnswered, OpenHasLengths,
                       AnswersAreDelimited

LEMMA SafeNext == ASSUME SInv, [Next]_vars PROVE SInv'
  <1>1. CASE Next
    BY <1>1, AskSafe, HandleReadSafe, ParseSafe, AnswerBadRequestSafe, OnRequestSafe,
       RespondSafe DEF Next, OnMessage
  <1>2. CASE UNCHANGED vars
    BY <1>2 DEF vars, clientVars, SInv, HttpTypeOK, CompleteWhileAnswered, OpenHasLengths,
                AnswersAreDelimited
  <1> QED BY <1>1, <1>2

-----------------------------------------------------------------------------
(* Where the server is in what a well-formed client has sent.  rest is what *)
(* it has not taken from the buffer yet, and off[i] the place in it before   *)
(* the first unit of request i; it is negative when that has been taken.     *)

Ahead(off, sent, k, rest) ==
    /\ off \in [1 .. Len(sent) + 1 -> Int]
    /\ off[Len(sent) + 1] = Len(rest)
    /\ \A i \in 1 .. Len(sent) + 1 : off[i] <= Len(rest)
    /\ \A i \in 1 .. Len(sent) : off[i + 1] = off[i] + Len(Encode(sent[i]))
    /\ \A i \in k .. Len(sent) : \A j \in 1 .. Len(Encode(sent[i])) :
          off[i] + j >= 1 => rest[off[i] + j] = Encode(sent[i])[j]

\* What is behind the first n units.
Behind(b, n) == SubSeq(b, n + 1, Len(b))

\* d units of request k have been taken.
Place(off, k, d) == d \in Nat /\ off[k] + d = 0

\* The headers of a request up to the h-th, and its length after them.
HeadersRead(r, h) == {<<r.headers[i]>> : i \in 1 .. h}
LengthAfter(r, h) ==
    IF \E i \in 1 .. h : r.headers[i] \in DOMAIN Stoul THEN Len(r.body) ELSE 0

\* The parser has read the request line and h headers; all up to the body; the
\* whole request.
AtHeader(p, r, start, h) ==
    /\ start = -(2 + 2 * h)
    /\ p.state = "expectHeaders"
    /\ p.request.version = r.line
    /\ p.request.headers = HeadersRead(r, h)
    /\ p.request.body = <<>>
    /\ p.contentLength = LengthAfter(r, h)
AtBody(p, r, start) ==
    /\ start = -(3 + 2 * Len(r.headers))
    /\ Len(r.body) > 0
    /\ p.state = "expectBody"
    /\ p.request.version = r.line
    /\ p.request.headers = HeadersRead(r, Len(r.headers))
    /\ p.contentLength = Len(r.body)
AtEnd(p, r, start) ==
    /\ start = -Len(Encode(r))
    /\ p.state = "gotAll"
    /\ p.request.version = r.line
    /\ p.request.headers = HeadersRead(r, Len(r.headers))
    /\ p.request.body = r.body

\* The parser has read request k so far.
Follows(off, p, sent, k) ==
    \/ p = NewParser /\ off[k] = 0
    \/ /\ k <= Len(sent) /\ sent[k].line \in RequestLines
       /\ \/ \E h \in 0 .. Len(sent[k].headers) : AtHeader(p, sent[k], off[k], h)
          \/ AtBody(p, sent[k], off[k])
          \/ AtEnd(p, sent[k], off[k])

LEMMA AheadAppend ==
    ASSUME NEW sent \in Seq(Requests), NEW k \in 1 .. Len(sent) + 1, NEW rest \in Seq(Units),
           NEW off, Ahead(off, sent, k, rest), NEW r \in Requests
    PROVE  \E o : Ahead(o, Append(sent, r), k, rest \o Encode(r)) /\ o[k] = off[k]
  <1> DEFINE N == Len(sent)
             E == Encode(r)
             bs == Append(sent, r)
             o == [i \in 1 .. N + 2 |-> IF i <= N + 1 THEN off[i] ELSE Len(rest) + Len(E)]
  <1>1. /\ N \in Nat /\ Len(rest) \in Nat /\ E \in Seq(Units) /\ Len(E) \in Nat
        /\ off \in [1 .. N + 1 -> Int] /\ off[N + 1] = Len(rest)
    BY RequestFacts DEF Ahead
  <1>2. /\ Len(bs) = N + 1 /\ bs[N + 1] = r
        /\ \A i \in 1 .. N : bs[i] = sent[i]
    BY AppendProperties
  <1>3. /\ rest \o E \in Seq(Units) /\ Len(rest \o E) = Len(rest) + Len(E)
        /\ \A i \in 1 .. Len(rest) : (rest \o E)[i] = rest[i]
        /\ \A i \in 1 .. Len(E) : (rest \o E)[Len(rest) + i] = E[i]
    BY <1>1, Joined, Zenon
  <1>4. \A i \in 1 .. N : Len(Encode(sent[i])) \in Nat
    <2>1. \A i \in 1 .. N : sent[i] \in Requests
      OBVIOUS
    <2> QED BY <2>1, RequestFacts
  <1> HIDE DEF E, N, bs
  <1>5. /\ o \in [1 .. (N + 1) + 1 -> Int]
        /\ \A i \in 1 .. N + 1 : o[i] = off[i]
        /\ o[(N + 1) + 1] = Len(rest) + Len(E)
    BY <1>1
  <1> HIDE DEF o
  <1>6. ASSUME NEW i \in 1 .. (N + 1) + 1 PROVE o[i] <= Len(rest) + Len(E)
    <2>1. CASE i \in 1 .. N + 1
      <3>1. o[i] = off[i]
        BY <1>5, <2>1
      <3>2. off[i] <= Len(rest) /\ off[i] \in Int
        BY <1>1, <2>1 DEF Ahead, N
      <3> QED BY ONLY <1>1, <3>1, <3>2
    <2>2. CASE i = (N + 1) + 1
      <3>1. o[i] = Len(rest) + Len(E)
        BY <1>5, <2>2
      <3> QED BY ONLY <1>1, <3>1
    <2> QED BY <1>1, <2>1, <2>2
  <1>7. ASSUME NEW i \in 1 .. N + 1
        PROVE  o[i + 1] = o[i] + Len(Encode(bs[i]))
    <2>1. CASE i \in 1 .. N
      <3>1. i + 1 \in 1 .. N + 1
        BY <1>1, <2>1
      <3>2. off[i + 1] = off[i] + Len(Encode(sent[i]))
        BY <2>1 DEF Ahead, N
      <3> QED BY <1>2, <1>5, <2>1, <3>1, <3>2
    <2>2. CASE i = N + 1
      BY <1>1, <1>2, <1>5, <2>2 DEF E
    <2> QED BY <1>1, <2>1, <2>2
  <1>8. ASSUME NEW i \in k .. N + 1, NEW j \in 1 .. Len(Encode(bs[i])), o[i] + j >= 1
        PROVE  (rest \o E)[o[i] + j] = Encode(bs[i])[j]
    <2>1. k \in Nat /\ 1 <= k
      BY <1>1 DEF N
    <2>2. CASE i <= N
      <3>1. i \in 1 .. N /\ i \in k .. N /\ i + 1 \in 1 .. N + 1
        BY <1>1, <2>1, <2>2
      <3>2. bs[i] = sent[i] /\ o[i] = off[i] /\ off[i] \in Int /\ Len(Encode(sent[i])) \in Nat
        BY <1>1, <1>2, <1>4, <1>5, <3>1
      <3>3. /\ off[i + 1] = off[i] + Len(Encode(sent[i])) /\ off[i + 1] <= Len(rest)
        BY <3>1 DEF Ahead, N
      <3>4. j \in 1 .. Len(Encode(sent[i])) /\ off[i] + j >= 1
        BY <1>8, <3>2
      <3>5. rest[off[i] + j] = Encode(sent[i])[j]
        BY <3>1, <3>4 DEF Ahead, N
      <3>6. off[i] + j \in 1 .. Len(rest)
        BY ONLY <1>1, <3>2, <3>3, <3>4
      <3> QED BY <1>3, <3>2, <3>5, <3>6
    <2>3. CASE i = N + 1
      <3>1. bs[i] = r /\ o[i] = Len(rest) /\ j \in 1 .. Len(E)
        BY <1>1, <1>2, <1>5, <2>3 DEF E
      <3>2. (rest \o E)[Len(rest) + j] = E[j]
        BY <1>3, <3>1
      <3>3. Encode(bs[i]) = E
        BY <3>1 DEF E
      <3> QED BY ONLY <3>1, <3>2, <3>3, Zenon
    <2>4. i <= N \/ i = N + 1
      BY <1>1, <2>1
    <2> QED BY <2>2, <2>3, <2>4, Zenon
  <1>9. Ahead(o, bs, k, rest \o E)
    BY <1>2, <1>3, <1>5, <1>6, <1>7, <1>8 DEF Ahead
  <1>10. o[k] = off[k]
    BY <1>5 DEF N
  <1> QED BY <1>9, <1>10 DEF bs, E

LEMMA AheadConsume ==
    ASSUME NEW sent \in Seq(Requests), NEW k \in 1 .. Len(sent) + 1, NEW rest \in Seq(Units),
           NEW off, Ahead(off, sent, k, rest), NEW n \in 0 .. Len(rest)
    PROVE  \E o : /\ Ahead(o, sent, k, SubSeq(rest, n + 1, Len(rest)))
                  /\ \A i \in 1 .. Len(sent) + 1 : o[i] = off[i] - n
  <1> DEFINE N == Len(sent)
             q == SubSeq(rest, n + 1, Len(rest))
             o == [i \in 1 .. N + 1 |-> off[i] - n]
  <1>1. /\ N \in Nat /\ Len(rest) \in Nat /\ n \in Nat
        /\ off \in [1 .. N + 1 -> Int] /\ off[N + 1] = Len(rest)
    BY DEF Ahead
  <1>2. /\ q \in Seq(Units) /\ Len(q) = Len(rest) - n
        /\ \A i \in 1 .. Len(rest) - n : q[i] = rest[n + i]
    BY RestOf
  <1>3. \A i \in 1 .. N : Len(Encode(sent[i])) \in Nat
    <2>1. \A i \in 1 .. N : sent[i] \in Requests
      OBVIOUS
    <2> QED BY <2>1, RequestFacts
  <1> HIDE DEF N, q
  <1>4. o \in [1 .. N + 1 -> Int] /\ \A i \in 1 .. N + 1 : o[i] = off[i] - n
    BY <1>1
  <1> HIDE DEF o
  <1>5. /\ \A i \in 1 .. N + 1 : off[i] \in Int /\ off[i] <= Len(rest)
        /\ \A i \in 1 .. N : off[i + 1] = off[i] + Len(Encode(sent[i]))
    BY <1>1 DEF Ahead, N
  <1>6. o[N + 1] = Len(q) /\ \A i \in 1 .. N + 1 : o[i] <= Len(q)
    <2>1. N + 1 \in 1 .. N + 1
      BY <1>1
    <2>2. o[N + 1] = Len(rest) - n
      BY <1>1, <1>4, <2>1
    <2>3. ASSUME NEW i \in 1 .. N + 1 PROVE o[i] <= Len(rest) - n
      <3>1. o[i] = off[i] - n /\ off[i] \in Int /\ off[i] <= Len(rest)
        BY <1>4, <1>5
      <3> QED BY ONLY <1>1, <3>1
    <2> QED BY <1>2, <2>2, <2>3
  <1>7. ASSUME NEW i \in 1 .. N PROVE o[i + 1] = o[i] + Len(Encode(sent[i]))
    <2>1. i \in 1 .. N + 1 /\ i + 1 \in 1 .. N + 1
      BY <1>1
    <2>2. /\ o[i] = off[i] - n /\ o[i + 1] = off[i + 1] - n /\ off[i] \in Int
          /\ off[i + 1] = off[i] + Len(Encode(sent[i])) /\ Len(Encode(sent[i])) \in Nat
      BY <1>3, <1>4, <1>5, <2>1
    <2> QED BY ONLY <1>1, <2>2
  <1>8. ASSUME NEW i \in k .. N, NEW j \in 1 .. Len(Encode(sent[i])), o[i] + j >= 1
        PROVE  q[o[i] + j] = Encode(sent[i])[j]
    <2>1. i \in 1 .. N /\ i \in 1 .. N + 1 /\ i + 1 \in 1 .. N + 1
      BY <1>1 DEF N
    <2>2. /\ off[i] \in Int /\ o[i] = off[i] - n /\ Len(Encode(sent[i])) \in Nat
          /\ off[i] + Len(Encode(sent[i])) <= Len(rest)
      BY <1>3, <1>4, <1>5, <2>1
    <2>3. off[i] + j >= 1 /\ o[i] + j \in 1 .. Len(rest) - n /\ n + (o[i] + j) = off[i] + j
      <3> DEFINE x == off[i]
                 m == Len(Encode(sent[i]))
      <3>1. /\ x \in Int /\ o[i] = x - n /\ x + m <= Len(rest) /\ m \in Nat
            /\ j \in 1 .. m /\ (x - n) + j >= 1
        BY <1>8, <2>2
      <3> HIDE DEF x, m
      <3>2. x + j >= 1 /\ (x - n) + j \in 1 .. Len(rest) - n /\ n + ((x - n) + j) = x + j
        BY ONLY <1>1, <3>1
      <3> QED BY <3>1, <3>2 DEF x
    <2>4. rest[off[i] + j] = Encode(sent[i])[j]
      BY <2>3 DEF Ahead, N
    <2> QED BY <1>2, <2>3, <2>4
  <1>9. Ahead(o, sent, k, q)
    BY <1>4, <1>6, <1>7, <1>8 DEF Ahead, N
  <1> QED BY <1>4, <1>9 DEF q, N

\* Taking from the buffer is taking from what is ahead.
LEMMA TakeFront ==
    ASSUME NEW b \in Seq(Units), NEW w \in Seq(Units), NEW n \in 0 .. Len(b)
    PROVE  SubSeq(b \o w, n + 1, Len(b \o w)) = SubSeq(b, n + 1, Len(b)) \o w
  <1> DEFINE c == b \o w
             d == SubSeq(b, n + 1, Len(b))
             x == SubSeq(c, n + 1, Len(c))
             y == d \o w
  <1>1. Len(b) \in Nat /\ Len(w) \in Nat /\ n \in Nat /\ n <= Len(b)
    OBVIOUS
  <1>2. /\ c \in Seq(Units) /\ Len(c) = Len(b) + Len(w)
        /\ \A i \in 1 .. Len(b) : c[i] = b[i]
        /\ \A i \in 1 .. Len(w) : c[Len(b) + i] = w[i]
    BY Joined, Zenon
  <1>3. /\ d \in Seq(Units) /\ Len(d) = Len(b) - n
        /\ \A i \in 1 .. Len(b) - n : d[i] = b[n + i]
    BY RestOf
  <1> HIDE DEF c, d
  <1>4. n \in 0 .. Len(c)
    BY <1>1, <1>2
  <1>5. /\ x \in Seq(Units) /\ Len(x) = Len(c) - n
        /\ \A i \in 1 .. Len(c) - n : x[i] = c[n + i]
    BY <1>2, <1>4, RestOf
  <1>6. /\ y \in Seq(Units) /\ Len(y) = Len(d) + Len(w)
        /\ \A i \in 1 .. Len(d) : y[i] = d[i]
        /\ \A i \in 1 .. Len(w) : y[Len(d) + i] = w[i]
    BY <1>3, Joined, Zenon
  <1> HIDE DEF x, y
  <1>7. Len(x) = Len(y)
    BY <1>1, <1>2, <1>3, <1>5, <1>6
  <1>8. ASSUME NEW i \in 1 .. Len(x) PROVE x[i] = y[i]
    <2>1. i \in 1 .. Len(c) - n /\ i \in Nat /\ i >= 1 /\ i <= (Len(b) - n) + Len(w)
      BY <1>1, <1>2, <1>5
    <2>2. x[i] = c[n + i]
      BY <1>5, <2>1
    <2>3. CASE i <= Len(b) - n
      <3>1. i \in 1 .. Len(d) /\ i \in 1 .. Len(b) - n /\ n + i \in 1 .. Len(b)
        BY <1>1, <1>3, <2>1, <2>3
      <3>2. y[i] = b[n + i] /\ c[n + i] = b[n + i]
        BY <1>2, <1>3, <1>6, <3>1
      <3> QED BY <2>2, <3>2
    <2>4. CASE i > Len(b) - n
      <3> DEFINE j == i - Len(d)
      <3>1. j \in 1 .. Len(w) /\ i = Len(d) + j /\ n + i = Len(b) + j
        BY <1>1, <1>3, <2>1, <2>4
      <3> HIDE DEF j
      <3>2. y[i] = w[j] /\ c[n + i] = w[j]
        BY <1>2, <1>6, <3>1
      <3> QED BY <2>2, <3>2
    <2> QED BY <1>1, <2>1, <2>3, <2>4
  <1>9. x = y
    <2>1. x \in Seq(Units) /\ y \in Seq(Units)
      BY <1>5, <1>6
    <2> QED BY <1>7, <1>8, <2>1, SeqEqual
  <1> QED BY <1>9 DEF x, y, c, d

\* What arrives moves from the wire to the buffer.
LEMMA MoveToBuffer ==
    ASSUME NEW b \in Seq(Units), NEW w \in Seq(Units), NEW n \in 0 .. Len(w)
    PROVE  (b \o SubSeq(w, 1, n)) \o SubSeq(w, n + 1, Len(w)) = b \o w
  <1> DEFINE u == SubSeq(w, 1, n)
             v == SubSeq(w, n + 1, Len(w))
  <1>1. /\ u \in Seq(Units) /\ Len(u) = n /\ \A i \in 1 .. n : u[i] = w[i]
    BY FirstOf
  <1>2. /\ v \in Seq(Units) /\ Len(v) = Len(w) - n
        /\ \A i \in 1 .. Len(w) - n : v[i] = w[n + i]
    BY RestOf
  <1>3. Len(w) \in Nat /\ n \in Nat /\ n <= Len(w)
    OBVIOUS
  <1> HIDE DEF u, v
  <1>4. /\ u \o v \in Seq(Units) /\ Len(u \o v) = Len(u) + Len(v)
        /\ \A i \in 1 .. Len(u) : (u \o v)[i] = u[i]
        /\ \A i \in 1 .. Len(v) : (u \o v)[Len(u) + i] = v[i]
    BY <1>1, <1>2, Joined, Zenon
  <1>5. ASSUME NEW i \in 1 .. Len(w) PROVE (u \o v)[i] = w[i]
    <2>1. CASE i <= n
      <3>1. i \in 1 .. n
        BY <1>3, <2>1
      <3> QED BY <1>1, <1>4, <3>1
    <2>2. CASE i > n
      <3> DEFINE j == i - n
      <3>1. j \in 1 .. Len(w) - n /\ i = n + j
        BY <1>3, <2>2
      <3> HIDE DEF j
      <3>2. (u \o v)[n + j] = v[j] /\ v[j] = w[n + j]
        BY ONLY <1>1, <1>2, <1>4, <3>1, Zenon
      <3> QED BY ONLY <3>1, <3>2, Zenon
    <2>3. i <= n \/ i > n
      BY <1>3
    <2> QED BY <2>1, <2>2, <2>3, Zenon
  <1>6. u \o v = w
    <2>1. Len(u \o v) = Len(w)
      BY <1>1, <1>2, <1>3, <1>4
    <2> QED BY <1>4, <1>5, <2>1, SeqEqual
  <1>7. (b \o u) \o v = b \o (u \o v)
    BY <1>1, <1>2, JoinedTwice, Zenon
  <1> QED BY <1>6, <1>7 DEF u, v

-----------------------------------------------------------------------------
(* The lines a well-formed client sends. *)

\* A line of one unit.
LEMMA WordLine ==
    ASSUME NEW b \in Seq(Units), HasCRLF(b), b[1] # "crlf", Len(b) >= 2 => b[2] = "crlf"
    PROVE  /\ 2 \in 0 .. Len(b)
           /\ Line(b) = <<b[1]>>
           /\ AfterLine(b) = Behind(b, 2)
  <1>1. PICK n \in 1 .. Len(b) :
              /\ b[n] = "crlf"
              /\ \A i \in 1 .. n - 1 : b[i] # "crlf"
              /\ Line(b) = SubSeq(b, 1, n - 1)
              /\ AfterLine(b) = SubSeq(b, n + 1, Len(b))
    BY LineFacts
  <1>2. Len(b) \in Nat
    OBVIOUS
  <1>3. n # 1
    BY <1>1
  <1>4. n >= 2 /\ Len(b) >= 2
    BY <1>2, <1>3
  <1>5. ~(2 \in 1 .. n - 1)
    BY <1>1, <1>4
  <1>6. n = 2
    BY <1>2, <1>4, <1>5
  <1>7. SubSeq(b, 1, 1) = <<b[1]>>
    <2>1. b[1] \in Units /\ 1 \in 0 .. Len(b)
      BY <1>4
    <2>2. /\ SubSeq(b, 1, 1) \in Seq(Units) /\ Len(SubSeq(b, 1, 1)) = 1
          /\ \A i \in 1 .. 1 : SubSeq(b, 1, 1)[i] = b[i]
      BY <2>1, FirstOf
    <2>3. <<b[1]>> \in Seq(Units) /\ Len(<<b[1]>>) = 1 /\ \A i \in 1 .. 1 : <<b[1]>>[i] = b[i]
      BY <2>1
    <2> QED BY <2>2, <2>3, SeqEqual
  <1> QED BY <1>1, <1>2, <1>4, <1>6, <1>7 DEF Behind

\* The empty line.
LEMMA EmptyLine ==
    ASSUME NEW b \in Seq(Units), HasCRLF(b), b[1] = "crlf"
    PROVE  /\ 1 \in 0 .. Len(b)
           /\ Line(b) = <<>>
           /\ AfterLine(b) = Behind(b, 1)
  <1>1. PICK n \in 1 .. Len(b) :
              /\ b[n] = "crlf"
              /\ \A i \in 1 .. n - 1 : b[i] # "crlf"
              /\ Line(b) = SubSeq(b, 1, n - 1)
              /\ AfterLine(b) = SubSeq(b, n + 1, Len(b))
    BY LineFacts
  <1>2. Len(b) \in Nat
    OBVIOUS
  <1>3. ~(1 \in 1 .. n - 1)
    BY <1>1
  <1>4. n = 1
    BY <1>2, <1>3
  <1>5. SubSeq(b, 1, 0) = <<>>
    OBVIOUS
  <1> QED BY <1>1, <1>2, <1>4, <1>5 DEF Behind

\* The part of the current request that is ahead.
LEMMA InFront ==
    ASSUME NEW sent \in Seq(Requests), NEW k \in 1 .. Len(sent), NEW rest \in Seq(Units),
           NEW off, Ahead(off, sent, k, rest), NEW d \in Nat, off[k] + d = 0
    PROVE  /\ Len(Encode(sent[k])) \in Nat
           /\ Len(Encode(sent[k])) - d <= Len(rest)
           /\ \A j \in 1 .. Len(Encode(sent[k])) - d : rest[j] = Encode(sent[k])[d + j]
  <1> DEFINE E == Encode(sent[k])
  <1>1. sent[k] \in Requests /\ Len(sent) \in Nat /\ Len(rest) \in Nat
    OBVIOUS
  <1>2. E \in Seq(Units) /\ Len(E) \in Nat
    BY <1>1, RequestFacts
  <1>3. /\ off[k + 1] = off[k] + Len(E) /\ off[k + 1] <= Len(rest)
        /\ \A j \in 1 .. Len(E) : off[k] + j >= 1 => rest[off[k] + j] = E[j]
    <2>1. k + 1 \in 1 .. Len(sent) + 1 /\ k \in k .. Len(sent)
      BY <1>1
    <2> QED BY <2>1 DEF Ahead
  <1> HIDE DEF E
  <1>0. off[k] \in Int
    BY <1>1 DEF Ahead
  <1>4. Len(E) - d <= Len(rest)
    BY <1>0, <1>1, <1>2, <1>3
  <1>5. ASSUME NEW j \in 1 .. Len(E) - d PROVE rest[j] = E[d + j]
    <2>1. d + j \in 1 .. Len(E) /\ off[k] + (d + j) = j /\ j >= 1
      <3>1. off[k] = -d
        BY <1>0
      <3> QED BY ONLY <1>2, <3>1, d \in Nat, j \in 1 .. Len(E) - d
    <2> QED BY <1>3, <2>1
  <1> QED BY <1>2, <1>4, <1>5 DEF E

LEMMA BufferFront ==
    ASSUME NEW sent \in Seq(Requests), NEW k \in 1 .. Len(sent),
           NEW b \in Seq(Units), NEW w \in Seq(Units),
           NEW off, Ahead(off, sent, k, b \o w), NEW d, Place(off, k, d)
    PROVE  \A j \in 1 .. Len(b) :
              j <= Len(Encode(sent[k])) - d => b[j] = Encode(sent[k])[d + j]
  <1>4. d \in Nat /\ off[k] + d = 0
    BY DEF Place
  <1> DEFINE c == b \o w
  <1>1. c \in Seq(Units) /\ \A j \in 1 .. Len(b) : c[j] = b[j]
    BY Joined, Zenon
  <1>0. Ahead(off, sent, k, c)
    OBVIOUS
  <1> HIDE DEF c
  <1>2. /\ Len(Encode(sent[k])) \in Nat
        /\ \A j \in 1 .. Len(Encode(sent[k])) - d : c[j] = Encode(sent[k])[d + j]
    BY ONLY <1>0, <1>1, <1>4, InFront, sent \in Seq(Requests), k \in 1 .. Len(sent)
  <1> SUFFICES ASSUME NEW j \in 1 .. Len(b), j <= Len(Encode(sent[k])) - d
               PROVE  b[j] = Encode(sent[k])[d + j]
    OBVIOUS
  <1>3. j \in 1 .. Len(Encode(sent[k])) - d
    BY <1>2, <1>4
  <1> QED BY ONLY <1>1, <1>2, <1>3, j \in 1 .. Len(b), Zenon

\* The same when nothing of the request has been taken.
LEMMA BufferStart ==
    ASSUME NEW sent \in Seq(Requests), NEW k \in 1 .. Len(sent),
           NEW b \in Seq(Units), NEW w \in Seq(Units),
           NEW off, Ahead(off, sent, k, b \o w), off[k] = 0
    PROVE  \A j \in 1 .. Len(b) :
              j <= Len(Encode(sent[k])) => b[j] = Encode(sent[k])[j]
  <1>1. Place(off, k, 0)
    BY DEF Place
  <1>2. \A j \in 1 .. Len(b) :
              j <= Len(Encode(sent[k])) - 0 => b[j] = Encode(sent[k])[0 + j]
    BY <1>1, BufferFront
  <1>3. sent[k] \in Requests
    OBVIOUS
  <1>4. Len(Encode(sent[k])) \in Nat
    BY <1>3, RequestFacts
  <1> QED BY <1>2, <1>4

LEMMA ConsumeAhead ==
    ASSUME NEW sent \in Seq(Requests), NEW k \in 1 .. Len(sent) + 1,
           NEW c \in Seq(Units), NEW off, Ahead(off, sent, k, c), NEW n \in 0 .. Len(c)
    PROVE  \E o : Ahead(o, sent, k, Behind(c, n)) /\ o[k] = off[k] - n
  <1>1. PICK o : /\ Ahead(o, sent, k, SubSeq(c, n + 1, Len(c)))
                 /\ \A i \in 1 .. Len(sent) + 1 : o[i] = off[i] - n
    BY AheadConsume
  <1> QED BY <1>1 DEF Behind

\* Taking n units from the buffer.
LEMMA Taken ==
    ASSUME NEW sent \in Seq(Requests), NEW k \in 1 .. Len(sent) + 1,
           NEW b \in Seq(Units), NEW w \in Seq(Units),
           NEW off, Ahead(off, sent, k, b \o w), NEW n \in 0 .. Len(b)
    PROVE  \E o : Ahead(o, sent, k, Behind(b, n) \o w) /\ o[k] = off[k] - n
  <1> DEFINE c == b \o w
  <1>1. c \in Seq(Units) /\ Len(c) = Len(b) + Len(w)
    BY Joined, Zenon
  <1>2. n \in 0 .. Len(c)
    BY <1>1
  <1>3. Behind(c, n) = Behind(b, n) \o w
    BY TakeFront DEF Behind
  <1>4. Ahead(off, sent, k, c)
    OBVIOUS
  <1> HIDE DEF c
  <1>5. \E o : Ahead(o, sent, k, Behind(c, n)) /\ o[k] = off[k] - n
    BY <1>1, <1>2, <1>4, ConsumeAhead
  <1> QED BY <1>3, <1>5

-----------------------------------------------------------------------------
(* What the rounds change of the parser. *)

WithVersion(p, v) == [p EXCEPT !.request.version = v, !.state = "expectHeaders"]
WithHeader(p, line, n) ==
    [p EXCEPT !.request.headers = @ \cup {line}, !.contentLength = n]
WithBody(p, body) == [p EXCEPT !.request.body = body, !.state = "gotAll"]
WithState(p, s) == [p EXCEPT !.state = s]

LEMMA VersionSet ==
    ASSUME NEW p \in Parsers, NEW v
    PROVE  LET q == WithVersion(p, v)
           IN  /\ q.state = "expectHeaders" /\ q.contentLength = p.contentLength
               /\ q.request.version = v /\ q.request.headers = p.request.headers
               /\ q.request.body = p.request.body
  BY DEF Parsers, ParsedRequests, WithVersion

LEMMA HeaderSet ==
    ASSUME NEW p \in Parsers, NEW line, NEW n
    PROVE  LET q == WithHeader(p, line, n)
           IN  /\ q.state = p.state /\ q.contentLength = n
               /\ q.request.version = p.request.version
               /\ q.request.headers = p.request.headers \cup {line}
               /\ q.request.body = p.request.body
  BY DEF Parsers, ParsedRequests, WithHeader

LEMMA BodySet ==
    ASSUME NEW p \in Parsers, NEW body
    PROVE  LET q == WithBody(p, body)
           IN  /\ q.state = "gotAll"
               /\ q.request.version = p.request.version
               /\ q.request.headers = p.request.headers
               /\ q.request.body = body
  BY DEF Parsers, ParsedRequests, WithBody

LEMMA StateSet ==
    ASSUME NEW p \in Parsers, NEW s
    PROVE  LET q == WithState(p, s)
           IN  q.state = s /\ q.request = p.request /\ q.contentLength = p.contentLength
  BY DEF Parsers, WithState

-----------------------------------------------------------------------------
(* A round on the requests of a well-formed client. *)

OnTrack(p, b, w, sent, k) ==
    \E off : Ahead(off, sent, k, b \o w) /\ Follows(off, p, sent, k)

\* The next round needs more input.
Stuck(p, b) ==
    IF p.state = "expectBody" THEN Len(b) < p.contentLength ELSE ~HasCRLF(b)

\* A round stays on track; it refuses only what is to be refused, and it ends
\* before the request is complete only for want of input.
RoundIsRight(res, w, sent, k) ==
    /\ OnTrack(res.parser, res.buf, w, sent, k)
    /\ ~res.ok => k <= Len(sent) /\ sent[k].line \notin RequestLines
    /\ ~res.more /\ res.ok /\ res.parser.state # "gotAll" => Stuck(res.parser, res.buf)

LEMMA ResultRight ==
    ASSUME NEW sent, NEW k, NEW w, NEW q, NEW c, NEW ok \in BOOLEAN, NEW more \in BOOLEAN,
           OnTrack(q, c, w, sent, k),
           ~ok => k <= Len(sent) /\ sent[k].line \notin RequestLines,
           ~more /\ ok /\ q.state # "gotAll" => Stuck(q, c)
    PROVE  RoundIsRight(Result(q, c, ok, more), w, sent, k)
  <1> DEFINE r == Result(q, c, ok, more)
  <1>1. r.parser = q /\ r.buf = c /\ r.ok = ok /\ r.more = more
    BY ResultParts
  <1> HIDE DEF r
  <1>2. RoundIsRight(r, w, sent, k)
    BY <1>1, Zenon DEF RoundIsRight
  <1> QED BY <1>2 DEF r

LEMMA RequestLineRight ==
    ASSUME NEW sent \in Seq(Requests), NEW k \in 1 .. Len(sent) + 1,
           NEW b \in Seq(Units), NEW w \in Seq(Units),
           NEW off, Ahead(off, sent, k, b \o w), off[k] = 0
    PROVE  RoundIsRight(RequestLineRound(NewParser, b), w, sent, k)
  <1>1. OnTrack(NewParser, b, w, sent, k)
    BY DEF OnTrack, Follows
  <1>2. NewParser.state = "expectRequestLine"
    BY NewParserType
  <1>3. CASE ~HasCRLF(b)
    <2>1. Stuck(NewParser, b)
      BY <1>2, <1>3 DEF Stuck
    <2>2. RoundIsRight(Result(NewParser, b, TRUE, FALSE), w, sent, k)
      BY <1>1, <2>1, ResultRight
    <2> QED BY <1>3, <2>2 DEF RequestLineRound, Incomplete
  <1>4. CASE HasCRLF(b)
    <2> DEFINE r == sent[k]
               E == Encode(r)
    <2>1. Len(b) \in Nat /\ Len(b) >= 1 /\ Len(w) \in Nat /\ Len(sent) \in Nat
      BY <1>4, LineFacts
    <2>2. k \in 1 .. Len(sent)
      <3>1. Len(b \o w) = Len(b) + Len(w)
        BY Joined, Zenon
      <3>2. off[Len(sent) + 1] = Len(b \o w)
        BY DEF Ahead
      <3>3. k # Len(sent) + 1
        BY <2>1, <3>1, <3>2
      <3> QED BY <2>1, <3>3
    <2>3. r \in Requests /\ r \in RequestType /\ r.line \in RequestLines \cup {"word"}
      BY <2>2, RequestFacts DEF RequestType
    <2>4. /\ E[1] = r.line /\ E[2] = "crlf" /\ Len(E) \in Nat /\ Len(E) >= 3
      BY <2>3, EncodeFacts, EncodeLength
    <2>5. \A j \in 1 .. Len(b) : j <= Len(E) => b[j] = E[j]
      BY <2>2, BufferStart
    <2> HIDE DEF E, r
    <2>6. b[1] = r.line /\ (Len(b) >= 2 => b[2] = "crlf")
      BY <2>1, <2>4, <2>5
    <2>7. r.line # "crlf"
      BY <2>3 DEF RequestLines
    <2>8. /\ 2 \in 0 .. Len(b) /\ Line(b) = <<r.line>>
          /\ AfterLine(b) = Behind(b, 2)
      BY <1>4, <2>6, <2>7, WordLine
    <2>9. CASE r.line \in RequestLines
      <3> DEFINE q == WithVersion(NewParser, Line(b)[1])
      <3>1. RequestLineRound(NewParser, b) = Result(q, AfterLine(b), TRUE, TRUE)
        BY <1>4, <2>8, <2>9 DEF RequestLineRound, WithVersion
      <3>2. /\ q.state = "expectHeaders" /\ q.request.version = r.line
            /\ q.request.headers = HeadersRead(r, 0) /\ q.request.body = <<>>
            /\ q.contentLength = LengthAfter(r, 0)
        <4>1. Line(b)[1] = r.line
          BY <2>8
        <4>2. HeadersRead(r, 0) = {} /\ LengthAfter(r, 0) = 0
          BY DEF HeadersRead, LengthAfter
        <4>3. /\ NewParser.request.headers = {} /\ NewParser.request.body = <<>>
              /\ NewParser.contentLength = 0
          BY DEF NewParser, NoRequest
        <4>4. /\ q.state = "expectHeaders" /\ q.contentLength = NewParser.contentLength
              /\ q.request.version = Line(b)[1]
              /\ q.request.headers = NewParser.request.headers
              /\ q.request.body = NewParser.request.body
          BY NewParserType, VersionSet
        <4> QED BY <4>1, <4>2, <4>3, <4>4
      <3> HIDE DEF q
      <3>3. PICK o : /\ Ahead(o, sent, k, AfterLine(b) \o w) /\ o[k] = off[k] - 2
        BY <2>8, Taken
      <3>4. o[k] = -(2 + 2 * 0)
        BY <3>3
      <3>5. AtHeader(q, r, o[k], 0)
        BY <3>2, <3>4 DEF AtHeader
      <3>6. Follows(o, q, sent, k)
        <4>1. 0 \in 0 .. Len(r.headers)
          BY <2>3 DEF RequestType
        <4>2. k <= Len(sent)
          BY <2>1, <2>2
        <4> QED BY <2>9, <3>5, <4>1, <4>2 DEF Follows, r
      <3>7. OnTrack(q, AfterLine(b), w, sent, k)
        BY <3>3, <3>6 DEF OnTrack
      <3>8. RoundIsRight(Result(q, AfterLine(b), TRUE, TRUE), w, sent, k)
        BY <3>7, ResultRight
      <3> QED BY <3>1, <3>8
    <2>10. CASE r.line \notin RequestLines
      <3>1. Line(b) \notin {<<l>> : l \in RequestLines}
        BY <2>8, <2>10
      <3>2. RequestLineRound(NewParser, b) = Result(NewParser, b, FALSE, FALSE)
        BY <1>4, <3>1 DEF RequestLineRound
      <3>3. k <= Len(sent) /\ sent[k].line \notin RequestLines
        BY <2>1, <2>2, <2>10 DEF r
      <3>4. RoundIsRight(Result(NewParser, b, FALSE, FALSE), w, sent, k)
        BY <1>1, <3>3, ResultRight
      <3> QED BY <3>2, <3>4
    <2> QED BY <2>9, <2>10
  <1> QED BY <1>3, <1>4

LEMMA HeadersReadNext ==
    ASSUME NEW r, NEW h \in Nat
    PROVE  /\ HeadersRead(r, h + 1) = HeadersRead(r, h) \cup {<<r.headers[h + 1]>>}
           /\ LengthAfter(r, h + 1) =
                 IF r.headers[h + 1] \in DOMAIN Stoul THEN Len(r.body) ELSE LengthAfter(r, h)
  <1>1. 1 .. h + 1 = (1 .. h) \cup {h + 1}
    OBVIOUS
  <1> QED BY <1>1 DEF HeadersRead, LengthAfter

\* What is ahead after h headers: the next one, or the empty line.
LEMMA HeaderAhead ==
    ASSUME NEW r \in RequestType, NEW h \in 0 .. Len(r.headers)
    PROVE  /\ 2 + 2 * h \in Nat
           /\ h < Len(r.headers) =>
                 /\ Encode(r)[(2 + 2 * h) + 1] = r.headers[h + 1]
                 /\ Encode(r)[(2 + 2 * h) + 2] = "crlf"
                 /\ 2 <= Len(Encode(r)) - (2 + 2 * h)
           /\ h = Len(r.headers) =>
                 /\ Encode(r)[(2 + 2 * h) + 1] = "crlf"
                 /\ 1 <= Len(Encode(r)) - (2 + 2 * h)
  <1> DEFINE H == Len(r.headers)
             B == Len(r.body)
             E == Encode(r)
             L == Len(E)
  <1>1. /\ H \in Nat /\ B \in Nat /\ L = 3 + 2 * H + B
        /\ \A i \in 1 .. H : E[2 * i + 1] = r.headers[i] /\ E[2 * i + 2] = "crlf"
        /\ E[3 + 2 * H] = "crlf" /\ h \in 0 .. H
    BY EncodeFacts
  <1> HIDE DEF H, B, L, E
  <1>2. /\ 2 + 2 * h \in Nat
        /\ h < H => /\ h + 1 \in 1 .. H /\ 2 * (h + 1) + 1 = (2 + 2 * h) + 1
                    /\ 2 * (h + 1) + 2 = (2 + 2 * h) + 2 /\ 2 <= L - (2 + 2 * h)
        /\ h = H => 3 + 2 * H = (2 + 2 * h) + 1 /\ 1 <= L - (2 + 2 * h)
    BY ONLY <1>1
  <1>3. h < H => E[2 * (h + 1) + 1] = r.headers[h + 1] /\ E[2 * (h + 1) + 2] = "crlf"
    BY <1>1, <1>2
  <1> QED BY <1>1, <1>2, <1>3 DEF H, L, E

LEMMA FollowsIs ==
    ASSUME NEW sent, NEW k, NEW b, NEW w, NEW o, NEW q,
           Ahead(o, sent, k, b \o w), k <= Len(sent), sent[k].line \in RequestLines,
           \/ \E h \in 0 .. Len(sent[k].headers) : AtHeader(q, sent[k], o[k], h)
           \/ AtBody(q, sent[k], o[k])
           \/ AtEnd(q, sent[k], o[k])
    PROVE  OnTrack(q, b, w, sent, k)
  BY Zenon DEF OnTrack, Follows

LEMMA WellFormedIs ==
    ASSUME WellFormedRequests, NEW r \in Requests, r.line \in RequestLines
    PROVE  /\ r \in RequestType
           /\ \A i \in 1 .. Len(r.headers) :
                 /\ r.headers[i] \in Headers
                 /\ r.headers[i] \in DOMAIN Stoul => Stoul[r.headers[i]] = Len(r.body)
           /\ LengthAfter(r, Len(r.headers)) = Len(r.body)
  <1>1. r \in RequestType /\ r.headers \in Seq(Headers \cup {"word"}) /\ r.body \in Seq(Units)
    BY RequestFacts DEF RequestType
  <1>2. /\ Range(r.headers) \subseteq Headers
        /\ \A h \in Range(r.headers) \cap DOMAIN Stoul : Stoul[h] = Len(r.body)
        /\ Range(r.headers) \cap DOMAIN Stoul = {} => r.body = <<>>
    BY DEF WellFormedRequests, WellFormed
  <1>3. Range(r.headers) = {r.headers[i] : i \in 1 .. Len(r.headers)}
    BY <1>1 DEF Range
  <1>4. LengthAfter(r, Len(r.headers)) = Len(r.body)
    <2>1. CASE \E i \in 1 .. Len(r.headers) : r.headers[i] \in DOMAIN Stoul
      BY <2>1 DEF LengthAfter
    <2>2. CASE ~\E i \in 1 .. Len(r.headers) : r.headers[i] \in DOMAIN Stoul
      <3>1. Range(r.headers) \cap DOMAIN Stoul = {}
        BY <1>3, <2>2
      <3>2. Len(r.body) = 0
        BY <1>2, <3>1
      <3> QED BY <2>2, <3>2 DEF LengthAfter
    <2> QED BY <2>1, <2>2
  <1> QED BY <1>1, <1>2, <1>3, <1>4

LEMMA HeaderNames == "crlf" \notin Headers /\ Headers \subseteq Units
  BY ParserAssumption DEF Headers, Units

\* The next header is read.
LEMMA NextHeaderRight ==
    ASSUME WellFormedRequests, NEW sent \in Seq(Requests), NEW k \in 1 .. Len(sent),
           NEW b \in Seq(Units), NEW w \in Seq(Units), NEW p \in Parsers,
           NEW off, Ahead(off, sent, k, b \o w), sent[k].line \in RequestLines,
           NEW h \in 0 .. Len(sent[k].headers), AtHeader(p, sent[k], off[k], h),
           HasCRLF(b), h < Len(sent[k].headers)
    PROVE  RoundIsRight(HeaderRound(p, b), w, sent, k)
  <1> DEFINE r == sent[k]
             E == Encode(r)
             x == r.headers[h + 1]
             d == 2 + 2 * h
             n == IF x \in DOMAIN Stoul THEN Stoul[x] ELSE p.contentLength
             q == WithHeader(p, <<x>>, n)
  <1>1. r \in Requests /\ r \in RequestType /\ Len(b) \in Nat /\ Len(sent) \in Nat
    BY RequestFacts
  <1>2. h \in Nat /\ Len(r.headers) \in Nat /\ h + 1 \in 1 .. Len(r.headers)
    BY <1>1, EncodeFacts
  <1>3. x \in Headers /\ (x \in DOMAIN Stoul => Stoul[x] = Len(r.body))
    BY <1>1, <1>2, WellFormedIs
  <1>4. /\ d \in Nat /\ E[d + 1] = x /\ E[d + 2] = "crlf" /\ 2 <= Len(E) - d
        /\ Len(E) \in Nat
    BY <1>1, HeaderAhead, EncodeLength
  <1>5. off[k] = -d
    BY DEF AtHeader
  <1> HIDE DEF d, x
  <1>6. Place(off, k, d)
    BY <1>4, <1>5 DEF Place
  <1>7. \A j \in 1 .. Len(b) : j <= Len(E) - d => b[j] = E[d + j]
    BY <1>6, BufferFront
  <1> HIDE DEF r, E
  <1>8. Len(b) >= 1
    BY LineFacts, <1>1
  <1>9. b[1] = x /\ (Len(b) >= 2 => b[2] = "crlf")
    <2>1. 1 \in 1 .. Len(b) /\ 1 <= Len(E) - d /\ 2 <= Len(E) - d
      BY <1>1, <1>4, <1>8
    <2>2. Len(b) >= 2 => 2 \in 1 .. Len(b)
      BY <1>1
    <2> QED BY <1>4, <1>7, <2>1, <2>2
  <1>10. x # "crlf"
    BY <1>3, HeaderNames
  <1>11. 2 \in 0 .. Len(b) /\ Line(b) = <<x>> /\ AfterLine(b) = Behind(b, 2)
    BY <1>9, <1>10, WordLine
  <1>12. HeaderRound(p, b) = Result(q, AfterLine(b), TRUE, TRUE)
    <2>1. Range(<<x>>) \cap Headers # {}
      <3>1. x \in Range(<<x>>)
        BY DEF Range
      <3> QED BY <1>3, <3>1
    <2>2. <<x>> \in {<<y>> : y \in DOMAIN Stoul} <=> x \in DOMAIN Stoul
      OBVIOUS
    <2>3. <<x>>[1] = x
      OBVIOUS
    <2> QED BY <1>11, <2>1, <2>2, <2>3 DEF HeaderRound, WithHeader
  <1>13. /\ q.state = "expectHeaders" /\ q.request.version = r.line
         /\ q.request.headers = HeadersRead(r, h + 1) /\ q.request.body = <<>>
         /\ q.contentLength = LengthAfter(r, h + 1)
    <2>1. /\ p.state = "expectHeaders" /\ p.request.version = r.line
          /\ p.request.headers = HeadersRead(r, h) /\ p.request.body = <<>>
          /\ p.contentLength = LengthAfter(r, h)
      BY DEF AtHeader, r
    <2>2. /\ HeadersRead(r, h + 1) = HeadersRead(r, h) \cup {<<x>>}
          /\ LengthAfter(r, h + 1) =
                 IF x \in DOMAIN Stoul THEN Len(r.body) ELSE LengthAfter(r, h)
      BY <1>2, HeadersReadNext DEF x
    <2>3. n = LengthAfter(r, h + 1)
      BY <1>3, <2>1, <2>2
    <2> HIDE DEF n
    <2>4. /\ q.state = p.state /\ q.contentLength = n
          /\ q.request.version = p.request.version
          /\ q.request.headers = p.request.headers \cup {<<x>>}
          /\ q.request.body = p.request.body
      BY HeaderSet
    <2> QED BY <2>1, <2>2, <2>3, <2>4
  <1> HIDE DEF q
  <1>14. PICK o : Ahead(o, sent, k, AfterLine(b) \o w) /\ o[k] = off[k] - 2
    BY <1>11, Taken
  <1>15. o[k] = -(2 + 2 * (h + 1))
    BY <1>2, <1>5, <1>14 DEF d
  <1>16. AtHeader(q, r, o[k], h + 1)
    BY <1>13, <1>15 DEF AtHeader
  <1>17. k <= Len(sent) /\ h + 1 \in 0 .. Len(r.headers)
    BY <1>1, <1>2
  <1>18. OnTrack(q, AfterLine(b), w, sent, k)
    <2>1. \E i \in 0 .. Len(r.headers) : AtHeader(q, r, o[k], i)
      BY <1>16, <1>17, Zenon
    <2> QED BY <1>14, <1>17, <2>1, FollowsIs DEF r
  <1>19. RoundIsRight(Result(q, AfterLine(b), TRUE, TRUE), w, sent, k)
    BY <1>18, ResultRight
  <1> QED BY <1>12, <1>19

\* The empty line is read: the body follows, or the request is complete.
LEMMA HeadersEndRight ==
    ASSUME WellFormedRequests, NEW sent \in Seq(Requests), NEW k \in 1 .. Len(sent),
           NEW b \in Seq(Units), NEW w \in Seq(Units), NEW p \in Parsers,
           NEW off, Ahead(off, sent, k, b \o w), sent[k].line \in RequestLines,
           AtHeader(p, sent[k], off[k], Len(sent[k].headers)), HasCRLF(b)
    PROVE  RoundIsRight(HeaderRound(p, b), w, sent, k)
  <1> DEFINE r == sent[k]
             E == Encode(r)
             H == Len(r.headers)
             B == Len(r.body)
             d == 2 + 2 * H
             q == WithState(p, IF p.contentLength > 0 THEN "expectBody" ELSE "gotAll")
  <1>1. r \in Requests /\ r \in RequestType /\ Len(b) \in Nat /\ Len(sent) \in Nat
    BY RequestFacts
  <1>2. H \in Nat /\ B \in Nat /\ Len(E) = 3 + 2 * H + B
    BY <1>1, EncodeFacts
  <1>0. H \in 0 .. H
    BY <1>2
  <1>3. LengthAfter(r, H) = B
    BY <1>1, WellFormedIs
  <1>4. d \in Nat /\ E[d + 1] = "crlf" /\ 1 <= Len(E) - d /\ Len(E) \in Nat
    BY <1>0, <1>1, HeaderAhead, EncodeLength
  <1>5. off[k] = -d
    BY DEF AtHeader
  <1> HIDE DEF d
  <1>6. Place(off, k, d)
    BY <1>4, <1>5 DEF Place
  <1>7. \A j \in 1 .. Len(b) : j <= Len(E) - d => b[j] = E[d + j]
    BY <1>6, BufferFront
  <1>8. /\ p.request.version = r.line
        /\ p.request.headers = HeadersRead(r, H) /\ p.request.body = <<>>
        /\ p.contentLength = B
    BY <1>3 DEF AtHeader
  <1>9. r.body \in Seq(Units)
    BY <1>1 DEF RequestType
  <1> HIDE DEF E, H, B
  <1>10. b[1] = "crlf"
    <2>1. Len(b) >= 1
      BY LineFacts, <1>1
    <2>2. 1 \in 1 .. Len(b)
      BY <1>1, <2>1
    <2> QED BY <1>4, <1>7, <2>2
  <1>11. 1 \in 0 .. Len(b) /\ Line(b) = <<>> /\ AfterLine(b) = Behind(b, 1)
    BY <1>10, EmptyLine
  <1>12. HeaderRound(p, b) = Result(q, AfterLine(b), TRUE, p.contentLength > 0)
    <2>1. Range(<<>>) \cap Headers = {}
      BY DEF Range
    <2> QED BY <1>11, <2>1 DEF HeaderRound, WithState
  <1>13. /\ q.state = IF B > 0 THEN "expectBody" ELSE "gotAll"
         /\ q.request = p.request /\ q.contentLength = p.contentLength
    BY <1>8, StateSet
  <1> HIDE DEF q
  <1>14. PICK o : Ahead(o, sent, k, AfterLine(b) \o w) /\ o[k] = off[k] - 1
    BY <1>11, Taken
  <1>15. o[k] = -(3 + 2 * H)
    BY <1>2, <1>5, <1>14 DEF d
  <1>16. k <= Len(sent)
    BY <1>1
  <1>17. CASE B > 0
    <2>1. AtBody(q, r, o[k])
      BY <1>8, <1>13, <1>15, <1>17 DEF AtBody, H, B
    <2>2. OnTrack(q, AfterLine(b), w, sent, k)
      BY <1>14, <1>16, <2>1, FollowsIs
    <2>3. RoundIsRight(Result(q, AfterLine(b), TRUE, TRUE), w, sent, k)
      BY <2>2, ResultRight
    <2>4. (p.contentLength > 0) = TRUE
      BY <1>8, <1>17
    <2> QED BY <1>12, <2>3, <2>4
  <1>18. CASE B = 0
    <2>1. r.body = <<>>
      BY <1>9, <1>18 DEF B
    <2>2. o[k] = -Len(E)
      BY <1>2, <1>15, <1>18
    <2>3. AtEnd(q, r, o[k])
      BY <1>8, <1>13, <1>18, <2>1, <2>2 DEF AtEnd, H, E
    <2>4. OnTrack(q, AfterLine(b), w, sent, k)
      BY <1>14, <1>16, <2>3, FollowsIs
    <2>5. q.state = "gotAll"
      BY <1>13, <1>18
    <2>6. RoundIsRight(Result(q, AfterLine(b), TRUE, FALSE), w, sent, k)
      BY <2>4, <2>5, ResultRight
    <2>7. (p.contentLength > 0) = FALSE
      BY <1>8, <1>18
    <2> QED BY <1>12, <2>6, <2>7
  <1> QED BY <1>2, <1>17, <1>18

\* The body is read when all of it is there.
LEMMA BodyRight ==
    ASSUME NEW sent \in Seq(Requests), NEW k \in 1 .. Len(sent),
           NEW b \in Seq(Units), NEW w \in Seq(Units), NEW p \in Parsers,
           NEW off, Ahead(off, sent, k, b \o w), sent[k].line \in RequestLines,
           AtBody(p, sent[k], off[k])
    PROVE  RoundIsRight(BodyRound(p, b), w, sent, k)
  <1> DEFINE r == sent[k]
             E == Encode(r)
             H == Len(r.headers)
             B == Len(r.body)
             d == 3 + 2 * H
             q == WithBody(p, SubSeq(b, 1, B))
  <1>1. /\ r \in Requests /\ r \in RequestType /\ Len(b) \in Nat /\ Len(sent) \in Nat
        /\ r.body \in Seq(Units)
    BY RequestFacts DEF RequestType
  <1>2. /\ H \in Nat /\ B \in Nat /\ Len(E) = 3 + 2 * H + B
        /\ \A j \in 1 .. B : E[d + j] = r.body[j]
    BY <1>1, EncodeFacts
  <1>3. /\ off[k] = -d /\ p.state = "expectBody" /\ p.contentLength = B
        /\ p.request.version = r.line /\ p.request.headers = HeadersRead(r, H)
    BY DEF AtBody
  <1>4. k <= Len(sent)
    BY <1>1
  <1>5. CASE Len(b) < B
    <2>1. OnTrack(p, b, w, sent, k)
      BY <1>4, FollowsIs
    <2>2. Stuck(p, b)
      BY <1>3, <1>5 DEF Stuck
    <2>3. RoundIsRight(Result(p, b, TRUE, FALSE), w, sent, k)
      BY <2>1, <2>2, ResultRight
    <2> QED BY <1>3, <1>5, <2>3 DEF BodyRound, Incomplete
  <1>6. CASE ~(Len(b) < B)
    <2>1. BodyRound(p, b) = Result(q, Behind(b, B), TRUE, FALSE)
      BY <1>3, <1>6 DEF BodyRound, WithBody, Behind
    <2>2. d \in Nat /\ Len(E) - d = B /\ B \in 0 .. Len(b) /\ -(3 + 2 * H) - B = -Len(E)
      <3> HIDE DEF H, B, E
      <3> QED BY <1>1, <1>2, <1>6
    <2>3. Place(off, k, d)
      <3> HIDE DEF d
      <3> QED BY <1>3, <2>2 DEF Place
    <2>4. \A j \in 1 .. Len(b) : j <= Len(E) - d => b[j] = E[d + j]
      <3> HIDE DEF d
      <3> QED BY <2>3, BufferFront
    <2> HIDE DEF d, E
    <2>5. SubSeq(b, 1, B) = r.body
      <3>1. /\ SubSeq(b, 1, B) \in Seq(Units) /\ Len(SubSeq(b, 1, B)) = B
            /\ \A i \in 1 .. B : SubSeq(b, 1, B)[i] = b[i]
        BY <2>2, FirstOf
      <3>2. \A j \in 1 .. B : j \in 1 .. Len(b) /\ j <= Len(E) - d
        <4> HIDE DEF B
        <4> QED BY ONLY <1>1, <1>2, <2>2
      <3>3. \A j \in 1 .. B : SubSeq(b, 1, B)[j] = r.body[j]
        BY <1>2, <2>4, <3>1, <3>2
      <3> QED BY <1>1, <3>1, <3>3, SeqEqual
    <2>6. /\ q.state = "gotAll" /\ q.request.version = r.line
          /\ q.request.headers = HeadersRead(r, H) /\ q.request.body = r.body
      <3>1. /\ q.state = "gotAll" /\ q.request.version = p.request.version
            /\ q.request.headers = p.request.headers /\ q.request.body = SubSeq(b, 1, B)
        BY BodySet
      <3> QED BY <1>3, <2>5, <3>1
    <2> HIDE DEF q
    <2>7. PICK o : Ahead(o, sent, k, Behind(b, B) \o w) /\ o[k] = off[k] - B
      <3>1. k \in 1 .. Len(sent) + 1
        BY <1>1
      <3> HIDE DEF B
      <3> QED BY <2>2, <3>1, Taken
    <2>8. o[k] = -Len(E)
      BY <1>3, <2>2, <2>7 DEF d
    <2>9. AtEnd(q, r, o[k])
      BY <2>6, <2>8 DEF AtEnd, E
    <2>10. OnTrack(q, Behind(b, B), w, sent, k)
      BY <1>4, <2>7, <2>9, FollowsIs
    <2>11. RoundIsRight(Result(q, Behind(b, B), TRUE, FALSE), w, sent, k)
      BY <2>6, <2>10, ResultRight
    <2> QED BY <2>1, <2>11
  <1> QED BY <1>5, <1>6

LEMMA HeaderRight ==
    ASSUME WellFormedRequests, NEW sent \in Seq(Requests), NEW k \in 1 .. Len(sent),
           NEW b \in Seq(Units), NEW w \in Seq(Units), NEW p \in Parsers,
           NEW off, Ahead(off, sent, k, b \o w), sent[k].line \in RequestLines,
           NEW h \in 0 .. Len(sent[k].headers), AtHeader(p, sent[k], off[k], h)
    PROVE  RoundIsRight(HeaderRound(p, b), w, sent, k)
  <1>1. CASE ~HasCRLF(b)
    <2>1. k <= Len(sent)
      OBVIOUS
    <2>2. OnTrack(p, b, w, sent, k)
      BY <2>1, FollowsIs
    <2>3. Stuck(p, b)
      BY <1>1 DEF Stuck, AtHeader
    <2>4. RoundIsRight(Result(p, b, TRUE, FALSE), w, sent, k)
      BY <2>2, <2>3, ResultRight
    <2> QED BY <1>1, <2>4 DEF HeaderRound, Incomplete
  <1>2. CASE HasCRLF(b) /\ h < Len(sent[k].headers)
    BY <1>2, NextHeaderRight
  <1>3. CASE HasCRLF(b) /\ h = Len(sent[k].headers)
    BY <1>3, HeadersEndRight
  <1>4. h < Len(sent[k].headers) \/ h = Len(sent[k].headers)
    <2>1. sent[k] \in RequestType
      BY RequestFacts
    <2>2. Len(sent[k].headers) \in Nat
      BY <2>1, EncodeFacts
    <2> QED BY <2>2
  <1> QED BY <1>1, <1>2, <1>3, <1>4, Zenon

LEMMA RoundRight ==
    ASSUME WellFormedRequests, NEW sent \in Seq(Requests), NEW k \in 1 .. Len(sent) + 1,
           NEW b \in Seq(Units), NEW w \in Seq(Units), NEW p \in Parsers,
           OnTrack(p, b, w, sent, k), p.state # "gotAll"
    PROVE  RoundIsRight(Round(p, b), w, sent, k)
  <1>1. PICK off : Ahead(off, sent, k, b \o w) /\ Follows(off, p, sent, k)
    BY DEF OnTrack
  <1>2. CASE p = NewParser /\ off[k] = 0
    <2>1. RoundIsRight(RequestLineRound(NewParser, b), w, sent, k)
      BY <1>1, <1>2, RequestLineRight
    <2> QED BY <1>2, <2>1, NewParserType DEF Round
  <1>3. CASE /\ k <= Len(sent) /\ sent[k].line \in RequestLines
             /\ \/ \E h \in 0 .. Len(sent[k].headers) : AtHeader(p, sent[k], off[k], h)
                \/ AtBody(p, sent[k], off[k])
                \/ AtEnd(p, sent[k], off[k])
    <2>1. k \in 1 .. Len(sent)
      BY <1>3
    <2>2. CASE \E h \in 0 .. Len(sent[k].headers) : AtHeader(p, sent[k], off[k], h)
      <3>1. PICK h \in 0 .. Len(sent[k].headers) : AtHeader(p, sent[k], off[k], h)
        BY <2>2
      <3>2. RoundIsRight(HeaderRound(p, b), w, sent, k)
        BY <1>1, <1>3, <2>1, <3>1, HeaderRight
      <3> QED BY <3>1, <3>2 DEF Round, AtHeader
    <2>3. CASE AtBody(p, sent[k], off[k])
      <3>1. RoundIsRight(BodyRound(p, b), w, sent, k)
        BY <1>1, <1>3, <2>1, <2>3, BodyRight
      <3> QED BY <2>3, <3>1 DEF Round, AtBody
    <2>4. ~AtEnd(p, sent[k], off[k])
      BY DEF AtEnd
    <2> QED BY <1>3, <2>2, <2>3, <2>4
  <1> QED BY <1>1, <1>2, <1>3 DEF Follows

-----------------------------------------------------------------------------
(* The other steps, on track. *)

\* The client sends another request.
LEMMA OnTrackAsk ==
    ASSUME NEW sent \in Seq(Requests), NEW k \in 1 .. Len(sent) + 1,
           NEW b \in Seq(Units), NEW w \in Seq(Units), NEW p,
           OnTrack(p, b, w, sent, k), NEW r \in Requests
    PROVE  OnTrack(p, b, w \o Encode(r), Append(sent, r), k)
  <1> DEFINE c == b \o w
             E == Encode(r)
             more == Append(sent, r)
  <1>1. c \in Seq(Units) /\ E \in Seq(Units)
    BY Joined, RequestFacts, Zenon
  <1>2. c \o E = b \o (w \o E)
    BY <1>1, JoinedTwice, Zenon
  <1>3. Len(sent) \in Nat /\ Len(more) = Len(sent) + 1
        /\ \A i \in 1 .. Len(sent) : more[i] = sent[i]
    BY AppendProperties
  <1>4. PICK off : Ahead(off, sent, k, c) /\ Follows(off, p, sent, k)
    BY DEF OnTrack
  <1> HIDE DEF c
  <1>5. PICK o : Ahead(o, more, k, c \o E) /\ o[k] = off[k]
    BY <1>1, <1>4, AheadAppend
  <1> HIDE DEF E, more
  <1>6. Follows(o, p, more, k)
    <2>1. CASE k <= Len(sent)
      <3>1. more[k] = sent[k] /\ k <= Len(more)
        BY <1>3, <2>1
      <3> QED BY <1>4, <1>5, <3>1, Zenon DEF Follows
    <2>2. CASE ~(k <= Len(sent))
      BY <1>4, <1>5, <2>2 DEF Follows
    <2> QED BY <2>1, <2>2
  <1>7. OnTrack(p, b, w \o E, more, k)
    BY <1>2, <1>5, <1>6 DEF OnTrack
  <1> QED BY <1>7 DEF E, more

\* Units arrive.
LEMMA OnTrackRead ==
    ASSUME NEW sent, NEW k, NEW b \in Seq(Units), NEW w \in Seq(Units), NEW p,
           OnTrack(p, b, w, sent, k), NEW n \in 0 .. Len(w)
    PROVE  OnTrack(p, b \o SubSeq(w, 1, n), SubSeq(w, n + 1, Len(w)), sent, k)
  <1>1. (b \o SubSeq(w, 1, n)) \o SubSeq(w, n + 1, Len(w)) = b \o w
    BY MoveToBuffer
  <1> QED BY <1>1, Zenon DEF OnTrack

LEMMA ExpectedIs ==
    ASSUME NEW r \in RequestType, NEW req \in ParsedRequests, r.line \in RequestLines,
           req.version = r.line, req.headers = HeadersRead(r, Len(r.headers)),
           req.body = r.body
    PROVE  req = Expected(r)
  <1>1. r.headers \in Seq(Headers \cup {"word"})
    BY DEF RequestType
  <1>2. {<<h>> : h \in Range(r.headers)} = HeadersRead(r, Len(r.headers))
    BY <1>1 DEF Range, HeadersRead
  <1> HIDE DEF HeadersRead
  <1>3. req = [version |-> r.line, headers |-> HeadersRead(r, Len(r.headers)), body |-> r.body]
    BY DEF ParsedRequests
  <1> QED BY <1>2, <1>3 DEF Expected

\* A request that is complete is the one to answer, and the next one follows.
LEMMA OnTrackDone ==
    ASSUME NEW sent \in Seq(Requests), NEW k \in 1 .. Len(sent) + 1,
           NEW b, NEW w, NEW p \in Parsers, OnTrack(p, b, w, sent, k), p.state = "gotAll"
    PROVE  /\ k <= Len(sent)
           /\ p.request = Expected(sent[k])
           /\ OnTrack(NewParser, b, w, sent, k + 1)
  <1>1. PICK off : Ahead(off, sent, k, b \o w) /\ Follows(off, p, sent, k)
    BY DEF OnTrack
  <1>2. p # NewParser
    BY NewParserType
  <1>3. /\ k <= Len(sent) /\ sent[k].line \in RequestLines
        /\ AtEnd(p, sent[k], off[k])
    BY <1>1, <1>2 DEF Follows, AtHeader, AtBody
  <1>4. /\ Len(sent) \in Nat /\ k \in 1 .. Len(sent) /\ k + 1 \in 1 .. Len(sent) + 1
        /\ sent[k] \in RequestType /\ Len(Encode(sent[k])) \in Nat
    BY <1>3, RequestFacts, EncodeLength
  <1>5. p.request = Expected(sent[k])
    <2>1. p.request \in ParsedRequests
      BY DEF Parsers
    <2> QED BY <1>3, <1>4, <2>1, ExpectedIs DEF AtEnd
  <1>6. off[k + 1] = 0
    <2>1. off[k + 1] = off[k] + Len(Encode(sent[k])) /\ off[k] = -Len(Encode(sent[k]))
      BY <1>1, <1>3, <1>4 DEF Ahead, AtEnd
    <2> QED BY ONLY <1>4, <2>1
  <1>7. Ahead(off, sent, k + 1, b \o w)
    <2>1. \A i \in k + 1 .. Len(sent) : i \in k .. Len(sent)
      BY <1>4
    <2> QED BY <1>1, <2>1 DEF Ahead
  <1> QED BY <1>3, <1>5, <1>6, <1>7 DEF OnTrack, Follows

\* With everything answered there is nothing in the buffer.
LEMMA OnTrackEmpty ==
    ASSUME NEW sent \in Seq(Requests), NEW b \in Seq(Units), NEW w \in Seq(Units), NEW p,
           OnTrack(p, b, w, sent, Len(sent) + 1)
    PROVE  Stuck(p, b)
  <1>1. PICK off : /\ Ahead(off, sent, Len(sent) + 1, b \o w)
                   /\ Follows(off, p, sent, Len(sent) + 1)
    BY DEF OnTrack
  <1>2. Len(sent) \in Nat /\ Len(b) \in Nat /\ Len(w) \in Nat
    OBVIOUS
  <1>3. p = NewParser /\ off[Len(sent) + 1] = 0
    BY <1>1, <1>2 DEF Follows
  <1>4. Len(b \o w) = Len(b) + Len(w)
    BY Joined, Zenon
  <1>5. Len(b) = 0
    <2>1. off[Len(sent) + 1] = Len(b \o w)
      BY <1>1 DEF Ahead
    <2>2. Len(b) + Len(w) = 0
      BY <1>3, <1>4, <2>1
    <2> QED BY ONLY <1>2, <2>2
  <1>6. ~HasCRLF(b)
    BY <1>5 DEF HasCRLF, Range
  <1> QED BY <1>3, <1>6, NewParserType DEF Stuck

LEMMA CRLFIn ==
    ASSUME NEW b \in Seq(Units), NEW j \in 1 .. Len(b), b[j] = "crlf"
    PROVE  HasCRLF(b)
  BY DEF HasCRLF, Range

\* When the whole of the last request has arrived the parser can go on.
LEMMA NotStuck ==
    ASSUME NEW sent \in Seq(Requests), NEW b \in Seq(Units), NEW p, NEW k \in 1 .. Len(sent),
           k = Len(sent), OnTrack(p, b, <<>>, sent, k), p.state # "gotAll"
    PROVE  ~Stuck(p, b)
  <1> DEFINE r == sent[k]
             E == Encode(r)
             H == Len(r.headers)
             B == Len(r.body)
  <1>1. k \in Nat /\ Len(b) \in Nat /\ <<>> \in Seq(Units)
    OBVIOUS
  <1>2. b \o <<>> = b
    OBVIOUS
  <1>3. PICK off : Ahead(off, sent, k, b \o <<>>) /\ Follows(off, p, sent, k)
    BY DEF OnTrack
  <1>4. r \in RequestType
    BY <1>1, RequestFacts
  <1>5. /\ H \in Nat /\ B \in Nat /\ Len(E) = 3 + 2 * H + B
        /\ Len(E) \in Nat /\ Len(E) >= 3 /\ E[2] = "crlf"
    BY <1>4, EncodeFacts, EncodeLength
  <1>6. off[k] \in Int /\ off[k] + Len(E) = Len(b)
    <2>1. k \in 1 .. Len(sent) + 1 /\ k + 1 = Len(sent) + 1
      BY <1>1
    <2>2. Ahead(off, sent, k, b)
      BY <1>2, <1>3
    <2>3. /\ off[k] \in Int /\ off[k + 1] = off[k] + Len(E)
          /\ off[Len(sent) + 1] = Len(b)
      BY <2>1, <2>2 DEF Ahead
    <2> QED BY <2>1, <2>3
  <1>7. CASE p = NewParser /\ off[k] = 0
    <2>1. \A j \in 1 .. Len(b) : j <= Len(E) => b[j] = E[j]
      BY <1>1, <1>3, <1>7, BufferStart
    <2> HIDE DEF E, H, B
    <2>2. 2 \in 1 .. Len(b) /\ 2 <= Len(E)
      BY ONLY <1>1, <1>5, <1>6, <1>7
    <2>3. HasCRLF(b)
      BY <1>5, <2>1, <2>2, CRLFIn
    <2> QED BY <1>7, <2>3, NewParserType DEF Stuck
  <1>8. ASSUME NEW h \in 0 .. H, AtHeader(p, r, off[k], h)
        PROVE  ~Stuck(p, b)
    <2> DEFINE d == 2 + 2 * h
    <2>1. /\ d \in Nat
          /\ h < H => E[d + 2] = "crlf" /\ 2 <= Len(E) - d
          /\ h = H => E[d + 1] = "crlf" /\ 1 <= Len(E) - d
      BY <1>4, HeaderAhead
    <2>2. off[k] = -d
      BY <1>8 DEF AtHeader
    <2> HIDE DEF d
    <2>3. Place(off, k, d)
      BY <2>1, <2>2 DEF Place
    <2>4. \A j \in 1 .. Len(b) : j <= Len(E) - d => b[j] = E[d + j]
      <3> DEFINE none == <<>>
      <3>1. none \in Seq(Units) /\ Ahead(off, sent, k, b \o none)
        BY <1>3
      <3> HIDE DEF none, H, B
      <3> QED BY ONLY <2>3, <3>1, BufferFront, sent \in Seq(Requests),
                      k \in 1 .. Len(sent), b \in Seq(Units)
    <2> HIDE DEF E, H, B
    <2>5. Len(b) = Len(E) - d
      BY ONLY <1>5, <1>6, <2>1, <2>2
    <2>6. CASE h < H
      <3>1. 2 \in 1 .. Len(b) /\ b[2] = "crlf"
        BY <1>1, <2>1, <2>4, <2>5, <2>6
      <3> QED BY <1>8, <3>1, CRLFIn DEF Stuck, AtHeader
    <2>7. CASE h = H
      <3>1. 1 \in 1 .. Len(b) /\ b[1] = "crlf"
        BY <1>1, <2>1, <2>4, <2>5, <2>7
      <3> QED BY <1>8, <3>1, CRLFIn DEF Stuck, AtHeader
    <2> QED BY <1>5, <2>6, <2>7
  <1>9. CASE AtBody(p, r, off[k])
    <2>1. off[k] = -(3 + 2 * H) /\ p.state = "expectBody" /\ p.contentLength = B
      BY <1>9 DEF AtBody
    <2> HIDE DEF H, B, E
    <2>2. Len(b) = B
      BY <1>5, <1>6, <2>1
    <2> QED BY <1>5, <2>1, <2>2 DEF Stuck
  <1>10. ~AtEnd(p, r, off[k])
    BY DEF AtEnd
  <1> QED BY <1>3, <1>7, <1>8, <1>9, <1>10 DEF Follows

-----------------------------------------------------------------------------
(* What holds when the client's requests are well formed. *)

Current == Len(answers) + 1

StreamFollowed == OnTrack(parser, buf, wire, asked, Current)

OnlyBadRefused == pc = "bad" => Current <= Len(asked) /\ asked[Current].line \notin RequestLines

\* A client that waits is at most one request ahead, and onMessage() returns
\* without an answer only when it could not go on.
OneAhead ==
    waited => /\ Len(asked) <= Current
              /\ pc = "idle" /\ Len(asked) = Current => Stuck(parser, buf)

TInv ==
    /\ SInv
    /\ AnswersMatch
    /\ conn = "connected" => StreamFollowed /\ OnlyBadRefused /\ OneAhead

LEMMA TypeFacts ==
    ASSUME TInv
    PROVE  /\ asked \in Seq(Requests) /\ wire \in Seq(Units) /\ buf \in Seq(Units)
           /\ parser \in Parsers /\ conn \in {"connected", "disconnecting"}
           /\ Len(answers) \in Nat /\ Len(asked) \in Nat
           /\ Len(answers) <= Len(asked) /\ Current \in 1 .. Len(asked) + 1
           /\ DOMAIN answers = 1 .. Len(answers)
  <1>1. Len(answers) \in Nat /\ DOMAIN answers = 1 .. Len(answers)
    BY DEF TInv, SInv, HttpTypeOK
  <1> QED BY <1>1 DEF TInv, SInv, HttpTypeOK, AnswersMatch, Current

LEMMA TrackedInit == ASSUME Init PROVE TInv
  <1>1. SInv
    BY SafeInit
  <1>2. AnswersMatch
    BY DEF Init, AnswersMatch
  <1>3. OnTrack(NewParser, <<>>, <<>>, <<>>, 1)
    <2> DEFINE off == [i \in 1 .. Len(<<>>) + 1 |-> 0]
    <2>1. <<>> \o <<>> = <<>> /\ Len(<<>>) = 0
      OBVIOUS
    <2>2. Ahead(off, <<>>, 1, <<>>) /\ off[1] = 0
      BY <2>1 DEF Ahead
    <2> QED BY <2>1, <2>2 DEF OnTrack, Follows
  <1>4. StreamFollowed /\ OnlyBadRefused /\ OneAhead
    BY <1>3 DEF Init, StreamFollowed, OnlyBadRefused, OneAhead, Current
  <1> QED BY <1>1, <1>2, <1>4 DEF TInv

LEMMA AskTracked == ASSUME TInv, NEW r \in Requests, Ask(r) PROVE TInv'
  <1>1. SInv'
    BY AskSafe DEF TInv
  <1>2. /\ asked' = Append(asked, r) /\ waited' = (waited /\ Len(answers) = Len(asked))
        /\ wire' = wire \o Encode(r)
        /\ UNCHANGED <<conn, buf, parser, pc, answers>>
    BY DEF Ask
  <1>3. /\ Len(asked') = Len(asked) + 1
        /\ \A i \in 1 .. Len(asked) : asked'[i] = asked[i]
    BY <1>2, TypeFacts, AppendProperties
  <1>4. AnswersMatch'
    <2>1. \A i \in DOMAIN answers : i \in 1 .. Len(asked)
      BY TypeFacts
    <2>2. Len(answers) <= Len(asked) + 1
      BY TypeFacts
    <2> QED BY <1>2, <1>3, <2>1, <2>2 DEF TInv, AnswersMatch
  <1>5. ASSUME conn = "connected"
        PROVE  StreamFollowed' /\ OnlyBadRefused' /\ OneAhead'
    <2>1. StreamFollowed /\ OnlyBadRefused /\ OneAhead /\ Current' = Current
      BY <1>2, <1>5 DEF TInv, Current
    <2>2. StreamFollowed'
      <3>1. OnTrack(parser, buf, wire \o Encode(r), Append(asked, r), Current)
        BY <2>1, TypeFacts, OnTrackAsk DEF StreamFollowed
      <3> QED BY <1>2, <2>1, <3>1 DEF StreamFollowed
    <2>3. OnlyBadRefused'
      <3> SUFFICES ASSUME pc = "bad"
                   PROVE  Current <= Len(asked') /\ asked'[Current].line \notin RequestLines
        BY <1>2, <2>1 DEF OnlyBadRefused
      <3>1. Current <= Len(asked) /\ asked[Current].line \notin RequestLines
        BY <2>1 DEF OnlyBadRefused
      <3>2. Current \in 1 .. Len(asked) /\ Current <= Len(asked) + 1
        BY <3>1, TypeFacts
      <3> QED BY <1>3, <3>1, <3>2
    <2>4. OneAhead'
      <3> SUFFICES ASSUME waited, Len(answers) = Len(asked)
                   PROVE  Len(asked') <= Current /\ Stuck(parser, buf)
        BY <1>2, <2>1 DEF OneAhead
      <3>1. Current = Len(asked) + 1
        BY DEF Current
      <3>2. Stuck(parser, buf)
        BY <2>1, <3>1, TypeFacts, OnTrackEmpty DEF StreamFollowed
      <3> QED BY <1>3, <3>1, <3>2, TypeFacts
    <2> QED BY <2>2, <2>3, <2>4
  <1> QED BY <1>1, <1>2, <1>4, <1>5 DEF TInv

LEMMA HandleReadTracked == ASSUME TInv, NEW n \in 1 .. Len(wire), HandleRead(n) PROVE TInv'
  <1>1. SInv'
    BY HandleReadSafe DEF TInv
  <1>2. /\ buf' = buf \o SubSeq(wire, 1, n) /\ wire' = SubSeq(wire, n + 1, Len(wire))
        /\ pc' = "parse" /\ UNCHANGED <<asked, waited, conn, parser, answers>>
    BY DEF HandleRead, clientVars
  <1>3. AnswersMatch'
    BY <1>2 DEF TInv, AnswersMatch
  <1>4. ASSUME conn = "connected"
        PROVE  StreamFollowed' /\ OnlyBadRefused' /\ OneAhead'
    <2>1. StreamFollowed /\ OneAhead /\ Current' = Current
      BY <1>2, <1>4 DEF TInv, Current
    <2>2. StreamFollowed'
      <3>1. n \in 0 .. Len(wire)
        BY TypeFacts
      <3>2. OnTrack(parser, buf \o SubSeq(wire, 1, n), SubSeq(wire, n + 1, Len(wire)),
                    asked, Current)
        BY <2>1, <3>1, TypeFacts, OnTrackRead DEF StreamFollowed
      <3> QED BY <1>2, <2>1, <3>2 DEF StreamFollowed
    <2> QED BY <1>2, <2>1, <2>2 DEF OnlyBadRefused, OneAhead
  <1> QED BY <1>1, <1>2, <1>3, <1>4 DEF TInv

LEMMA ParseTracked == ASSUME WellFormedRequests, TInv, ParseRequest PROVE TInv'
  <1>1. SInv'
    BY ParseSafe DEF TInv
  <1> DEFINE r == Round(parser, buf)
  <1> HIDE DEF r
  <1>2. /\ parser.state # "gotAll" /\ RoundIsSound(parser, buf, r)
        /\ parser' = r.parser /\ buf' = r.buf
        /\ r.more => pc' = "parse"
        /\ ~r.more /\ ~r.ok => pc' = "bad"
        /\ ~r.more /\ r.ok => pc' = IF parser'.state = "gotAll" THEN "request" ELSE "idle"
        /\ UNCHANGED <<asked, waited, wire, conn, answers>>
    BY ParseFacts DEF r, TInv, clientVars
  <1>3. AnswersMatch'
    BY <1>2 DEF TInv, AnswersMatch
  <1>4. ASSUME conn = "connected"
        PROVE  StreamFollowed' /\ OnlyBadRefused' /\ OneAhead'
    <2>1. StreamFollowed /\ OneAhead /\ Current' = Current
      BY <1>2, <1>4 DEF TInv, Current
    <2>2. RoundIsRight(r, wire, asked, Current)
      BY <1>2, <2>1, TypeFacts, RoundRight DEF StreamFollowed, r
    <2>3. StreamFollowed'
      BY <1>2, <2>1, <2>2 DEF StreamFollowed, RoundIsRight
    <2>4. r.more \in BOOLEAN /\ r.ok \in BOOLEAN /\ (~r.ok => ~r.more)
      BY <1>2 DEF RoundIsSound
    <2>5. /\ pc' = "bad" => ~r.ok
          /\ pc' = "idle" => ~r.more /\ r.ok /\ parser'.state # "gotAll"
      BY <1>2, <2>4
    <2>6. OnlyBadRefused'
      BY <1>2, <2>1, <2>2, <2>5 DEF OnlyBadRefused, RoundIsRight
    <2>7. OneAhead'
      BY <1>2, <2>1, <2>2, <2>5 DEF OneAhead, RoundIsRight
    <2> QED BY <2>3, <2>6, <2>7
  <1> QED BY <1>1, <1>2, <1>3, <1>4 DEF TInv

\* Sending the answer the current request deserves.
LEMMA SendMatches ==
    ASSUME TInv, NEW req \in ParsedRequests, NEW close \in BOOLEAN,
           Send(AppendToBuffer(req, close)), asked' = asked,
           conn = "connected" => Current <= Len(asked) /\ req = Expected(asked[Current])
    PROVE  /\ AnswersMatch'
           /\ conn = "connected" => Current' = Current + 1
  <1>1. SInv /\ AnswersMatch
    BY DEF TInv
  <1>2. CASE conn = "connected"
    <2>1. /\ answers' \in Seq(Answers) /\ Len(answers') = Len(answers) + 1
          /\ \A i \in 1 .. Len(answers) : answers'[i] = answers[i]
          /\ answers'[Len(answers) + 1].to = req
      BY <1>1, <1>2, SendFacts
    <2>2. DOMAIN answers' = 1 .. Len(answers) + 1
      BY <2>1
    <2>3. ASSUME NEW i \in DOMAIN answers' PROVE answers'[i].to = Expected(asked[i])
      <3>1. CASE i \in 1 .. Len(answers)
        BY <1>1, <2>1, <3>1, TypeFacts DEF AnswersMatch
      <3>2. CASE i = Len(answers) + 1
        BY <1>2, <2>1, <3>2 DEF Current
      <3> QED BY <2>2, <3>1, <3>2, TypeFacts
    <2>4. Len(answers') <= Len(asked)
      BY <1>2, <2>1 DEF Current
    <2> QED BY <2>1, <2>3, <2>4 DEF AnswersMatch, Current
  <1>3. CASE conn # "connected"
    BY <1>1, <1>3 DEF AnswersMatch, Send
  <1> QED BY <1>2, <1>3

LEMMA AnswerBadRequestTracked == ASSUME TInv, AnswerBadRequest PROVE TInv'
  <1>1. SInv'
    BY AnswerBadRequestSafe DEF TInv
  <1>2. BadRequest \in ParsedRequests
    <2>1. BadRequest = [version |-> "bad", headers |-> {}, body |-> <<>>]
      BY DEF BadRequest, NoRequest
    <2>2. <<>> \in Seq(Units)
      OBVIOUS
    <2> QED BY <2>1, <2>2 DEF ParsedRequests
  <1>3. /\ Send(AppendToBuffer(BadRequest, TRUE)) /\ asked' = asked
        /\ conn' = "disconnecting"
    BY DEF AnswerBadRequest, clientVars
  <1>4. conn = "connected" => Current <= Len(asked) /\ BadRequest = Expected(asked[Current])
    BY DEF AnswerBadRequest, TInv, OnlyBadRefused, Expected
  <1>5. AnswersMatch'
    BY <1>2, <1>3, <1>4, SendMatches
  <1> QED BY <1>1, <1>3, <1>5 DEF TInv

LEMMA OnRequestTracked == ASSUME TInv, OnRequest PROVE TInv'
  <1>1. SInv'
    BY OnRequestSafe DEF TInv
  <1>2. pc' \in {"respond", "overflow"}
        /\ UNCHANGED <<asked, waited, wire, conn, buf, parser, answers>>
    BY DEF OnRequest, clientVars
  <1> QED BY <1>1, <1>2 DEF TInv, AnswersMatch, StreamFollowed, OnlyBadRefused, OneAhead, Current

LEMMA RespondTracked == ASSUME TInv, NEW close \in CloseChoices, Respond(close) PROVE TInv'
  <1>1. SInv'
    BY RespondSafe DEF TInv
  <1>2. /\ Send(AppendToBuffer(parser.request, close)) /\ pc = "respond" /\ pc' = "idle"
        /\ conn' = IF close THEN "disconnecting" ELSE conn
        /\ parser' = NewParser /\ UNCHANGED <<asked, waited, wire, buf>>
    BY DEF Respond, Reset, clientVars
  <1>3. parser.request \in ParsedRequests /\ close \in BOOLEAN
    BY HttpAssumption, TypeFacts DEF Parsers
  <1>4. parser.state = "gotAll"
    BY <1>2 DEF TInv, SInv, CompleteWhileAnswered
  <1>5. conn = "connected" =>
           /\ Current <= Len(asked) /\ parser.request = Expected(asked[Current])
           /\ OnTrack(NewParser, buf, wire, asked, Current + 1)
    BY <1>4, TypeFacts, OnTrackDone DEF TInv, StreamFollowed
  <1>6. AnswersMatch' /\ (conn = "connected" => Current' = Current + 1)
    BY <1>2, <1>3, <1>5, SendMatches
  <1>7. ASSUME conn' = "connected"
        PROVE  StreamFollowed' /\ OnlyBadRefused' /\ OneAhead'
    <2>1. conn = "connected"
      BY <1>2, <1>7
    <2>2. StreamFollowed'
      BY <1>2, <1>5, <1>6, <2>1 DEF StreamFollowed
    <2>3. OneAhead'
      <3>1. OneAhead
        BY <2>1 DEF TInv
      <3>2. Len(asked) <= Current => Len(asked) <= Current + 1 /\ Len(asked) # Current + 1
        BY TypeFacts
      <3> QED BY <1>2, <1>6, <2>1, <3>1, <3>2 DEF OneAhead
    <2> QED BY <1>2, <2>2, <2>3 DEF OnlyBadRefused
  <1> QED BY <1>1, <1>6, <1>7 DEF TInv

LEMMA TrackedNext == ASSUME WellFormedRequests, TInv, [Next]_vars PROVE TInv'
  <1>1. CASE Next
    BY <1>1, AskTracked, HandleReadTracked, ParseTracked, AnswerBadRequestTracked,
       OnRequestTracked, RespondTracked DEF Next, OnMessage
  <1>2. CASE UNCHANGED vars
    <2>1. SInv'
      BY <1>2, SafeNext DEF TInv
    <2> QED BY <1>2, <2>1 DEF vars, clientVars, TInv, AnswersMatch, StreamFollowed,
                              OnlyBadRefused, OneAhead, Current
  <1> QED BY <1>1, <1>2

LEMMA NothingIsOwed == ASSUME TInv PROVE NothingOwed
  <1> SUFFICES ASSUME waited, wire = <<>>, pc = "idle", conn = "connected",
                      Len(answers) # Len(asked)
               PROVE  FALSE
    BY DEF NothingOwed
  <1>1. StreamFollowed /\ OneAhead
    BY DEF TInv
  <1>2. Len(asked) = Current /\ Current \in 1 .. Len(asked)
    <2>1. Len(asked) <= Current
      BY <1>1 DEF OneAhead
    <2> QED BY <2>1, TypeFacts DEF Current
  <1>3. Stuck(parser, buf)
    BY <1>1, <1>2 DEF OneAhead
  <1>4. parser.state # "gotAll"
    BY DEF TInv, SInv, CompleteWhileAnswered
  <1>5. OnTrack(parser, buf, <<>>, asked, Current)
    BY <1>1 DEF StreamFollowed
  <1> HIDE DEF Current
  <1> QED BY <1>2, <1>3, <1>4, <1>5, TypeFacts, NotStuck

-----------------------------------------------------------------------------
(* The theorems. *)

\* The server's state has its type.
THEOREM HttpTypes == Spec => []HttpTypeOK
  <1>1. SInv => HttpTypeOK
    BY DEF SInv
  <1> QED BY <1>1, SafeInit, SafeNext, PTL DEF Spec

\* The client can tell where each answer ends, whatever it has sent and however
\* the stream is cut: only the last answer goes without its length, and
\* shutdown() has followed it when onMessage() returns.
THEOREM AnswersHaveEnds == Spec => []AnswersAreDelimited
  <1>1. SInv => AnswersAreDelimited
    BY DEF SInv
  <1> QED BY <1>1, SafeInit, SafeNext, PTL DEF Spec

\* parseRequest() is entered only with a request still to be completed, and every
\* round of its loop after which it goes on has taken something from the buffer:
\* the loop ends, whatever the client sends.
THEOREM RoundsConsume ==
    Spec => [][ParseRequest => /\ parser.state # "gotAll"
                               /\ pc' = "parse" => Len(buf') < Len(buf)]_vars
  <1>1. SInv /\ [Next]_vars =>
           [ParseRequest => /\ parser.state # "gotAll"
                            /\ pc' = "parse" => Len(buf') < Len(buf)]_vars
    BY ParseSafe, ParseFacts
  <1> QED BY <1>1, SafeInit, SafeNext, PTL DEF Spec

\* However the stream of a client whose requests are well formed, or refused at
\* their first line, is cut, and however many requests it sends ahead, answer i is
\* to request i, with exactly its version, headers and body.
THEOREM EachAnswerIsRight ==
    ASSUME WellFormedRequests
    PROVE  Spec => []AnswersMatch
  <1>1. TInv => AnswersMatch
    BY DEF TInv
  <1>2. TInv /\ [Next]_vars => TInv'
    BY TrackedNext
  <1> QED BY <1>1, <1>2, TrackedInit, PTL DEF Spec

\* A client of that kind that waits for each answer gets it: with everything read
\* and onMessage() returned, an open connection owes nothing.
THEOREM WaitingClientIsAnswered ==
    ASSUME WellFormedRequests
    PROVE  Spec => []NothingOwed
  <1>1. TInv /\ [Next]_vars => TInv'
    BY TrackedNext
  <1> QED BY <1>1, NothingIsOwed, TrackedInit, PTL DEF Spec

-----------------------------------------------------------------------------
(* The byte queue. *)

Layouts == [store : Seq(Bytes), reader : Nat, writer : Nat]

\* The layout b holds the bytes c.
Holds(b, c) ==
    /\ b \in Layouts
    /\ b.writer = b.reader + Len(c)
    /\ b.writer <= Len(b.store)
    /\ \A i \in 1 .. Len(c) : b.store[b.reader + i] = c[i]

\* The array never gets longer: makeSpace() grows it only for what is put in.
MaxStore == CheapPrepend + InitialSize + 2 * MaxBytes

Now == Layout(store, reader, writer)

BInv ==
    /\ use \in Uses
    /\ content \in Seq(Bytes)
    /\ Len(content) <= MaxBytes
    /\ Holds(Now, content)
    /\ CheapPrepend <= Len(store) /\ Len(store) <= MaxStore
    /\ "prepend" \notin use => reader >= CheapPrepend
    /\ "shrink" \in use => reader = CheapPrepend

-----------------------------------------------------------------------------
(* The helpers. *)

LEMMA LayoutParts ==
    ASSUME NEW a \in Seq(Bytes), NEW r \in Nat, NEW w \in Nat
    PROVE  /\ Layout(a, r, w) \in Layouts
           /\ Layout(a, r, w).store = a
           /\ Layout(a, r, w).reader = r
           /\ Layout(a, r, w).writer = w
  BY DEF Layout, Layouts

LEMMA CopyFacts ==
    ASSUME NEW a \in Seq(Bytes), NEW off \in Nat, NEW data \in Seq(Bytes)
    PROVE  /\ Copy(a, off, data) \in Seq(Bytes)
           /\ Len(Copy(a, off, data)) = Len(a)
           /\ \A i \in 1 .. Len(a) : Copy(a, off, data)[i] =
                 IF i > off /\ i <= off + Len(data) THEN data[i - off] ELSE a[i]
  <1>1. /\ Len(a) \in Nat /\ \A i \in 1 .. Len(a) : a[i] \in Bytes
        /\ Len(data) \in Nat /\ \A i \in 1 .. Len(data) : data[i] \in Bytes
    OBVIOUS
  <1>2. \A i \in 1 .. Len(a) :
           (IF i > off /\ i <= off + Len(data) THEN data[i - off] ELSE a[i]) \in Bytes
    BY <1>1
  <1> QED BY <1>1, <1>2 DEF Copy

LEMMA ResizeFacts ==
    ASSUME NEW a \in Seq(Bytes), NEW n \in Nat
    PROVE  /\ Resize(a, n) \in Seq(Bytes)
           /\ Len(Resize(a, n)) = n
           /\ \A i \in 1 .. n : i <= Len(a) => Resize(a, n)[i] = a[i]
  <1>1. Len(a) \in Nat /\ \A i \in 1 .. Len(a) : a[i] \in Bytes
    OBVIOUS
  <1>2. \A i \in 1 .. n : (IF i <= Len(a) THEN a[i] ELSE Zero) \in Bytes
    BY <1>1, BufferAssumption
  <1> QED BY <1>1, <1>2 DEF Resize

\* The readable part of an array.
LEMMA PartFacts ==
    ASSUME NEW a \in Seq(Bytes), NEW r \in Nat, NEW w \in Nat, r <= w, w <= Len(a)
    PROVE  /\ SubSeq(a, r + 1, w) \in Seq(Bytes)
           /\ Len(SubSeq(a, r + 1, w)) = w - r
           /\ \A i \in 1 .. w - r : SubSeq(a, r + 1, w)[i] = a[r + i]
  OBVIOUS

LEMMA ConcatFacts ==
    \A c, d \in Seq(Bytes) :
        /\ c \o d \in Seq(Bytes)
        /\ Len(c \o d) = Len(c) + Len(d)
        /\ \A i \in 1 .. Len(c) + Len(d) :
              (c \o d)[i] = IF i <= Len(c) THEN c[i] ELSE d[i - Len(c)]
  BY ConcatProperties

\* A number below Word is not changed by size_t.
LEMMA Fits == ASSUME NEW n \in Nat, n < Word PROVE n % Word = n
  BY BufferAssumption

LEMMA StoreFits == ASSUME NEW n \in Nat, n <= MaxStore PROVE n < Word
  BY BufferAssumption DEF MaxStore

-----------------------------------------------------------------------------
(* append() *)

\* makeSpace() is called when the free space is too small.
LEMMA MakeSpaceHolds ==
    ASSUME NEW c \in Seq(Bytes), NEW b, Holds(b, c), b.reader >= CheapPrepend,
           Len(b.store) <= MaxStore, NEW len \in Nat, Len(c) + len <= MaxBytes
    PROVE  /\ Holds(MakeSpace(b, len), c)
           /\ MakeSpace(b, len).reader \in {b.reader, CheapPrepend}
           /\ MakeSpace(b, len).writer + len <= Len(MakeSpace(b, len).store)
           /\ Len(MakeSpace(b, len).store) <= MaxStore
  <1> DEFINE a == b.store
             r == b.reader
             w == b.writer
             e == MakeSpace(b, len)
  <1>1. /\ a \in Seq(Bytes) /\ r \in Nat /\ w \in Nat /\ Len(a) \in Nat /\ Len(c) \in Nat
        /\ b \in Layouts /\ w = r + Len(c) /\ w <= Len(a)
        /\ \A i \in 1 .. Len(c) : a[r + i] = c[i]
        /\ r >= CheapPrepend /\ Len(a) <= MaxStore
    BY DEF Holds, Layouts
  <1>2. CheapPrepend \in Nat /\ InitialSize \in Nat /\ MaxBytes \in Nat
        /\ MaxStore \in Nat
    BY BufferAssumption DEF MaxStore
  <1> HIDE DEF a, r, w
  <1>3. ((Len(a) - w) + r - CheapPrepend) % Word = Len(a) - w + r - CheapPrepend
    <2>1. Len(a) - w + r - CheapPrepend \in Nat /\ Len(a) - w + r - CheapPrepend <= MaxStore
      BY <1>1, <1>2
    <2> QED BY <2>1, Fits, StoreFits
  <1>4. CASE Len(a) - w + r - CheapPrepend < len
    <2>1. e = [b EXCEPT !.store = Resize(a, w + len)]
      BY <1>3, <1>4 DEF MakeSpace, a, w, r
    <2>2. /\ Resize(a, w + len) \in Seq(Bytes) /\ Len(Resize(a, w + len)) = w + len
          /\ \A i \in 1 .. w + len : i <= Len(a) => Resize(a, w + len)[i] = a[i]
      <3>1. w + len \in Nat
        BY <1>1
      <3> QED BY <1>1, <3>1, ResizeFacts
    <2>3. e \in Layouts /\ e.store = Resize(a, w + len) /\ e.reader = r /\ e.writer = w
      BY <1>1, <2>1, <2>2 DEF Layouts, r, w
    <2>4. w + len <= MaxStore
      BY <1>1, <1>2, <1>4 DEF MaxStore
    <2>5. \A i \in 1 .. Len(c) : r + i \in 1 .. w + len /\ r + i <= Len(a)
      BY <1>1
    <2>6. \A i \in 1 .. Len(c) : e.store[r + i] = c[i]
      BY <1>1, <2>2, <2>3, <2>5
    <2>7. Holds(e, c)
      BY <1>1, <2>2, <2>3, <2>6 DEF Holds
    <2> QED BY <1>1, <2>2, <2>3, <2>4, <2>7 DEF r
  <1>5. CASE ~(Len(a) - w + r - CheapPrepend < len)
    <2> DEFINE d == SubSeq(a, r + 1, w)
               m == Copy(a, CheapPrepend, d)
    <2>1. e = Layout(m, CheapPrepend, CheapPrepend + w - r)
      BY <1>3, <1>5 DEF MakeSpace, a, w, r
    <2>2. /\ d \in Seq(Bytes) /\ Len(d) = Len(c)
          /\ \A i \in 1 .. Len(c) : d[i] = a[r + i]
      <3>1. r <= w /\ w - r = Len(c)
        BY <1>1
      <3>2. a \in Seq(Bytes) /\ r \in Nat /\ w \in Nat /\ w <= Len(a)
        BY <1>1
      <3>3. /\ SubSeq(a, r + 1, w) \in Seq(Bytes) /\ Len(SubSeq(a, r + 1, w)) = w - r
            /\ \A i \in 1 .. w - r : SubSeq(a, r + 1, w)[i] = a[r + i]
        BY ONLY <3>1, <3>2, PartFacts, Zenon
      <3> HIDE DEF d
      <3> QED BY <3>1, <3>3 DEF d
    <2> HIDE DEF d
    <2>3. /\ m \in Seq(Bytes) /\ Len(m) = Len(a)
          /\ \A i \in 1 .. Len(a) : m[i] =
                IF i > CheapPrepend /\ i <= CheapPrepend + Len(d)
                THEN d[i - CheapPrepend] ELSE a[i]
      BY <1>1, <1>2, <2>2, CopyFacts
    <2> HIDE DEF m
    <2>4. CheapPrepend + w - r = CheapPrepend + Len(c) /\ CheapPrepend + Len(c) \in Nat
      BY <1>1, <1>2
    <2>5. /\ e \in Layouts /\ e.store = m /\ e.reader = CheapPrepend
          /\ e.writer = CheapPrepend + Len(c)
      BY <1>2, <2>1, <2>3, <2>4, LayoutParts
    <2>6. CheapPrepend + Len(c) + len <= Len(a)
      BY <1>1, <1>2, <1>5
    <2>7. ASSUME NEW i \in 1 .. Len(c) PROVE m[CheapPrepend + i] = c[i]
      <3>1. /\ CheapPrepend + i \in 1 .. Len(a) /\ CheapPrepend + i > CheapPrepend
            /\ CheapPrepend + i <= CheapPrepend + Len(d)
            /\ (CheapPrepend + i) - CheapPrepend = i
        BY <1>1, <1>2, <2>2, <2>6
      <3>2. m[CheapPrepend + i] = d[i]
        BY <2>3, <3>1
      <3> QED BY <1>1, <2>2, <3>2
    <2>8. Holds(e, c)
      BY <1>1, <1>2, <2>3, <2>5, <2>6, <2>7 DEF Holds
    <2> QED BY <2>3, <2>5, <2>6, <2>8 DEF a
  <1> QED BY <1>4, <1>5

LEMMA EnsureHolds ==
    ASSUME NEW c \in Seq(Bytes), NEW b, Holds(b, c), b.reader >= CheapPrepend,
           Len(b.store) <= MaxStore, NEW len \in Nat, Len(c) + len <= MaxBytes
    PROVE  /\ Holds(EnsureWritableBytes(b, len), c)
           /\ EnsureWritableBytes(b, len).reader \in {b.reader, CheapPrepend}
           /\ EnsureWritableBytes(b, len).writer + len
                 <= Len(EnsureWritableBytes(b, len).store)
           /\ Len(EnsureWritableBytes(b, len).store) <= MaxStore
  <1>1. /\ Len(b.store) \in Nat /\ b.writer \in Nat /\ b.writer <= Len(b.store)
        /\ Len(b.store) - b.writer \in Nat
    BY DEF Holds, Layouts
  <1>2. Len(b.store) - b.writer <= MaxStore /\ MaxStore \in Nat
    BY <1>1, BufferAssumption DEF MaxStore
  <1>3. (Len(b.store) - b.writer) % Word = Len(b.store) - b.writer
    BY <1>1, <1>2, Fits, StoreFits
  <1>4. CASE Len(b.store) - b.writer < len
    BY <1>3, <1>4, MakeSpaceHolds DEF EnsureWritableBytes
  <1>5. CASE ~(Len(b.store) - b.writer < len)
    BY <1>1, <1>3, <1>5 DEF EnsureWritableBytes
  <1> QED BY <1>4, <1>5

\* Bytes copied behind what a layout holds.
LEMMA CopyHolds ==
    ASSUME NEW c \in Seq(Bytes), NEW b, Holds(b, c), NEW data \in Seq(Bytes),
           NEW s, s = Copy(b.store, b.writer, data),
           NEW e \in Layouts, e.store = s, e.reader = b.reader,
           e.writer = b.writer + Len(data), e.writer <= Len(b.store)
    PROVE  Holds(e, c \o data)
  <1>1. /\ b.store \in Seq(Bytes) /\ b.reader \in Nat /\ b.writer \in Nat
        /\ b.writer = b.reader + Len(c)
        /\ Len(b.store) \in Nat /\ Len(c) \in Nat /\ Len(data) \in Nat
        /\ \A i \in 1 .. Len(c) : b.store[b.reader + i] = c[i]
    BY DEF Holds, Layouts
  <1>2. /\ Len(s) = Len(b.store)
        /\ \A i \in 1 .. Len(b.store) : s[i] =
              IF i > b.writer /\ i <= b.writer + Len(data)
              THEN data[i - b.writer] ELSE b.store[i]
    BY <1>1, CopyFacts
  <1>3. /\ Len(c \o data) = Len(c) + Len(data)
        /\ \A i \in 1 .. Len(c) + Len(data) : (c \o data)[i] =
              IF i <= Len(c) THEN c[i] ELSE data[i - Len(c)]
    BY ConcatFacts
  <1>4. ASSUME NEW i \in 1 .. Len(c) + Len(data)
        PROVE  s[b.reader + i] = (c \o data)[i]
    <2>1. b.reader + i \in 1 .. Len(b.store)
      <3>1. /\ b.reader \in Nat /\ b.writer = b.reader + Len(c) /\ Len(c) \in Nat
            /\ Len(data) \in Nat /\ Len(b.store) \in Nat
        BY ONLY <1>1
      <3>2. b.writer + Len(data) <= Len(b.store)
        OBVIOUS
      <3>3. i \in 1 .. Len(c) + Len(data)
        OBVIOUS
      <3> QED BY ONLY <3>1, <3>2, <3>3
    <2>2. CASE i <= Len(c)
      <3>1. ~(b.reader + i > b.writer) /\ i \in 1 .. Len(c)
        BY <1>1, <2>2
      <3> QED BY <1>1, <1>2, <1>3, <2>1, <2>2, <3>1
    <2>3. CASE i > Len(c)
      <3>1. /\ b.reader + i > b.writer /\ b.reader + i <= b.writer + Len(data)
            /\ (b.reader + i) - b.writer = i - Len(c) /\ ~(i <= Len(c))
        <4>1. /\ b.reader \in Nat /\ b.writer = b.reader + Len(c) /\ Len(c) \in Nat
              /\ Len(data) \in Nat /\ i \in Nat /\ i <= Len(c) + Len(data)
          BY <1>1
        <4> QED BY ONLY <2>3, <4>1
      <3>2. s[b.reader + i] = data[(b.reader + i) - b.writer]
        BY <1>2, <2>1, <3>1
      <3>3. (c \o data)[i] = data[i - Len(c)]
        BY <1>3, <3>1
      <3> QED BY ONLY <3>1, <3>2, <3>3
    <2> QED BY <1>1, <2>2, <2>3
  <1> QED BY <1>1, <1>2, <1>3, <1>4 DEF Holds

LEMMA AppendedHolds ==
    ASSUME NEW c \in Seq(Bytes), NEW b, Holds(b, c), b.reader >= CheapPrepend,
           Len(b.store) <= MaxStore, NEW data \in Seq(Bytes),
           Len(c) + Len(data) <= MaxBytes
    PROVE  /\ Holds(Appended(b, data), c \o data)
           /\ Appended(b, data).reader \in {b.reader, CheapPrepend}
           /\ Len(Appended(b, data).store) <= MaxStore
  <1> DEFINE e == EnsureWritableBytes(b, Len(data))
             f == Appended(b, data)
             s == Copy(e.store, e.writer, data)
  <1>1. /\ Holds(e, c) /\ e.reader \in {b.reader, CheapPrepend}
        /\ e.writer + Len(data) <= Len(e.store) /\ Len(e.store) <= MaxStore
    <2>1. Len(data) \in Nat
      OBVIOUS
    <2> QED BY <2>1, EnsureHolds
  <1>2. f = [e EXCEPT !.store = s, !.writer = e.writer + Len(data)]
    <2>1. f = [e EXCEPT !.store = Copy(@, e.writer, data), !.writer = @ + Len(data)]
      BY DEF Appended
    <2> QED BY <2>1, <1>1 DEF Holds, Layouts
  <1> HIDE DEF e, f
  <1>3. e \in Layouts /\ e.store \in Seq(Bytes) /\ e.writer \in Nat /\ Len(data) \in Nat
    BY <1>1 DEF Holds, Layouts
  <1>4. s \in Seq(Bytes) /\ Len(s) = Len(e.store)
    BY <1>3, CopyFacts
  <1>5. /\ f \in Layouts /\ f.store = s /\ f.reader = e.reader
        /\ f.writer = e.writer + Len(data)
    <2> HIDE DEF s
    <2>1. e.reader \in Nat /\ e.writer + Len(data) \in Nat
      BY <1>3 DEF Layouts
    <2>2. f = [store |-> s, reader |-> e.reader, writer |-> e.writer + Len(data)]
      BY <1>2, <1>3 DEF Layouts
    <2> QED BY <1>4, <2>1, <2>2 DEF Layouts
  <1>6. Holds(f, c \o data)
    BY <1>1, <1>5, CopyHolds
  <1> QED BY <1>1, <1>4, <1>5, <1>6 DEF f

-----------------------------------------------------------------------------
(* The operations. *)

LEMMA NowFacts ==
    ASSUME BInv
    PROVE  /\ store \in Seq(Bytes) /\ Len(store) \in Nat
           /\ reader \in Nat /\ writer \in Nat
           /\ content \in Seq(Bytes) /\ Len(content) \in Nat
           /\ writer = reader + Len(content) /\ writer <= Len(store)
           /\ \A i \in 1 .. Len(content) : store[reader + i] = content[i]
           /\ Now \in Layouts
           /\ Now.store = store /\ Now.reader = reader /\ Now.writer = writer
  <1>1. Now.store = store /\ Now.reader = reader /\ Now.writer = writer
    BY DEF Now, Layout
  <1>2. Now \in Layouts /\ content \in Seq(Bytes)
    BY DEF BInv, Holds
  <1>3. store \in Seq(Bytes) /\ reader \in Nat /\ writer \in Nat
    BY <1>1, <1>2 DEF Layouts
  <1> QED BY <1>1, <1>2, <1>3 DEF BInv, Holds

LEMMA StringFacts ==
    ASSUME NEW n \in Nat, NEW data \in Strings(n)
    PROVE  data \in Seq(Bytes) /\ Len(data) = n
  BY DEF Strings

\* A step to a layout that holds what the buffer then should.
LEMMA BecomeHolds ==
    ASSUME NEW c \in Seq(Bytes), NEW b, Holds(b, c), Become(b), content' = c
    PROVE  Holds(Now, content)'
  <1>1. b \in Layouts /\ Now' = b
    <2>1. b = [store |-> b.store, reader |-> b.reader, writer |-> b.writer]
      BY DEF Holds, Layouts
    <2>2. Now' = [store |-> b.store, reader |-> b.reader, writer |-> b.writer]
      BY DEF Become, Now, Layout
    <2> QED BY <2>1, <2>2 DEF Holds
  <1> QED BY <1>1

LEMMA AppendStep ==
    ASSUME CarefulUses, BInv, NEW n \in 0 .. Room, NEW data \in Strings(n),
           AppendData(data), UNCHANGED use
    PROVE  BInv'
  <1> DEFINE b == Appended(Now, data)
  <1>1. /\ "append" \in use /\ Become(b) /\ content' = content \o data
    BY DEF AppendData, Now
  <1>2. /\ data \in Seq(Bytes) /\ Len(data) = n /\ n \in Nat
        /\ Len(content) + n <= MaxBytes
    BY NowFacts, StringFacts, BufferAssumption DEF Room
  <1>3. "prepend" \notin use /\ reader >= CheapPrepend
    BY <1>1 DEF CarefulUses, BInv
  <1>4. /\ Holds(b, content \o data) /\ b.reader \in {reader, CheapPrepend}
        /\ Len(b.store) <= MaxStore
    BY <1>2, <1>3, NowFacts, AppendedHolds DEF BInv
  <1> HIDE DEF b
  <1>5. content' \in Seq(Bytes) /\ Len(content') = Len(content) + n
    BY <1>1, <1>2, NowFacts, ConcatFacts
  <1>6. Holds(Now, content)'
    BY <1>1, <1>4, <1>5, BecomeHolds
  <1>7. reader' \in {reader, CheapPrepend} /\ Len(store') <= MaxStore
    BY <1>1, <1>4 DEF Become
  <1>8. CheapPrepend <= Len(store')
    <2>1. reader' <= Len(store') /\ reader' \in Nat /\ Len(store') \in Nat
      BY <1>4, <1>1, <1>5 DEF Become, Holds, Layouts
    <2> QED BY <1>3, <1>7, <2>1, BufferAssumption
  <1> QED BY <1>2, <1>3, <1>5, <1>6, <1>7, <1>8, BufferAssumption DEF BInv

LEMMA RetrieveStep ==
    ASSUME CarefulUses, BInv, NEW len \in 0 .. Len(content), Retrieve(len), UNCHANGED use
    PROVE  BInv'
  <1>1. /\ "retrieve" \in use /\ store' = store
        /\ content' = SubSeq(content, len + 1, Len(content))
    BY DEF Retrieve
  <1>2. len \in Nat /\ len <= Len(content) /\ CheapPrepend \in Nat
    BY NowFacts, BufferAssumption
  <1>3. /\ content' \in Seq(Bytes) /\ Len(content') = Len(content) - len
        /\ \A i \in 1 .. Len(content) - len : content'[i] = content[len + i]
    BY <1>1, <1>2, NowFacts, PartFacts
  <1>4. "shrink" \notin use
    BY <1>1 DEF CarefulUses, BInv
  <1>5. CASE len < ReadableBytes
    <2>1. reader' = reader + len /\ writer' = writer
      BY <1>5, <1>2, NowFacts DEF Retrieve, ReadableBytes
    <2>2. /\ Now' \in Layouts
          /\ Now'.store = store /\ Now'.reader = reader + len /\ Now'.writer = writer
      BY <1>1, <1>2, <2>1, NowFacts, LayoutParts DEF Now
    <2>3. ASSUME NEW i \in 1 .. Len(content')
          PROVE  store[(reader + len) + i] = content'[i]
      <3>1. len + i \in 1 .. Len(content) /\ reader + (len + i) = (reader + len) + i
        BY <1>2, <1>3, NowFacts
      <3>2. content'[i] = content[len + i]
        BY <1>3
      <3>3. store[reader + (len + i)] = content[len + i]
        BY <3>1, NowFacts
      <3> QED BY <3>1, <3>2, <3>3
    <2>4. Holds(Now', content')
      <3>1. writer = (reader + len) + Len(content') /\ writer <= Len(store)
        BY <1>2, <1>3, NowFacts
      <3> QED BY <2>2, <2>3, <3>1 DEF Holds
    <2>5. Len(content') <= MaxBytes /\ reader' >= reader
      BY <1>2, <1>3, <2>1, NowFacts, BufferAssumption DEF BInv
    <2> QED BY <1>1, <1>2, <1>3, <1>4, <2>1, <2>4, <2>5, NowFacts DEF BInv
  <1>6. CASE len >= ReadableBytes
    <2>1. reader' = CheapPrepend /\ writer' = CheapPrepend /\ len = Len(content)
      BY <1>6, <1>2, NowFacts DEF Retrieve, ReadableBytes
    <2>2. /\ Now' \in Layouts /\ Now'.store = store
          /\ Now'.reader = CheapPrepend /\ Now'.writer = CheapPrepend
      BY <1>1, <1>2, <2>1, NowFacts, LayoutParts DEF Now
    <2>3. Len(content') = 0
      BY <1>3, <2>1, NowFacts
    <2>4. CheapPrepend <= Len(store)
      BY DEF BInv
    <2>5. Holds(Now', content')
      BY <1>2, <2>2, <2>3, <2>4 DEF Holds
    <2> QED BY <1>1, <1>2, <1>3, <1>4, <2>1, <2>3, <2>5, BufferAssumption DEF BInv
  <1> QED BY <1>2, <1>5, <1>6, NowFacts DEF ReadableBytes

LEMMA PrependStep ==
    ASSUME CarefulUses, BInv, NEW n \in 0 .. Room, NEW data \in Strings(n),
           Prepend(data), UNCHANGED use
    PROVE  BInv'
  <1> DEFINE r == reader - Len(data)
  <1>1. /\ "prepend" \in use /\ Len(data) <= reader /\ reader' = r /\ writer' = writer
        /\ store' = Copy(store, r, data) /\ content' = data \o content
    BY DEF Prepend
  <1>2. /\ data \in Seq(Bytes) /\ Len(data) = n /\ n \in Nat
        /\ Len(content) + n <= MaxBytes
    BY NowFacts, StringFacts, BufferAssumption DEF Room
  <1>3. r \in Nat /\ reader = r + n
    BY <1>1, <1>2, NowFacts
  <1> HIDE DEF r
  <1>4. "shrink" \notin use
    BY <1>1 DEF CarefulUses, BInv
  <1>5. /\ store' \in Seq(Bytes) /\ Len(store') = Len(store)
        /\ \A i \in 1 .. Len(store) : store'[i] =
              IF i > r /\ i <= r + n THEN data[i - r] ELSE store[i]
    <2>1. store \in Seq(Bytes)
      BY NowFacts
    <2> QED BY <1>1, <1>2, <1>3, <2>1, CopyFacts
  <1>6. /\ content' \in Seq(Bytes) /\ Len(content') = n + Len(content)
        /\ \A i \in 1 .. n + Len(content) : content'[i] =
              IF i <= n THEN data[i] ELSE content[i - n]
    BY <1>1, <1>2, NowFacts, ConcatFacts
  <1>7. ASSUME NEW i \in 1 .. Len(content') PROVE store'[r + i] = content'[i]
    <2>1. i \in 1 .. n + Len(content) /\ r + i \in 1 .. Len(store)
      BY <1>2, <1>3, <1>6, NowFacts
    <2>2. CASE i <= n
      <3>1. r + i > r /\ r + i <= r + n /\ (r + i) - r = i
        BY <1>2, <1>3, <2>1, <2>2
      <3> QED BY <1>5, <1>6, <2>1, <2>2, <3>1
    <2>3. CASE ~(i <= n)
      <3>1. /\ ~(r + i <= r + n) /\ i - n \in 1 .. Len(content)
            /\ r + i = reader + (i - n)
        BY <1>2, <1>3, <2>1, <2>3, NowFacts
      <3>2. store[reader + (i - n)] = content[i - n]
        BY <3>1, NowFacts
      <3>3. store'[r + i] = store[r + i] /\ content'[i] = content[i - n]
        BY <1>5, <1>6, <2>1, <2>3, <3>1
      <3> QED BY ONLY <3>1, <3>2, <3>3
    <2> QED BY <2>2, <2>3
  <1>8. /\ Now' \in Layouts /\ Now'.store = store' /\ Now'.reader = r
        /\ Now'.writer = writer
    <2>1. writer \in Nat
      BY NowFacts
    <2>2. Now' = Layout(store', r, writer)
      BY <1>1 DEF Now
    <2>3. store' \in Seq(Bytes) /\ r \in Nat
      BY ONLY <1>3, <1>5
    <2> QED BY ONLY <2>1, <2>2, <2>3, LayoutParts
  <1>9. Holds(Now', content')
    BY <1>2, <1>3, <1>5, <1>6, <1>7, <1>8, NowFacts DEF Holds
  <1> QED BY <1>1, <1>2, <1>4, <1>5, <1>6, <1>9, NowFacts DEF BInv

LEMMA ShrinkStep ==
    ASSUME CarefulUses, BInv, NEW reserve \in 0 .. InitialSize, Shrink(reserve),
           UNCHANGED use
    PROVE  BInv'
  <1> DEFINE m == Copy(store, CheapPrepend, Readable)
             s == Resize(m, writer + reserve)
  <1>1. /\ "shrink" \in use /\ reader = CheapPrepend /\ "prepend" \notin use
    BY DEF Shrink, CarefulUses, BInv
  <1>2. CheapPrepend \in Nat /\ InitialSize \in Nat /\ MaxBytes \in Nat /\ reserve \in Nat
        /\ reserve <= InitialSize
    BY BufferAssumption
  <1>3. /\ store' = s /\ reader' = reader /\ writer' = writer /\ content' = content
    <2>1. CheapPrepend + (writer - CheapPrepend) = writer
      BY <1>2, NowFacts
    <2>2. Become(Layout(s, CheapPrepend, writer)) /\ content' = content
      BY <2>1 DEF Shrink
    <2> QED BY <1>1, <2>2 DEF Become, Layout
  <1>4. /\ Readable \in Seq(Bytes) /\ Len(Readable) = Len(content)
        /\ \A i \in 1 .. Len(content) : Readable[i] = store[reader + i]
    <2>1. writer - reader = Len(content) /\ reader <= writer
      BY NowFacts
    <2>2. /\ Readable \in Seq(Bytes) /\ Len(Readable) = writer - reader
          /\ \A i \in 1 .. writer - reader : Readable[i] = store[reader + i]
      <3>1. store \in Seq(Bytes) /\ reader \in Nat /\ writer \in Nat /\ writer <= Len(store)
        BY NowFacts
      <3> QED BY ONLY <2>1, <3>1, PartFacts, Zenon DEF Readable
    <2> QED BY <2>1, <2>2
  <1>5. /\ m \in Seq(Bytes) /\ Len(m) = Len(store)
        /\ \A i \in 1 .. Len(store) : m[i] =
              IF i > CheapPrepend /\ i <= CheapPrepend + Len(content)
              THEN Readable[i - CheapPrepend] ELSE store[i]
    BY <1>2, <1>4, NowFacts, CopyFacts
  <1> HIDE DEF m
  <1>6. /\ s \in Seq(Bytes) /\ Len(s) = writer + reserve
        /\ \A i \in 1 .. writer + reserve : i <= Len(m) => s[i] = m[i]
    <2>1. writer + reserve \in Nat
      BY <1>2, NowFacts
    <2> QED BY <1>5, <2>1, ResizeFacts
  <1> HIDE DEF s
  <1>7. ASSUME NEW i \in 1 .. Len(content) PROVE s[reader + i] = content[i]
    <2>1. /\ reader + i \in 1 .. Len(store) /\ reader + i \in 1 .. writer + reserve
          /\ reader + i > CheapPrepend /\ reader + i <= CheapPrepend + Len(content)
          /\ (reader + i) - CheapPrepend = i /\ reader + i <= Len(m)
      BY <1>1, <1>2, <1>5, NowFacts
    <2>2. m[reader + i] = Readable[i]
      BY <1>5, <2>1
    <2> QED BY <1>4, <1>6, <2>1, <2>2, NowFacts
  <1>8. /\ Now' \in Layouts /\ Now'.store = s /\ Now'.reader = reader
        /\ Now'.writer = writer
    BY <1>3, <1>6, NowFacts, LayoutParts DEF Now
  <1>9. Holds(Now', content')
    BY <1>2, <1>3, <1>6, <1>7, <1>8, NowFacts DEF Holds
  <1>10. CheapPrepend <= Len(s) /\ Len(s) <= MaxStore
    BY <1>1, <1>2, <1>6, NowFacts DEF BInv, MaxStore
  <1> QED BY <1>1, <1>3, <1>9, <1>10, NowFacts DEF BInv

\* readv() has filled the room; the rest is in the stack buffer.
LEMMA SpillHolds ==
    ASSUME BInv, NEW data \in Seq(Bytes), NEW room, room = Len(store) - writer,
           Len(data) > room,
           NEW d, d = SubSeq(data, 1, room),
           NEW e, e = Layout(Copy(store, writer, data), reader, Len(store))
    PROVE  /\ d \in Seq(Bytes) /\ Len(d) = room
           /\ Holds(e, content \o d)
           /\ e.reader = reader /\ Len(e.store) = Len(store)
  <1>1. /\ room \in Nat /\ Len(data) \in Nat /\ writer + room = Len(store)
        /\ writer \in Nat /\ Len(store) \in Nat /\ reader \in Nat
    <2>1. writer \in Nat /\ Len(store) \in Nat /\ reader \in Nat /\ writer <= Len(store)
      BY NowFacts
    <2>2. Len(data) \in Nat
      OBVIOUS
    <2> QED BY ONLY <2>1, <2>2, room = Len(store) - writer
  <1>2. /\ d \in Seq(Bytes) /\ Len(d) = room
        /\ \A i \in 1 .. room : d[i] = data[i]
    <2>1. 0 \in Nat /\ 0 + 1 = 1 /\ room - 0 = room /\ \A i \in 1 .. room : 0 + i = i
      BY <1>1
    <2> QED BY <1>1, <2>1
  <1>3. Copy(store, writer, data) = Copy(store, writer, d)
    <2>1. ASSUME NEW i \in 1 .. Len(store)
          PROVE
            (IF i > writer /\ i <= writer + Len(data) THEN data[i - writer] ELSE store[i])
            = (IF i > writer /\ i <= writer + Len(d) THEN d[i - writer] ELSE store[i])
      <3>1. i <= writer + Len(data) /\ i <= writer + Len(d)
        <4>1. i \in Nat /\ i <= writer + room
          BY <1>1
        <4> QED BY <1>1, <1>2, <4>1
      <3>2. i > writer => data[i - writer] = d[i - writer]
        <4>1. i > writer => i - writer \in 1 .. room
          BY <1>1
        <4> QED BY <1>2, <4>1
      <3> QED BY <3>1, <3>2
    <2> QED BY <2>1 DEF Copy
  <1>4. Copy(store, writer, d) \in Seq(Bytes) /\ Len(Copy(store, writer, d)) = Len(store)
    <2>1. store \in Seq(Bytes)
      BY NowFacts
    <2> QED BY <1>1, <1>2, <2>1, CopyFacts
  <1>5. /\ e \in Layouts /\ e.store = Copy(store, writer, d)
        /\ e.reader = reader /\ e.writer = writer + Len(d)
    <2>1. e = Layout(Copy(store, writer, d), reader, Len(store))
      BY <1>3
    <2>2. /\ e \in Layouts /\ e.store = Copy(store, writer, d)
          /\ e.reader = reader /\ e.writer = Len(store)
      BY <1>1, <1>4, <2>1 DEF Layout, Layouts
    <2> QED BY <1>1, <1>2, <2>2
  <1>6. e.writer <= Len(store)
    BY <1>1, <1>2, <1>5, NowFacts
  <1>7. Holds(Now, content)
    BY DEF BInv
  <1>8. Holds(e, content \o d)
    BY <1>2, <1>5, <1>6, <1>7, NowFacts, CopyHolds
  <1> QED BY <1>2, <1>4, <1>5, <1>8

LEMMA ReadFdStep ==
    ASSUME CarefulUses, BInv, NEW n \in 0 .. Room, NEW data \in Strings(n),
           ReadFd(data), UNCHANGED use
    PROVE  BInv'
  <1> DEFINE room == Len(store) - writer
             s == Copy(store, writer, data)
  <1>1. "readFd" \in use /\ content' = content \o data
    BY DEF ReadFd
  <1>2. /\ data \in Seq(Bytes) /\ Len(data) = n /\ n \in Nat
        /\ Len(content) + n <= MaxBytes
    BY NowFacts, StringFacts, BufferAssumption DEF Room
  <1>3. "prepend" \notin use /\ reader >= CheapPrepend
    BY <1>1 DEF CarefulUses, BInv
  <1>4. content' \in Seq(Bytes) /\ Len(content') = Len(content) + n
    BY <1>1, <1>2, NowFacts, ConcatFacts
  <1>5. s \in Seq(Bytes) /\ Len(s) = Len(store) /\ room \in Nat
    BY <1>2, NowFacts, CopyFacts
  <1>6. CASE Len(data) <= room
    <2> DEFINE e == Layout(s, reader, writer + n)
    <2>1. Become([Layout(s, reader, writer) EXCEPT !.writer = writer + n])
      BY <1>2, <1>6, <1>5 DEF ReadFd
    <2>2. [Layout(s, reader, writer) EXCEPT !.writer = writer + n] = e
      BY DEF Layout
    <2>3. /\ e \in Layouts /\ e.store = s /\ e.reader = reader /\ e.writer = writer + n
      <3>1. reader \in Nat /\ writer + n \in Nat
        BY <1>2, NowFacts
      <3> HIDE DEF s
      <3> QED BY <1>5, <3>1, LayoutParts
    <2>4. e.writer <= Len(store)
      BY <1>2, <1>6, <2>3, NowFacts
    <2> HIDE DEF e
    <2>5. Holds(e, content')
      <3>1. Holds(Now, content)
        BY DEF BInv
      <3> QED BY <1>1, <1>2, <2>3, <2>4, <3>1, NowFacts, CopyHolds
    <2>6. Holds(Now, content)'
      BY <1>4, <2>1, <2>2, <2>5, BecomeHolds
    <2>7. Len(store') = Len(store) /\ reader' = reader
      BY <1>5, <2>1, <2>2, <2>3 DEF Become
    <2> QED BY <1>2, <1>3, <1>4, <2>6, <2>7 DEF BInv
  <1>7. CASE Len(data) > room
    <2> DEFINE d == SubSeq(data, 1, room)
               f == SubSeq(data, room + 1, Len(data))
               e == Layout(s, reader, Len(store))
               b == Appended(e, f)
    <2>1. Become(b)
      <3>1. [Layout(s, reader, writer) EXCEPT !.writer = Len(store)] = e
        BY DEF Layout
      <3>2. ~(Len(data) <= room)
        BY <1>2, <1>5, <1>7
      <3> QED BY <3>1, <3>2 DEF ReadFd
    <2>2. /\ d \in Seq(Bytes) /\ Len(d) = room /\ Holds(e, content \o d)
          /\ e.reader = reader /\ Len(e.store) = Len(store)
      BY <1>2, <1>7, SpillHolds
    <2>3. f \in Seq(Bytes) /\ Len(f) = n - room
      BY <1>2, <1>5, <1>7, PartFacts
    <2>4. d \o f = data
      <3>1. /\ 1 \in 1 .. Len(data) + 1 /\ room \in 1 - 1 .. Len(data)
            /\ Len(data) \in room .. Len(data)
        BY <1>2, <1>5, <1>7
      <3>2. SubSeq(data, 1, Len(data)) = data
        BY <1>2
      <3> QED BY <1>2, <3>1, <3>2, ConcatAdjacentSubSeq
    <2> HIDE DEF d, f, e
    <2>5. content' = (content \o d) \o f
      <3>1. \A s1, s2, s3 \in Seq(Bytes) : (s1 \o s2) \o s3 = s1 \o (s2 \o s3)
        BY ConcatAssociative
      <3>2. content \in Seq(Bytes)
        BY NowFacts
      <3>3. (content \o d) \o f = content \o (d \o f)
        BY <2>2, <2>3, <3>1, <3>2
      <3> QED BY <1>1, <2>4, <3>3
    <2>6. content \o d \in Seq(Bytes) /\ Len(content \o d) = Len(content) + room
      BY <2>2, NowFacts, ConcatFacts
    <2>7. Len(content \o d) + Len(f) <= MaxBytes
      BY <1>2, <1>5, <2>3, <2>6, NowFacts
    <2>8. /\ Holds(b, content') /\ b.reader \in {reader, CheapPrepend}
          /\ Len(b.store) <= MaxStore
      <3>1. e.reader >= CheapPrepend /\ Len(e.store) <= MaxStore
        BY <1>3, <2>2 DEF BInv
      <3> QED BY <2>2, <2>3, <2>5, <2>6, <2>7, <3>1, AppendedHolds
    <2> HIDE DEF b
    <2>9. Holds(Now, content)'
      BY <1>4, <2>1, <2>8, BecomeHolds
    <2>10. reader' \in {reader, CheapPrepend} /\ Len(store') <= MaxStore
      BY <2>1, <2>8 DEF Become
    <2>11. CheapPrepend <= Len(store')
      <3>1. reader' <= Len(store') /\ reader' \in Nat /\ Len(store') \in Nat
        BY <1>4, <2>1, <2>8 DEF Become, Holds, Layouts
      <3> QED BY <1>3, <2>10, <3>1, BufferAssumption
    <2> QED BY <1>2, <1>3, <1>4, <2>9, <2>10, <2>11, BufferAssumption DEF BInv
  <1> QED BY <1>2, <1>5, <1>6, <1>7

-----------------------------------------------------------------------------
LEMMA BufferInitHolds == ASSUME BufferInit PROVE BInv
  <1>1. CheapPrepend \in Nat /\ InitialSize \in Nat /\ MaxBytes \in Nat /\ Zero \in Bytes
    BY BufferAssumption
  <1>2. store \in Seq(Bytes) /\ Len(store) = CheapPrepend + InitialSize
    BY <1>1 DEF BufferInit
  <1>3. reader = CheapPrepend /\ writer = CheapPrepend /\ content = <<>> /\ use \in Uses
    BY DEF BufferInit
  <1>4. /\ Now \in Layouts /\ Now.store = store /\ Now.reader = CheapPrepend
        /\ Now.writer = CheapPrepend
    BY <1>1, <1>2, <1>3, LayoutParts DEF Now
  <1>5. content \in Seq(Bytes) /\ Len(content) = 0
    BY <1>3
  <1>6. Holds(Now, content)
    BY <1>1, <1>2, <1>4, <1>5 DEF Holds
  <1> QED BY <1>1, <1>2, <1>3, <1>5, <1>6 DEF BInv, MaxStore

LEMMA BufferNextHolds == ASSUME CarefulUses, BInv, [BufferNext]_bufferVars PROVE BInv'
  <1>1. CASE BufferNext
    BY <1>1, AppendStep, RetrieveStep, PrependStep, ShrinkStep, ReadFdStep DEF BufferNext
  <1>2. CASE UNCHANGED bufferVars
    BY <1>2 DEF bufferVars, BInv, Now, Layout, Holds
  <1> QED BY <1>1, <1>2

\* The layout that buffer.h draws is kept, whatever the sizes: no sequence of
\* appends, reads, moves and retrievals brings the indices out of order, and the
\* wrapping size_t arithmetic of makeSpace() does not come into play.
THEOREM LayoutIsKept == ASSUME CarefulUses PROVE BufferSpec => []IndicesInOrder
  <1>1. BufferInit => BInv
    BY BufferInitHolds
  <1>2. BInv /\ [BufferNext]_bufferVars => BInv'
    BY BufferNextHolds
  <1>3. BInv => IndicesInOrder
    BY NowFacts DEF IndicesInOrder
  <1> QED BY <1>1, <1>2, <1>3, PTL DEF BufferSpec

\* The buffer is a byte queue, whatever the sizes and the bytes: a reader gets
\* what was put in, in its order, through every move to the front, every growth
\* and every spill of readFd() into the stack buffer.
THEOREM BufferIsAQueue == ASSUME CarefulUses PROVE BufferSpec => []HoldsContent
  <1>1. BufferInit => BInv
    BY BufferInitHolds
  <1>2. BInv /\ [BufferNext]_bufferVars => BInv'
    BY BufferNextHolds
  <1>3. BInv => HoldsContent
    <2> SUFFICES ASSUME BInv PROVE Readable = content
      BY DEF HoldsContent
    <2>1. writer - reader = Len(content) /\ reader <= writer
      BY NowFacts
    <2>2. /\ Readable \in Seq(Bytes) /\ Len(Readable) = Len(content)
          /\ \A i \in 1 .. Len(content) : Readable[i] = content[i]
      <3>1. /\ Readable \in Seq(Bytes) /\ Len(Readable) = writer - reader
            /\ \A i \in 1 .. writer - reader : Readable[i] = store[reader + i]
        <4>1. store \in Seq(Bytes) /\ reader \in Nat /\ writer \in Nat /\ writer <= Len(store)
          BY NowFacts
        <4> QED BY ONLY <2>1, <4>1, PartFacts, Zenon DEF Readable
      <3> QED BY <2>1, <3>1, NowFacts
    <2> QED BY <2>2, NowFacts, SeqEqual
  <1> QED BY <1>1, <1>2, <1>3, PTL DEF BufferSpec
=============================================================================
