----------------------------- MODULE HttpServer -----------------------------
(***************************************************************************)
(* core::HttpServer on one connection: a client sends requests, the kernel *)
(* hands them to TcpConnection::handleRead() cut anywhere, and onMessage() *)
(* parses, answers and closes.  All of it runs on the connection's loop,   *)
(* so the steps of onMessage() are not interrupted; they are steps because *)
(* parseRequest() loops.  An answer is recorded with the request it        *)
(* answers and with the way its end is marked.                             *)
(***************************************************************************)
EXTENDS HttpParser

CONSTANTS Requests,      \* requests the client may send
          MaxRequests,   \* bound: requests it sends
          CloseChoices   \* closeConnection values the callback may set

RequestType == [line : RequestLines \cup {"word"},
                headers : Seq(Headers \cup {"word"}), body : Seq(Units)]

ASSUME HttpAssumption ==
    /\ Requests \subseteq RequestType
    /\ MaxRequests \in Nat
    /\ CloseChoices \subseteq BOOLEAN

VARIABLES
    asked,     \* the requests the client has sent
    waited,    \* history: it sent each after the answer to the last
    wire,      \* their units not yet read by the server
    callback,  \* http_callback_: the constructor's lambda, or the user's
    conn,      \* state_ of the connection: connected or disconnecting
    buf,       \* its input_buffer_
    parser,    \* the HttpParser of its context
    pc,        \* where onMessage() is
    answers    \* what was sent: to what, and how its end is marked

clientVars == <<asked, waited>>
vars == <<clientVars, wire, callback, conn, buf, parser, pc, answers>>

BadRequest == [NoRequest EXCEPT !.version = "bad"]

\* The units of a request: its lines, each with its end, and its body.
HeaderLines(headers) ==
    [k \in 1 .. 2 * Len(headers) |->
        IF k % 2 = 1 THEN headers[(k + 1) \div 2] ELSE "crlf"]
Encode(r) ==
    <<r.line, "crlf">> \o HeaderLines(r.headers) \o <<"crlf">> \o r.body

\* HttpResponse::appendToBuffer(): a response either gives its length or lasts
\* until the connection is closed.
AppendToBuffer(request, close) ==
    [to |-> request, end |-> IF close THEN "close" ELSE "length"]

\* TcpConnection::send(): nothing is sent once the connection is shut down.
Send(a) == answers' = IF conn = "connected" THEN Append(answers, a) ELSE answers

-----------------------------------------------------------------------------
\* External: the client sends a request.
Ask(r) ==
    /\ Len(asked) < MaxRequests
    /\ asked' = Append(asked, r)
    /\ waited' = (waited /\ Len(answers) = Len(asked))
    /\ wire' = wire \o Encode(r)
    /\ UNCHANGED <<callback, conn, buf, parser, pc, answers>>

\* TcpConnection::handleRead(): n units have arrived; onMessage() is called.
HandleRead(n) ==
    /\ pc = "idle"
    /\ n \in 1 .. Len(wire)
    /\ buf' = buf \o SubSeq(wire, 1, n)
    /\ wire' = SubSeq(wire, n + 1, Len(wire))
    /\ pc' = "parse"
    /\ UNCHANGED <<clientVars, callback, conn, parser, answers>>

ParseRequest ==
    /\ pc = "parse"
    /\ LET r == Round(parser, buf)
       IN  /\ parser' = r.parser
           /\ buf' = r.buf
           /\ pc' = CASE r.more -> "parse"
                      [] ~r.more /\ ~r.ok -> "bad"
                      [] ~r.more /\ r.ok /\ r.parser.state = "gotAll" -> "request"
                      [] ~r.more /\ r.ok /\ r.parser.state # "gotAll" -> "idle"
    /\ UNCHANGED <<clientVars, wire, callback, conn, answers>>

\* Faulty variant: the connection is left open.
BugAnswerBadRequest ==
    /\ pc = "bad"
    /\ Send(AppendToBuffer(BadRequest, TRUE))
    /\ pc' = "idle"
    /\ UNCHANGED <<clientVars, wire, callback, conn, buf, parser>>

AnswerBadRequest ==
    /\ pc = "bad"
    /\ Send(AppendToBuffer(BadRequest, TRUE))
    /\ conn' = "disconnecting"
    /\ pc' = "idle"
    /\ UNCHANGED <<clientVars, wire, callback, buf, parser>>

\* onRequest() calls http_callback_.  The constructor's lambda calls
\* onRequest() again, so that without setHttpCallback() the stack overflows;
\* the default response is for an empty http_callback_, which it never is.
OnRequest ==
    /\ pc = "request"
    /\ pc' = IF callback = "user" THEN "respond" ELSE "overflow"
    /\ UNCHANGED <<clientVars, wire, callback, conn, buf, parser, answers>>

\* Faulty variant: the parser is not reset.
BugRespond(close) ==
    /\ pc = "respond"
    /\ Send(AppendToBuffer(parser.request, close))
    /\ conn' = IF close THEN "disconnecting" ELSE conn
    /\ pc' = "idle"
    /\ UNCHANGED <<clientVars, wire, callback, buf, parser>>

\* The user's callback, the response, and the rest of onMessage().
Respond(close) ==
    /\ pc = "respond"
    /\ Send(AppendToBuffer(parser.request, close))
    /\ conn' = IF close THEN "disconnecting" ELSE conn
    /\ parser' = Reset(parser)
    /\ pc' = "idle"
    /\ UNCHANGED <<clientVars, wire, callback, buf>>

-----------------------------------------------------------------------------
Init ==
    /\ asked = <<>>
    /\ waited = TRUE
    /\ wire = <<>>
    /\ callback \in {"default", "user"}
    /\ conn = "connected"
    /\ buf = <<>>
    /\ parser = NewParser
    /\ pc = "idle"
    /\ answers = <<>>

OnMessage ==
    \/ ParseRequest
    \/ AnswerBadRequest
    \/ OnRequest
    \/ \E close \in CloseChoices : Respond(close)

Next ==
    \/ \E r \in Requests : Ask(r)
    \/ \E n \in 1 .. Len(wire) : HandleRead(n)
    \/ OnMessage

Spec == Init /\ [][Next]_vars

\* onMessage() runs to its end; what was sent arrives.
FairSpec ==
    /\ Spec
    /\ WF_vars(OnMessage)
    /\ WF_vars(\E n \in 1 .. Len(wire) : HandleRead(n))

-----------------------------------------------------------------------------
(* Properties. *)

\* The requests this parser can read: each header has its colon, and with every
\* body goes a Content-Length that is right and spelt just so.  HTTP allows any
\* case, http_parser.cpp:64 compares exactly; a header spelt otherwise is here
\* one outside DOMAIN Stoul, and its request has no body.  Of a request whose
\* line is refused nothing is asked.
WellFormed(r) ==
    r.line \in RequestLines =>
        /\ Range(r.headers) \subseteq Headers
        /\ \A h \in Range(r.headers) \cap DOMAIN Stoul : Stoul[h] = Len(r.body)
        /\ Range(r.headers) \cap DOMAIN Stoul = {} => r.body = <<>>

WellFormedRequests == \A r \in Requests : WellFormed(r)

\* The answer a request deserves: to exactly its version, headers and body.
Expected(r) ==
    IF r.line \notin RequestLines THEN BadRequest
    ELSE [version |-> r.line, headers |-> {<<h>> : h \in Range(r.headers)},
          body |-> r.body]

\* However the stream is cut, requests are answered in order, each for what
\* it was: no header, length or body of one is taken for another's.
AnswersMatch ==
    /\ Len(answers) <= Len(asked)
    /\ \A i \in DOMAIN answers : answers[i].to = Expected(asked[i])

\* A client that waits for each answer gets one: when all it sent was read and
\* onMessage() has returned, an open connection owes nothing.  (onMessage()
\* parses one request per read, so a request sent ahead may stay in the buffer.)
NothingOwed ==
    waited /\ wire = <<>> /\ pc = "idle" /\ conn = "connected"
        => Len(answers) = Len(asked)

\* The client can tell where each answer ends: only the last one goes without
\* its length, and the connection is then shut down behind it, whatever else
\* the client has sent.  A refusal is such an answer.
AnswersAreDelimited ==
    \A i \in DOMAIN answers :
        answers[i].end = "close" =>
            /\ i = Len(answers)
            /\ pc = "idle" => conn = "disconnecting"

\* With a user's callback onMessage() returns: parseRequest() is never entered
\* in the state kGotAll, where it would loop for ever.
OnMessageReturns == (callback = "user" /\ pc # "idle") ~> (pc = "idle")
=============================================================================
