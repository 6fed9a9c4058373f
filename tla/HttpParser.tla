----------------------------- MODULE HttpParser -----------------------------
(***************************************************************************)
(* core::HttpParser.  Input is a sequence of units: a CRLF, the text of a  *)
(* line, or a piece of body; any of them may be the last to have arrived.  *)
(* What a line's text says is all that matters of it:                      *)
(*   "get10" "get11"          a request line that is accepted              *)
(*   DOMAIN Stoul             a Content-Length header                      *)
(*   "field"                  another header                               *)
(*   "word"                   text without a colon, no request line either *)
(* One round of parseRequest()'s loop is one application of Round.         *)
(***************************************************************************)
EXTENDS Integers, Sequences, SequencesExt

CONSTANT Stoul  \* std::stoul of each Content-Length header's value

RequestLines == {"get10", "get11"}
Headers == {"field"} \cup DOMAIN Stoul
Units == RequestLines \cup Headers \cup {"word", "x", "crlf"}

ASSUME ParserAssumption ==
    /\ Stoul \in [DOMAIN Stoul -> Nat]
    /\ DOMAIN Stoul \cap {"get10", "get11", "field", "word", "x", "crlf"} = {}

\* HttpRequest; headers_ is a map, of which the set of lines is kept.
NoRequest == [version |-> "unknown", headers |-> {}, body |-> <<>>]

NewParser == [state |-> "expectRequestLine", request |-> NoRequest,
              contentLength |-> 0]

\* Faulty variant: content_length_ survives.
BugReset(p) == [NewParser EXCEPT !.contentLength = p.contentLength]

Reset(p) == NewParser

HasCRLF(buf) == "crlf" \in Range(buf)

\* The units before the first CRLF, and what is left behind it.
Line(buf) == SubSeq(buf, 1, SelectInSeq(buf, LAMBDA u : u = "crlf") - 1)
AfterLine(buf) ==
    SubSeq(buf, SelectInSeq(buf, LAMBDA u : u = "crlf") + 1, Len(buf))

\* The outcome of a round: parser, buffer, ok and hasMore.
Result(p, buf, ok, more) == [parser |-> p, buf |-> buf, ok |-> ok, more |-> more]
Incomplete(p, buf) == Result(p, buf, TRUE, FALSE)

\* A request line that is refused is left in the buffer.
RequestLineRound(p, buf) ==
    IF ~HasCRLF(buf) THEN Incomplete(p, buf)
    ELSE IF Line(buf) \in {<<l>> : l \in RequestLines}
    THEN Result([p EXCEPT !.request.version = Line(buf)[1],
                          !.state = "expectHeaders"],
                AfterLine(buf), TRUE, TRUE)
    ELSE Result(p, buf, FALSE, FALSE)

\* A line without a colon ends the headers, whether it is empty or not.
HeaderRound(p, buf) ==
    LET line == Line(buf)
        found == Range(line) \cap Headers
        isLength == line \in {<<h>> : h \in DOMAIN Stoul}
    IN  CASE ~HasCRLF(buf) -> Incomplete(p, buf)
          [] HasCRLF(buf) /\ found # {} ->
                Result([p EXCEPT !.request.headers = @ \cup {line},
                                 !.contentLength = IF isLength THEN Stoul[line[1]]
                                                               ELSE @],
                       AfterLine(buf), TRUE, TRUE)
          [] HasCRLF(buf) /\ found = {} ->
                Result([p EXCEPT !.state = IF p.contentLength > 0
                                           THEN "expectBody" ELSE "gotAll"],
                       AfterLine(buf), TRUE, p.contentLength > 0)

\* Faulty variant: the body is what has arrived.
BugBodyRound(p, buf) ==
    Result([p EXCEPT !.request.body = buf, !.state = "gotAll"], <<>>, TRUE, FALSE)

BodyRound(p, buf) ==
    IF Len(buf) < p.contentLength THEN Incomplete(p, buf)
    ELSE Result([p EXCEPT !.request.body = SubSeq(buf, 1, p.contentLength),
                          !.state = "gotAll"],
                SubSeq(buf, p.contentLength + 1, Len(buf)), TRUE, FALSE)

\* With the state already kGotAll a round changes nothing and asks for more.
Round(p, buf) ==
    CASE p.state = "expectRequestLine" -> RequestLineRound(p, buf)
      [] p.state = "expectHeaders"     -> HeaderRound(p, buf)
      [] p.state = "expectBody"        -> BodyRound(p, buf)
      [] p.state = "gotAll"            -> Result(p, buf, TRUE, TRUE)
=============================================================================
