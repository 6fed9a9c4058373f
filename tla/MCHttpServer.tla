---------------------------- MODULE MCHttpServer ----------------------------
(* Requests for the HttpServer model. *)
EXTENDS HttpServer

Lengths == [clen0 |-> 0, clen1 |-> 1, clen2 |-> 2]

Plain == [line |-> "get11", headers |-> <<"field">>, body |-> <<>>]
Old == [line |-> "get10", headers |-> <<>>, body |-> <<>>]
ZeroLength == [line |-> "get11", headers |-> <<"clen0">>, body |-> <<>>]
Post == [line |-> "get11", headers |-> <<"clen1">>, body |-> <<"x">>]
\* A body that looks like a line, and one that looks like a request.
PostLine == [line |-> "get11", headers |-> <<"clen2", "field">>,
             body |-> <<"x", "crlf">>]
PostRequest == [line |-> "get10", headers |-> <<"field", "clen2">>,
                body |-> <<"get11", "crlf">>]
Refused == [line |-> "word", headers |-> <<>>, body |-> <<>>]

Mixed == {Plain, Old, ZeroLength, Post, PostLine, PostRequest, Refused}

ASSUME MixedAssumption == WellFormedRequests
=============================================================================
