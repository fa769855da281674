---------------------------- MODULE MCConnection ----------------------------
\* Requests that between them take every path through process_request.
EXTENDS Connection

Base == [parse |-> "ok", post |-> FALSE, content_length |-> 0,
         keep_alive |-> TRUE, port_ok |-> TRUE, host |-> "response"]

Get       == Base
LastGet   == [Base EXCEPT !.keep_alive = FALSE]
Post      == [Base EXCEPT !.post = TRUE, !.content_length = 2]
Malformed == [Base EXCEPT !.parse = "protocol_error"]
OldHttp   == [Base EXCEPT !.parse = "unsupported_version"]
GetBody   == [Base EXCEPT !.content_length = 1]
HugePost  == [Base EXCEPT !.post = TRUE, !.content_length = 3]
BadPort   == [Base EXCEPT !.port_ok = FALSE]
Refused(e) == [Base EXCEPT !.host = e]

\* Every kind of request.
AllBlocks == {Get, LastGet, Post, Malformed, OldHttp, GetBody, HugePost, BadPort}
             \cup {Refused(e) : e \in HostErrors}
=============================================================================
