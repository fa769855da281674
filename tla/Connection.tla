----------------------------- MODULE Connection -----------------------------
(***************************************************************************)
(* One client connection of a worker: server::session (server/session.cpp) *)
(* with the part of http::request that frames the byte stream              *)
(* (server/protocol/http/request.cpp).                                     *)
(*                                                                         *)
(* The worker's io_service runs one handler at a time, so a handler is one *)
(* step; what the kernel does between handlers (bytes arriving, a write    *)
(* completing or failing, the peer going away) are steps of their own.     *)
(*                                                                         *)
(* The byte stream is a sequence of units.  Unit [req |-> i, part |-> 0]   *)
(* is the whole header block of the client's i-th request, up to and       *)
(* including the "\r\n\r\n"; [req |-> i, part |-> k] is the k-th piece of  *)
(* its body.  What the parser and the host layer make of a request is data *)
(* of the request (Blocks).                                                *)
(***************************************************************************)
EXTENDS Naturals, SequencesExt

CONSTANTS
    Blocks,       \* the requests a client may send
    MaxRequests,  \* bound: requests a client sends on the connection
    BodyLimit     \* the largest body std::string::resize can provide

\* Exceptions that process_request tells apart, by where they are thrown.
ParseErrors == {"protocol_error", "unsupported_version"}
HostErrors  == {"host_not_found", "port_not_allowed", "host_error", "std_exception"}
Exceptions  == ParseErrors \cup HostErrors
Statuses    == {"response", "bad_request", "not_found", "not_implemented",
                "version_not_supported", "internal_error"}

\* parse: what reading the start line, the headers and the URI throws;
\* host: what the host layer answers ("response") or throws.
BlockType == [parse : {"ok"} \cup ParseErrors, post : BOOLEAN,
              content_length : Nat, keep_alive : BOOLEAN,
              port_ok : BOOLEAN, host : {"response"} \cup HostErrors]

ASSUME ConnectionAssumption ==
    /\ Blocks \subseteq BlockType
    /\ MaxRequests \in Nat
    /\ BodyLimit \in Nat

VARIABLES
    sent,       \* requests the client has written: [block, pieces of its body]
    wire,       \* units in the kernel's receive buffer
    closed,     \* the client has shut down its sending side (FIN)
    broken,     \* the connection was reset: nothing is read or written any more
    stream_buffer_,
    request_,   \* [head, body, body_bytes_read_]: the current request
    processing_new_request_,
    reads,      \* outstanding async_read operations
    responses_queue_,
    sending_,
    writes,     \* outstanding async_write operations
    delivered   \* responses written to the socket, in order

input  == <<sent, wire, closed, broken>>
output == <<responses_queue_, sending_, writes>>
vars   == <<input, stream_buffer_, request_, processing_new_request_, reads,
            output, delivered>>

Unit     == [req : 1..MaxRequests, part : Nat]
Response == [req : 1..MaxRequests, status : Statuses, body : Seq(Unit)]
Write    == [resp : Response, done : {"no", "ok", "error"}]
Read     == [kind : {"until_separator", "at_least"}, need : Nat]

UntilSeparator == [kind |-> "until_separator", need |-> 0]
AtLeast(n)     == [kind |-> "at_least", need |-> n]

Heads(s)  == {i \in DOMAIN s : s[i].part = 0}
Block(i)  == sent[i].block
Units(i, n) == [k \in 1..n + 1 |-> [req |-> i, part |-> k - 1]]

\* The std::shared_ptrs to the session are those its pending handlers hold:
\* without one the destructor shuts the socket down and closes it.
alive == reads # <<>> \/ writes # <<>>

-----------------------------------------------------------------------------
(* The client and the kernel *)

\* The client writes a request.  It may give up in the middle of the body.
ClientSend(b, n) ==
    /\ alive /\ ~closed /\ ~broken
    /\ Len(sent) < MaxRequests
    /\ sent' = Append(sent, [block |-> b, pieces |-> n])
    /\ wire' = wire \o Units(Len(sent) + 1, n)
    /\ closed' = (n < b.content_length)
    /\ UNCHANGED <<broken, stream_buffer_, request_, processing_new_request_,
                   reads, output, delivered>>

ClientClose ==
    /\ alive /\ ~closed /\ ~broken
    /\ closed' = TRUE
    /\ UNCHANGED <<sent, wire, broken, stream_buffer_, request_,
                   processing_new_request_, reads, output, delivered>>

\* A reset throws away what the kernel had received.
ClientReset ==
    /\ alive /\ ~broken
    /\ broken' = TRUE
    /\ wire' = <<>>
    /\ UNCHANGED <<sent, closed, stream_buffer_, request_,
                   processing_new_request_, reads, output, delivered>>

\* async_read_until looks at the buffer first; transfer_at_least counts.
Satisfied(r) == IF r.kind = "until_separator"
                THEN Heads(stream_buffer_) # {}
                ELSE r.need = 0

\* The composed read takes the next k units, which may be more than it needs.
Receive(i, k) ==
    /\ i \in DOMAIN reads /\ ~Satisfied(reads[i])
    /\ k \in 1..Len(wire)
    /\ stream_buffer_' = stream_buffer_ \o SubSeq(wire, 1, k)
    /\ wire' = SubSeq(wire, k + 1, Len(wire))
    /\ reads' = [reads EXCEPT ![i].need = IF k >= @ THEN 0 ELSE @ - k]
    /\ UNCHANGED <<sent, closed, broken, request_, processing_new_request_,
                   output, delivered>>

\* The kernel has taken all of a response, or refused it.
KernelWrite(i) ==
    /\ i \in DOMAIN writes /\ writes[i].done = "no"
    /\ writes' = [writes EXCEPT ![i].done = IF broken THEN "error" ELSE "ok"]
    /\ delivered' = IF broken THEN delivered
                              ELSE Append(delivered, writes[i].resp)
    /\ UNCHANGED <<input, stream_buffer_, request_, processing_new_request_,
                   reads, responses_queue_, sending_>>

-----------------------------------------------------------------------------
(* Reading a request: http::request::process_stream{,_again} *)

\* process_stream_again: take what the buffer has, at most what is missing;
\* returns the request, the rest of the buffer and the units still missing.
process_stream_again(req, buf) ==
    LET missing == Block(req.head).content_length - req.body_bytes_read_
        got     == IF Len(buf) < missing THEN Len(buf) ELSE missing
    IN  [request  |-> [req EXCEPT !.body = @ \o SubSeq(buf, 1, got),
                                  !.body_bytes_read_ = @ + got],
         buffer   |-> SubSeq(buf, got + 1, Len(buf)),
         required |-> missing - got,
         error    |-> "none"]

\* Mutant of reset: leaves the old body in place.
reset_keeps_body(req, head) == [req EXCEPT !.head = head, !.body_bytes_read_ = 0]

reset(req, head) == [head |-> head, body |-> <<>>, body_bytes_read_ |-> 0]

\* What process_stream throws on header block b, found at place h of the
\* buffer: anything before the block makes its start line malformed.
stream_error(b, h) ==
    IF h > 1 THEN "protocol_error"
    ELSE IF b.parse # "ok" THEN b.parse
    ELSE IF b.content_length # 0 /\ ~b.post THEN "protocol_error"
    ELSE IF b.content_length > BodyLimit THEN "std_exception"
    ELSE "none"

\* process_stream: the header block, then as much of the body as is there.
process_stream(req, buf) ==
    LET h    == Min(Heads(buf))
        e    == stream_error(Block(buf[h].req), h)
        new  == reset(req, buf[h].req)
        rest == SubSeq(buf, h + 1, Len(buf))
    IN  IF e = "none" THEN process_stream_again(new, rest)
        ELSE [request |-> new, buffer |-> rest, required |-> 0, error |-> e]

-----------------------------------------------------------------------------
(* server::session *)

\* Mutant of add_response_handler: does not look at sending_.
add_response_handler_always(queue, sending, w) ==
    IF queue = <<>>
    THEN sending_' = sending /\ writes' = w
    ELSE /\ sending_' = TRUE
         /\ writes' = Append(w, [resp |-> Head(queue), done |-> "no"])

\* Start writing the front response unless a write is running.
add_response_handler(queue, sending, w) ==
    IF sending \/ queue = <<>>
    THEN sending_' = sending /\ writes' = w
    ELSE /\ sending_' = TRUE
         /\ writes' = Append(w, [resp |-> Head(queue), done |-> "no"])

send_response(resp) ==
    LET queue == Append(responses_queue_, resp)
    IN  /\ responses_queue_' = queue
        /\ add_response_handler(queue, sending_, writes)

\* Mutant of error_status: no clause for other std::exceptions.
error_status_uncaught(e) ==
    IF e = "std_exception" THEN "terminate" ELSE "bad_request"

\* The catch clauses of process_request.  Nothing throws unimplemented_method.
error_status(e) ==
    CASE e \in {"host_not_found", "port_not_allowed"} -> "not_found"
      [] e = "host_error"           -> "bad_request"
      [] e = "unimplemented_method" -> "not_implemented"
      [] e = "unsupported_version"  -> "version_not_supported"
      [] e = "protocol_error"       -> "bad_request"
      [] e = "std_exception"        -> "internal_error"

handle_error(req, e) ==
    send_response([req |-> req.head, status |-> error_status(e), body |-> req.body])

\* What the port check and the host layer make of a complete request.
host_error(b) == IF ~b.port_ok THEN "protocol_error"
                 ELSE IF b.host = "response" THEN "none" ELSE b.host

\* The request in the buffer, as far as it has arrived.
Parsed == IF processing_new_request_
          THEN process_stream(request_, stream_buffer_)
          ELSE process_stream_again(request_, stream_buffer_)

ReadDone(i) == i \in DOMAIN reads /\ Satisfied(reads[i])

\* Mutant of ContinueReading: waits for the whole body again.
ContinueReading_from_the_start(i, p) ==
    /\ p.required > 0
    /\ stream_buffer_' = p.buffer
    /\ request_' = p.request
    /\ processing_new_request_' = FALSE
    /\ reads' = Append(RemoveAt(reads, i),
                       AtLeast(Block(p.request.head).content_length))
    /\ UNCHANGED <<input, output, delivered>>

\* request_handler -> process_request, when part of the body is missing.
ContinueReading(i, p) ==
    /\ p.required > 0
    /\ stream_buffer_' = p.buffer
    /\ request_' = p.request
    /\ processing_new_request_' = FALSE
    /\ reads' = Append(RemoveAt(reads, i), AtLeast(p.required))
    /\ UNCHANGED <<input, output, delivered>>

\* Mutant of RejectRequest: goes on to the next request after an error.
RejectRequest_goes_on(i, p) ==
    /\ p.error # "none"
    /\ stream_buffer_' = p.buffer
    /\ request_' = p.request
    /\ handle_error(p.request, p.error)
    /\ reads' = Append(RemoveAt(reads, i), UntilSeparator)
    /\ UNCHANGED <<input, processing_new_request_, delivered>>

\* request_handler -> process_request, when reading the request throws.
RejectRequest(i, p) ==
    /\ p.error # "none"
    /\ stream_buffer_' = p.buffer
    /\ request_' = p.request
    /\ handle_error(p.request, p.error)
    /\ reads' = RemoveAt(reads, i)
    /\ UNCHANGED <<input, processing_new_request_, delivered>>

\* request_handler -> process_request on a complete request: the host's
\* response is queued, and the next request is read if it is kept alive.
AnswerRequest(i, p) ==
    LET req == p.request
        b   == Block(req.head)
    IN  /\ p.error = "none" /\ p.required = 0
        /\ host_error(b) = "none"
        /\ stream_buffer_' = p.buffer
        /\ request_' = req
        /\ processing_new_request_' = TRUE
        /\ send_response([req |-> req.head, status |-> "response", body |-> req.body])
        /\ reads' = IF b.keep_alive THEN Append(RemoveAt(reads, i), UntilSeparator)
                                    ELSE RemoveAt(reads, i)
        /\ UNCHANGED <<input, delivered>>

\* request_handler -> process_request on a complete request the host refuses.
RefuseRequest(i, p) ==
    LET req == p.request
        e   == host_error(Block(req.head))
    IN  /\ p.error = "none" /\ p.required = 0
        /\ e # "none"
        /\ stream_buffer_' = p.buffer
        /\ request_' = req
        /\ processing_new_request_' = TRUE
        /\ handle_error(req, e)
        /\ reads' = RemoveAt(reads, i)
        /\ UNCHANGED <<input, delivered>>

\* request_handler -> process_request.
request_handler(i) ==
    /\ ReadDone(i)
    /\ \E p \in {Parsed} : \/ ContinueReading(i, p) \/ RejectRequest(i, p)
                          \/ AnswerRequest(i, p) \/ RefuseRequest(i, p)

\* Mutant of ReadFails: retries the read instead of giving the session up.
ReadFails_retries(i) ==
    /\ i \in DOMAIN reads /\ ~Satisfied(reads[i])
    /\ wire = <<>> /\ (closed \/ broken)
    /\ reads' = Append(RemoveAt(reads, i), reads[i])
    /\ UNCHANGED <<input, stream_buffer_, request_, processing_new_request_,
                   output, delivered>>

\* request_handler with an error (end of file, reset): only a log line.
ReadFails(i) ==
    /\ i \in DOMAIN reads /\ ~Satisfied(reads[i])
    /\ wire = <<>> /\ (closed \/ broken)
    /\ reads' = RemoveAt(reads, i)
    /\ UNCHANGED <<input, stream_buffer_, request_, processing_new_request_,
                   output, delivered>>

\* Mutant of response_handler: pops, but does not start the next write.
response_handler_stops(i) ==
    /\ i \in DOMAIN writes /\ writes[i].done # "no"
    /\ responses_queue_' = Tail(responses_queue_)
    /\ sending_' = FALSE /\ writes' = RemoveAt(writes, i)
    /\ UNCHANGED <<input, stream_buffer_, request_, processing_new_request_,
                   reads, delivered>>

\* response_handler: pop the response; after an error write nothing more.
response_handler(i) ==
    LET queue == Tail(responses_queue_)
        w     == RemoveAt(writes, i)
    IN  /\ i \in DOMAIN writes /\ writes[i].done # "no"
        /\ responses_queue_' = queue
        /\ IF writes[i].done = "ok" THEN add_response_handler(queue, FALSE, w)
                                    ELSE sending_' = FALSE /\ writes' = w
        /\ UNCHANGED <<input, stream_buffer_, request_, processing_new_request_,
                       reads, delivered>>

\* session::run: the session is constructed and reads its first request.
Init ==
    /\ sent = <<>> /\ wire = <<>> /\ closed = FALSE /\ broken = FALSE
    /\ stream_buffer_ = <<>>
    /\ request_ = [head |-> 0, body |-> <<>>, body_bytes_read_ |-> 0]
    /\ processing_new_request_ = TRUE
    /\ reads = <<UntilSeparator>>
    /\ responses_queue_ = <<>> /\ sending_ = FALSE /\ writes = <<>>
    /\ delivered = <<>>

\* Destroyed: nothing is pending and the socket is closed.
Destroyed == ~alive /\ UNCHANGED vars

Read_(i)  == \/ request_handler(i)
             \/ ReadFails(i) \/ \E k \in 1..Len(wire) : Receive(i, k)
Write_(i) == KernelWrite(i) \/ response_handler(i)

Client == \/ \E b \in Blocks : \E n \in 0..b.content_length : ClientSend(b, n)
          \/ ClientClose \/ ClientReset

Next == \/ Client
        \/ \E i \in DOMAIN reads : Read_(i)
        \/ \E i \in DOMAIN writes : Write_(i)
        \/ Destroyed

\* The io_service runs every handler that is ready, and the kernel moves
\* bytes while the client keeps reading.  Nothing obliges the client to send.
Fairness == /\ WF_vars(\E i \in DOMAIN reads : Read_(i))
            /\ WF_vars(\E i \in DOMAIN writes : Write_(i))

Spec == Init /\ [][Next]_vars /\ Fairness

-----------------------------------------------------------------------------
(* Properties *)

\* Every variable holds what its declaration in session.h allows.
TypeOK ==
    /\ sent \in Seq([block : Blocks, pieces : Nat])
    /\ Len(sent) <= MaxRequests
    /\ wire \in Seq(Unit) /\ stream_buffer_ \in Seq(Unit)
    /\ closed \in BOOLEAN /\ broken \in BOOLEAN
    /\ request_ \in [head : 0..MaxRequests, body : Seq(Unit), body_bytes_read_ : Nat]
    /\ processing_new_request_ \in BOOLEAN
    /\ reads \in Seq(Read) /\ writes \in Seq(Write)
    /\ responses_queue_ \in Seq(Response) /\ delivered \in Seq(Response)
    /\ sending_ \in BOOLEAN

\* session.h: responses_queue_.front() is the response being sent now.  So at
\* most one write runs, and the buffers it reads belong to a response that is
\* still in the queue.
FrontIsBeingSent ==
    IF sending_ THEN /\ Len(writes) = 1 /\ responses_queue_ # <<>>
                     /\ writes[1].resp = Head(responses_queue_)
                ELSE writes = <<>>

\* A response waits only behind one that is being sent: while the connection
\* works none is left in the queue with no handler to send it, nor lost with
\* the session when the last handler ends.
NothingStranded == ~broken /\ responses_queue_ # <<>> => sending_

\* The response after which process_request reads no further request.
Final(r) == r.status # "response" \/ ~Block(r.req).keep_alive

Replies       == Range(delivered) \cup Range(responses_queue_)
FinalAnswered == \E r \in Replies : Final(r)

\* One read runs at a time (two would share stream_buffer_); after a final
\* response none runs, and until then the session never stops listening.
ReadsUntilFinal ==
    /\ Len(reads) <= 1
    /\ FinalAnswered => reads = <<>>
    /\ ~FinalAnswered /\ ~closed /\ ~broken => reads # <<>>

\* The session ends, and with it the socket, once the client has left or the
\* final response is queued: no handler keeps it alive for ever.
SessionEnds == (closed \/ broken \/ FinalAnswered) ~> ~alive

\* What the parser relies on when it runs: the buffer holds only units of
\* requests the client sent, and a read that waits for a body counts the units
\* the current request still misses.
Known == [req : 1..Len(sent), part : Nat]

ReaderInv ==
    /\ wire \in Seq(Known) /\ stream_buffer_ \in Seq(Known)
    /\ request_.head <= Len(sent)
    /\ ~processing_new_request_ =>
           /\ request_.head # 0
           /\ request_.body_bytes_read_ <= Block(request_.head).content_length
    /\ Len(reads) <= 1
    /\ \A i \in DOMAIN reads :
           (reads[i].kind = "until_separator") <=> processing_new_request_

\* Every response answers a request that was sent, and one whose write is over
\* has been delivered.
ReplyInv ==
    /\ \A r \in Replies : r.req <= Len(sent)
    /\ \A i \in DOMAIN writes :
           writes[i].done = "ok" => writes[i].resp \in Range(delivered)

\* A write fails only on a broken connection.
WriteFailsOnlyBroken == \A i \in DOMAIN writes : writes[i].done = "error" => broken

\* The inductive invariant.
WriterInv == FrontIsBeingSent /\ NothingStranded /\ WriteFailsOnlyBroken
IInv      == TypeOK /\ ReaderInv /\ WriterInv

\* The status the client is owed for a request, by the meaning of HTTP rather
\* than by the order of the code: unreadable, refused or answered.
Unreadable(b) == \/ b.parse # "ok"
                 \/ b.content_length > 0 /\ (~b.post \/ b.content_length > BodyLimit)
Owed(b) == IF Unreadable(b)
           THEN CASE b.parse = "unsupported_version" -> "version_not_supported"
                  [] b.parse = "ok" /\ b.post        -> "internal_error"
                  [] OTHER                           -> "bad_request"
           ELSE CASE ~b.port_ok -> "bad_request"
                  [] b.port_ok /\ b.host = "response" -> "response"
                  [] OTHER -> error_status(b.host)

OwedReply(m, i) == [req |-> i, status |-> Owed(m.block),
                    body |-> IF Unreadable(m.block) THEN <<>>
                             ELSE Tail(Units(i, m.block.content_length))]
Arrived(m)   == Unreadable(m.block) \/ m.pieces = m.block.content_length
LastAsked(m) == Owed(m.block) # "response" \/ ~m.block.keep_alive

\* What the refinement below rests on, as long as the connection works.
\* The units no request has been made of yet, and the responses not yet
\* delivered: once its write is over, the front of the queue has been.
Unread   == stream_buffer_ \o wire
Waiting  == IF writes # <<>> /\ writes[1].done = "ok" THEN Tail(responses_queue_)
                                                      ELSE responses_queue_
Answered == Len(delivered) + Len(Waiting)

\* s begins with what the client wrote after its i-th request.
NextIsHead(s, i) == IF i = Len(sent) THEN s = <<>>
                    ELSE s # <<>> /\ s[1] = [req |-> i + 1, part |-> 0]

\* s begins with what the client wrote after part q of its i-th request.
NextIsPart(s, i, q) == IF q < sent[i].pieces
                       THEN s # <<>> /\ s[1] = [req |-> i, part |-> q + 1]
                       ELSE NextIsHead(s, i)

\* Requests are written whole, one after the other: a unit is followed by the
\* rest of its request, and that by the next one.
Whole(s) == \A j \in DOMAIN s :
    LET i == s[j].req
        q == s[j].part
    IN  /\ i \in 1..Len(sent) /\ q <= sent[i].pieces
        /\ \A k \in 0..sent[i].pieces - q :
               j + k \in DOMAIN s /\ s[j + k] = [req |-> i, part |-> q + k]
        /\ q = sent[i].pieces =>
               IF j = Len(s) THEN i = Len(sent)
                             ELSE s[j + 1] = [req |-> i + 1, part |-> 0]

\* Only the last request may be incomplete, of a client that gave up in it.
SentInv == \A i \in DOMAIN sent :
    /\ sent[i].pieces <= sent[i].block.content_length
    /\ sent[i].pieces < sent[i].block.content_length => closed /\ i = Len(sent)

\* The responses are those owed, so far, and the last one asked for is the end.
OwedInv ==
    /\ Answered <= Len(sent)
    /\ \A k \in DOMAIN Waiting :
           Waiting[k] = OwedReply(sent[Len(delivered) + k], Len(delivered) + k)
    /\ \A i \in 1..Answered :
           /\ Arrived(sent[i])
           /\ LastAsked(sent[i]) => i = Answered /\ reads = <<>>

\* The reader stands where the next response will come from.
ListenInv == reads # <<>> =>
    /\ Whole(Unread)
    /\ IF processing_new_request_ THEN NextIsHead(Unread, Answered)
       ELSE LET i == request_.head
                q == request_.body_bytes_read_
            IN  /\ i = Answered + 1 /\ ~Unreadable(Block(i))
                /\ q <= sent[i].pieces /\ request_.body = Tail(Units(i, q))
                /\ NextIsPart(Unread, i, q)

PipelineInv == ~broken => SentInv /\ OwedInv /\ ListenInv

\* The connection is a pipeline: replies come in the order of the requests,
\* one each, each to its own request and body, and none after the last.
P == INSTANCE Pipeline WITH
        asked <- sent, replies <- delivered, cut <- broken,
        Reply <- OwedReply, Ready <- Arrived, Ends <- LastAsked
AnswersInOrder == P!Safety

\* And every request that arrives before the last is answered, unless the peer
\* breaks the connection off.
AnswersCome == P!Liveness
=============================================================================
