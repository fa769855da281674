-------------------------- MODULE ConnectionProofs --------------------------
(***************************************************************************)
(* Proofs about Connection, for every set of requests, every number of     *)
(* them and every body limit.                                              *)
(***************************************************************************)
EXTENDS Connection, SequenceTheorems, FiniteSetTheorems, WellFoundedInduction, TLAPS

-----------------------------------------------------------------------------
(* Sequences and numbers *)

\* A nonempty set of naturals has a least element, so Min is one.
LEMMA MinOfNats ==
    ASSUME NEW S, S \subseteq Nat, S # {}
    PROVE  Min(S) \in S /\ \A y \in S : Min(S) <= y
<1>1. PICK x \in S : \A y \in S : ~ (<<y, x>> \in OpToRel(<, Nat))
  BY NatLessThanWellFounded, WFMin
<1>2. \A y \in S : x <= y
  <2> SUFFICES ASSUME NEW y \in S PROVE x <= y
    OBVIOUS
  <2>1. <<y, x>> \notin OpToRel(<, Nat)
    BY <1>1
  <2>2. ~ (y < x)
    BY <2>1, <<y, x>> \in Nat \X Nat DEF OpToRel
  <2> QED BY <2>2
<1> QED BY <1>2 DEF Min

\* A slice of a sequence is a sequence of the same elements.
LEMMA Slice ==
    ASSUME NEW S, NEW s \in Seq(S), NEW m \in Nat \ {0}, NEW n \in Nat, n <= Len(s)
    PROVE  /\ SubSeq(s, m, n) \in Seq(S)
           /\ Len(SubSeq(s, m, n)) = IF m <= n THEN n - m + 1 ELSE 0
<1>1. \A i \in m..n : s[i] \in S
  BY ElementOfSeq
<1> QED BY <1>1, SubSeqProperties

\* Removing an element shortens a sequence by one.
LEMMA Removed ==
    ASSUME NEW S, NEW s \in Seq(S), NEW i \in 1..Len(s)
    PROVE  /\ RemoveAt(s, i) \in Seq(S)
           /\ Len(RemoveAt(s, i)) = Len(s) - 1
<1>1. Len(s) \in Nat
  BY LenProperties
<1> DEFINE a == SubSeq(s, 1, i - 1)
           b == SubSeq(s, i + 1, Len(s))
<1>2. a \in Seq(S) /\ Len(a) = i - 1
  BY <1>1, Slice
<1>3. b \in Seq(S) /\ Len(b) = Len(s) - i
  BY <1>1, Slice
<1>4. RemoveAt(s, i) = a \o b
  BY DEF RemoveAt
<1> HIDE DEF a, b
<1>5. a \o b \in Seq(S) /\ Len(a \o b) = Len(a) + Len(b)
  BY <1>2, <1>3, ConcatProperties
<1>6. Len(a) + Len(b) = Len(s) - 1
  BY <1>1, <1>2, <1>3
<1> QED BY <1>4, <1>5, <1>6

\* What is left of a sequence of one element is the empty sequence.
LEMMA RemovedOnly ==
    ASSUME NEW S, NEW s \in Seq(S), Len(s) = 1, NEW i \in 1..Len(s)
    PROVE  RemoveAt(s, i) = <<>>
<1>1. RemoveAt(s, i) \in Seq(S) /\ Len(RemoveAt(s, i)) = Len(s) - 1
  BY Removed
<1> QED BY <1>1, EmptySeq

\* Appending keeps the head of a nonempty sequence.
LEMMA Appended ==
    ASSUME NEW S, NEW s \in Seq(S), NEW e \in S
    PROVE  /\ Append(s, e) \in Seq(S)
           /\ Len(Append(s, e)) = Len(s) + 1
           /\ Append(s, e) # <<>>
           /\ Head(Append(s, e)) = IF s = <<>> THEN e ELSE Head(s)
<1>1. Append(s, e) \in Seq(S) /\ Len(Append(s, e)) = Len(s) + 1
  OBVIOUS
<1>2. Append(s, e) # <<>>
  BY <1>1, LenProperties, EmptySeq
<1>3. Head(Append(s, e)) = Append(s, e)[1]
  BY <1>1, <1>2
<1>4. CASE s = <<>>
  BY <1>1, <1>2, <1>4
<1>5. CASE s # <<>>
  <2>1. Append(s, e)[1] = s[1] /\ Head(s) = s[1]
    BY <1>5
  <2> QED BY <1>1, <1>2, <1>3, <1>5, <2>1
<1> QED BY <1>4, <1>5

-----------------------------------------------------------------------------
(* The parser *)

ParsedRequest == [head : 1..Len(sent), body : Seq(Unit), body_bytes_read_ : Nat]

\* process_stream_again never takes more than the request misses.
LEMMA StreamAgain ==
    ASSUME TypeOK,
           NEW req \in ParsedRequest,
           req.body_bytes_read_ <= Block(req.head).content_length,
           NEW buf \in Seq(Known)
    PROVE  LET p == process_stream_again(req, buf)
           IN  /\ p.request \in ParsedRequest
               /\ p.request.head = req.head
               /\ p.request.body_bytes_read_ <= Block(req.head).content_length
               /\ p.buffer \in Seq(Known)
               /\ p.required \in Nat
               /\ p.error = "none"
<1> DEFINE missing == Block(req.head).content_length - req.body_bytes_read_
           got == IF Len(buf) < missing THEN Len(buf) ELSE missing
<1>1. Block(req.head).content_length \in Nat
  <2>1. sent[req.head] \in [block : Blocks, pieces : Nat]
    BY ElementOfSeq DEF TypeOK, ParsedRequest
  <2>2. Block(req.head) \in BlockType
    BY <2>1, ConnectionAssumption DEF Block
  <2> QED BY <2>2 DEF BlockType
<1>2. missing \in Nat /\ Len(buf) \in Nat
  BY <1>1, LenProperties DEF ParsedRequest
<1>3. got \in Nat /\ got <= Len(buf) /\ got <= missing
  BY <1>2
<1>4. Known \subseteq Unit
  <2>1. 1..Len(sent) \subseteq 1..MaxRequests
    BY ConnectionAssumption, LenProperties DEF TypeOK
  <2> QED BY <2>1 DEF Known, Unit
<1>5. SubSeq(buf, 1, got) \in Seq(Unit)
  BY <1>3, <1>4, Slice, SeqMonotonic
<1>6. SubSeq(buf, got + 1, Len(buf)) \in Seq(Known)
  BY <1>2, <1>3, Slice
<1>7. req.body \o SubSeq(buf, 1, got) \in Seq(Unit)
  BY <1>5, ConcatProperties DEF ParsedRequest
<1>8. [req EXCEPT !.body = @ \o SubSeq(buf, 1, got), !.body_bytes_read_ = @ + got]
          \in ParsedRequest
  <2>1. \A body \in Seq(Unit), n \in Nat :
            [req EXCEPT !.body = body, !.body_bytes_read_ = @ + n] \in ParsedRequest
    <3> TAKE body \in Seq(Unit), n \in Nat
    <3>1. req.body_bytes_read_ + n \in Nat
      BY DEF ParsedRequest
    <3> QED BY <3>1 DEF ParsedRequest
  <2> HIDE DEF got
  <2> QED BY <1>3, <1>7, <2>1
<1>9. req.body_bytes_read_ + got <= Block(req.head).content_length
  BY <1>1, <1>2, <1>3 DEF ParsedRequest
<1> HIDE DEF missing, got
<1>10. missing - got \in Nat
  BY <1>2, <1>3
<1> QED BY <1>6, <1>8, <1>9, <1>10
        DEF process_stream_again, missing, got, ParsedRequest

\* A header block in the buffer is found, and is one the client sent.
LEMMA FirstHead ==
    ASSUME TypeOK, NEW buf \in Seq(Known), Heads(buf) # {}
    PROVE  /\ Min(Heads(buf)) \in 1..Len(buf)
           /\ buf[Min(Heads(buf))].req \in 1..Len(sent)
<1>1. Heads(buf) \subseteq 1..Len(buf) /\ Len(buf) \in Nat
  BY LenProperties DEF Heads
<1>2. Min(Heads(buf)) \in 1..Len(buf)
  BY <1>1, MinOfNats
<1>3. buf[Min(Heads(buf))] \in Known
  BY <1>2, ElementOfSeq
<1> QED BY <1>2, <1>3 DEF Known

\* Reading a request leaves a rest of the buffer, a request the client sent
\* and an exception of the protocol, or the number of units it still misses.
LEMMA Stream ==
    ASSUME TypeOK, NEW req, NEW buf \in Seq(Known), Heads(buf) # {}
    PROVE  LET p == process_stream(req, buf)
           IN  /\ p.request \in ParsedRequest
               /\ p.request.body_bytes_read_ <= Block(p.request.head).content_length
               /\ p.buffer \in Seq(Known)
               /\ p.required \in Nat
               /\ p.error \in Exceptions \cup {"none"}
               /\ p.error # "none" => p.required = 0
<1> DEFINE h    == Min(Heads(buf))
           e    == stream_error(Block(buf[h].req), h)
           new  == reset(req, buf[h].req)
           rest == SubSeq(buf, h + 1, Len(buf))
<1>1. h \in 1..Len(buf) /\ buf[h].req \in 1..Len(sent) /\ Len(buf) \in Nat
  BY FirstHead, LenProperties
<1>2. rest \in Seq(Known)
  BY <1>1, Slice
<1>3. Block(buf[h].req) \in BlockType
  <2>1. sent[buf[h].req] \in [block : Blocks, pieces : Nat]
    BY <1>1, ElementOfSeq DEF TypeOK
  <2> QED BY <2>1, ConnectionAssumption DEF Block
<1>4. new \in ParsedRequest /\ new.body_bytes_read_ = 0 /\ new.head = buf[h].req
  BY <1>1, EmptySeq DEF ParsedRequest, reset
<1>5. e \in Exceptions \cup {"none"}
  BY <1>3 DEF stream_error, BlockType, Exceptions, ParseErrors, HostErrors
<1>6. Block(buf[h].req).content_length \in Nat
  BY <1>3 DEF BlockType
<1> HIDE DEF h, e, new, rest
<1>7. process_stream(req, buf) =
          IF e = "none" THEN process_stream_again(new, rest)
          ELSE [request |-> new, buffer |-> rest, required |-> 0, error |-> e]
  BY DEF process_stream, h, e, new, rest
<1>8. CASE e = "none"
  <2>1. new.body_bytes_read_ <= Block(new.head).content_length
    BY <1>4, <1>6
  <2> DEFINE p == process_stream_again(new, rest)
  <2>2. /\ p.request \in ParsedRequest
        /\ p.request.head = new.head
        /\ p.request.body_bytes_read_ <= Block(new.head).content_length
        /\ p.buffer \in Seq(Known)
        /\ p.required \in Nat
        /\ p.error = "none"
    BY <1>2, <1>4, <2>1, StreamAgain
  <2> HIDE DEF p
  <2>3. process_stream(req, buf) = p
    BY <1>7, <1>8 DEF p
  <2> QED BY <2>2, <2>3
<1>9. CASE e # "none"
  BY <1>2, <1>4, <1>5, <1>6, <1>7, <1>9
<1> QED BY <1>8, <1>9

\* The same for whatever the running handler parses.
LEMMA ParsedOK ==
    ASSUME TypeOK, ReaderInv, NEW i \in DOMAIN reads, ReadDone(i)
    PROVE  /\ Parsed.request \in ParsedRequest
           /\ Parsed.request.body_bytes_read_
                  <= Block(Parsed.request.head).content_length
           /\ Parsed.buffer \in Seq(Known)
           /\ Parsed.required \in Nat
           /\ Parsed.error \in Exceptions \cup {"none"}
           /\ Parsed.error # "none" => Parsed.required = 0 /\ processing_new_request_
<1>1. CASE processing_new_request_
  <2>1. Heads(stream_buffer_) # {}
    BY <1>1 DEF ReaderInv, ReadDone, Satisfied
  <2>2. Parsed = process_stream(request_, stream_buffer_)
    BY <1>1 DEF Parsed
  <2> QED BY <1>1, <2>1, <2>2, Stream DEF ReaderInv
<1>2. CASE ~processing_new_request_
  <2>1. /\ request_ \in ParsedRequest
        /\ request_.body_bytes_read_ <= Block(request_.head).content_length
    BY <1>2 DEF TypeOK, ReaderInv, ParsedRequest
  <2>2. Parsed = process_stream_again(request_, stream_buffer_)
    BY <1>2 DEF Parsed
  <2> QED BY <1>2, <2>1, <2>2, StreamAgain DEF ReaderInv
<1> QED BY <1>1, <1>2 DEF TypeOK

-----------------------------------------------------------------------------
(* The response pump *)

\* Queueing a response keeps the queue moving: it is sent, or waits behind the
\* one that is.
LEMMA Pump ==
    ASSUME TypeOK, WriterInv, NEW resp \in Response, send_response(resp), UNCHANGED broken
    PROVE  /\ responses_queue_' \in Seq(Response)
           /\ sending_' \in BOOLEAN
           /\ writes' \in Seq(Write)
           /\ WriterInv'
<1> DEFINE queue == Append(responses_queue_, resp)
<1>1. /\ queue \in Seq(Response) /\ queue # <<>> /\ Head(queue) \in Response
      /\ responses_queue_ # <<>> => Head(queue) = Head(responses_queue_)
  BY Appended, HeadTailProperties DEF TypeOK
<1>2. responses_queue_' = queue /\ add_response_handler(queue, sending_, writes)
  BY DEF send_response
<1> HIDE DEF queue
<1>3. CASE sending_
  <2>1. sending_' = sending_ /\ writes' = writes
    BY <1>2, <1>3 DEF add_response_handler
  <2> QED BY <1>1, <1>2, <1>3, <2>1
          DEF TypeOK, WriterInv, FrontIsBeingSent, NothingStranded, WriteFailsOnlyBroken
<1>4. CASE ~sending_
  <2> DEFINE w == [resp |-> Head(queue), done |-> "no"]
  <2>1. sending_' = TRUE /\ writes' = Append(writes, w) /\ writes = <<>>
    BY <1>1, <1>2, <1>4 DEF add_response_handler, WriterInv, FrontIsBeingSent
  <2>2. w \in Write
    BY <1>1 DEF Write
  <2> HIDE DEF w
  <2>3. writes' \in Seq(Write) /\ Len(writes') = 1 /\ writes'[1] = w
    BY <2>1, <2>2
  <2>4. w.resp = Head(queue) /\ w.done = "no"
    BY DEF w
  <2> QED BY <1>1, <1>2, <2>1, <2>3, <2>4
          DEF WriterInv, FrontIsBeingSent, NothingStranded, WriteFailsOnlyBroken
<1> QED BY <1>3, <1>4 DEF TypeOK

-----------------------------------------------------------------------------
(* The steps, one lemma each *)

\* Known units stay known when the client sends more.
LEMMA SendStep ==
    ASSUME IInv, NEW b \in Blocks, NEW n \in 0..b.content_length, ClientSend(b, n)
    PROVE  IInv'
<1> DEFINE m == [block |-> b, pieces |-> n]
           more == Units(Len(sent) + 1, n)
<1>1. b.content_length \in Nat
  BY ConnectionAssumption DEF BlockType
<1>2. n \in Nat /\ Len(sent) \in Nat /\ MaxRequests \in Nat
  BY <1>1, ConnectionAssumption, LenProperties DEF IInv, TypeOK
<1>3. m \in [block : Blocks, pieces : Nat]
  BY <1>2
<1> HIDE DEF m
<1>4. /\ sent' = Append(sent, m) /\ Len(sent) < MaxRequests
      /\ wire' = wire \o more
      /\ closed' \in BOOLEAN
      /\ UNCHANGED <<broken, stream_buffer_, request_, processing_new_request_,
                     reads, output, delivered>>
  BY DEF ClientSend, m
<1>5. /\ sent' \in Seq([block : Blocks, pieces : Nat])
      /\ Len(sent') = Len(sent) + 1
      /\ \A i \in 1..Len(sent) : sent'[i] = sent[i]
  BY <1>3, <1>4 DEF IInv, TypeOK
<1>6. Known \subseteq Known' /\ Known' \subseteq Unit
  <2>1. 1..Len(sent) \subseteq 1..Len(sent') /\ 1..Len(sent') \subseteq 1..MaxRequests
    BY <1>2, <1>4, <1>5
  <2> QED BY <2>1 DEF Known, Unit
<1>7. more \in Seq(Known')
  <2>1. \A k \in 1..n + 1 : [req |-> Len(sent) + 1, part |-> k - 1] \in Known'
    BY <1>2, <1>5 DEF Known
  <2> DEFINE e(k) == [req |-> Len(sent) + 1, part |-> k - 1]
  <2>2. n + 1 \in Nat
    BY <1>2
  <2>3. \A k \in 1..n + 1 : e(k) \in Known'
    BY <2>1
  <2> HIDE DEF e
  <2>4. [k \in 1..n + 1 |-> e(k)] \in Seq(Known')
    BY <2>2, <2>3, IsASeq
  <2> QED BY <2>4 DEF Units, e
<1> HIDE DEF more
<1>8. wire' \in Seq(Known')
  <2>1. wire \in Seq(Known')
    BY <1>6, SeqMonotonic DEF IInv, ReaderInv
  <2> QED BY <1>4, <1>7, <2>1, ConcatProperties
<1>9. stream_buffer_' \in Seq(Known')
  BY <1>4, <1>6, SeqMonotonic DEF IInv, ReaderInv
<1>10. TypeOK'
  <2>1. wire' \in Seq(Unit)
    BY <1>6, <1>8, SeqMonotonic
  <2>2. Len(sent') <= MaxRequests
    BY <1>2, <1>4, <1>5
  <2> QED BY <1>4, <1>5, <2>1, <2>2 DEF IInv, TypeOK, output
<1>11. ReaderInv'
  <2>1. request_'.head <= Len(sent')
    BY <1>2, <1>4, <1>5, ConnectionAssumption DEF IInv, TypeOK, ReaderInv
  <2>2. ASSUME ~processing_new_request_'
        PROVE  /\ request_'.head # 0
               /\ request_'.body_bytes_read_ <= Block(request_.head)'.content_length
    <3>1. /\ request_.head # 0
          /\ request_.body_bytes_read_ <= Block(request_.head).content_length
      BY <1>4, <2>2 DEF IInv, ReaderInv
    <3>2. request_.head \in 1..Len(sent)
      BY <1>2, <3>1 DEF IInv, TypeOK, ReaderInv
    <3>3. sent'[request_'.head] = sent[request_.head]
      BY <1>4, <1>5, <3>2
    <3> QED BY <1>4, <3>1, <3>3 DEF Block
  <2> QED BY <1>4, <1>8, <1>9, <2>1, <2>2 DEF IInv, ReaderInv
<1>12. WriterInv'
  BY <1>4 DEF IInv, WriterInv, FrontIsBeingSent, NothingStranded,
              WriteFailsOnlyBroken, output
<1> QED BY <1>10, <1>11, <1>12 DEF IInv

\* Leaving is always harmless to the invariant; a reset also drops the bytes
\* that were not read.
LEMMA LeaveStep ==
    ASSUME IInv, ClientClose \/ ClientReset
    PROVE  IInv'
<1>1. /\ UNCHANGED <<sent, stream_buffer_, request_, processing_new_request_,
                     reads, output, delivered>>
      /\ wire' = wire \/ wire' = <<>>
      /\ broken' = broken \/ broken' = TRUE
      /\ closed' \in BOOLEAN /\ broken' \in BOOLEAN
  BY DEF ClientClose, ClientReset, IInv, TypeOK
<1>2. Known' = Known
  BY <1>1 DEF Known
<1>3. wire' \in Seq(Unit) /\ wire' \in Seq(Known)
  BY <1>1, EmptySeq DEF IInv, TypeOK, ReaderInv
<1>4. TypeOK'
  BY <1>1, <1>3 DEF IInv, TypeOK, output
<1>5. ReaderInv'
  BY <1>1, <1>2, <1>3 DEF IInv, ReaderInv, Block
<1>6. WriterInv'
  BY <1>1 DEF IInv, WriterInv, FrontIsBeingSent, NothingStranded,
              WriteFailsOnlyBroken, output
<1> QED BY <1>4, <1>5, <1>6 DEF IInv

\* Bytes only move from the kernel to the buffer.
LEMMA ReceiveStep ==
    ASSUME IInv, NEW i \in DOMAIN reads, NEW k \in 1..Len(wire), Receive(i, k)
    PROVE  IInv'
<1>1. /\ UNCHANGED <<sent, closed, broken, request_, processing_new_request_,
                     output, delivered>>
      /\ stream_buffer_' = stream_buffer_ \o SubSeq(wire, 1, k)
      /\ wire' = SubSeq(wire, k + 1, Len(wire))
  BY DEF Receive
<1>2. Known' = Known /\ Len(wire) \in Nat /\ k \in Nat /\ k <= Len(wire)
  BY <1>1, LenProperties DEF Known, IInv, TypeOK
<1>3. /\ SubSeq(wire, 1, k) \in Seq(Known) /\ SubSeq(wire, 1, k) \in Seq(Unit)
      /\ wire' \in Seq(Known) /\ wire' \in Seq(Unit)
  <2>1. wire \in Seq(Known) /\ wire \in Seq(Unit)
    BY DEF IInv, TypeOK, ReaderInv
  <2>2. \A S : wire \in Seq(S) => SubSeq(wire, 1, k) \in Seq(S)
    BY <1>2, Slice
  <2>3. \A S : wire \in Seq(S) => SubSeq(wire, k + 1, Len(wire)) \in Seq(S)
    BY <1>2, Slice
  <2> QED BY <1>1, <2>1, <2>2, <2>3
<1>4. stream_buffer_' \in Seq(Known) /\ stream_buffer_' \in Seq(Unit)
  BY <1>1, <1>3, ConcatProperties DEF IInv, TypeOK, ReaderInv
<1>5. /\ reads' \in Seq(Read) /\ Len(reads') = Len(reads)
      /\ \A j \in DOMAIN reads' : j \in DOMAIN reads /\ reads'[j].kind = reads[j].kind
  <2> DEFINE r == [reads[i] EXCEPT !.need = IF k >= @ THEN 0 ELSE @ - k]
  <2>1. reads[i] \in Read /\ reads \in Seq(Read) /\ i \in 1..Len(reads)
    BY LenProperties, ElementOfSeq DEF IInv, TypeOK
  <2>2. r \in Read /\ r.kind = reads[i].kind
    BY <1>2, <2>1 DEF Read
  <2>3. reads' = [reads EXCEPT ![i] = r]
    BY DEF Receive
  <2> HIDE DEF r
  <2>4. /\ reads' \in Seq(Read) /\ Len(reads') = Len(reads)
        /\ \A j \in 1..Len(reads) : reads'[j] = IF j = i THEN r ELSE reads[j]
    BY <2>1, <2>2, <2>3, ExceptSeq
  <2>5. DOMAIN reads' = 1..Len(reads) /\ DOMAIN reads = 1..Len(reads)
    BY <2>1, <2>4, LenProperties
  <2> QED BY <2>2, <2>4, <2>5
<1>6. TypeOK'
  BY <1>1, <1>3, <1>4, <1>5 DEF IInv, TypeOK, output
<1>7. ReaderInv'
  BY <1>1, <1>2, <1>3, <1>4, <1>5 DEF IInv, ReaderInv, Block
<1>8. WriterInv'
  BY <1>1 DEF IInv, WriterInv, FrontIsBeingSent, NothingStranded,
              WriteFailsOnlyBroken, output
<1> QED BY <1>6, <1>7, <1>8 DEF IInv

\* Every exception the parser or a host throws has a status to answer with.
LEMMA StatusOfError ==
    ASSUME NEW e \in Exceptions
    PROVE  error_status(e) \in Statuses
BY DEF error_status, Exceptions, ParseErrors, HostErrors, Statuses

\* send_response makes a Response of a status, a request and its body.
LEMMA ResponseType ==
    ASSUME TypeOK, NEW req \in ParsedRequest, NEW status \in Statuses
    PROVE  [req |-> req.head, status |-> status, body |-> req.body] \in Response
<1>1. 1..Len(sent) \subseteq 1..MaxRequests
  BY ConnectionAssumption, LenProperties DEF TypeOK
<1> QED BY <1>1 DEF ParsedRequest, Response

\* Reading only makes requests of the type of request_.
LEMMA RequestType ==
    ASSUME TypeOK, NEW req \in ParsedRequest
    PROVE  /\ req \in [head : 0..MaxRequests, body : Seq(Unit), body_bytes_read_ : Nat]
           /\ req.head <= Len(sent) /\ req.head # 0
<1>1. Len(sent) \in Nat /\ 1..Len(sent) \subseteq 0..MaxRequests
  BY ConnectionAssumption, LenProperties DEF TypeOK
<1> QED BY <1>1 DEF ParsedRequest

\* The reading half of a request_handler step: the buffer and the request come
\* from the parser, and at most one read follows the one that completed.
LEMMA ReaderStep ==
    ASSUME IInv, NEW i \in DOMAIN reads, ReadDone(i),
           stream_buffer_' = Parsed.buffer, request_' = Parsed.request,
           UNCHANGED <<sent, wire>>,
           processing_new_request_' \in BOOLEAN,
           reads' \in Seq(Read), Len(reads') <= 1,
           \A j \in DOMAIN reads' :
               (reads'[j].kind = "until_separator") <=> processing_new_request_'
    PROVE  /\ ReaderInv'
           /\ wire' \in Seq(Unit) /\ stream_buffer_' \in Seq(Unit)
           /\ request_' \in [head : 0..MaxRequests, body : Seq(Unit),
                             body_bytes_read_ : Nat]
<1>1. /\ Parsed.request \in ParsedRequest
      /\ Parsed.request.body_bytes_read_ <= Block(Parsed.request.head).content_length
      /\ Parsed.buffer \in Seq(Known)
  BY ParsedOK DEF IInv
<1>2. Known' = Known /\ Known \subseteq Unit
  <2>1. 1..Len(sent) \subseteq 1..MaxRequests
    BY ConnectionAssumption, LenProperties DEF IInv, TypeOK
  <2> QED BY <2>1 DEF Known, Unit
<1>3. stream_buffer_' \in Seq(Known') /\ stream_buffer_' \in Seq(Unit)
  BY <1>1, <1>2, SeqMonotonic
<1>4. wire' \in Seq(Known') /\ wire' \in Seq(Unit)
  BY <1>2 DEF IInv, TypeOK, ReaderInv
<1>5. /\ request_' \in [head : 0..MaxRequests, body : Seq(Unit), body_bytes_read_ : Nat]
      /\ request_'.head <= Len(sent) /\ request_'.head # 0
      /\ request_'.body_bytes_read_ <= Block(request_.head)'.content_length
  BY <1>1, RequestType DEF IInv, Block
<1> QED BY <1>3, <1>4, <1>5 DEF ReaderInv

\* The completed read was the only one, so none or the new one is left.
LEMMA ReadsAfter ==
    ASSUME IInv, NEW i \in DOMAIN reads, NEW r \in Read
    PROVE  /\ RemoveAt(reads, i) = <<>>
           /\ Append(RemoveAt(reads, i), r) = <<r>>
           /\ <<>> \in Seq(Read) /\ <<r>> \in Seq(Read)
<1>1. reads \in Seq(Read) /\ i \in 1..Len(reads) /\ Len(reads) <= 1 /\ Len(reads) \in Nat
  BY LenProperties DEF IInv, TypeOK, ReaderInv
<1>2. Len(reads) = 1
  BY <1>1
<1>3. RemoveAt(reads, i) = <<>>
  BY <1>1, <1>2, RemovedOnly
<1> QED BY <1>3

\* request_handler, more of the body needed: nothing is sent, one read is armed.
LEMMA ContinueStep ==
    ASSUME IInv, NEW i \in DOMAIN reads, ReadDone(i), ContinueReading(i, Parsed)
    PROVE  IInv'
<1> DEFINE r == AtLeast(Parsed.required)
<1>1. Parsed.required \in Nat
  BY ParsedOK DEF IInv, ContinueReading
<1>2. r \in Read /\ r.kind # "until_separator"
  BY <1>1 DEF AtLeast, Read
<1>3. reads' = Append(RemoveAt(reads, i), r)
  BY DEF ContinueReading
<1> HIDE DEF r
<1>4. reads' = <<r>> /\ reads' \in Seq(Read)
  BY <1>2, <1>3, ReadsAfter
<1>5. /\ ReaderInv'
      /\ wire' \in Seq(Unit) /\ stream_buffer_' \in Seq(Unit)
      /\ request_' \in [head : 0..MaxRequests, body : Seq(Unit),
                        body_bytes_read_ : Nat]
  <2>1. /\ ReadDone(i)
        /\ stream_buffer_' = Parsed.buffer /\ request_' = Parsed.request
        /\ UNCHANGED <<sent, wire>> /\ processing_new_request_' = FALSE
    BY DEF ContinueReading, input
  <2>2. /\ Len(reads') <= 1
        /\ \A j \in DOMAIN reads' : reads'[j] = r
    BY <1>4
  <2> QED BY <1>2, <1>4, <2>1, <2>2, ReaderStep
<1>6. TypeOK'
  BY <1>4, <1>5 DEF IInv, TypeOK, ContinueReading, input, output
<1>7. WriterInv'
  BY DEF IInv, WriterInv, FrontIsBeingSent, NothingStranded, WriteFailsOnlyBroken,
         ContinueReading, input, output
<1> QED BY <1>5, <1>6, <1>7 DEF IInv

\* request_handler, reading throws: an error is queued and no read is armed.
LEMMA RejectStep ==
    ASSUME IInv, NEW i \in DOMAIN reads, ReadDone(i), RejectRequest(i, Parsed)
    PROVE  IInv'
<1>1. /\ Parsed.request \in ParsedRequest
      /\ Parsed.error \in Exceptions
      /\ processing_new_request_
  BY ParsedOK DEF IInv, RejectRequest
<1>2. reads' = <<>> /\ reads' \in Seq(Read)
  BY ReadsAfter, UntilSeparator \in Read DEF RejectRequest, UntilSeparator, Read
<1>3. /\ ReaderInv'
      /\ wire' \in Seq(Unit) /\ stream_buffer_' \in Seq(Unit)
      /\ request_' \in [head : 0..MaxRequests, body : Seq(Unit),
                        body_bytes_read_ : Nat]
  BY <1>1, <1>2, ReaderStep DEF RejectRequest, input
<1> DEFINE resp == [req |-> Parsed.request.head,
                    status |-> error_status(Parsed.error),
                    body |-> Parsed.request.body]
<1>4. resp \in Response
  BY <1>1, StatusOfError, ResponseType DEF IInv
<1>5. send_response(resp)
  BY DEF RejectRequest, handle_error
<1> HIDE DEF resp
<1>6. /\ responses_queue_' \in Seq(Response) /\ sending_' \in BOOLEAN
      /\ writes' \in Seq(Write)
      /\ WriterInv'
  BY <1>4, <1>5, Pump DEF IInv, RejectRequest, input
<1>7. TypeOK'
  BY <1>2, <1>3, <1>6 DEF IInv, TypeOK, RejectRequest, input
<1> QED BY <1>3, <1>6, <1>7 DEF IInv

\* AnswerRequest and RefuseRequest: a complete request, one response, and at
\* most a read of the next header block.
LEMMA CompleteStep ==
    ASSUME IInv, NEW i \in DOMAIN reads, NEW status \in Statuses,
           ReadDone(i),
           stream_buffer_' = Parsed.buffer, request_' = Parsed.request,
           processing_new_request_' = TRUE,
           send_response([req |-> Parsed.request.head, status |-> status,
                          body |-> Parsed.request.body]),
           \/ reads' = RemoveAt(reads, i)
           \/ reads' = Append(RemoveAt(reads, i), UntilSeparator),
           UNCHANGED <<input, delivered>>
    PROVE  IInv'
<1>1. Parsed.request \in ParsedRequest
  BY ParsedOK DEF IInv
<1>2. UntilSeparator \in Read /\ UntilSeparator.kind = "until_separator"
  BY DEF UntilSeparator, Read
<1>3. reads' \in {<<>>, <<UntilSeparator>>} /\ reads' \in Seq(Read)
  BY <1>2, ReadsAfter
<1>4. /\ ReaderInv'
      /\ wire' \in Seq(Unit) /\ stream_buffer_' \in Seq(Unit)
      /\ request_' \in [head : 0..MaxRequests, body : Seq(Unit),
                        body_bytes_read_ : Nat]
  <2>1. /\ Len(reads') <= 1
        /\ \A j \in DOMAIN reads' : reads'[j] = UntilSeparator
    <3>1. \A r : /\ Len(<<r>>) = 1 /\ DOMAIN <<r>> = {1} /\ <<r>>[1] = r
      OBVIOUS
    <3>2. CASE reads' = <<>>
      BY <3>2
    <3>3. CASE reads' = <<UntilSeparator>>
      BY <3>1, <3>3
    <3> QED BY <1>3, <3>2, <3>3
  <2>2. UNCHANGED <<sent, wire>>
    BY DEF input
  <2> QED BY <1>2, <1>3, <2>1, <2>2, ReaderStep
<1>5. /\ responses_queue_' \in Seq(Response) /\ sending_' \in BOOLEAN
      /\ writes' \in Seq(Write)
      /\ WriterInv'
  <2> DEFINE resp == [req |-> Parsed.request.head, status |-> status,
                      body |-> Parsed.request.body]
  <2>1. resp \in Response /\ send_response(resp) /\ UNCHANGED broken
    BY <1>1, ResponseType DEF IInv, input
  <2> HIDE DEF resp
  <2> QED BY <2>1, Pump DEF IInv
<1>6. TypeOK'
  BY <1>3, <1>4, <1>5 DEF IInv, TypeOK, input
<1> QED BY <1>4, <1>5, <1>6 DEF IInv

\* request_handler, the host answers: its response is queued.
LEMMA AnswerStep ==
    ASSUME IInv, NEW i \in DOMAIN reads, ReadDone(i), AnswerRequest(i, Parsed)
    PROVE  IInv'
<1>1. "response" \in Statuses
  BY DEF Statuses
<1> QED BY <1>1, CompleteStep DEF AnswerRequest

\* The port check and the host throw exceptions that have a catch clause.
LEMMA RefusedByHost ==
    ASSUME IInv, NEW i \in DOMAIN reads, ReadDone(i), RefuseRequest(i, Parsed)
    PROVE  host_error(Block(Parsed.request.head)) \in Exceptions
<1> DEFINE b == Block(Parsed.request.head)
<1>1. b \in BlockType
  <2>1. Parsed.request.head \in 1..Len(sent)
    BY ParsedOK DEF IInv, RefuseRequest, ParsedRequest
  <2>2. sent[Parsed.request.head] \in [block : Blocks, pieces : Nat]
    BY <2>1, ElementOfSeq DEF IInv, TypeOK
  <2> QED BY <2>2, ConnectionAssumption DEF Block
<1> QED BY <1>1 DEF RefuseRequest, host_error, BlockType, Exceptions, ParseErrors, HostErrors

\* request_handler, the port check or the host throws: an error is queued.
LEMMA RefuseStep ==
    ASSUME IInv, NEW i \in DOMAIN reads, ReadDone(i), RefuseRequest(i, Parsed)
    PROVE  IInv'
<1>1. error_status(host_error(Block(Parsed.request.head))) \in Statuses
  BY RefusedByHost, StatusOfError
<1> QED BY <1>1, CompleteStep DEF RefuseRequest, handle_error

\* request_handler with an error: the read is gone, the output untouched.
LEMMA ReadFailsStep ==
    ASSUME IInv, NEW i \in DOMAIN reads, ReadFails(i)
    PROVE  IInv'
<1>1. reads' = <<>> /\ reads' \in Seq(Read)
  BY ReadsAfter, UntilSeparator \in Read DEF ReadFails, UntilSeparator, Read
<1>2. UNCHANGED <<input, stream_buffer_, request_, processing_new_request_,
                  output, delivered>>
  BY DEF ReadFails
<1>3. TypeOK'
  BY <1>1, <1>2 DEF IInv, TypeOK, input, output
<1>4. ReaderInv'
  BY <1>1, <1>2 DEF IInv, ReaderInv, Known, Block, input
<1>5. WriterInv'
  BY <1>2 DEF IInv, WriterInv, FrontIsBeingSent, NothingStranded,
              WriteFailsOnlyBroken, input, output
<1> QED BY <1>3, <1>4, <1>5 DEF IInv

\* The only write there is is the one of the front response.
LEMMA OnlyWrite ==
    ASSUME IInv, NEW i \in DOMAIN writes
    PROVE  /\ sending_ /\ i = 1 /\ Len(writes) = 1 /\ writes \in Seq(Write)
           /\ writes[1] \in Write
           /\ responses_queue_ # <<>> /\ writes[1].resp = Head(responses_queue_)
<1>1. writes \in Seq(Write) /\ i \in 1..Len(writes)
  BY LenProperties DEF IInv, TypeOK
<1>2. sending_
  BY <1>1 DEF IInv, WriterInv, FrontIsBeingSent
<1>3. Len(writes) = 1 /\ responses_queue_ # <<>> /\ writes[1].resp = Head(responses_queue_)
  BY <1>2 DEF IInv, WriterInv, FrontIsBeingSent
<1> QED BY <1>1, <1>2, <1>3, ElementOfSeq

\* A write completes: it stays the one write of the front response.
LEMMA KernelWriteStep ==
    ASSUME IInv, NEW i \in DOMAIN writes, KernelWrite(i)
    PROVE  IInv'
<1> DEFINE w == [writes[1] EXCEPT !.done = IF broken THEN "error" ELSE "ok"]
<1>1. /\ sending_ /\ i = 1 /\ Len(writes) = 1 /\ writes \in Seq(Write)
      /\ writes[1] \in Write
      /\ responses_queue_ # <<>> /\ writes[1].resp = Head(responses_queue_)
  BY OnlyWrite
<1>2. w \in Write /\ w.resp = writes[1].resp /\ (w.done = "error" => broken)
  BY <1>1 DEF Write
<1>3. writes' = [writes EXCEPT ![1] = w]
  BY <1>1 DEF KernelWrite
<1> HIDE DEF w
<1>4. writes' \in Seq(Write) /\ Len(writes') = 1 /\ writes'[1] = w
  BY <1>1, <1>2, <1>3, ExceptSeq
<1>5. UNCHANGED <<input, stream_buffer_, request_, processing_new_request_,
                  reads, responses_queue_, sending_>>
  BY DEF KernelWrite
<1>6. delivered' \in Seq(Response)
  <2>1. writes[1].resp \in Response
    BY <1>1 DEF Write
  <2> QED BY <1>1, <2>1, Appended DEF KernelWrite, IInv, TypeOK
<1>7. TypeOK'
  BY <1>4, <1>5, <1>6 DEF IInv, TypeOK, input
<1>8. ReaderInv'
  BY <1>5 DEF IInv, ReaderInv, Known, Block, input
<1>9. WriterInv'
  <2>1. DOMAIN writes' = {1}
    BY <1>4, LenProperties
  <2> QED BY <1>1, <1>2, <1>4, <1>5, <2>1
          DEF WriterInv, FrontIsBeingSent, NothingStranded, WriteFailsOnlyBroken, input
<1> QED BY <1>7, <1>8, <1>9 DEF IInv

\* The completed write was the only one: the next response is sent at once.
LEMMA ResponseStep ==
    ASSUME IInv, NEW i \in DOMAIN writes, response_handler(i)
    PROVE  IInv'
<1> DEFINE queue == Tail(responses_queue_)
<1>1. /\ sending_ /\ i = 1 /\ Len(writes) = 1 /\ writes \in Seq(Write)
      /\ writes[1] \in Write /\ responses_queue_ # <<>>
  BY OnlyWrite
<1>2. RemoveAt(writes, i) = <<>>
  BY <1>1, RemovedOnly
<1>3. queue \in Seq(Response)
  BY <1>1, HeadTailProperties DEF IInv, TypeOK
<1>4. /\ responses_queue_' = queue
      /\ IF writes[1].done = "ok" THEN add_response_handler(queue, FALSE, <<>>)
                                  ELSE sending_' = FALSE /\ writes' = <<>>
      /\ writes[1].done # "no"
      /\ UNCHANGED <<input, stream_buffer_, request_, processing_new_request_,
                     reads, delivered>>
  BY <1>1, <1>2 DEF response_handler
<1> HIDE DEF queue
<1>5. CASE writes[1].done = "ok" /\ queue # <<>>
  <2> DEFINE w == [resp |-> Head(queue), done |-> "no"]
  <2>1. sending_' = TRUE /\ writes' = Append(<<>>, w)
    BY <1>4, <1>5 DEF add_response_handler
  <2>2. w \in Write
    BY <1>3, <1>5, HeadTailProperties DEF Write
  <2>3. w.resp = Head(queue) /\ w.done = "no"
    BY DEF w
  <2> HIDE DEF w
  <2>4. writes' \in Seq(Write) /\ Len(writes') = 1 /\ writes'[1] = w
    BY <2>1, <2>2
  <2>5. DOMAIN writes' = {1}
    BY <2>4, LenProperties
  <2>6. WriterInv'
    BY <1>4, <1>5, <2>1, <2>3, <2>4, <2>5
       DEF WriterInv, FrontIsBeingSent, NothingStranded, WriteFailsOnlyBroken
  <2>7. TypeOK'
    BY <1>3, <1>4, <2>1, <2>4 DEF IInv, TypeOK, input
  <2>8. ReaderInv'
    BY <1>4 DEF IInv, ReaderInv, Known, Block, input
  <2> QED BY <2>6, <2>7, <2>8 DEF IInv
<1>6. CASE ~ (writes[1].done = "ok" /\ queue # <<>>)
  <2>1. sending_' = FALSE /\ writes' = <<>>
    BY <1>4, <1>6 DEF add_response_handler
  <2>2. queue = <<>> \/ broken
    BY <1>1, <1>4, <1>6 DEF IInv, WriterInv, WriteFailsOnlyBroken, Write
  <2>3. WriterInv'
    <3>1. FrontIsBeingSent' /\ WriteFailsOnlyBroken'
      BY <2>1 DEF FrontIsBeingSent, WriteFailsOnlyBroken
    <3>2. NothingStranded'
      BY <1>4, <2>2 DEF NothingStranded, input
    <3> QED BY <3>1, <3>2 DEF WriterInv
  <2>4. TypeOK'
    <3>1. sending_' \in BOOLEAN /\ writes' \in Seq(Write)
      BY <2>1, EmptySeq
    <3> QED BY <1>3, <1>4, <3>1 DEF IInv, TypeOK, input
  <2>5. ReaderInv'
    BY <1>4 DEF IInv, ReaderInv, Known, Block, input
  <2> QED BY <2>3, <2>4, <2>5 DEF IInv
<1> QED BY <1>5, <1>6

-----------------------------------------------------------------------------
(* The invariant *)

\* The session starts with its invariant: one read, nothing to write.
LEMMA InitInv == Init => IInv
<1> SUFFICES ASSUME Init PROVE IInv
  OBVIOUS
<1>1. TypeOK
  <2>1. UntilSeparator \in Read
    BY DEF UntilSeparator, Read
  <2>2. request_ \in [head : 0..MaxRequests, body : Seq(Unit), body_bytes_read_ : Nat]
    BY ConnectionAssumption, EmptySeq DEF Init
  <2>3. reads \in Seq(Read)
    BY <2>1 DEF Init
  <2>4. sent \in Seq([block : Blocks, pieces : Nat]) /\ Len(sent) <= MaxRequests
    BY ConnectionAssumption DEF Init
  <2> QED BY <2>2, <2>3, <2>4, EmptySeq DEF Init, TypeOK
<1>2. ReaderInv
  BY EmptySeq DEF Init, ReaderInv, UntilSeparator
<1>3. WriterInv
  BY DEF Init, WriterInv, FrontIsBeingSent, NothingStranded, WriteFailsOnlyBroken
<1> QED BY <1>1, <1>2, <1>3 DEF IInv

\* A read ends in one of the four outcomes of request_handler, or with an error.
LEMMA Outcomes ==
    ASSUME NEW i, Read_(i)
    PROVE  \/ /\ ReadDone(i)
              /\ \/ ContinueReading(i, Parsed) \/ RejectRequest(i, Parsed)
                 \/ AnswerRequest(i, Parsed) \/ RefuseRequest(i, Parsed)
           \/ ReadFails(i)
           \/ \E k \in 1..Len(wire) : Receive(i, k)
<1>1. CASE request_handler(i)
  <2>1. PICK p \in {Parsed} : \/ ContinueReading(i, p) \/ RejectRequest(i, p)
                              \/ AnswerRequest(i, p) \/ RefuseRequest(i, p)
    BY <1>1 DEF request_handler
  <2>2. p = Parsed
    OBVIOUS
  <2> QED BY <1>1, <2>1, <2>2 DEF request_handler
<1> QED BY <1>1 DEF Read_

\* Every step of client, kernel and handlers preserves the invariant.
LEMMA StepInv == IInv /\ [Next]_vars => IInv'
<1> SUFFICES ASSUME IInv, [Next]_vars PROVE IInv'
  OBVIOUS
<1>1. CASE Client
  BY <1>1, SendStep, LeaveStep DEF Client
<1>2. ASSUME NEW i \in DOMAIN reads, Read_(i) PROVE IInv'
  BY <1>2, Outcomes, ContinueStep, RejectStep, AnswerStep, RefuseStep, ReadFailsStep,
     ReceiveStep
<1>3. ASSUME NEW i \in DOMAIN writes, Write_(i) PROVE IInv'
  BY <1>3, KernelWriteStep, ResponseStep DEF Write_
<1>4. CASE UNCHANGED vars
  BY <1>4 DEF vars, input, output, IInv, TypeOK, ReaderInv, WriterInv, Known, Block,
              FrontIsBeingSent, NothingStranded, WriteFailsOnlyBroken
<1> QED BY <1>1, <1>2, <1>3, <1>4 DEF Next, Destroyed

\* In every reachable state of a connection, whatever the requests: the types,
\* the front of the queue is what is being sent, nothing is stranded behind a
\* pump that stopped, and the reader waits for what the parser misses.
THEOREM Invariant == Spec => []IInv
BY InitInv, StepInv, PTL DEF Spec

\* Every variable keeps its type.
THEOREM TypeCorrect == Spec => []TypeOK
BY Invariant, PTL DEF IInv

\* session.h: responses_queue_.front() points to the response being sent.
THEOREM FrontSafe == Spec => []FrontIsBeingSent
BY Invariant, PTL DEF IInv, WriterInv

\* No response waits without another being sent.
THEOREM NoneStranded == Spec => []NothingStranded
BY Invariant, PTL DEF IInv, WriterInv

\* The buffer holds only what clients sent, and the one read that may be pending is
\* the one the parser needs: a header block, or the rest of a body.
THEOREM ReaderSafe == Spec => []ReaderInv
BY Invariant, PTL DEF IInv

-----------------------------------------------------------------------------
(***************************************************************************)
(* ReadsUntilFinal: the session listens exactly as long as it owes answers *)
(* beyond the last one it queued.  The property relates the pending reads  *)
(* to every response of the past, so it needs to know where responses go:  *)
(* from the queue to the wire, none vanishing unless the connection broke. *)
(***************************************************************************)
(* Ranges of sequences *)

\* Appending adds one element to the range.
LEMMA RangeAppend ==
    ASSUME NEW S, NEW s \in Seq(S), NEW e \in S
    PROVE  Range(Append(s, e)) = Range(s) \cup {e}
<1>1. /\ DOMAIN Append(s, e) = 1..Len(s) + 1 /\ DOMAIN s = 1..Len(s)
      /\ Len(s) \in Nat
      /\ Append(s, e)[Len(s) + 1] = e
      /\ \A i \in 1..Len(s) : Append(s, e)[i] = s[i]
  OBVIOUS
<1>2. Range(Append(s, e)) \subseteq Range(s) \cup {e}
  <2> SUFFICES ASSUME NEW i \in 1..Len(s) + 1
               PROVE  Append(s, e)[i] \in Range(s) \cup {e}
    BY <1>1 DEF Range
  <2>1. CASE i = Len(s) + 1
    BY <1>1, <2>1
  <2>2. CASE i \in 1..Len(s)
    BY <1>1, <2>2 DEF Range
  <2> QED BY <1>1, <2>1, <2>2
<1>3. Range(s) \cup {e} \subseteq Range(Append(s, e))
  <2>1. e \in Range(Append(s, e))
    BY <1>1, Len(s) + 1 \in DOMAIN Append(s, e) DEF Range
  <2>2. ASSUME NEW i \in 1..Len(s) PROVE s[i] \in Range(Append(s, e))
    BY <1>1, i \in DOMAIN Append(s, e) DEF Range
  <2> QED BY <1>1, <2>1, <2>2 DEF Range
<1> QED BY <1>2, <1>3

\* A nonempty sequence has the elements of its tail and its head.
LEMMA RangeTail ==
    ASSUME NEW S, NEW s \in Seq(S), s # <<>>
    PROVE  Range(s) = {Head(s)} \cup Range(Tail(s))
<1>1. /\ DOMAIN s = 1..Len(s) /\ Len(s) \in Nat \ {0} /\ Head(s) = s[1]
      /\ DOMAIN Tail(s) = 1..Len(s) - 1
      /\ \A i \in 1..Len(s) - 1 : Tail(s)[i] = s[i + 1]
  OBVIOUS
<1>2. Range(s) \subseteq {Head(s)} \cup Range(Tail(s))
  <2> SUFFICES ASSUME NEW i \in 1..Len(s)
               PROVE  s[i] \in {Head(s)} \cup Range(Tail(s))
    BY <1>1 DEF Range
  <2>1. CASE i = 1
    BY <1>1, <2>1
  <2>2. CASE i # 1
    <3>1. i - 1 \in DOMAIN Tail(s) /\ Tail(s)[i - 1] = s[i]
      BY <1>1, <2>2
    <3> QED BY <3>1 DEF Range
  <2> QED BY <2>1, <2>2
<1>3. {Head(s)} \cup Range(Tail(s)) \subseteq Range(s)
  <2>1. Head(s) \in Range(s)
    BY <1>1, 1 \in DOMAIN s DEF Range
  <2>2. ASSUME NEW i \in 1..Len(s) - 1 PROVE Tail(s)[i] \in Range(s)
    BY <1>1, i + 1 \in DOMAIN s DEF Range
  <2> QED BY <1>1, <2>1, <2>2 DEF Range
<1> QED BY <1>2, <1>3

-----------------------------------------------------------------------------
(* The steps *)

RInv == IInv /\ ReplyInv /\ ReadsUntilFinal

\* A response counts for as long as it is queued or delivered.
LEMMA RepliesTyped == ASSUME TypeOK PROVE Replies \subseteq Response
<1>1. ASSUME NEW s \in Seq(Response) PROVE Range(s) \subseteq Response
  BY ElementOfSeq, LenProperties DEF Range
<1> QED BY <1>1 DEF TypeOK, Replies

\* A step that keeps the requests and the responses keeps what they mean.
LEMMA SameReplies ==
    ASSUME UNCHANGED sent, Replies' = Replies
    PROVE  FinalAnswered' <=> FinalAnswered
BY DEF FinalAnswered, Final, Block

\* The client sends: the requests already answered stay what they were.
LEMMA SendReads ==
    ASSUME RInv, NEW b \in Blocks, NEW n \in 0..b.content_length, ClientSend(b, n)
    PROVE  ReplyInv' /\ ReadsUntilFinal'
<1>1. /\ sent' = Append(sent, [block |-> b, pieces |-> n])
      /\ ~closed /\ ~broken
      /\ UNCHANGED <<broken, reads, responses_queue_, writes, delivered>>
  BY DEF ClientSend, output
<1>2. sent \in Seq([block : Blocks, pieces : Nat]) /\ Len(sent) \in Nat
  BY LenProperties DEF RInv, IInv, TypeOK
<1>3. Len(sent') = Len(sent) + 1 /\ \A i \in 1..Len(sent) : sent'[i] = sent[i]
  BY <1>1, <1>2
<1>4. Replies' = Replies /\ UNCHANGED <<writes, delivered>>
  BY <1>1 DEF Replies
<1>5. \A r \in Replies : r.req \in 1..Len(sent)
  <2>1. \A r \in Replies : r.req \in 1..MaxRequests /\ r.req <= Len(sent)
    BY RepliesTyped DEF RInv, IInv, ReplyInv, Response
  <2> QED BY <1>2, <2>1, ConnectionAssumption
<1>6. ReplyInv'
  BY <1>2, <1>3, <1>4, <1>5 DEF RInv, ReplyInv
<1>7. FinalAnswered' <=> FinalAnswered
  <2>1. \A r \in Replies : Final(r)' <=> Final(r)
    BY <1>3, <1>5 DEF Final, Block
  <2> QED BY <1>4, <2>1 DEF FinalAnswered
<1> QED BY <1>1, <1>6, <1>7 DEF RInv, ReadsUntilFinal

\* The client leaves: nothing else changes.
LEMMA LeaveReads ==
    ASSUME RInv, ClientClose \/ ClientReset
    PROVE  ReplyInv' /\ ReadsUntilFinal'
<1>1. /\ UNCHANGED <<sent, reads, responses_queue_, writes, delivered>>
      /\ closed' \/ broken'
  BY DEF ClientClose, ClientReset, output
<1>2. Replies' = Replies /\ (FinalAnswered' <=> FinalAnswered)
  BY <1>1, SameReplies DEF Replies
<1> QED BY <1>1, <1>2 DEF RInv, ReplyInv, ReadsUntilFinal

\* Bytes arrive: the read stays pending.
LEMMA ReceiveReads ==
    ASSUME RInv, NEW i \in DOMAIN reads, NEW k \in 1..Len(wire), Receive(i, k)
    PROVE  ReplyInv' /\ ReadsUntilFinal'
<1>1. UNCHANGED <<sent, closed, broken, responses_queue_, writes, delivered>>
  BY DEF Receive, output
<1>2. Replies' = Replies /\ (FinalAnswered' <=> FinalAnswered)
  BY <1>1, SameReplies DEF Replies
<1>3. Len(reads') <= 1 /\ (reads' = <<>> <=> reads = <<>>)
  <2>1. IInv'
    BY ReceiveStep DEF RInv
  <2>2. reads' \in Seq(Read) /\ reads \in Seq(Read) /\ Len(reads') <= 1
    BY <2>1 DEF RInv, IInv, TypeOK, ReaderInv
  <2>3. DOMAIN reads' = DOMAIN reads
    BY DEF Receive
  <2>4. Len(reads') = Len(reads)
    BY <2>2, <2>3, LenProperties
  <2> QED BY <2>2, <2>4, EmptySeq
<1> QED BY <1>1, <1>2, <1>3 DEF RInv, ReplyInv, ReadsUntilFinal

\* More of a body is needed: no answer yet, and one read again.
LEMMA ContinueReads ==
    ASSUME RInv, NEW i \in DOMAIN reads, ReadDone(i), ContinueReading(i, Parsed)
    PROVE  ReplyInv' /\ ReadsUntilFinal'
<1>1. UNCHANGED <<sent, closed, broken, responses_queue_, writes, delivered>>
  BY DEF ContinueReading, input, output
<1>2. Replies' = Replies /\ (FinalAnswered' <=> FinalAnswered)
  BY <1>1, SameReplies DEF Replies
<1>3. ~FinalAnswered
  BY DEF RInv, ReadsUntilFinal
<1>4. Len(reads') = 1 /\ reads' # <<>>
  <2>1. AtLeast(Parsed.required) \in Read
    BY ParsedOK DEF RInv, IInv, ContinueReading, AtLeast, Read
  <2>2. reads' = <<AtLeast(Parsed.required)>>
    BY <2>1, ReadsAfter DEF RInv, ContinueReading
  <2> QED BY <2>2
<1> QED BY <1>1, <1>2, <1>3, <1>4 DEF RInv, ReplyInv, ReadsUntilFinal

\* A request is answered: the next read is armed unless the answer is final.
LEMMA QueuedReads ==
    ASSUME RInv, NEW i \in DOMAIN reads, NEW resp \in Response,
           resp.req <= Len(sent), send_response(resp),
           UNCHANGED <<sent, closed, broken, delivered>>,
           reads' = IF Final(resp) THEN RemoveAt(reads, i)
                                   ELSE Append(RemoveAt(reads, i), UntilSeparator)
    PROVE  ReplyInv' /\ ReadsUntilFinal'
<1>1. ~FinalAnswered
  BY DEF RInv, ReadsUntilFinal
<1>2. reads' = IF Final(resp) THEN <<>> ELSE <<UntilSeparator>>
  BY ReadsAfter, UntilSeparator \in Read DEF RInv, UntilSeparator, Read
<1>3. Replies' = Replies \cup {resp}
  BY RangeAppend DEF Replies, send_response, RInv, IInv, TypeOK
<1>4. FinalAnswered' <=> Final(resp)
  BY <1>1, <1>3 DEF FinalAnswered, Final, Block
<1>5. \A j \in DOMAIN writes' : writes'[j].done = "ok" =>
          j \in DOMAIN writes /\ writes'[j] = writes[j]
  <2> DEFINE queue == Append(responses_queue_, resp)
             w     == [resp |-> Head(queue), done |-> "no"]
  <2>1. add_response_handler(queue, sending_, writes)
    BY DEF send_response
  <2>2. CASE writes' = writes
    BY <2>2
  <2>3. CASE writes' = Append(writes, w)
    <3>1. writes \in Seq(Write)
      BY DEF RInv, IInv, TypeOK
    <3>2. /\ DOMAIN Append(writes, w) = 1..Len(writes) + 1
          /\ Append(writes, w)[Len(writes) + 1] = w /\ w.done = "no"
          /\ DOMAIN writes = 1..Len(writes) /\ Len(writes) \in Nat
          /\ \A j \in 1..Len(writes) : Append(writes, w)[j] = writes[j]
      <4> HIDE DEF queue
      <4> QED BY <3>1
    <3> HIDE DEF w
    <3> QED BY <2>3, <3>2
  <2> QED BY <2>1, <2>2, <2>3 DEF add_response_handler
<1>6. ReplyInv'
  BY <1>3, <1>5 DEF RInv, ReplyInv
<1>7. Len(<<>>) = 0 /\ Len(<<UntilSeparator>>) = 1 /\ <<UntilSeparator>> # <<>>
  OBVIOUS
<1> QED BY <1>2, <1>4, <1>6, <1>7 DEF ReadsUntilFinal

\* What the parser returns is a request the client sent.
LEMMA ParsedResponse ==
    ASSUME RInv, NEW i \in DOMAIN reads, ReadDone(i), NEW status \in Statuses
    PROVE  LET resp == [req |-> Parsed.request.head, status |-> status,
                        body |-> Parsed.request.body]
           IN  resp \in Response /\ resp.req <= Len(sent)
<1>1. Parsed.request \in ParsedRequest
  BY ParsedOK DEF RInv, IInv
<1>2. Parsed.request.head <= Len(sent)
  BY <1>1, RequestType DEF RInv, IInv
<1> QED BY <1>1, <1>2, ResponseType DEF RInv, IInv

\* Every exception is answered with another status than a host's response.
LEMMA ErrorsAreFinal ==
    ASSUME NEW e \in Exceptions PROVE error_status(e) # "response"
BY DEF error_status, Exceptions, ParseErrors, HostErrors

\* Reading throws.
LEMMA RejectReads ==
    ASSUME RInv, NEW i \in DOMAIN reads, ReadDone(i), RejectRequest(i, Parsed)
    PROVE  ReplyInv' /\ ReadsUntilFinal'
<1> DEFINE resp == [req |-> Parsed.request.head,
                    status |-> error_status(Parsed.error),
                    body |-> Parsed.request.body]
<1>1. Parsed.error \in Exceptions /\ ReadDone(i)
  BY ParsedOK DEF RInv, IInv, RejectRequest
<1>2. resp \in Response /\ resp.req <= Len(sent)
  BY <1>1, StatusOfError, ParsedResponse
<1>3. Final(resp)
  BY <1>1, ErrorsAreFinal DEF Final
<1>4. /\ send_response(resp) /\ reads' = RemoveAt(reads, i)
      /\ UNCHANGED <<sent, closed, broken, delivered>>
  BY DEF RejectRequest, handle_error, input
<1> HIDE DEF resp
<1> QED BY <1>2, <1>3, <1>4, QueuedReads

\* The host answers.
LEMMA AnswerReads ==
    ASSUME RInv, NEW i \in DOMAIN reads, ReadDone(i), AnswerRequest(i, Parsed)
    PROVE  ReplyInv' /\ ReadsUntilFinal'
<1> DEFINE resp == [req |-> Parsed.request.head, status |-> "response",
                    body |-> Parsed.request.body]
<1>1. resp \in Response /\ resp.req <= Len(sent)
  BY ParsedResponse DEF AnswerRequest, Statuses
<1>2. Final(resp) <=> ~Block(Parsed.request.head).keep_alive
  BY DEF Final
<1>3. /\ send_response(resp)
      /\ reads' = IF Block(Parsed.request.head).keep_alive
                  THEN Append(RemoveAt(reads, i), UntilSeparator)
                  ELSE RemoveAt(reads, i)
      /\ UNCHANGED <<sent, closed, broken, delivered>>
  BY DEF AnswerRequest, input
<1> HIDE DEF resp
<1> QED BY <1>1, <1>2, <1>3, QueuedReads

\* The port check or the host throws.
LEMMA RefuseReads ==
    ASSUME RInv, NEW i \in DOMAIN reads, ReadDone(i), RefuseRequest(i, Parsed)
    PROVE  ReplyInv' /\ ReadsUntilFinal'
<1> DEFINE e    == host_error(Block(Parsed.request.head))
           resp == [req |-> Parsed.request.head, status |-> error_status(e),
                    body |-> Parsed.request.body]
<1>1. e \in Exceptions
  BY RefusedByHost DEF RInv
<1>2. resp \in Response /\ resp.req <= Len(sent)
  <2>1. error_status(e) \in Statuses /\ ReadDone(i)
    BY <1>1, StatusOfError DEF RefuseRequest
  <2> QED BY <2>1, ParsedResponse
<1>3. Final(resp)
  BY <1>1, ErrorsAreFinal DEF Final
<1>4. /\ send_response(resp) /\ reads' = RemoveAt(reads, i)
      /\ UNCHANGED <<sent, closed, broken, delivered>>
  BY DEF RefuseRequest, handle_error, input
<1> HIDE DEF resp
<1> QED BY <1>2, <1>3, <1>4, QueuedReads

\* The client is gone: no read is left, and none is owed.
LEMMA ReadFailsReads ==
    ASSUME RInv, NEW i \in DOMAIN reads, ReadFails(i)
    PROVE  ReplyInv' /\ ReadsUntilFinal'
<1>1. /\ UNCHANGED <<sent, closed, broken, responses_queue_, writes, delivered>>
      /\ closed \/ broken
  BY DEF ReadFails, input, output
<1>2. Replies' = Replies /\ (FinalAnswered' <=> FinalAnswered)
  BY <1>1, SameReplies DEF Replies
<1>3. reads' = <<>>
  BY ReadsAfter, UntilSeparator \in Read DEF RInv, ReadFails, UntilSeparator, Read
<1>4. Len(<<>>) = 0
  OBVIOUS
<1> QED BY <1>1, <1>2, <1>3, <1>4 DEF RInv, ReplyInv, ReadsUntilFinal

\* A write ends: the response on the wire is the one at the front.
LEMMA KernelWriteReads ==
    ASSUME RInv, NEW i \in DOMAIN writes, KernelWrite(i)
    PROVE  ReplyInv' /\ ReadsUntilFinal'
<1>1. /\ i = 1 /\ Len(writes) = 1 /\ writes \in Seq(Write) /\ writes[1] \in Write
      /\ responses_queue_ # <<>> /\ writes[1].resp = Head(responses_queue_)
  BY OnlyWrite DEF RInv
<1>2. /\ writes' = [writes EXCEPT ![1].done = IF broken THEN "error" ELSE "ok"]
      /\ delivered' = IF broken THEN delivered ELSE Append(delivered, writes[1].resp)
      /\ UNCHANGED <<sent, closed, broken, reads, responses_queue_>>
  BY <1>1 DEF KernelWrite, input
<1>3. /\ delivered \in Seq(Response) /\ responses_queue_ \in Seq(Response)
      /\ writes[1].resp \in Response
  BY <1>1 DEF RInv, IInv, TypeOK, Write
<1>4. Range(delivered') = IF broken THEN Range(delivered)
                                    ELSE Range(delivered) \cup {writes[1].resp}
  <2> DEFINE resp == writes[1].resp
  <2>1. Range(Append(delivered, resp)) = Range(delivered) \cup {resp}
    <3>1. resp \in Response
      BY <1>3
    <3> HIDE DEF resp
    <3> QED BY <1>3, <3>1, RangeAppend
  <2>2. CASE broken
    BY <1>2, <2>2
  <2>3. CASE ~broken
    <3>1. delivered' = Append(delivered, resp)
      BY <1>2, <2>3
    <3> QED BY <2>1, <2>3, <3>1
  <2> QED BY <2>2, <2>3
<1>5. writes[1].resp \in Range(responses_queue_)
  BY <1>1, <1>3, RangeTail
<1>6. Replies' = Replies
  BY <1>2, <1>4, <1>5 DEF Replies
<1>7. DOMAIN writes' = {1} /\ writes'[1] = [writes[1] EXCEPT !.done =
                                  IF broken THEN "error" ELSE "ok"]
  BY <1>1, <1>2, LenProperties
<1>8. writes'[1].resp = writes[1].resp
      /\ writes'[1].done = IF broken THEN "error" ELSE "ok"
  BY <1>1, <1>7 DEF Write
<1>9. ReplyInv'
  BY <1>2, <1>4, <1>6, <1>7, <1>8 DEF RInv, ReplyInv
<1>10. FinalAnswered' <=> FinalAnswered
  BY <1>2, <1>6, SameReplies
<1> QED BY <1>2, <1>9, <1>10 DEF RInv, ReadsUntilFinal

\* The front response leaves the queue: it was delivered, or all is lost.
LEMMA ResponseReads ==
    ASSUME RInv, NEW i \in DOMAIN writes, response_handler(i)
    PROVE  ReplyInv' /\ ReadsUntilFinal'
<1> DEFINE queue == Tail(responses_queue_)
<1>1. /\ i = 1 /\ Len(writes) = 1 /\ writes \in Seq(Write) /\ writes[1] \in Write
      /\ responses_queue_ # <<>> /\ writes[1].resp = Head(responses_queue_)
  BY OnlyWrite DEF RInv
<1>2. DOMAIN writes = {1} /\ RemoveAt(writes, i) = <<>>
  BY <1>1, RemovedOnly, LenProperties
<1>3. /\ responses_queue_' = queue
      /\ IF writes[1].done = "ok" THEN add_response_handler(queue, FALSE, <<>>)
                                  ELSE sending_' = FALSE /\ writes' = <<>>
      /\ writes[1].done # "no"
      /\ UNCHANGED <<sent, closed, broken, reads, delivered>>
  BY <1>1, <1>2 DEF response_handler, input
<1>4. Range(responses_queue_) = {writes[1].resp} \cup Range(queue)
  BY <1>1, RangeTail DEF RInv, IInv, TypeOK
<1> HIDE DEF queue
<1>5. \A j \in DOMAIN writes' : writes'[j].done # "ok"
  <2> DEFINE w == [resp |-> Head(queue), done |-> "no"]
  <2>1. writes' = <<>> \/ writes' = Append(<<>>, w)
    BY <1>3 DEF add_response_handler
  <2>2. w.done = "no"
    OBVIOUS
  <2> HIDE DEF w
  <2>3. CASE writes' = Append(<<>>, w)
    <3>1. DOMAIN writes' = {1} /\ writes'[1] = w
      BY <2>3
    <3> QED BY <2>2, <3>1
  <2> QED BY <2>1, <2>3
<1>6. CASE writes[1].done = "ok"
  <2>1. writes[1].resp \in Range(delivered)
    BY <1>2, <1>6 DEF RInv, ReplyInv
  <2>2. Replies' = Replies
    BY <1>3, <1>4, <2>1 DEF Replies
  <2>3. FinalAnswered' <=> FinalAnswered
    BY <1>3, <2>2, SameReplies
  <2> QED BY <1>3, <1>5, <2>2, <2>3 DEF RInv, ReplyInv, ReadsUntilFinal
<1>7. CASE writes[1].done # "ok"
  <2>1. broken
    BY <1>1, <1>2, <1>3, <1>7 DEF RInv, IInv, WriterInv, WriteFailsOnlyBroken, Write
  <2>2. Replies' \subseteq Replies
    BY <1>3, <1>4 DEF Replies
  <2>3. FinalAnswered' => FinalAnswered
    BY <1>3, <2>2 DEF FinalAnswered, Final, Block
  <2> QED BY <1>3, <1>5, <2>1, <2>2, <2>3 DEF RInv, ReplyInv, ReadsUntilFinal
<1> QED BY <1>6, <1>7

-----------------------------------------------------------------------------
(* The invariant *)

\* The session starts listening, with nothing answered.
LEMMA InitReads == Init => RInv
<1> SUFFICES ASSUME Init PROVE RInv
  OBVIOUS
<1>1. IInv
  BY InitInv
<1>2. Range(<<>>) = {} /\ DOMAIN <<>> = {}
  BY DEF Range
<1>3. Replies = {} /\ writes = <<>>
  BY <1>2 DEF Init, Replies
<1>4. reads # <<>> /\ Len(reads) = 1
  BY DEF Init
<1> QED BY <1>1, <1>2, <1>3, <1>4 DEF RInv, ReplyInv, ReadsUntilFinal, FinalAnswered

\* Every step preserves what is known of reads and responses.
LEMMA StepReads == RInv /\ [Next]_vars => RInv'
<1> SUFFICES ASSUME RInv, [Next]_vars PROVE RInv'
  OBVIOUS
<1>1. IInv'
  BY StepInv DEF RInv
<1>2. ASSUME Client PROVE ReplyInv' /\ ReadsUntilFinal'
  BY <1>2, SendReads, LeaveReads DEF Client
<1>3. ASSUME NEW i \in DOMAIN reads, Read_(i) PROVE ReplyInv' /\ ReadsUntilFinal'
  BY <1>3, Outcomes, ContinueReads, RejectReads, AnswerReads, RefuseReads,
     ReadFailsReads, ReceiveReads
<1>4. ASSUME NEW i \in DOMAIN writes, Write_(i) PROVE ReplyInv' /\ ReadsUntilFinal'
  BY <1>4, KernelWriteReads, ResponseReads DEF Write_
<1>5. ASSUME UNCHANGED vars PROVE ReplyInv' /\ ReadsUntilFinal'
  <2>1. UNCHANGED <<sent, closed, broken, reads, responses_queue_, writes, delivered>>
    BY <1>5 DEF vars, input, output
  <2>2. Replies' = Replies /\ (FinalAnswered' <=> FinalAnswered)
    BY <2>1, SameReplies DEF Replies
  <2> QED BY <2>1, <2>2 DEF RInv, ReplyInv, ReadsUntilFinal
<1>6. ReplyInv' /\ ReadsUntilFinal'
  BY <1>2, <1>3, <1>4, <1>5 DEF Next, Destroyed
<1> QED BY <1>1, <1>6 DEF RInv

\* process_request arms the next read exactly when it should: at most one read
\* runs, none after a final response, and until then the session listens.
THEOREM ReadsSafe == Spec => []ReadsUntilFinal
<1>1. RInv => ReadsUntilFinal
  BY DEF RInv
<1> QED BY <1>1, InitReads, StepReads, PTL DEF Spec
=============================================================================
