-------------------------- MODULE RequestParserProofs --------------------------
(***************************************************************************)
(* Proofs about RequestParser, for any start lines, header lines and       *)
(* forms, and any number of headers and of requests.                       *)
(*                                                                         *)
(* The module declares no operator RECURSIVE: the recursive functions are  *)
(* reasoned about one step at a time, and the induction over numbers and   *)
(* sequences is done on sets (AllNats, AllAlong, AllSeqs), which needs no  *)
(* operator for a parameter.  Every operator on sequences of the model has *)
(* a lemma that says what one more element makes of its value.             *)
(***************************************************************************)
EXTENDS RequestParser, SequenceTheorems, WellFoundedInduction, TLAPS

-----------------------------------------------------------------------------
(* Sequences *)

\* Induction over a set of naturals.
LEMMA AllNats ==
    ASSUME NEW T, 0 \in T, \A n \in Nat : n \in T => n + 1 \in T
    PROVE  \A n \in Nat : n \in T
<1> SUFFICES ASSUME NEW x \in Nat, x \notin T PROVE FALSE
  OBVIOUS
<1> DEFINE S == {n \in Nat : n \notin T}
<1>1. PICK m \in S : \A n \in S : ~ (<<n, m>> \in OpToRel(<, Nat))
  BY NatLessThanWellFounded, WFMin
<1>2. m \in Nat /\ m \notin T /\ m # 0
  BY <1>1
<1>3. m - 1 \in Nat /\ m - 1 < m /\ (m - 1) + 1 = m
  BY <1>2
<1>4. m - 1 \notin S
  BY <1>1, <1>3, <<m - 1, m>> \in Nat \X Nat DEF OpToRel
<1> QED BY <1>2, <1>3, <1>4

\* What holds at first and with each step holds all along 0..n.
LEMMA AllAlong ==
    ASSUME NEW n \in Nat, NEW T, 0 \in T, \A i \in 1..n : i - 1 \in T => i \in T
    PROVE  \A i \in 0..n : i \in T
<1> DEFINE U == {i \in Nat : i \in T \/ i > n}
<1>1. 0 \in U
  OBVIOUS
<1>2. ASSUME NEW i \in Nat, i \in U PROVE i + 1 \in U
  <2>1. CASE i + 1 \in 1..n
    <3>1. i \in T /\ (i + 1) - 1 = i
      BY <1>2, <2>1
    <3> QED BY <2>1, <3>1
  <2>2. CASE i + 1 \notin 1..n
    BY <2>2
  <2> QED BY <2>1, <2>2
<1>3. \A i \in Nat : i \in U
  <2> HIDE DEF U
  <2> QED BY <1>1, <1>2, AllNats
<1> QED BY <1>3

\* What holds of the empty sequence, and of a sequence with one more element, holds
\* of every sequence.
LEMMA AllSeqs ==
    ASSUME NEW S, NEW T, <<>> \in T, \A s \in Seq(S) : \A x \in S : s \in T => Append(s, x) \in T
    PROVE  \A s \in Seq(S) : s \in T
<1> DEFINE U == {n \in Nat : \A s \in Seq(S) : Len(s) = n => s \in T}
<1>1. 0 \in U
  <2>1. \A s \in Seq(S) : Len(s) = 0 => s = <<>>
    BY EmptySeq
  <2> QED BY <2>1
<1>2. ASSUME NEW n \in Nat, n \in U PROVE n + 1 \in U
  <2> SUFFICES ASSUME NEW s \in Seq(S), Len(s) = n + 1 PROVE s \in T
    OBVIOUS
  <2>1. s # <<>>
    BY EmptySeq
  <2>2. PICK t \in Seq(S), x \in S : s = Append(t, x)
    BY <2>1, SequenceEmptyOrAppend
  <2>3. Len(t) \in Nat /\ Len(s) = Len(t) + 1
    BY <2>2, AppendProperties, LenProperties
  <2>4. Len(t) = n
    BY <2>3
  <2>5. t \in T
    BY <1>2, <2>4
  <2> QED BY <2>2, <2>5
<1>3. \A n \in Nat : n \in U
  <2> HIDE DEF U
  <2> QED BY <1>1, <1>2, AllNats
<1> QED BY <1>3, LenProperties

LEMMA FlattenExists ==
    ASSUME NEW s, NEW n \in Nat
    PROVE  \E f : f = [i \in 1..n |-> IF i = 1 THEN s[i] ELSE f[i - 1] \o s[i]]
<1> DEFINE Following(f, i) == IF i = 1 THEN s[i] ELSE f[i - 1] \o s[i]
           T == {m \in Nat : \E f : f = [i \in 1..m |-> Following(f, i)]}
<1>1. 0 \in T
  <2> DEFINE f == [i \in 1..0 |-> 0]
  <2>1. f = [i \in 1..0 |-> Following(f, i)]
    OBVIOUS
  <2> QED BY <2>1
<1>2. ASSUME NEW m \in Nat, m \in T PROVE m + 1 \in T
  <2>1. PICK g : g = [i \in 1..m |-> Following(g, i)]
    BY <1>2
  <2> DEFINE h == [i \in 1..m + 1 |-> IF i = m + 1 THEN Following(g, m + 1) ELSE g[i]]
  <2>2. ASSUME NEW i \in 1..m + 1 PROVE h[i] = Following(h, i)
    <3>1. CASE i \in 1..m
      <4>1. i # m + 1 /\ i - 1 # m + 1 /\ (i # 1 => i - 1 \in 1..m + 1)
        BY <3>1
      <4>2. h[i] = g[i] /\ (i # 1 => h[i - 1] = g[i - 1])
        BY <4>1
      <4>3. g[i] = Following(g, i)
        BY <2>1, <3>1
      <4> QED BY <4>1, <4>2, <4>3
    <3>2. CASE i = m + 1
      <4>1. i - 1 = m /\ (i # 1 => i - 1 \in 1..m + 1) /\ m # m + 1
        BY <3>2
      <4> QED BY <3>2, <4>1
    <3> QED BY <3>1, <3>2
  <2>3. h = [i \in 1..m + 1 |-> Following(h, i)]
    BY <2>2
  <2> HIDE DEF h
  <2>4. \E f : f = [i \in 1..m + 1 |-> Following(f, i)]
    BY <2>3
  <2> HIDE DEF Following
  <2> QED BY <2>4
<1>3. n \in T
  <2> HIDE DEF T
  <2> QED BY <1>1, <1>2, AllNats
<1> QED BY <1>3

\* What has been put together of the first sequences.
LEMMA FlattenSteps ==
    ASSUME NEW s, NEW n \in Nat \ {0}, n = Len(s)
    PROVE  \E f : /\ FlattenSeq(s) = f[n] /\ f[1] = s[1]
                  /\ \A i \in 2..n : f[i] = f[i - 1] \o s[i]
<1> DEFINE P(f) == f = [i \in 1..n |-> IF i = 1 THEN s[i] ELSE f[i - 1] \o s[i]]
<1>1. \E f : P(f)
  BY FlattenExists
<1>2. PICK f : f = CHOOSE g : P(g)
  OBVIOUS
<1>3. P(f)
  <2> HIDE DEF P
  <2> QED BY <1>1, <1>2
<1>4. FlattenSeq(s) = (CHOOSE g : P(g))[n]
  BY DEF FlattenSeq
<1>5. FlattenSeq(s) = f[n]
  <2> HIDE DEF P
  <2> QED BY <1>2, <1>4
<1>6. f[1] = s[1]
  BY <1>3, 1 \in 1..n
<1>7. ASSUME NEW i \in 2..n PROVE f[i] = f[i - 1] \o s[i]
  BY <1>3, i \in 1..n, i # 1
<1> QED BY <1>5, <1>6, <1>7

LEMMA FlattenEmpty == FlattenSeq(<<>>) = <<>>
<1>1. Len(<<>>) = 0
  BY EmptySeq
<1> QED BY <1>1 DEF FlattenSeq

LEMMA FlattenAppend ==
    ASSUME NEW S, NEW s \in Seq(Seq(S)), NEW x \in Seq(S)
    PROVE  FlattenSeq(Append(s, x)) = FlattenSeq(s) \o x
<1>1. PICK n \in Nat : n = Len(s)
  BY LenProperties
<1> DEFINE t == Append(s, x)
<1>2. Len(t) = n + 1 /\ (\A i \in 1..n : t[i] = s[i]) /\ t[n + 1] = x
  BY <1>1, AppendProperties
<1> HIDE DEF t
<1>3. PICK g : /\ FlattenSeq(t) = g[n + 1] /\ g[1] = t[1]
               /\ \A i \in 2..n + 1 : g[i] = g[i - 1] \o t[i]
  BY <1>2, n + 1 \in Nat \ {0}, FlattenSteps
<1>4. CASE n = 0
  <2>1. s = <<>>
    BY <1>1, <1>4, EmptySeq
  <2>2. FlattenSeq(t) = x
    BY <1>2, <1>3, <1>4
  <2> QED BY <2>1, <2>2, FlattenEmpty, ConcatEmptySeq DEF t
<1>5. CASE n # 0
  <2>1. PICK f : /\ FlattenSeq(s) = f[n] /\ f[1] = s[1]
                 /\ \A i \in 2..n : f[i] = f[i - 1] \o s[i]
    BY <1>1, <1>5, n \in Nat \ {0}, FlattenSteps
  <2> DEFINE T == {i \in 0..n : i # 0 => f[i] = g[i]}
  <2>2. \A i \in 0..n : i \in T
    <3>1. 0 \in T
      OBVIOUS
    <3>2. ASSUME NEW i \in 1..n, i - 1 \in T PROVE i \in T
      <4>1. CASE i = 1
        BY <1>2, <1>3, <2>1, <4>1
      <4>2. CASE i # 1
        <5>1. i \in 2..n /\ i \in 2..n + 1 /\ i - 1 # 0
          BY <4>2
        <5>2. f[i - 1] = g[i - 1]
          BY <3>2, <5>1
        <5>3. f[i] = f[i - 1] \o s[i] /\ g[i] = g[i - 1] \o t[i] /\ t[i] = s[i]
          BY <1>2, <1>3, <2>1, <5>1
        <5>4. f[i] = g[i]
          BY <5>2, <5>3
        <5> QED BY <5>4
      <4> QED BY <4>1, <4>2
    <3> HIDE DEF T
    <3> QED BY <3>1, <3>2, AllAlong
  <2>3. f[n] = g[n]
    BY <1>5, <2>2
  <2>4. n + 1 \in 2..n + 1 /\ (n + 1) - 1 = n
    BY <1>5
  <2>5. g[n + 1] = g[n] \o t[n + 1]
    BY <1>3, <2>4
  <2> QED BY <1>2, <1>3, <2>1, <2>3, <2>5 DEF t
<1> QED BY <1>4, <1>5

LEMMA FlattenSeqs ==
    ASSUME NEW S, NEW s \in Seq(Seq(S))
    PROVE  FlattenSeq(s) \in Seq(S)
<1> DEFINE T == {t \in Seq(Seq(S)) : FlattenSeq(t) \in Seq(S)}
<1>1. <<>> \in T
  BY FlattenEmpty, EmptySeq
<1>2. ASSUME NEW t \in Seq(Seq(S)), NEW x \in Seq(S), t \in T PROVE Append(t, x) \in T
  BY <1>2, FlattenAppend, ConcatProperties, AppendProperties
<1>3. s \in T
  <2> HIDE DEF T
  <2> QED BY <1>1, <1>2, AllSeqs
<1> QED BY <1>3

-----------------------------------------------------------------------------
(* The inductive invariant *)

Stages == {"idle", "start", "headers", "uri", "done", "answered", "failed"}

\* The request keeps its fields, and the lines are what a client may send.
FieldsInv ==
    /\ DOMAIN request = DOMAIN Fresh
    /\ start \in Seq(StartType) /\ headers \in Seq(HeaderType)

\* Only the last header line may be bad or blank, and only after the end of a
\* request or of its headers; there are headers only below a proper start line.
LinesInv ==
    /\ stage \in {"idle", "start"} => headers = <<>>
    /\ stage = "start" => start = <<>>
    /\ stage = "headers" => Len(headers) <= MaxHeaders
    /\ \A i \in DOMAIN headers : i < Len(headers) => headers[i].kind = "header" /\ ~Bad(headers[i])
    /\ stage = "headers" => \A i \in DOMAIN headers : headers[i].kind = "header" /\ ~Bad(headers[i])
    /\ stage \in {"uri", "done", "answered"} => headers # <<>> /\ Last(headers).kind = "blank"
    /\ stage \in {"headers", "uri"} \/ headers # <<>> =>
          /\ start # <<>>
          /\ start[1].proper /\ start[1].protocol = "HTTP" /\ start[1].version = "1.1"

\* Why a request was refused, and where its length comes from.
CauseInv ==
    /\ (error # "none") = (stage = "failed")
    /\ stage = "failed" =>
          (error = "incorrect_header_string") = (headers # <<>> /\ Bad(Last(headers)))
    /\ stage = "start" => request.content_length = 0
    /\ request.content_length > 0 =>
          \E i \in DOMAIN headers :
             headers[i].name = "Content-Length" /\ headers[i].number = request.content_length
    /\ error = "content_length_must_be_0" =>
          request.method # "POST" /\ request.content_length > 0
    /\ error = "std_exception" => request.method = "POST" /\ request.content_length > BodyLimit
    /\ stage \in {"done", "answered"} => request.content_length <= BodyLimit

IInv == TypeOK /\ FieldsInv /\ LinesInv /\ CauseInv

-----------------------------------------------------------------------------
(* Lemmas *)

\* A set of natural numbers that is not empty has its minimum.
LEMMA MinOf ==
    ASSUME NEW S \in SUBSET Nat, S # {}
    PROVE  Min(S) \in S /\ \A k \in S : Min(S) <= k
<1>1. PICK i \in S : \A k \in S : <<k, i>> \notin OpToRel(<, Nat)
  <2>1. \E i \in S : \A k \in S : ~(<<k, i>> \in OpToRel(<, Nat))
    BY NatLessThanWellFounded, WFMin
  <2> QED BY <2>1
<1>2. ASSUME NEW k \in S PROVE i <= k
  <2>1. k < i => <<k, i>> \in OpToRel(<, Nat)
    BY DEF OpToRel
  <2>2. k \in Nat /\ i \in Nat /\ ~(k < i)
    BY <1>1, <2>1
  <2> QED BY <2>2
<1>3. \E x \in S : \A y \in S : x <= y
  BY <1>2
<1> QED BY <1>3 DEF Min

\* base_regex: what process_uri takes for the path is text of the URI.
LEMMA PathOfUri ==
    ASSUME NEW r, DOMAIN r = DOMAIN Fresh, r.uri \in Seq(STRING)
    PROVE  /\ process_uri(r).path \in Seq(STRING)
           /\ DOMAIN process_uri(r) = DOMAIN Fresh
           /\ \A f \in DOMAIN Fresh \ {"path", "args"} : process_uri(r)[f] = r[f]
<1> DEFINE marks == {k \in DOMAIN r.uri : r.uri[k] = "?"}
           mark  == IF marks = {} THEN Len(r.uri) + 1 ELSE Min(marks)
<1>1. mark \in 1..Len(r.uri) + 1
  <2>1. CASE marks = {}
    BY <2>1
  <2>2. CASE marks # {}
    <3>1. marks \in SUBSET Nat /\ marks \subseteq 1..Len(r.uri)
      OBVIOUS
    <3> HIDE DEF marks
    <3>2. Min(marks) \in marks
      BY <2>2, <3>1, MinOf
    <3>3. Min(marks) \in 1..Len(r.uri) /\ mark = Min(marks)
      BY <2>2, <3>1, <3>2
    <3> HIDE DEF mark
    <3>4. Len(r.uri) \in Nat
      OBVIOUS
    <3> QED BY <3>3, <3>4
  <2> QED BY <2>1, <2>2
<1> HIDE DEF mark
<1>2. SubSeq(r.uri, 1, mark - 1) \in Seq(STRING)
  BY <1>1
<1> DEFINE args == Args(SubSeq(r.uri, mark + 1, Len(r.uri)))
<1>3. process_uri(r) = [r EXCEPT !.path = SubSeq(r.uri, 1, mark - 1), !.args = args]
  BY DEF process_uri, mark
<1> HIDE DEF args
<1>4. "path" \in DOMAIN Fresh /\ "args" \in DOMAIN Fresh
  BY DEF Fresh
<1> QED BY <1>2, <1>3, <1>4

\* process_header: the types of the fields, and that only "Content-Length" makes a
\* length.
LEMMA HeaderOf ==
    ASSUME NEW r, DOMAIN r = DOMAIN Fresh, NEW line \in HeaderType, line.name \in Processors,
           r.port \in Nat, r.content_length \in Nat, r.keep_alive \in BOOLEAN
    PROVE  LET h == process_header(r, line) IN
           /\ DOMAIN h = DOMAIN Fresh
           /\ h.port \in Nat /\ h.content_length \in Nat /\ h.keep_alive \in BOOLEAN
           /\ h.method = r.method /\ h.version = r.version /\ h.uri = r.uri /\ h.path = r.path
           /\ \/ h.content_length = r.content_length
              \/ line.name = "Content-Length" /\ h.content_length = line.number
<1>0. /\ {"port", "content_length", "keep_alive", "method", "version", "uri", "path", "host",
          "cookies"} \subseteq DOMAIN r
      /\ line.number \in Nat
  BY DEF Fresh, HeaderType
<1>1. CASE line.name = "Content-Length"
  <2>1. process_header(r, line) = [r EXCEPT !.content_length = line.number]
    BY <1>1 DEF process_header
  <2> QED BY <1>0, <1>1, <2>1
<1>2. CASE line.name = "Connection"
  <2>1. process_header(r, line) = [r EXCEPT !.keep_alive = (line.text = "keep-alive")]
    BY <1>2 DEF process_header
  <2> QED BY <1>0, <2>1
<1>3. CASE line.name = "Host"
  <2>1. process_header(r, line) =
           [r EXCEPT !.host = line.text, !.port = IF line.with_port THEN line.number ELSE @]
    BY <1>3 DEF process_header
  <2> QED BY <1>0, <2>1
<1>4. CASE line.name = "Cookie"
  <2> DEFINE cookies == EmplaceAll(r.cookies, line.cookies)
  <2>1. process_header(r, line) = [r EXCEPT !.cookies = cookies]
    BY <1>4 DEF process_header
  <2> HIDE DEF cookies
  <2> QED BY <1>0, <2>1
<1> QED BY <1>1, <1>2, <1>3, <1>4 DEF Processors

-----------------------------------------------------------------------------
(* The steps *)

\* A new request finds nothing of the one before.
LEMMA NewRequestStep ==
    ASSUME IInv, process_stream
    PROVE  IInv'
<1>1. /\ request' = Fresh /\ stage' = "start" /\ start' = <<>> /\ headers' = <<>>
      /\ count' = count + 1 /\ count < MaxRequests /\ error' = error /\ error = "none"
  BY DEF process_stream, reset, IInv, CauseInv
<1>a. /\ Fresh.method = "unknown" /\ Fresh.version = "unknown" /\ Fresh.keep_alive = FALSE
      /\ Fresh.port = 80 /\ Fresh.content_length = 0 /\ Fresh.uri = <<>> /\ Fresh.path = <<>>
  BY DEF Fresh, default_port
<1>b. /\ request'.method = "unknown" /\ request'.version = "unknown" /\ request'.keep_alive = FALSE
      /\ request'.port = 80 /\ request'.content_length = 0
      /\ request'.uri = <<>> /\ request'.path = <<>>
  BY <1>1, <1>a
<1>2. TypeOK'
  <2>1. <<>> \in Seq(STRING) /\ Len(start') = 0 /\ Len(headers') = 0
    BY <1>1
  <2>2. count' \in 0..MaxRequests /\ MaxHeaders \in Nat
    BY <1>1, RequestParserAssumption DEF IInv, TypeOK
  <2>a. request'.keep_alive \in BOOLEAN
    BY <1>b, Zenon
  <2>b. request'.port \in Nat /\ request'.content_length \in Nat
    BY <1>b
  <2>3. request'.keep_alive \in BOOLEAN /\ request'.port \in Nat /\ request'.content_length \in Nat
    BY <2>a, <2>b
  <2>4. request'.uri \in Seq(STRING) /\ request'.path \in Seq(STRING)
    BY <1>b, <2>1
  <2>5. Len(start') <= 1 /\ Len(headers') <= MaxHeaders + 1
    BY <2>1, <2>2
  <2> QED BY <1>1, <1>b, <2>2, <2>3, <2>4, <2>5 DEF TypeOK
<1>3. FieldsInv'
  <2>1. <<>> \in Seq(StartType) /\ <<>> \in Seq(HeaderType)
    OBVIOUS
  <2> QED BY <1>1, <2>1 DEF FieldsInv
<1>4. LinesInv'
  BY <1>1 DEF LinesInv
<1>5. CauseInv'
  <2>1. error' # "content_length_must_be_0" /\ stage' # "failed" /\ ~(request'.content_length > 0)
    BY <1>1, <1>b
  <2> QED BY <1>1, <1>b, <2>1 DEF CauseInv
<1> QED BY <1>2, <1>3, <1>4, <1>5 DEF IInv

\* A start line is taken, or the first check that it fails refuses it.
LEMMA StartStep ==
    ASSUME IInv, NEW line \in StartLines, process_start_string(line)
    PROVE  IInv'
<1>0. /\ stage = "start" /\ start' = <<line>> /\ headers = <<>> /\ headers' = headers
      /\ count' = count /\ error = "none" /\ line \in StartType
      /\ DOMAIN request = DOMAIN Fresh /\ request.content_length = 0
  BY RequestParserAssumption DEF process_start_string, IInv, LinesInv, CauseInv, FieldsInv
<1>1. PICK method \in {"unknown", "GET", "HEAD", "POST", "DELETE"} : method = str_to_method(line.method)
  BY DEF str_to_method
<1>2. PICK version \in {"unknown", "v_1_1"} : version = str_to_version(line.version)
  BY DEF str_to_version
<1>3. /\ {"method", "version", "uri", "port", "content_length", "keep_alive", "path"}
             \subseteq DOMAIN request
      /\ line.uri \in Seq(STRING)
  BY <1>0 DEF Fresh, StartType
<1>4. /\ DOMAIN request' = DOMAIN request
      /\ request'.method \in {"unknown", "GET", "HEAD", "POST", "DELETE"}
      /\ request'.version \in {"unknown", "v_1_1"} /\ request'.uri \in Seq(STRING)
      /\ request'.port = request.port /\ request'.content_length = request.content_length
      /\ request'.keep_alive = request.keep_alive /\ request'.path = request.path
  <2>1. \/ request' = request
        \/ request' = [request EXCEPT !.method = method]
        \/ request' = [[request EXCEPT !.method = method] EXCEPT !.version = version]
        \/ request' = [[request EXCEPT !.method = method] EXCEPT !.version = version, !.uri = line.uri]
    BY <1>1, <1>2 DEF process_start_string
  <2>2. CASE request' = request
    BY <2>2 DEF IInv, TypeOK
  <2>3. CASE request' = [request EXCEPT !.method = method]
    BY <1>1, <1>3, <2>3 DEF IInv, TypeOK
  <2>4. CASE request' = [[request EXCEPT !.method = method] EXCEPT !.version = version]
    BY <1>1, <1>2, <1>3, <2>4 DEF IInv, TypeOK
  <2>5. CASE request' = [[request EXCEPT !.method = method] EXCEPT !.version = version,
                                                                   !.uri = line.uri]
    BY <1>1, <1>2, <1>3, <2>5 DEF IInv, TypeOK
  <2> QED BY <2>1, <2>2, <2>3, <2>4, <2>5
<1>5. \/ /\ stage' = "failed"
         /\ error' \in {"incorrect_start_string", "incorrect_protocol", "unsupported_protocol_version"}
      \/ /\ stage' = "headers" /\ error' = "none"
         /\ line.proper /\ line.protocol = "HTTP" /\ line.version = "1.1"
  <2>1. \/ Throw("incorrect_start_string") \/ Throw("incorrect_protocol")
        \/ Throw("unsupported_protocol_version")
        \/ /\ line.proper /\ line.protocol = "HTTP" /\ str_to_version(line.version) = "v_1_1"
           /\ stage' = "headers" /\ UNCHANGED error
    BY DEF process_start_string
  <2>2. str_to_version(line.version) = "v_1_1" => line.version = "1.1"
    BY DEF str_to_version
  <2> QED BY <1>0, <2>1, <2>2 DEF Throw
<1>6. TypeOK'
  <2>1. Len(start') <= 1
    BY <1>0
  <2> QED BY <1>0, <1>4, <1>5, <2>1 DEF IInv, TypeOK, Errors
<1>7. FieldsInv'
  <2>1. <<line>> \in Seq(StartType)
    BY <1>0
  <2> QED BY <1>0, <1>4, <2>1 DEF IInv, FieldsInv
<1>8. LinesInv'
  <2>1. <<line>> # <<>> /\ <<line>>[1] = line
    OBVIOUS
  <2>2. Len(headers') = 0 /\ 0 <= MaxHeaders
    BY <1>0, RequestParserAssumption
  <2> QED BY <1>0, <1>5, <2>1, <2>2 DEF LinesInv
<1>9. CauseInv'
  BY <1>0, <1>4, <1>5 DEF CauseInv
<1> QED BY <1>6, <1>7, <1>8, <1>9 DEF IInv

\* A header is processed; a blank line ends the headers; a bad one the request.
LEMMA HeaderStep ==
    ASSUME IInv, NEW line \in HeaderLines, process_header_string(line)
    PROVE  IInv'
<1>0. /\ stage = "headers" /\ headers' = Append(headers, line) /\ start' = start
      /\ count' = count /\ error = "none" /\ line \in HeaderType
      /\ headers \in Seq(HeaderType) /\ start \in Seq(StartType)
      /\ DOMAIN request = DOMAIN Fresh /\ MaxHeaders \in Nat
      /\ line.kind \in {"header", "blank", "bad"}
  BY RequestParserAssumption
     DEF process_header_string, IInv, LinesInv, CauseInv, FieldsInv, HeaderType
<1>1. PICK n \in Nat :
         /\ n = Len(headers) /\ Len(headers') = n + 1 /\ DOMAIN headers = 1..n
         /\ DOMAIN headers' = 1..n + 1 /\ headers'[n + 1] = line
         /\ \A i \in 1..n : headers'[i] = headers[i]
         /\ headers' # <<>> /\ Last(headers') = line /\ headers' \in Seq(HeaderType)
  BY <1>0 DEF Last
<1>2. \A i \in 1..n : headers[i].kind = "header" /\ ~Bad(headers[i])
  BY <1>0, <1>1 DEF IInv, LinesInv
<1>3. n + 1 <= MaxHeaders + 1
  <2>1. line.kind # "blank" => n < MaxHeaders
    BY <1>1 DEF process_header_string
  <2>2. n <= MaxHeaders
    BY <1>0, <1>1 DEF IInv, LinesInv
  <2> QED BY <1>0, <2>2
<1>4. /\ start # <<>>
      /\ start[1].proper /\ start[1].protocol = "HTTP" /\ start[1].version = "1.1"
  BY <1>0 DEF IInv, LinesInv
<1>5. /\ DOMAIN request' = DOMAIN request
      /\ request'.method = request.method /\ request'.version = request.version
      /\ request'.uri = request.uri /\ request'.path = request.path
      /\ request'.port \in Nat /\ request'.content_length \in Nat /\ request'.keep_alive \in BOOLEAN
      /\ \/ request'.content_length = request.content_length
         \/ line.name = "Content-Length" /\ request'.content_length = line.number
  <2>0. request.port \in Nat /\ request.content_length \in Nat /\ request.keep_alive \in BOOLEAN
    BY DEF IInv, TypeOK
  <2>1. CASE request' = request
    BY <2>0, <2>1
  <2>2. CASE /\ line.name \in Processors
             /\ request' = [process_header(request, line)
                               EXCEPT !.parsed_headers = Append(@, line.name)]
    <3>1. PICK h : /\ h = process_header(request, line)
                   /\ DOMAIN h = DOMAIN Fresh
                   /\ h.port \in Nat /\ h.content_length \in Nat /\ h.keep_alive \in BOOLEAN
                   /\ h.method = request.method /\ h.version = request.version
                   /\ h.uri = request.uri /\ h.path = request.path
                   /\ \/ h.content_length = request.content_length
                      \/ line.name = "Content-Length" /\ h.content_length = line.number
      BY <1>0, <2>0, <2>2, HeaderOf
    <3>2. PICK names : request' = [h EXCEPT !.parsed_headers = names]
      BY <2>2, <3>1
    <3>3. /\ request'.method = h.method /\ request'.version = h.version /\ request'.uri = h.uri
          /\ request'.path = h.path /\ request'.port = h.port /\ DOMAIN request' = DOMAIN h
          /\ request'.content_length = h.content_length /\ request'.keep_alive = h.keep_alive
      <4>1. {"port", "content_length", "keep_alive", "method", "version", "uri", "path"}
                \subseteq DOMAIN h
        BY <3>1 DEF Fresh
      <4> QED BY <3>2, <4>1
    <3> QED BY <1>0, <3>1, <3>3
  <2>3. CASE request' = [request EXCEPT !.unparsed_headers = Append(@, line.name)]
    <3>1. PICK names : request' = [request EXCEPT !.unparsed_headers = names]
      BY <2>3
    <3>2. {"port", "content_length", "keep_alive", "method", "version", "uri", "path"}
              \subseteq DOMAIN request
      BY <1>0 DEF Fresh
    <3> QED BY <2>0, <3>1, <3>2
  <2> QED BY <2>1, <2>2, <2>3 DEF process_header_string
<1>6. \/ /\ line.kind = "blank" /\ stage' = "uri" /\ request' = request /\ error' = "none"
      \/ /\ Bad(line) /\ stage' = "failed" /\ error' = "incorrect_header_string" /\ request' = request
      \/ /\ line.kind = "header" /\ ~Bad(line) /\ stage' = "headers" /\ error' = "none"
  BY <1>0 DEF process_header_string, Throw
<1>7. TypeOK'
  <2>1. Len(headers') <= MaxHeaders + 1
    BY <1>1, <1>3
  <2>2. stage' \in {"uri", "failed", "headers"} /\ error' \in Errors \cup {"none"}
    BY <1>6 DEF Errors
  <2> QED BY <1>0, <1>5, <2>1, <2>2 DEF IInv, TypeOK
<1>8. FieldsInv'
  BY <1>0, <1>1, <1>5 DEF FieldsInv
<1>9. LinesInv'
  <2>1. \A i \in DOMAIN headers' :
           i < Len(headers') => headers'[i].kind = "header" /\ ~Bad(headers'[i])
    BY <1>1, <1>2
  <2>2. stage' = "headers" => \A i \in DOMAIN headers' :
                                 headers'[i].kind = "header" /\ ~Bad(headers'[i])
    BY <1>1, <1>2, <1>6
  <2>3. stage' = "headers" => Len(headers') <= MaxHeaders
    <3>1. stage' = "headers" => n < MaxHeaders
      BY <1>1, <1>6 DEF process_header_string
    <3> QED BY <1>0, <1>1, <3>1
  <2> QED BY <1>0, <1>1, <1>4, <1>6, <2>1, <2>2, <2>3 DEF LinesInv
<1>10. CauseInv'
  <2>1. request'.content_length > 0 =>
           \E i \in DOMAIN headers' :
              headers'[i].name = "Content-Length" /\ headers'[i].number = request'.content_length
    <3>1. CASE line.name = "Content-Length" /\ request'.content_length = line.number
      <4>1. n + 1 \in DOMAIN headers'
        BY <1>1
      <4> QED BY <1>1, <3>1, <4>1
    <3>2. CASE request'.content_length = request.content_length
      <4>1. ASSUME request.content_length > 0
            PROVE  \E i \in DOMAIN headers' :
                      headers'[i].name = "Content-Length" /\ headers'[i].number = request.content_length
        <5>1. PICK i \in DOMAIN headers :
                 headers[i].name = "Content-Length" /\ headers[i].number = request.content_length
          BY <4>1 DEF IInv, CauseInv
        <5>2. i \in DOMAIN headers' /\ headers'[i] = headers[i]
          BY <1>1
        <5> QED BY <5>1, <5>2
      <4> QED BY <3>2, <4>1
    <3> QED BY <1>5, <3>1, <3>2
  <2>2. line.kind = "blank" => ~Bad(line)
    BY DEF Bad
  <2> QED BY <1>1, <1>6, <2>1, <2>2 DEF CauseInv
<1> QED BY <1>7, <1>8, <1>9, <1>10 DEF IInv

\* The URI is taken apart, and the request complete or refused.
LEMMA UriStep ==
    ASSUME IInv, ProcessUri
    PROVE  IInv'
<1>0. /\ stage = "uri" /\ headers' = headers /\ start' = start
      /\ count' = count /\ error = "none" /\ request.uri \in Seq(STRING)
      /\ DOMAIN request = DOMAIN Fresh
  BY DEF ProcessUri, IInv, CauseInv, FieldsInv, TypeOK
<1>1. PICK r : /\ r = process_uri(request)
               /\ r.path \in Seq(STRING) /\ DOMAIN r = DOMAIN Fresh
               /\ \A f \in DOMAIN Fresh \ {"path", "args"} : r[f] = request[f]
  BY <1>0, PathOfUri
<1>2. /\ r.method = request.method /\ r.version = request.version /\ r.uri = request.uri
      /\ r.port = request.port /\ r.content_length = request.content_length
      /\ r.keep_alive = request.keep_alive
  <2>1. {"port", "content_length", "keep_alive", "method", "version", "uri"}
            \subseteq DOMAIN Fresh \ {"path", "args"}
    BY DEF Fresh
  <2> QED BY <1>1, <2>1
<1>3. /\ request' = request \/ request' = r
      /\ \/ /\ stage' = "failed"
            /\ \/ error' = "uri_parse_error"
               \/ /\ error' = "content_length_must_be_0"
                  /\ request.content_length > 0 /\ request.method # "POST"
               \/ /\ error' = "std_exception"
                  /\ request.content_length > BodyLimit /\ request.method = "POST"
         \/ /\ stage' = "done" /\ error' = "none"
            /\ request.content_length = 0 \/ request.content_length <= BodyLimit
  BY <1>0, <1>1 DEF ProcessUri, Throw
<1>4. /\ DOMAIN request' = DOMAIN Fresh /\ request'.method = request.method
      /\ request'.version = request.version /\ request'.uri = request.uri
      /\ request'.port = request.port /\ request'.content_length = request.content_length
      /\ request'.keep_alive = request.keep_alive /\ request'.path \in Seq(STRING)
  BY <1>0, <1>1, <1>2, <1>3 DEF IInv, TypeOK
<1>5. TypeOK'
  <2>1. stage' \in {"done", "failed"} /\ error' \in Errors \cup {"none"}
    BY <1>3 DEF Errors
  <2> QED BY <1>0, <1>4, <2>1 DEF IInv, TypeOK
<1>6. FieldsInv'
  BY <1>0, <1>4 DEF IInv, FieldsInv
<1>7. LinesInv'
  BY <1>0, <1>3 DEF IInv, LinesInv
<1>8. CauseInv'
  <2>1. headers # <<>> /\ ~Bad(Last(headers))
    BY <1>0 DEF IInv, LinesInv, Bad
  <2>2. stage' = "done" => request'.content_length <= BodyLimit
    BY <1>3, <1>4, RequestParserAssumption
  <2>3. request'.content_length > 0 =>
           \E i \in DOMAIN headers' :
              headers'[i].name = "Content-Length" /\ headers'[i].number = request'.content_length
    BY <1>0, <1>4 DEF IInv, CauseInv
  <2> QED BY <1>0, <1>3, <1>4, <2>1, <2>2, <2>3 DEF CauseInv
<1> QED BY <1>5, <1>6, <1>7, <1>8 DEF IInv

\* Reading a form changes nothing of the request.
LEMMA FormStep ==
    ASSUME IInv, ReadForm
    PROVE  IInv'
<1>1. stage = "done" /\ stage' = "answered" /\ UNCHANGED <<request, error, start, headers, count>>
  BY DEF ReadForm
<1>2. TypeOK' /\ FieldsInv'
  BY <1>1 DEF IInv, TypeOK, FieldsInv
<1>3. LinesInv' /\ CauseInv'
  BY <1>1 DEF IInv, LinesInv, CauseInv
<1> QED BY <1>2, <1>3 DEF IInv

-----------------------------------------------------------------------------
(* The lines of a request *)

\* A set of places of a sequence that is not empty has its maximum.
LEMMA MaxOf ==
    ASSUME NEW n \in Nat, NEW S \in SUBSET (1..n), S # {}
    PROVE  Max(S) \in S /\ \A k \in S : k <= Max(S)
<1> DEFINE T == {n - k : k \in S}
<1>1. T \in SUBSET Nat /\ T # {}
  <2>1. \A k \in S : n - k \in Nat
    OBVIOUS
  <2>2. PICK k : k \in S
    OBVIOUS
  <2>3. n - k \in T
    BY <2>2
  <2>4. \A t \in T : t \in Nat
    BY <2>1
  <2> HIDE DEF T
  <2> QED BY <2>3, <2>4
<1>2. PICK t \in T : \A u \in T : <<u, t>> \notin OpToRel(<, Nat)
  <2>1. \E t \in T : \A u \in T : ~(<<u, t>> \in OpToRel(<, Nat))
    <3> HIDE DEF T
    <3> QED BY <1>1, NatLessThanWellFounded, WFMin
  <2> QED BY <2>1
<1>3. PICK i \in S : t = n - i
  BY <1>2
<1>4. ASSUME NEW k \in S PROVE i >= k
  <2>1. n - k \in T /\ n - k \in Nat /\ n - i \in Nat
    OBVIOUS
  <2>2. n - k < n - i => <<n - k, n - i>> \in OpToRel(<, Nat)
    BY <2>1 DEF OpToRel
  <2>3. ~(n - k < n - i)
    BY <1>2, <1>3, <2>1, <2>2
  <2>4. k \in Nat /\ i \in Nat
    OBVIOUS
  <2> QED BY <2>3, <2>4
<1>5. \E x \in S : \A y \in S : x >= y
  BY <1>4
<1>6. Max(S) \in S /\ \A y \in S : Max(S) >= y
  <2> HIDE DEF T
  <2> QED BY <1>5 DEF Max
<1>7. S \subseteq Nat
  OBVIOUS
<1> QED BY <1>6, <1>7

\* One more line is one more place of its name.
LEMMA NamedAppend ==
    ASSUME NEW lines \in Seq(HeaderType), NEW line \in HeaderType, NEW name
    PROVE  /\ Named(lines, name) \subseteq 1..Len(lines)
           /\ Named(Append(lines, line), name) =
                 IF line.kind = "header" /\ line.name = name
                 THEN Named(lines, name) \cup {Len(lines) + 1} ELSE Named(lines, name)
<1>1. PICK n \in Nat : n = Len(lines) /\ DOMAIN lines = 1..n
  OBVIOUS
<1>2. /\ DOMAIN Append(lines, line) = 1..n + 1 /\ Append(lines, line)[n + 1] = line
      /\ \A i \in 1..n : Append(lines, line)[i] = lines[i]
  BY <1>1
<1>3. 1..n + 1 = (1..n) \cup {n + 1} /\ n + 1 \notin 1..n
  OBVIOUS
<1> QED BY <1>1, <1>2, <1>3 DEF Named

\* The last of some lines stays it when another line comes, and the other line is the
\* last of them with itself.
LEMMA LastOfAppend ==
    ASSUME NEW lines \in Seq(HeaderType), NEW line \in HeaderType,
           NEW places \in SUBSET (1..Len(lines))
    PROVE  /\ LastOf(Append(lines, line), places) = LastOf(lines, places)
           /\ LastOf(Append(lines, line), places \cup {Len(lines) + 1}) = line
<1>1. PICK n \in Nat : n = Len(lines) /\ DOMAIN lines = 1..n
  OBVIOUS
<1>2. /\ Append(lines, line)[n + 1] = line
      /\ \A i \in 1..n : Append(lines, line)[i] = lines[i]
  BY <1>1
<1>3. LastOf(Append(lines, line), places) = LastOf(lines, places)
  <2>1. CASE places = {}
    BY <2>1 DEF LastOf
  <2>2. CASE places # {}
    <3>1. Max(places) \in 1..n
      BY <1>1, <2>2, MaxOf
    <3> QED BY <1>2, <2>2, <3>1 DEF LastOf
  <2> QED BY <2>1, <2>2
<1>4. Max(places \cup {n + 1}) = n + 1
  <2> DEFINE more == places \cup {n + 1}
  <2>1. more \in SUBSET (1..n + 1) /\ more # {} /\ n + 1 \in more
    <3>1. places \subseteq 1..n /\ 1..n \subseteq 1..n + 1 /\ n + 1 \in 1..n + 1
      BY <1>1
    <3> QED BY <3>1
  <2> HIDE DEF more
  <2>2. n + 1 \in Nat
    OBVIOUS
  <2>3. Max(more) \in more /\ \A k \in more : k <= Max(more)
    BY <2>1, <2>2, MaxOf
  <2>4. Max(more) \in 1..n + 1 /\ n + 1 <= Max(more)
    BY <2>1, <2>3
  <2>5. Max(more) = n + 1
    BY <2>4
  <2> QED BY <2>5 DEF more
<1>5. LastOf(Append(lines, line), places \cup {n + 1}) = line
  BY <1>2, <1>4 DEF LastOf
<1> QED BY <1>1, <1>3, <1>5

\* What is said last under a name, after one more line.
LEMMA LastNamed ==
    ASSUME NEW lines \in Seq(HeaderType), NEW line \in HeaderType, NEW name
    PROVE  LastOf(Append(lines, line), Named(Append(lines, line), name)) =
              IF line.kind = "header" /\ line.name = name
              THEN line ELSE LastOf(lines, Named(lines, name))
<1>1. Named(lines, name) \in SUBSET (1..Len(lines))
  BY NamedAppend
<1>2. /\ LastOf(Append(lines, line), Named(lines, name)) = LastOf(lines, Named(lines, name))
      /\ LastOf(Append(lines, line), Named(lines, name) \cup {Len(lines) + 1}) = line
  BY <1>1, LastOfAppend
<1>3. Named(Append(lines, line), name) =
         IF line.kind = "header" /\ line.name = name
         THEN Named(lines, name) \cup {Len(lines) + 1} ELSE Named(lines, name)
  BY NamedAppend
<1>4. CASE line.kind = "header" /\ line.name = name
  BY <1>2, <1>3, <1>4, Zenon
<1>5. CASE ~(line.kind = "header" /\ line.name = name)
  BY <1>2, <1>3, <1>5, Zenon
<1> QED BY <1>4, <1>5, Zenon

\* The lines that name a host and a port.
Ports(lines) == {i \in Named(lines, "Host") : lines[i].with_port}

LEMMA LastPort ==
    ASSUME NEW lines \in Seq(HeaderType), NEW line \in HeaderType
    PROVE  IF line.kind = "header" /\ line.name = "Host" /\ line.with_port
           THEN /\ Ports(Append(lines, line)) # {}
                /\ LastOf(Append(lines, line), Ports(Append(lines, line))) = line
           ELSE /\ Ports(Append(lines, line)) = Ports(lines)
                /\ LastOf(Append(lines, line), Ports(Append(lines, line))) = LastOf(lines, Ports(lines))
<1>1. PICK n \in Nat : n = Len(lines) /\ DOMAIN lines = 1..n
  OBVIOUS
<1>2. /\ Append(lines, line)[n + 1] = line
      /\ \A i \in 1..n : Append(lines, line)[i] = lines[i]
  BY <1>1
<1>3. n + 1 \notin 1..n
  OBVIOUS
<1>4. /\ Named(lines, "Host") \subseteq 1..n
      /\ Named(Append(lines, line), "Host") =
            IF line.kind = "header" /\ line.name = "Host"
            THEN Named(lines, "Host") \cup {n + 1} ELSE Named(lines, "Host")
  BY <1>1, NamedAppend
<1>5. Ports(lines) \in SUBSET (1..Len(lines))
  BY <1>1, <1>4 DEF Ports
<1>6. Ports(Append(lines, line)) =
         IF line.kind = "header" /\ line.name = "Host" /\ line.with_port
         THEN Ports(lines) \cup {n + 1} ELSE Ports(lines)
  BY <1>2, <1>3, <1>4 DEF Ports
<1>7. /\ LastOf(Append(lines, line), Ports(lines)) = LastOf(lines, Ports(lines))
      /\ LastOf(Append(lines, line), Ports(lines) \cup {n + 1}) = line
  <2>1. /\ LastOf(Append(lines, line), Ports(lines)) = LastOf(lines, Ports(lines))
        /\ LastOf(Append(lines, line), Ports(lines) \cup {Len(lines) + 1}) = line
    BY <1>5, LastOfAppend
  <2> QED BY <1>1, <2>1
<1>8. CASE line.kind = "header" /\ line.name = "Host" /\ line.with_port
  BY <1>6, <1>7, <1>8, Zenon
<1>9. CASE ~(line.kind = "header" /\ line.name = "Host" /\ line.with_port)
  BY <1>6, <1>7, <1>9, Zenon
<1> QED BY <1>8, <1>9, Zenon

-----------------------------------------------------------------------------
(* Cookies *)

\* What emplacing one pair after the other makes of a map.
Emplacing(pairs, new, n, all) ==
    all = [i \in 0..n |-> IF i = 0 THEN pairs ELSE Emplace(all[i - 1], new[i][1], new[i][2])]

LEMMA EmplacingExists ==
    ASSUME NEW pairs, NEW new, NEW n \in Nat
    PROVE  \E all : Emplacing(pairs, new, n, all)
<1> DEFINE Following(all, i) ==
              IF i = 0 THEN pairs ELSE Emplace(all[i - 1], new[i][1], new[i][2])
           T == {m \in Nat : \E all : all = [i \in 0..m |-> Following(all, i)]}
<1>1. 0 \in T
  <2> DEFINE f == [i \in 0..0 |-> pairs]
  <2>1. f = [i \in 0..0 |-> Following(f, i)]
    OBVIOUS
  <2> QED BY <2>1
<1>2. ASSUME NEW m \in Nat, m \in T PROVE m + 1 \in T
  <2>1. PICK g : g = [i \in 0..m |-> Following(g, i)]
    BY <1>2
  <2> DEFINE next == Emplace(g[m], new[m + 1][1], new[m + 1][2])
             h == [i \in 0..m + 1 |-> IF i = m + 1 THEN next ELSE g[i]]
  <2>2. ASSUME NEW i \in 0..m + 1 PROVE h[i] = Following(h, i)
    <3>1. CASE i = 0
      BY <2>1, <3>1
    <3>2. CASE i \in 1..m
      <4>1. i # m + 1 /\ i - 1 # m + 1 /\ i \in 0..m /\ i - 1 \in 0..m + 1 /\ i # 0
        BY <3>2
      <4>2. h[i] = g[i] /\ h[i - 1] = g[i - 1]
        BY <4>1
      <4>3. g[i] = Following(g, i)
        BY <2>1, <4>1
      <4> QED BY <4>1, <4>2, <4>3
    <3>3. CASE i = m + 1
      <4>1. i - 1 = m /\ i - 1 \in 0..m + 1 /\ i # 0 /\ m # m + 1
        BY <3>3
      <4>2. h[i] = next /\ h[i - 1] = g[m]
        BY <3>3, <4>1
      <4> QED BY <3>3, <4>1, <4>2
    <3> QED BY <3>1, <3>2, <3>3
  <2>3. h = [i \in 0..m + 1 |-> Following(h, i)]
    BY <2>2
  <2> HIDE DEF h
  <2> QED BY <2>3
<1>3. n \in T
  <2> HIDE DEF T
  <2> QED BY <1>1, <1>2, AllNats
<1> QED BY <1>3 DEF Emplacing

\* The pairs that are emplaced: those whose key is new when its turn comes.
NewAt(pairs, new, j) ==
    /\ \A p \in pairs : p[1] # new[j][1]
    /\ \A k \in 1..j - 1 : new[k][1] # new[j][1]

\* What is there stays, of equal keys the first is taken, and no key is missing.
LEMMA Emplaced ==
    ASSUME NEW pairs, NEW new \in Seq(STRING \X STRING)
    PROVE  /\ EmplaceAll(pairs, new) =
                 pairs \cup {new[j] : j \in {k \in 1..Len(new) : NewAt(pairs, new, k)}}
           /\ \A j \in 1..Len(new) : \E p \in EmplaceAll(pairs, new) : p[1] = new[j][1]
<1>1. PICK n \in Nat : n = Len(new)
  OBVIOUS
<1>2. PICK all : /\ all = [i \in 0..n |->
                        IF i = 0 THEN pairs ELSE Emplace(all[i - 1], new[i][1], new[i][2])]
                 /\ EmplaceAll(pairs, new) = all[n]
  <2>1. \E f : Emplacing(pairs, new, n, f)
    BY EmplacingExists
  <2>2. PICK f : f = CHOOSE g : Emplacing(pairs, new, n, g)
    OBVIOUS
  <2>3. Emplacing(pairs, new, n, f)
    BY <2>1, <2>2
  <2>4. EmplaceAll(pairs, new) = f[n]
    BY <1>1, <2>2 DEF EmplaceAll, Emplacing
  <2> QED BY <2>3, <2>4 DEF Emplacing
<1>3. /\ all[0] = pairs
      /\ \A i \in Nat : i + 1 <= n => all[i + 1] = Emplace(all[i], new[i + 1][1], new[i + 1][2])
  <2>1. all[0] = pairs
    BY <1>2
  <2>2. ASSUME NEW i \in Nat, i + 1 <= n
        PROVE  all[i + 1] = Emplace(all[i], new[i + 1][1], new[i + 1][2])
    <3>1. i + 1 \in 0..n /\ i + 1 # 0 /\ (i + 1) - 1 = i
      BY <2>2
    <3> QED BY <1>2, <3>1
  <2> QED BY <2>1, <2>2
<1> DEFINE Taken(i) == {new[j] : j \in {k \in 1..i : NewAt(pairs, new, k)}}
           T == {i \in Nat : i <= n =>
                    /\ all[i] = pairs \cup Taken(i)
                    /\ \A j \in 1..i : \E p \in all[i] : p[1] = new[j][1]}
<1>4. 0 \in T
  <2>1. Taken(0) = {}
    OBVIOUS
  <2>2. all[0] = pairs \cup Taken(0)
    BY <1>3, <2>1
  <2>3. \A j \in 1..0 : \E p \in all[0] : p[1] = new[j][1]
    OBVIOUS
  <2> QED BY <2>2, <2>3
<1>5. ASSUME NEW i \in Nat, i \in T PROVE i + 1 \in T
  <2> SUFFICES ASSUME i + 1 <= n
               PROVE  /\ all[i + 1] = pairs \cup Taken(i + 1)
                      /\ \A j \in 1..i + 1 : \E p \in all[i + 1] : p[1] = new[j][1]
    OBVIOUS
  <2>1. i <= n /\ i + 1 \in 1..n /\ 1..i + 1 = (1..i) \cup {i + 1} /\ (i + 1) - 1 = i
    OBVIOUS
  <2>2. /\ all[i] = pairs \cup Taken(i)
        /\ \A j \in 1..i : \E p \in all[i] : p[1] = new[j][1]
    BY <1>5, <2>1
  <2>3. PICK key, value : key = new[i + 1][1] /\ value = new[i + 1][2] /\ new[i + 1] = <<key, value>>
    <3>1. new[i + 1] \in STRING \X STRING
      BY <1>1, <2>1
    <3> QED BY <3>1
  <2>4. all[i + 1] = IF \E p \in all[i] : p[1] = key THEN all[i] ELSE all[i] \cup {<<key, value>>}
    BY <1>3, <2>3 DEF Emplace
  <2>5. NewAt(pairs, new, i + 1) <=> ~ \E p \in all[i] : p[1] = key
    <3>1. ASSUME NewAt(pairs, new, i + 1), NEW p \in all[i] PROVE p[1] # key
      <4>1. /\ \A q \in pairs : q[1] # key
            /\ \A k \in 1..i : new[k][1] # key
        BY <2>1, <2>3, <3>1 DEF NewAt
      <4>2. p \in pairs \/ \E k \in 1..i : p = new[k]
        BY <2>2, <3>1
      <4> QED BY <4>1, <4>2
    <3>2. ASSUME ~ \E p \in all[i] : p[1] = key PROVE NewAt(pairs, new, i + 1)
      <4>1. \A q \in pairs : q[1] # key
        BY <2>2, <3>2
      <4>2. \A k \in 1..i : new[k][1] # key
        BY <2>2, <3>2
      <4> QED BY <2>1, <2>3, <4>1, <4>2 DEF NewAt
    <3> QED BY <3>1, <3>2
  <2>6. Taken(i + 1) = IF NewAt(pairs, new, i + 1) THEN Taken(i) \cup {new[i + 1]} ELSE Taken(i)
    BY <2>1
  <2> HIDE DEF Taken
  <2>7. all[i + 1] = pairs \cup Taken(i + 1)
    BY <2>2, <2>3, <2>4, <2>5, <2>6
  <2>8. all[i] \subseteq all[i + 1] /\ \E p \in all[i + 1] : p[1] = key
    <3>1. <<key, value>>[1] = key
      OBVIOUS
    <3> QED BY <2>4, <3>1
  <2>9. \A j \in 1..i + 1 : \E p \in all[i + 1] : p[1] = new[j][1]
    BY <2>1, <2>2, <2>3, <2>8
  <2> QED BY <2>7, <2>9
<1>6. n \in T
  <2> HIDE DEF T
  <2> QED BY <1>4, <1>5, AllNats
<1>7. /\ all[n] = pairs \cup Taken(n)
      /\ \A j \in 1..n : \E p \in all[n] : p[1] = new[j][1]
  <2> HIDE DEF Taken
  <2> QED BY <1>6
<1> QED BY <1>1, <1>2, <1>7

\* Every cookie sent has its name in the map.
Kept(cookies, lines) ==
    \A a \in Sent(lines) : \E p \in cookies : p[1] = Cookie(lines, a)[1]

\* A line that is no "Cookie" header sends none.
LEMMA NoCookies ==
    ASSUME NEW lines \in Seq(HeaderType), NEW line \in HeaderType,
           ~(line.kind = "header" /\ line.name = "Cookie")
    PROVE  /\ FirstCookies(Append(lines, line)) = FirstCookies(lines)
           /\ \A cookies : Kept(cookies, lines) => Kept(cookies, Append(lines, line))
<1>1. PICK n \in Nat : n = Len(lines) /\ DOMAIN lines = 1..n
  OBVIOUS
<1>2. \A i \in 1..n : Append(lines, line)[i] = lines[i]
  BY <1>1
<1>3. /\ Named(lines, "Cookie") \subseteq 1..n
      /\ Named(Append(lines, line), "Cookie") = Named(lines, "Cookie")
  BY <1>1, NamedAppend
<1>4. Sent(Append(lines, line)) = Sent(lines)
  BY <1>2, <1>3 DEF Sent
<1>5. \A a \in Sent(lines) : Cookie(Append(lines, line), a) = Cookie(lines, a)
  <2>1. \A a \in Sent(lines) : a[1] \in 1..n
    BY <1>3 DEF Sent
  <2> QED BY <1>2, <2>1 DEF Cookie
<1>6. FirstCookies(Append(lines, line)) = FirstCookies(lines)
  BY <1>4, <1>5 DEF FirstCookies
<1>7. \A cookies : Kept(cookies, lines) => Kept(cookies, Append(lines, line))
  BY <1>4, <1>5 DEF Kept
<1> QED BY <1>6, <1>7

\* A "Cookie" header: emplacing its cookies keeps the first of each name.
LEMMA MoreCookies ==
    ASSUME NEW lines \in Seq(HeaderType), NEW line \in HeaderType,
           line.kind = "header", line.name = "Cookie", Kept(FirstCookies(lines), lines)
    PROVE  /\ EmplaceAll(FirstCookies(lines), line.cookies) = FirstCookies(Append(lines, line))
           /\ Kept(FirstCookies(Append(lines, line)), Append(lines, line))
<1>1. PICK n \in Nat : n = Len(lines) /\ DOMAIN lines = 1..n
  OBVIOUS
<1>a. PICK more : more = Append(lines, line)
  OBVIOUS
<1>2. more[n + 1] = line /\ (\A i \in 1..n : more[i] = lines[i]) /\ n + 1 \notin 1..n
  BY <1>1, <1>a
<1>3. /\ Named(lines, "Cookie") \subseteq 1..n
      /\ Named(more, "Cookie") = Named(lines, "Cookie") \cup {n + 1}
  BY <1>1, <1>a, NamedAppend
<1>4. PICK new \in Seq(STRING \X STRING) : new = line.cookies
  BY DEF HeaderType
<1>5. PICK m \in Nat : m = Len(new) /\ DOMAIN new = 1..m
  OBVIOUS
<1> DEFINE old   == Sent(lines)
           extra == {<<n + 1, j>> : j \in 1..m}
<1>6. Sent(more) = old \cup extra
  BY <1>2, <1>3, <1>4, <1>5 DEF Sent
<1>7. /\ \A a \in old : a[1] \in 1..n /\ Cookie(more, a) = Cookie(lines, a)
      /\ \A j \in 1..m : Cookie(more, <<n + 1, j>>) = new[j]
  <2>1. \A a \in old : a[1] \in 1..n
    BY <1>3 DEF Sent
  <2>2. \A a \in old : Cookie(more, a) = Cookie(lines, a)
    BY <1>2, <2>1 DEF Cookie
  <2>3. \A j \in 1..m : Cookie(more, <<n + 1, j>>) = new[j]
    BY <1>2, <1>4 DEF Cookie
  <2> QED BY <2>1, <2>2, <2>3
<1>8. /\ \A a \in old, b \in extra : Before(a, b) /\ ~Before(b, a)
      /\ \A j \in 1..m, k \in 1..m : Before(<<n + 1, k>>, <<n + 1, j>>) <=> k < j
  <2>1. \A a \in old, b \in extra : Before(a, b) /\ ~Before(b, a)
    <3> SUFFICES ASSUME NEW a \in old, NEW b \in extra PROVE Before(a, b) /\ ~Before(b, a)
      OBVIOUS
    <3>1. a[1] \in 1..n /\ b[1] = n + 1
      BY <1>7
    <3> QED BY <3>1 DEF Before
  <2>2. \A j \in 1..m, k \in 1..m : Before(<<n + 1, k>>, <<n + 1, j>>) <=> k < j
    BY DEF Before
  <2> QED BY <2>1, <2>2
<1> DEFINE First(all, seq, c) ==
              \A a \in all : Before(a, c) => Cookie(seq, a)[1] # Cookie(seq, c)[1]
<1>9. \A c \in old : First(Sent(more), more, c) <=> First(old, lines, c)
  <2> HIDE DEF old, extra
  <2> QED BY <1>6, <1>7, <1>8
<1>10. \A j \in 1..m :
          First(Sent(more), more, <<n + 1, j>>) <=> NewAt(FirstCookies(lines), new, j)
  <2> SUFFICES ASSUME NEW j \in 1..m
               PROVE  First(Sent(more), more, <<n + 1, j>>) <=> NewAt(FirstCookies(lines), new, j)
    OBVIOUS
  <2>1. (\A a \in old : Cookie(lines, a)[1] # new[j][1])
           <=> (\A p \in FirstCookies(lines) : p[1] # new[j][1])
    <3>1. \A p \in FirstCookies(lines) : \E a \in old : p = Cookie(lines, a)
      BY DEF FirstCookies
    <3>2. \A a \in old : \E p \in FirstCookies(lines) : p[1] = Cookie(lines, a)[1]
      BY DEF Kept
    <3> QED BY <3>1, <3>2
  <2>2. (\A a \in extra : Before(a, <<n + 1, j>>) => Cookie(more, a)[1] # new[j][1])
           <=> (\A k \in 1..j - 1 : new[k][1] # new[j][1])
    <3>1. \A k \in 1..m : k < j <=> k \in 1..j - 1
      OBVIOUS
    <3>2. \A k \in 1..j - 1 : k \in 1..m
      OBVIOUS
    <3>3. (\A a \in extra : Before(a, <<n + 1, j>>) => Cookie(more, a)[1] # new[j][1])
             <=> (\A k \in 1..m : k < j => new[k][1] # new[j][1])
      <4>1. \A k \in 1..m : /\ Before(<<n + 1, k>>, <<n + 1, j>>) <=> k < j
                            /\ Cookie(more, <<n + 1, k>>) = new[k]
        BY <1>7, <1>8
      <4>2. ASSUME \A k \in 1..m : k < j => new[k][1] # new[j][1], NEW a \in extra,
                   Before(a, <<n + 1, j>>)
            PROVE  Cookie(more, a)[1] # new[j][1]
        <5>1. PICK k \in 1..m : a = <<n + 1, k>>
          OBVIOUS
        <5>2. k < j /\ Cookie(more, a) = new[k]
          BY <4>1, <4>2, <5>1
        <5> QED BY <4>2, <5>2
      <4>3. ASSUME \A a \in extra : Before(a, <<n + 1, j>>) => Cookie(more, a)[1] # new[j][1],
                   NEW k \in 1..m, k < j
            PROVE  new[k][1] # new[j][1]
        <5>1. PICK a \in extra : a = <<n + 1, k>>
          OBVIOUS
        <5>2. Before(a, <<n + 1, j>>) /\ Cookie(more, a) = new[k]
          BY <4>1, <4>3, <5>1
        <5> QED BY <4>3, <5>2
      <4> HIDE DEF extra
      <4> QED BY <4>2, <4>3
    <3> QED BY <3>1, <3>2, <3>3
  <2>3. /\ Cookie(more, <<n + 1, j>>) = new[j] /\ <<n + 1, j>> \in extra
        /\ \A a \in old : Before(a, <<n + 1, j>>) /\ Cookie(more, a) = Cookie(lines, a)
    <3>1. <<n + 1, j>> \in extra
      OBVIOUS
    <3> HIDE DEF old, extra
    <3> QED BY <1>7, <1>8, <3>1
  <2> HIDE DEF old, extra
  <2> QED BY <1>6, <2>1, <2>2, <2>3 DEF NewAt
<1>11. FirstCookies(lines) = {Cookie(lines, b) : b \in {c \in old : First(old, lines, c)}}
  BY DEF FirstCookies
<1>12. FirstCookies(more) = {Cookie(more, b) : b \in {c \in Sent(more) : First(Sent(more), more, c)}}
  BY DEF FirstCookies
<1>13. FirstCookies(more) =
          FirstCookies(lines)
          \cup {new[j] : j \in {k \in 1..m : NewAt(FirstCookies(lines), new, k)}}
  <2> DEFINE Is(c) == First(Sent(more), more, c)
  <2>1. ASSUME NEW p \in FirstCookies(more)
        PROVE  \/ p \in FirstCookies(lines)
               \/ \E j \in 1..m : NewAt(FirstCookies(lines), new, j) /\ p = new[j]
    <3>1. PICK c \in Sent(more) : Is(c) /\ p = Cookie(more, c)
      <4> HIDE DEF First
      <4> QED BY <1>12, <2>1
    <3>2. CASE c \in old
      <4>1. First(old, lines, c) /\ p = Cookie(lines, c)
        <5> HIDE DEF First, old
        <5> QED BY <1>7, <1>9, <3>1, <3>2
      <4> HIDE DEF First, old
      <4> QED BY <1>11, <3>2, <4>1
    <3>3. CASE c \in extra
      <4>1. PICK j \in 1..m : c = <<n + 1, j>>
        BY <3>3
      <4> HIDE DEF First, old
      <4> QED BY <1>7, <1>10, <3>1, <4>1
    <3> HIDE DEF old, extra
    <3> QED BY <1>6, <3>1, <3>2, <3>3
  <2>2. ASSUME NEW p \in FirstCookies(lines) PROVE p \in FirstCookies(more)
    <3>1. PICK c \in old : First(old, lines, c) /\ p = Cookie(lines, c)
      <4> HIDE DEF First, old
      <4> QED BY <1>11, <2>2
    <3>2. c \in Sent(more) /\ First(Sent(more), more, c) /\ p = Cookie(more, c)
      <4> HIDE DEF First, old, extra
      <4> QED BY <1>6, <1>7, <1>9, <3>1
    <3> HIDE DEF First, old
    <3> QED BY <1>12, <3>2
  <2>3. ASSUME NEW j \in 1..m, NewAt(FirstCookies(lines), new, j)
        PROVE  new[j] \in FirstCookies(more)
    <3>1. <<n + 1, j>> \in Sent(more)
      <4>1. <<n + 1, j>> \in extra
        OBVIOUS
      <4> HIDE DEF old, extra
      <4> QED BY <1>6, <4>1
    <3>2. First(Sent(more), more, <<n + 1, j>>) /\ new[j] = Cookie(more, <<n + 1, j>>)
      <4> HIDE DEF First, old
      <4> QED BY <1>7, <1>10, <2>3
    <3> HIDE DEF First
    <3> QED BY <1>12, <3>1, <3>2
  <2> QED BY <2>1, <2>2, <2>3
<1>14. /\ EmplaceAll(FirstCookies(lines), new) =
             FirstCookies(lines)
             \cup {new[j] : j \in {k \in 1..Len(new) : NewAt(FirstCookies(lines), new, k)}}
       /\ \A j \in 1..Len(new) :
             \E p \in EmplaceAll(FirstCookies(lines), new) : p[1] = new[j][1]
  BY Emplaced
<1>15. EmplaceAll(FirstCookies(lines), new) = FirstCookies(more)
  BY <1>5, <1>13, <1>14
<1>16. Kept(FirstCookies(more), more)
  <2> SUFFICES ASSUME NEW a \in Sent(more)
               PROVE  \E p \in FirstCookies(more) : p[1] = Cookie(more, a)[1]
    BY DEF Kept
  <2>1. CASE a \in old
    <3>1. \E p \in FirstCookies(lines) : p[1] = Cookie(lines, a)[1]
      BY <2>1 DEF Kept
    <3>2. Cookie(more, a) = Cookie(lines, a) /\ FirstCookies(lines) \subseteq FirstCookies(more)
      <4> HIDE DEF old
      <4> QED BY <1>7, <1>13, <2>1
    <3> QED BY <3>1, <3>2
  <2>2. CASE a \in extra
    <3>1. PICK j \in 1..m : a = <<n + 1, j>>
      BY <2>2
    <3>2. Cookie(more, a) = new[j]
      BY <1>7, <3>1
    <3>3. \E p \in FirstCookies(more) : p[1] = new[j][1]
      BY <1>5, <1>14, <1>15
    <3> QED BY <3>2, <3>3
  <2> HIDE DEF old, extra
  <2> QED BY <1>6, <2>1, <2>2
<1> QED BY <1>a, <1>4, <1>15, <1>16

-----------------------------------------------------------------------------
(* What a request says, and what its lines say *)

\* What the processed headers made of the request.
OwnFields(r, lines) ==
    /\ r.content_length = LastOf(lines, Named(lines, "Content-Length")).number
    /\ r.keep_alive = (LastOf(lines, Named(lines, "Connection")).text = "keep-alive")
    /\ r.host = LastOf(lines, Named(lines, "Host")).text
    /\ r.port = IF Ports(lines) = {} THEN default_port ELSE LastOf(lines, Ports(lines)).number
    /\ r.cookies = FirstCookies(lines) /\ Kept(r.cookies, lines)

\* From its start line on, a request agrees with its lines, and every header line is
\* counted.
OwnInv ==
    /\ stage = "start" => request = Fresh
    /\ stage \in {"headers", "uri", "done", "answered"} =>
          /\ request.method = str_to_method(start[1].method) /\ request.uri = start[1].uri
          /\ OwnFields(request, headers)
          /\ request.parsed_headers \in Seq(STRING) /\ request.unparsed_headers \in Seq(STRING)
          /\ Len(request.parsed_headers) + Len(request.unparsed_headers) =
                IF stage = "headers" THEN Len(headers) ELSE Len(headers) - 1

\* Every processor sets the fields of its header, and leaves the others.
LEMMA HeaderFields ==
    ASSUME NEW r, DOMAIN r = DOMAIN Fresh, NEW line \in HeaderType, line.name \in Processors
    PROVE  LET h == process_header(r, line) IN
           /\ DOMAIN h = DOMAIN Fresh
           /\ h.content_length = IF line.name = "Content-Length" THEN line.number
                                 ELSE r.content_length
           /\ h.keep_alive = IF line.name = "Connection" THEN (line.text = "keep-alive")
                             ELSE r.keep_alive
           /\ h.host = IF line.name = "Host" THEN line.text ELSE r.host
           /\ h.port = IF line.name = "Host" /\ line.with_port THEN line.number ELSE r.port
           /\ h.cookies = IF line.name = "Cookie" THEN EmplaceAll(r.cookies, line.cookies)
                          ELSE r.cookies
           /\ h.method = r.method /\ h.uri = r.uri
           /\ h.parsed_headers = r.parsed_headers /\ h.unparsed_headers = r.unparsed_headers
<1>0. {"port", "content_length", "keep_alive", "method", "uri", "host", "cookies",
       "parsed_headers", "unparsed_headers"} \subseteq DOMAIN r
  BY DEF Fresh
<1>1. CASE line.name = "Content-Length"
  <2>1. process_header(r, line) = [r EXCEPT !.content_length = line.number]
    BY <1>1 DEF process_header
  <2> QED BY <1>0, <1>1, <2>1
<1>2. CASE line.name = "Connection"
  <2>1. PICK b : b = (line.text = "keep-alive")
    OBVIOUS
  <2>2. process_header(r, line) = [r EXCEPT !.keep_alive = b]
    BY <1>2, <2>1 DEF process_header
  <2>3. process_header(r, line).keep_alive = (line.text = "keep-alive")
    BY <1>0, <2>1, <2>2, Zenon
  <2> QED BY <1>0, <1>2, <2>2, <2>3
<1>3. CASE line.name = "Host"
  <2>1. process_header(r, line) =
           [r EXCEPT !.host = line.text, !.port = IF line.with_port THEN line.number ELSE @]
    BY <1>3 DEF process_header
  <2> QED BY <1>0, <1>3, <2>1
<1>4. CASE line.name = "Cookie"
  <2> DEFINE cookies == EmplaceAll(r.cookies, line.cookies)
  <2>1. process_header(r, line) = [r EXCEPT !.cookies = cookies]
    BY <1>4 DEF process_header
  <2> HIDE DEF cookies
  <2>2. process_header(r, line).cookies = cookies
    BY <1>0, <2>1
  <2>3. process_header(r, line).cookies = EmplaceAll(r.cookies, line.cookies)
    BY <2>2 DEF cookies
  <2> QED BY <1>0, <1>4, <2>1, <2>3
<1> QED BY <1>1, <1>2, <1>3, <1>4 DEF Processors

\* Nothing has been said in no lines.
LEMMA OwnNothing == OwnFields(Fresh, <<>>)
<1>1. /\ Fresh.content_length = 0 /\ Fresh.keep_alive = FALSE /\ Fresh.host = ""
      /\ Fresh.port = default_port /\ Fresh.cookies = {}
  BY DEF Fresh
<1>2. \A name : Named(<<>>, name) = {}
  BY DEF Named
<1>3. Ports(<<>>) = {} /\ Sent(<<>>) = {}
  BY <1>2 DEF Ports, Sent
<1>4. LastOf(<<>>, {}).number = 0 /\ LastOf(<<>>, {}).text = ""
  BY DEF LastOf, NoHeader
<1>5. FirstCookies(<<>>) = {} /\ Kept({}, <<>>)
  BY <1>3 DEF FirstCookies, Kept
<1>6. Fresh.keep_alive = (LastOf(<<>>, Named(<<>>, "Connection")).text = "keep-alive")
  <2>1. LastOf(<<>>, Named(<<>>, "Connection")).text # "keep-alive"
    BY <1>2, <1>4
  <2> QED BY <1>1, <2>1, Zenon
<1>7. /\ Fresh.content_length = LastOf(<<>>, Named(<<>>, "Content-Length")).number
      /\ Fresh.host = LastOf(<<>>, Named(<<>>, "Host")).text
  BY <1>1, <1>2, <1>3, <1>4
<1> QED BY <1>1, <1>5, <1>6, <1>7 DEF OwnFields

\* A line that no processor takes says nothing.
LEMMA OwnUnprocessed ==
    ASSUME NEW r, NEW lines \in Seq(HeaderType), NEW line \in HeaderType, OwnFields(r, lines),
           line.kind # "header" \/ line.name \notin Processors
    PROVE  OwnFields(r, Append(lines, line))
<1>1. \A name \in Processors : ~(line.kind = "header" /\ line.name = name)
  OBVIOUS
<1>2. PICK more : more = Append(lines, line)
  OBVIOUS
<1>3. \A name \in Processors : LastOf(more, Named(more, name)) = LastOf(lines, Named(lines, name))
  BY <1>1, <1>2, LastNamed
<1>4. Ports(more) = Ports(lines) /\ LastOf(more, Ports(more)) = LastOf(lines, Ports(lines))
  BY <1>1, <1>2, LastPort DEF Processors
<1>5. FirstCookies(more) = FirstCookies(lines) /\ Kept(r.cookies, more)
  BY <1>1, <1>2, NoCookies DEF Processors, OwnFields
<1>6. /\ LastOf(more, Named(more, "Content-Length")) = LastOf(lines, Named(lines, "Content-Length"))
      /\ LastOf(more, Named(more, "Connection")) = LastOf(lines, Named(lines, "Connection"))
      /\ LastOf(more, Named(more, "Host")) = LastOf(lines, Named(lines, "Host"))
  BY <1>3 DEF Processors
<1>7. OwnFields(r, more)
  BY <1>4, <1>5, <1>6, Zenon DEF OwnFields
<1> QED BY <1>2, <1>7

\* A line that a processor takes overrides what was said before, but for cookies.
LEMMA OwnProcessed ==
    ASSUME NEW r, DOMAIN r = DOMAIN Fresh, NEW lines \in Seq(HeaderType),
           NEW line \in HeaderType, OwnFields(r, lines),
           line.kind = "header", line.name \in Processors
    PROVE  OwnFields(process_header(r, line), Append(lines, line))
<1>1. PICK more : more = Append(lines, line)
  OBVIOUS
<1>2. PICK h : /\ h = process_header(r, line)
               /\ h.content_length = IF line.name = "Content-Length" THEN line.number
                                     ELSE r.content_length
               /\ h.keep_alive = IF line.name = "Connection" THEN (line.text = "keep-alive")
                                 ELSE r.keep_alive
               /\ h.host = IF line.name = "Host" THEN line.text ELSE r.host
               /\ h.port = IF line.name = "Host" /\ line.with_port THEN line.number ELSE r.port
               /\ h.cookies = IF line.name = "Cookie" THEN EmplaceAll(r.cookies, line.cookies)
                              ELSE r.cookies
  BY HeaderFields
<1>3. \A name : LastOf(more, Named(more, name)) =
                   IF line.name = name THEN line ELSE LastOf(lines, Named(lines, name))
  BY <1>1, LastNamed
<1>4. IF line.name = "Host" /\ line.with_port
      THEN Ports(more) # {} /\ LastOf(more, Ports(more)) = line
      ELSE Ports(more) = Ports(lines) /\ LastOf(more, Ports(more)) = LastOf(lines, Ports(lines))
  BY <1>1, LastPort
<1>5. h.content_length = LastOf(more, Named(more, "Content-Length")).number
  BY <1>2, <1>3 DEF OwnFields
<1>6. h.keep_alive = (LastOf(more, Named(more, "Connection")).text = "keep-alive")
  <2>1. CASE line.name = "Connection"
    BY <1>2, <1>3, <2>1, Zenon
  <2>2. CASE line.name # "Connection"
    BY <1>2, <1>3, <2>2, Zenon DEF OwnFields
  <2> QED BY <2>1, <2>2
<1>7. h.host = LastOf(more, Named(more, "Host")).text
  BY <1>2, <1>3 DEF OwnFields
<1>8. h.port = IF Ports(more) = {} THEN default_port ELSE LastOf(more, Ports(more)).number
  <2>2. CASE line.name = "Host" /\ line.with_port
    BY <1>2, <1>4, <2>2
  <2>3. CASE ~(line.name = "Host" /\ line.with_port)
    BY <1>2, <1>4, <2>3 DEF OwnFields
  <2> QED BY <2>2, <2>3
<1>9. h.cookies = FirstCookies(more) /\ Kept(h.cookies, more)
  <2>0. r.cookies = FirstCookies(lines) /\ Kept(FirstCookies(lines), lines)
    BY DEF OwnFields
  <2>1. CASE line.name = "Cookie"
    <3>1. /\ EmplaceAll(FirstCookies(lines), line.cookies) = FirstCookies(more)
          /\ Kept(FirstCookies(more), more)
      BY <1>1, <2>0, <2>1, MoreCookies
    <3> QED BY <1>2, <2>0, <2>1, <3>1
  <2>2. CASE line.name # "Cookie"
    <3>1. /\ FirstCookies(more) = FirstCookies(lines)
          /\ \A cookies : Kept(cookies, lines) => Kept(cookies, more)
      BY <1>1, <2>2, NoCookies
    <3> QED BY <1>2, <2>0, <2>2, <3>1
  <2> QED BY <2>1, <2>2
<1>10. OwnFields(h, more)
  BY <1>5, <1>6, <1>7, <1>8, <1>9, Zenon DEF OwnFields
<1> QED BY <1>1, <1>2, <1>10

\* Every step keeps the request and its lines in agreement.
LEMMA OwnStart ==
    ASSUME IInv, OwnInv, NEW line \in StartLines, process_start_string(line)
    PROVE  OwnInv'
<1>0. /\ request = Fresh /\ start' = <<line>> /\ headers' = headers /\ headers = <<>>
      /\ stage' # "start" /\ start'[1] = line
  BY DEF process_start_string, Throw, IInv, LinesInv, OwnInv
<1> SUFFICES ASSUME stage' \in {"headers", "uri", "done", "answered"} PROVE OwnInv'
  BY <1>0 DEF OwnInv
<1>1. /\ stage' = "headers"
      /\ request' = [[request EXCEPT !.method = str_to_method(line.method)]
                        EXCEPT !.version = str_to_version(line.version), !.uri = line.uri]
  BY DEF process_start_string, Throw
<1>2. PICK method, version : /\ method = str_to_method(line.method)
                             /\ version = str_to_version(line.version)
  OBVIOUS
<1>3. request' = [[Fresh EXCEPT !.method = method] EXCEPT !.version = version, !.uri = line.uri]
  BY <1>0, <1>1, <1>2
<1>4. /\ request'.method = method /\ request'.uri = line.uri
      /\ request'.content_length = Fresh.content_length
      /\ request'.keep_alive = Fresh.keep_alive /\ request'.host = Fresh.host
      /\ request'.port = Fresh.port /\ request'.cookies = Fresh.cookies
      /\ request'.parsed_headers = <<>> /\ request'.unparsed_headers = <<>>
  BY <1>3 DEF Fresh
<1>5. OwnFields(request', headers')
  BY <1>0, <1>4, OwnNothing, Zenon DEF OwnFields
<1>6. /\ request'.parsed_headers \in Seq(STRING) /\ request'.unparsed_headers \in Seq(STRING)
      /\ Len(request'.parsed_headers) + Len(request'.unparsed_headers) = Len(headers')
  BY <1>0, <1>4
<1> QED BY <1>0, <1>1, <1>2, <1>4, <1>5, <1>6 DEF OwnInv

LEMMA OwnHeader ==
    ASSUME IInv, OwnInv, NEW line \in HeaderLines, process_header_string(line)
    PROVE  OwnInv'
<1>0. /\ stage = "headers" /\ headers' = Append(headers, line) /\ start' = start
      /\ line \in HeaderType /\ headers \in Seq(HeaderType) /\ DOMAIN request = DOMAIN Fresh
      /\ stage' # "start" /\ line.name \in STRING
  BY RequestParserAssumption
     DEF process_header_string, IInv, FieldsInv, HeaderType, Throw
<1>1. /\ request.method = str_to_method(start[1].method) /\ request.uri = start[1].uri
      /\ OwnFields(request, headers)
      /\ request.parsed_headers \in Seq(STRING) /\ request.unparsed_headers \in Seq(STRING)
      /\ Len(request.parsed_headers) + Len(request.unparsed_headers) = Len(headers)
  BY <1>0 DEF OwnInv
<1>2. PICK m \in Nat, p \in Nat, u \in Nat :
         /\ m = Len(headers) /\ Len(headers') = m + 1
         /\ p = Len(request.parsed_headers) /\ u = Len(request.unparsed_headers) /\ p + u = m
  <2>1. /\ Len(headers) \in Nat /\ Len(headers') = Len(headers) + 1
        /\ Len(request.parsed_headers) \in Nat /\ Len(request.unparsed_headers) \in Nat
    BY <1>0, <1>1
  <2> QED BY <1>1, <2>1
<1>a. p + u = m
  BY <1>2, Zenon
<1>b. /\ p + u = (m + 1) - 1
      /\ (p + 1) + u = m + 1 /\ p + (u + 1) = m + 1
  BY <1>a
<1> SUFFICES ASSUME stage' \in {"headers", "uri", "done", "answered"} PROVE OwnInv'
  BY <1>0 DEF OwnInv
<1>3. CASE line.kind = "blank"
  <2>1. stage' = "uri" /\ request' = request
    BY <1>3 DEF process_header_string, Throw, Bad
  <2>2. OwnFields(request', headers')
    BY <1>0, <1>1, <1>3, <2>1, OwnUnprocessed
  <2>3. request'.method = str_to_method(start'[1].method) /\ request'.uri = start'[1].uri
    BY <1>0, <1>1, <2>1
  <2>4. Len(request'.parsed_headers) + Len(request'.unparsed_headers) =
           IF stage' = "headers" THEN Len(headers') ELSE Len(headers') - 1
    BY <1>2, <1>b, <2>1, Zenon
  <2>5. request'.parsed_headers \in Seq(STRING) /\ request'.unparsed_headers \in Seq(STRING)
    BY <1>1, <2>1
  <2> QED BY <1>0, <2>2, <2>3, <2>4, <2>5, Zenon DEF OwnInv
<1>4. CASE line.kind = "header" /\ line.name \in Processors
  <2>1. /\ stage' = "headers"
        /\ request' = [process_header(request, line)
                          EXCEPT !.parsed_headers = Append(@, line.name)]
    BY <1>0, <1>4 DEF process_header_string, Throw
  <2>2. PICK h : /\ h = process_header(request, line)
                 /\ DOMAIN h = DOMAIN Fresh
                 /\ h.method = request.method /\ h.uri = request.uri
                 /\ h.parsed_headers = request.parsed_headers
                 /\ h.unparsed_headers = request.unparsed_headers
    BY <1>0, <1>4, HeaderFields
  <2>3. OwnFields(h, headers')
    BY <1>0, <1>1, <1>4, <2>2, OwnProcessed
  <2>4. PICK names : names = Append(request.parsed_headers, line.name)
    OBVIOUS
  <2>5. /\ request'.method = h.method /\ request'.uri = h.uri
        /\ request'.content_length = h.content_length /\ request'.keep_alive = h.keep_alive
        /\ request'.host = h.host /\ request'.port = h.port /\ request'.cookies = h.cookies
        /\ request'.parsed_headers = names /\ request'.unparsed_headers = h.unparsed_headers
    <3>1. request' = [h EXCEPT !.parsed_headers = names]
      BY <2>1, <2>2, <2>4
    <3>2. {"method", "uri", "content_length", "keep_alive", "host", "port", "cookies",
           "parsed_headers", "unparsed_headers"} \subseteq DOMAIN h
      BY <2>2 DEF Fresh
    <3> QED BY <3>1, <3>2
  <2>6. OwnFields(request', headers')
    BY <2>3, <2>5, Zenon DEF OwnFields
  <2>7. /\ request'.parsed_headers \in Seq(STRING) /\ request'.unparsed_headers \in Seq(STRING)
        /\ Len(request'.parsed_headers) + Len(request'.unparsed_headers) = Len(headers')
    <3>1. names \in Seq(STRING) /\ Len(names) = p + 1
      BY <1>0, <1>1, <1>2, <2>4
    <3> QED BY <1>1, <1>2, <1>b, <2>2, <2>5, <3>1, Zenon
  <2>8. request'.method = str_to_method(start'[1].method) /\ request'.uri = start'[1].uri
    BY <1>0, <1>1, <2>2, <2>5
  <2>9. Len(request'.parsed_headers) + Len(request'.unparsed_headers) =
           IF stage' = "headers" THEN Len(headers') ELSE Len(headers') - 1
    BY <2>1, <2>7
  <2> QED BY <1>0, <2>6, <2>7, <2>8, <2>9, Zenon DEF OwnInv
<1>5. CASE line.kind = "header" /\ line.name \notin Processors
  <2>1. /\ stage' = "headers"
        /\ request' = [request EXCEPT !.unparsed_headers = Append(@, line.name)]
    BY <1>0, <1>5 DEF process_header_string, Throw
  <2>2. OwnFields(request, headers')
    BY <1>0, <1>1, <1>5, OwnUnprocessed
  <2>3. PICK names : names = Append(request.unparsed_headers, line.name)
    OBVIOUS
  <2>4. /\ request'.method = request.method /\ request'.uri = request.uri
        /\ request'.content_length = request.content_length
        /\ request'.keep_alive = request.keep_alive
        /\ request'.host = request.host /\ request'.port = request.port
        /\ request'.cookies = request.cookies
        /\ request'.parsed_headers = request.parsed_headers /\ request'.unparsed_headers = names
    <3>1. request' = [request EXCEPT !.unparsed_headers = names]
      BY <2>1, <2>3
    <3>2. {"method", "uri", "content_length", "keep_alive", "host", "port", "cookies",
           "parsed_headers", "unparsed_headers"} \subseteq DOMAIN request
      BY <1>0 DEF Fresh
    <3> QED BY <3>1, <3>2
  <2>5. OwnFields(request', headers')
    BY <2>2, <2>4, Zenon DEF OwnFields
  <2>6. /\ request'.parsed_headers \in Seq(STRING) /\ request'.unparsed_headers \in Seq(STRING)
        /\ Len(request'.parsed_headers) + Len(request'.unparsed_headers) = Len(headers')
    <3>1. names \in Seq(STRING) /\ Len(names) = u + 1
      BY <1>0, <1>1, <1>2, <2>3
    <3> QED BY <1>1, <1>2, <1>b, <2>4, <3>1, Zenon
  <2>7. request'.method = str_to_method(start'[1].method) /\ request'.uri = start'[1].uri
    BY <1>0, <1>1, <2>4
  <2>8. Len(request'.parsed_headers) + Len(request'.unparsed_headers) =
           IF stage' = "headers" THEN Len(headers') ELSE Len(headers') - 1
    BY <2>1, <2>6
  <2> QED BY <1>0, <2>5, <2>6, <2>7, <2>8, Zenon DEF OwnInv
<1>6. line.kind # "bad"
  BY DEF process_header_string, Throw, Bad
<1>7. line.kind \in {"header", "blank", "bad"}
  BY <1>0 DEF HeaderType
<1> QED BY <1>3, <1>4, <1>5, <1>6, <1>7

LEMMA OwnUri ==
    ASSUME IInv, OwnInv, ProcessUri
    PROVE  OwnInv'
<1>0. /\ stage = "uri" /\ stage' \in {"failed", "done"} /\ headers' = headers /\ start' = start
      /\ DOMAIN request = DOMAIN Fresh /\ request.uri \in Seq(STRING)
      /\ request' = request \/ request' = process_uri(request)
  BY DEF ProcessUri, Throw, IInv, FieldsInv, TypeOK
<1>1. \A f \in DOMAIN Fresh \ {"path", "args"} : request'[f] = request[f]
  BY <1>0, PathOfUri
<1>2. /\ request'.method = request.method /\ request'.uri = request.uri
      /\ request'.content_length = request.content_length
      /\ request'.keep_alive = request.keep_alive
      /\ request'.host = request.host /\ request'.port = request.port
      /\ request'.cookies = request.cookies
      /\ request'.parsed_headers = request.parsed_headers
      /\ request'.unparsed_headers = request.unparsed_headers
  <2>1. {"method", "uri", "content_length", "keep_alive", "host", "port", "cookies",
         "parsed_headers", "unparsed_headers"} \subseteq DOMAIN Fresh \ {"path", "args"}
    BY DEF Fresh
  <2> QED BY <1>1, <2>1
<1>3. OwnFields(request, headers)
  BY <1>0 DEF OwnInv
<1>4. OwnFields(request', headers')
  BY <1>0, <1>2, <1>3, Zenon DEF OwnFields
<1> QED BY <1>0, <1>2, <1>4 DEF OwnInv

LEMMA OwnStep == IInv /\ OwnInv /\ [Next]_vars => OwnInv'
<1> SUFFICES ASSUME IInv, OwnInv, [Next]_vars PROVE OwnInv'
  OBVIOUS
<1>1. CASE UNCHANGED vars
  BY <1>1 DEF vars, OwnInv
<1>2. CASE process_stream
  BY <1>2 DEF process_stream, reset, OwnInv
<1>3. CASE ReadForm
  BY <1>3 DEF ReadForm, OwnInv
<1> QED BY <1>1, <1>2, <1>3, OwnStart, OwnHeader, OwnUri DEF Next

-----------------------------------------------------------------------------
(* Runs *)

LEMMA OneElement ==
    ASSUME NEW S, NEW x \in S
    PROVE  <<x>> \in Seq(S) /\ Len(<<x>>) = 1 /\ <<x>>[1] = x
OBVIOUS

\* A function on one place more is the sequence with one element more.
LEMMA OneMore ==
    ASSUME NEW S, NEW a \in Seq(S), NEW x \in S, NEW b, DOMAIN b = 1..Len(a) + 1,
           b = [i \in DOMAIN b |-> b[i]], \A i \in 1..Len(a) : b[i] = a[i], b[Len(a) + 1] = x
    PROVE  b = Append(a, x)
<1>1. PICK n \in Nat : n = Len(a)
  BY LenProperties
<1>2. \A i \in 1..n + 1 : i \in 1..n \/ i = n + 1
  OBVIOUS
<1>3. \A i \in 1..n + 1 : b[i] \in S
  <2>1. \A i \in 1..n : a[i] \in S
    BY <1>1, ElementOfSeq
  <2> QED BY <1>1, <1>2, <2>1
<1>4. b \in [1..n + 1 -> S]
  BY <1>1, <1>3
<1>5. b \in Seq(S) /\ Len(b) = n + 1
  BY <1>4
<1>6. /\ Append(a, x) \in Seq(S) /\ Len(Append(a, x)) = n + 1 /\ Append(a, x)[n + 1] = x
      /\ \A i \in 1..n : Append(a, x)[i] = a[i]
  BY <1>1, AppendProperties
<1>7. \A i \in 1..Len(b) : b[i] = Append(a, x)[i]
  BY <1>1, <1>2, <1>5, <1>6
<1> QED BY <1>5, <1>6, <1>7, SeqEqual

LEMMA FrontAppend ==
    ASSUME NEW S, NEW q \in Seq(S), NEW u \in S
    PROVE  Front(Append(q, u)) = q /\ Last(Append(q, u)) = u
<1>1. Len(q) \in Nat
  BY LenProperties
<1>2. /\ Len(Append(q, u)) = Len(q) + 1 /\ Append(q, u)[Len(q) + 1] = u
      /\ \A i \in 1..Len(q) : Append(q, u)[i] = q[i]
      /\ Append(q, u) \in Seq(S)
  BY AppendProperties
<1>3. (Len(q) + 1) - 1 = Len(q)
  BY <1>1
<1>4. SubSeq(Append(q, u), 1, Len(q)) = q
  BY <1>1, <1>2
<1> QED BY <1>2, <1>3, <1>4 DEF Front, Last

\* What a token makes of the runs before it.
Further(old, s, i) ==
    IF s[i] \in Separators THEN old
    ELSE IF i > 1 /\ s[i - 1] \notin Separators
         THEN Append(Front(old), Append(Last(old), s[i]))
         ELSE Append(old, <<s[i]>>)
Running(s, n, runs) ==
    runs = [i \in 0..n |-> IF i = 0 THEN <<>> ELSE Further(runs[i - 1], s, i)]

LEMMA RunningExists ==
    ASSUME NEW s, NEW n \in Nat
    PROVE  \E runs : Running(s, n, runs)
<1> DEFINE Following(f, i) == IF i = 0 THEN <<>> ELSE Further(f[i - 1], s, i)
           T == {m \in Nat : \E f : f = [i \in 0..m |-> Following(f, i)]}
<1>1. 0 \in T
  <2> DEFINE f == [i \in 0..0 |-> <<>>]
  <2>1. f = [i \in 0..0 |-> Following(f, i)]
    OBVIOUS
  <2> QED BY <2>1
<1>2. ASSUME NEW m \in Nat, m \in T PROVE m + 1 \in T
  <2>1. PICK g : g = [i \in 0..m |-> Following(g, i)]
    BY <1>2
  <2> DEFINE next == Further(g[m], s, m + 1)
             h == [i \in 0..m + 1 |-> IF i = m + 1 THEN next ELSE g[i]]
  <2>2. ASSUME NEW i \in 0..m + 1 PROVE h[i] = Following(h, i)
    <3>1. CASE i = 0
      BY <2>1, <3>1
    <3>2. CASE i \in 1..m
      <4>1. i # m + 1 /\ i - 1 # m + 1 /\ i \in 0..m /\ i - 1 \in 0..m + 1 /\ i # 0
        BY <3>2
      <4>2. h[i] = g[i] /\ h[i - 1] = g[i - 1]
        BY <4>1
      <4>3. g[i] = Following(g, i)
        BY <2>1, <4>1
      <4> QED BY <4>1, <4>2, <4>3
    <3>3. CASE i = m + 1
      <4>1. i - 1 = m /\ i - 1 \in 0..m + 1 /\ i # 0 /\ m # m + 1
        BY <3>3
      <4>2. h[i] = next /\ h[i - 1] = g[m]
        BY <3>3, <4>1
      <4> QED BY <3>3, <4>1, <4>2
    <3> QED BY <3>1, <3>2, <3>3
  <2>3. h = [i \in 0..m + 1 |-> Following(h, i)]
    BY <2>2
  <2> HIDE DEF h
  <2> QED BY <2>3
<1>3. n \in T
  <2> HIDE DEF T
  <2> QED BY <1>1, <1>2, AllNats
<1> QED BY <1>3 DEF Running

LEMMA RunsSteps ==
    ASSUME NEW s, NEW n \in Nat, n = Len(s)
    PROVE  \E f : /\ Runs(s) = f[n] /\ f[0] = <<>>
                  /\ \A i \in 1..n : f[i] = Further(f[i - 1], s, i)
<1>1. \E f : Running(s, n, f)
  BY RunningExists
<1>2. PICK f : f = CHOOSE g : Running(s, n, g)
  OBVIOUS
<1>3. Running(s, n, f)
  BY <1>1, <1>2
<1>4. Runs(s) = f[n]
  BY <1>2 DEF Runs, Running, Further
<1>5. f[0] = <<>>
  BY <1>3 DEF Running
<1>6. ASSUME NEW i \in 1..n PROVE f[i] = Further(f[i - 1], s, i)
  <2>1. i \in 0..n /\ i # 0
    OBVIOUS
  <2> QED BY <1>3, <2>1 DEF Running
<1> QED BY <1>4, <1>5, <1>6

LEMMA RunsEmpty == Runs(<<>>) = <<>>
<1>1. Len(<<>>) = 0
  BY EmptySeq
<1> QED BY <1>1, RunsSteps

\* One more token ends a run, lengthens it or begins one.
LEMMA RunsAppend ==
    ASSUME NEW S, NEW s \in Seq(S), NEW t \in S
    PROVE  Runs(Append(s, t)) =
              IF t \in Separators THEN Runs(s)
              ELSE IF s # <<>> /\ Last(s) \notin Separators
                   THEN Append(Front(Runs(s)), Append(Last(Runs(s)), t))
                   ELSE Append(Runs(s), <<t>>)
<1>1. PICK n \in Nat : n = Len(s)
  BY LenProperties
<1>2. PICK more : more = Append(s, t)
  OBVIOUS
<1>3. Len(more) = n + 1 /\ (\A i \in 1..n : more[i] = s[i]) /\ more[n + 1] = t
  BY <1>1, <1>2, AppendProperties
<1>4. PICK f : /\ Runs(s) = f[n] /\ f[0] = <<>>
               /\ \A i \in 1..n : f[i] = Further(f[i - 1], s, i)
  BY <1>1, RunsSteps
<1>5. PICK g : /\ Runs(more) = g[n + 1] /\ g[0] = <<>>
               /\ \A i \in 1..n + 1 : g[i] = Further(g[i - 1], more, i)
  BY <1>3, RunsSteps
<1> DEFINE T == {i \in 0..n : f[i] = g[i]}
<1>6. \A i \in 0..n : i \in T
  <2>1. 0 \in T
    BY <1>4, <1>5
  <2>2. ASSUME NEW i \in 1..n, i - 1 \in T PROVE i \in T
    <3>1. i \in 0..n /\ i \in 1..n + 1 /\ f[i - 1] = g[i - 1] /\ more[i] = s[i]
      BY <1>3, <2>2
    <3>2. i > 1 => more[i - 1] = s[i - 1]
      <4>1. i > 1 => i - 1 \in 1..n
        OBVIOUS
      <4> QED BY <1>3, <4>1
    <3>3. Further(f[i - 1], s, i) = Further(g[i - 1], more, i)
      BY <3>1, <3>2 DEF Further
    <3> QED BY <1>4, <1>5, <3>1, <3>3
  <2> HIDE DEF T
  <2> QED BY <2>1, <2>2, AllAlong
<1>7. f[n] = g[n] /\ n + 1 \in 1..n + 1 /\ (n + 1) - 1 = n
  BY <1>6
<1>8. Runs(more) = Further(Runs(s), more, n + 1)
  BY <1>4, <1>5, <1>7
<1>9. (n + 1 > 1 /\ more[(n + 1) - 1] \notin Separators)
         <=> (s # <<>> /\ Last(s) \notin Separators)
  <2>1. CASE s = <<>>
    <3>1. n = 0
      BY <1>1, <2>1, EmptySeq
    <3> QED BY <2>1, <3>1
  <2>2. CASE s # <<>>
    <3>1. n \in 1..n /\ n + 1 > 1
      BY <1>1, <2>2, EmptySeq
    <3> QED BY <1>1, <1>3, <1>7, <2>2, <3>1 DEF Last
  <2> QED BY <2>1, <2>2
<1> QED BY <1>2, <1>3, <1>8, <1>9 DEF Further

\* A token that is no separator is text.
LEMMA TextAppend ==
    ASSUME NEW S, NEW s \in Seq(S), NEW t \in S
    PROVE  /\ Text(s) \in Seq(S)
           /\ Text(Append(s, t)) = IF t \in Separators THEN Text(s) ELSE Append(Text(s), t)
<1> DEFINE Bit(x) == IF x \in Separators THEN <<>> ELSE <<x>>
           a == [i \in DOMAIN s |-> Bit(s[i])]
           b == [i \in DOMAIN Append(s, t) |-> Bit(Append(s, t)[i])]
<1>1. PICK n \in Nat : n = Len(s) /\ DOMAIN s = 1..n
  BY LenProperties
<1>2. /\ DOMAIN Append(s, t) = 1..n + 1 /\ Append(s, t)[n + 1] = t
      /\ \A i \in 1..n : Append(s, t)[i] = s[i]
  <2>1. Append(s, t) \in Seq(S) /\ Len(Append(s, t)) = n + 1
    BY <1>1, AppendProperties
  <2>2. Append(s, t)[n + 1] = t /\ \A i \in 1..n : Append(s, t)[i] = s[i]
    BY <1>1, AppendProperties
  <2> QED BY <2>1, <2>2, LenProperties
<1>3. \A x \in S : Bit(x) \in Seq(S)
  <2> SUFFICES ASSUME NEW x \in S PROVE Bit(x) \in Seq(S)
    OBVIOUS
  <2>1. <<>> \in Seq(S) /\ <<x>> \in Seq(S)
    BY EmptySeq, OneElement
  <2> QED BY <2>1
<1>4. a \in Seq(Seq(S)) /\ Len(a) = n
  <2>1. \A i \in 1..n : s[i] \in S
    BY <1>1, ElementOfSeq
  <2> HIDE DEF Bit
  <2>2. a \in [1..n -> Seq(S)]
    BY <1>1, <1>3, <2>1
  <2> HIDE DEF a
  <2> QED BY <2>2
<1>5. b = Append(a, Bit(t))
  <2> HIDE DEF Bit
  <2>1. /\ DOMAIN a = 1..n /\ DOMAIN b = 1..n + 1 /\ b[n + 1] = Bit(t)
        /\ \A i \in 1..n : b[i] = a[i]
    <3>1. n + 1 \in 1..n + 1 /\ \A i \in 1..n : i \in 1..n + 1
      OBVIOUS
    <3>2. b = [i \in 1..n + 1 |-> Bit(Append(s, t)[i])] /\ a = [i \in 1..n |-> Bit(s[i])]
      BY <1>1, <1>2
    <3> HIDE DEF a, b
    <3>3. b[n + 1] = Bit(t)
      BY <1>2, <3>1, <3>2
    <3>4. \A i \in 1..n : b[i] = a[i]
      BY <1>2, <3>1, <3>2
    <3> QED BY <3>2, <3>3, <3>4
  <2>2. b = [i \in DOMAIN b |-> b[i]] /\ Bit(t) \in Seq(S)
    BY <1>3
  <2> HIDE DEF a, b
  <2> QED BY <1>4, <2>1, <2>2, OneMore
<1>6. Text(s) = FlattenSeq(a) /\ Text(Append(s, t)) = FlattenSeq(b)
  BY DEF Text
<1>7. FlattenSeq(a) \in Seq(S)
  <2> HIDE DEF a
  <2> QED BY <1>4, FlattenSeqs
<1>8. FlattenSeq(b) = FlattenSeq(a) \o Bit(t)
  <2> HIDE DEF a, b, Bit
  <2> QED BY <1>3, <1>4, <1>5, FlattenAppend
<1> HIDE DEF a, b
<1>9. CASE t \in Separators
  BY <1>6, <1>7, <1>8, <1>9, ConcatEmptySeq
<1>10. CASE t \notin Separators
  BY <1>6, <1>7, <1>8, <1>10, AppendIsConcat
<1> QED BY <1>6, <1>7, <1>9, <1>10

LEMMA TextEmpty == Text(<<>>) = <<>>
<1>1. [i \in DOMAIN <<>> |-> IF <<>>[i] \in Separators THEN <<>> ELSE <<<<>>[i]>>] = <<>>
  OBVIOUS
<1> QED BY <1>1, FlattenEmpty DEF Text

\* The runs hold the text of a sequence, and nothing else; none is empty.
LEMMA RunsOf ==
    ASSUME NEW S
    PROVE  \A s \in Seq(S) :
       /\ Runs(s) \in Seq(Seq(S) \ {<<>>}) /\ FlattenSeq(Runs(s)) = Text(s)
       /\ s # <<>> /\ Last(s) \notin Separators => Runs(s) # <<>>
<1> DEFINE RunType == Seq(S) \ {<<>>}
           T == {s \in Seq(S) :
                   /\ Runs(s) \in Seq(RunType) /\ FlattenSeq(Runs(s)) = Text(s)
                   /\ (s # <<>> /\ Last(s) \notin Separators) => Runs(s) # <<>>}
<1>1. <<>> \in T
  BY RunsEmpty, TextEmpty, FlattenEmpty, EmptySeq
<1>2. ASSUME NEW s \in Seq(S), NEW t \in S, s \in T PROVE Append(s, t) \in T
  <2>1. /\ Runs(s) \in Seq(RunType) /\ FlattenSeq(Runs(s)) = Text(s)
        /\ (s # <<>> /\ Last(s) \notin Separators) => Runs(s) # <<>>
    BY <1>2
  <2>2. Append(s, t) \in Seq(S) /\ Last(Append(s, t)) = t
    <3>1. /\ Append(s, t) \in Seq(S) /\ Len(Append(s, t)) = Len(s) + 1
          /\ Append(s, t)[Len(s) + 1] = t
      BY AppendProperties
    <3> QED BY <3>1 DEF Last
  <2>3. /\ Text(s) \in Seq(S)
        /\ Text(Append(s, t)) = IF t \in Separators THEN Text(s) ELSE Append(Text(s), t)
    BY TextAppend
  <2>4. Seq(RunType) \subseteq Seq(Seq(S))
    <3>1. RunType \subseteq Seq(S)
      OBVIOUS
    <3> HIDE DEF RunType
    <3> QED BY <3>1, SeqMonotonic
  <2> SUFFICES /\ Runs(Append(s, t)) \in Seq(RunType)
               /\ FlattenSeq(Runs(Append(s, t))) = Text(Append(s, t))
               /\ t \notin Separators => Runs(Append(s, t)) # <<>>
    BY <2>2
  <2>5. CASE t \in Separators
    BY <2>1, <2>3, <2>5, RunsAppend
  <2>6. CASE t \notin Separators /\ s # <<>> /\ Last(s) \notin Separators
    <3>1. PICK q \in Seq(RunType), u \in RunType : Runs(s) = Append(q, u)
      <4> HIDE DEF RunType
      <4> QED BY <2>1, <2>6, SequenceEmptyOrAppend
    <3>2. Front(Runs(s)) = q /\ Last(Runs(s)) = u
      <4> HIDE DEF RunType
      <4> QED BY <3>1, FrontAppend
    <3>3. Runs(Append(s, t)) = Append(q, Append(u, t))
      BY <2>6, <3>2, RunsAppend
    <3>4. u \in Seq(S) /\ Append(u, t) \in RunType
      <4>1. u \in Seq(S)
        OBVIOUS
      <4>2. Append(u, t) \in Seq(S) /\ Append(u, t) # <<>>
        BY <4>1, AppendProperties
      <4> QED BY <4>1, <4>2
    <3>5. Append(q, Append(u, t)) \in Seq(RunType) /\ Append(q, Append(u, t)) # <<>>
      <4>1. PICK v \in RunType : v = Append(u, t)
        BY <3>4
      <4>2. Append(q, v) \in Seq(RunType) /\ Append(q, v) # <<>>
        <5> HIDE DEF RunType
        <5> QED BY AppendProperties
      <4> HIDE DEF RunType
      <4> QED BY <4>1, <4>2
    <3>6. PICK r \in Seq(S) : r = FlattenSeq(q)
      <4>1. q \in Seq(Seq(S))
        BY <2>4
      <4> QED BY <4>1, FlattenSeqs
    <3>7. FlattenSeq(Append(q, u)) = r \o u /\ FlattenSeq(Append(q, Append(u, t))) = r \o Append(u, t)
      <4>1. q \in Seq(Seq(S)) /\ Append(u, t) \in Seq(S)
        BY <2>4, <3>4
      <4> QED BY <3>4, <3>6, <4>1, FlattenAppend
    <3>8. r \o Append(u, t) = Append(r \o u, t)
      <4>1. <<t>> \in Seq(S) /\ r \o u \in Seq(S)
        BY <3>4, OneElement, ConcatProperties
      <4>2. Append(u, t) = u \o <<t>> /\ Append(r \o u, t) = (r \o u) \o <<t>>
        BY <3>4, <4>1, AppendIsConcat
      <4> QED BY <3>4, <4>1, <4>2, ConcatAssociative
    <3>9. FlattenSeq(Runs(Append(s, t))) = Text(Append(s, t))
      BY <2>1, <2>3, <2>6, <3>1, <3>3, <3>7, <3>8, Zenon
    <3> HIDE DEF RunType
    <3> QED BY <3>3, <3>5, <3>9
  <2>7. CASE t \notin Separators /\ ~(s # <<>> /\ Last(s) \notin Separators)
    <3>1. Runs(Append(s, t)) = Append(Runs(s), <<t>>)
      BY <2>7, RunsAppend
    <3>2. <<t>> \in Seq(S) /\ <<t>> # <<>>
      BY OneElement, EmptySeq
    <3>3. <<t>> \in RunType
      BY <3>2
    <3>4. Append(Runs(s), <<t>>) \in Seq(RunType) /\ Append(Runs(s), <<t>>) # <<>>
      <4> HIDE DEF RunType
      <4> QED BY <2>1, <3>3, AppendProperties
    <3>5. FlattenSeq(Append(Runs(s), <<t>>)) = Text(s) \o <<t>>
      <4>1. Runs(s) \in Seq(Seq(S))
        BY <2>1, <2>4
      <4> QED BY <2>1, <3>2, <4>1, FlattenAppend
    <3>6. Text(s) \o <<t>> = Append(Text(s), t)
      BY <2>3, AppendIsConcat
    <3>7. FlattenSeq(Runs(Append(s, t))) = Text(Append(s, t))
      BY <2>3, <2>7, <3>1, <3>5, <3>6, Zenon
    <3> HIDE DEF RunType
    <3> QED BY <3>1, <3>4, <3>7
  <2> QED BY <2>5, <2>6, <2>7
<1>3. \A s \in Seq(S) : s \in T
  <2> HIDE DEF T
  <2> QED BY <1>1, <1>2, AllSeqs
<1> QED BY <1>3

\* args_regex takes a run apart and loses nothing of it but the "=" it cuts at.
LEMMA ArgOf ==
    ASSUME NEW run \in Seq(STRING), run # <<>>
    PROVE  Arg(run).key # <<>> /\ Shown(Arg(run)) = run
<1>1. PICK n \in Nat : n = Len(run) /\ n # 0
  BY EmptySeq
<1> DEFINE eqs == {k \in 2..Len(run) : run[k] = "="}
<1>2. CASE eqs = {}
  <2>1. Arg(run) = [key |-> run, value |-> <<>>, only |-> TRUE]
    BY <1>2 DEF Arg
  <2> QED BY <2>1 DEF Shown
<1>3. CASE eqs # {}
  <2>1. PICK k : k = Max(eqs) /\ k \in 2..n /\ run[k] = "="
    <3>1. eqs \in SUBSET (1..n)
      BY <1>1
    <3>2. Max(eqs) \in eqs
      <4> HIDE DEF eqs
      <4> QED BY <1>3, <3>1, MaxOf
    <3> QED BY <1>1, <3>2
  <2>2. Arg(run) = [key |-> SubSeq(run, 1, k - 1), value |-> SubSeq(run, k + 1, Len(run)),
                    only |-> FALSE]
    BY <1>3, <2>1 DEF Arg
  <2>3. PICK key \in Seq(STRING) : key = SubSeq(run, 1, k - 1) /\ Len(key) = k - 1
    <3>1. k - 1 \in Int /\ 1 <= k - 1 /\ k - 1 <= n /\ (k - 1) - 1 + 1 = k - 1
      BY <2>1
    <3>2. \A i \in 1..k - 1 : run[i] \in STRING
      <4>1. \A i \in 1..k - 1 : i \in 1..n
        BY <2>1
      <4> QED BY <1>1, <4>1, ElementOfSeq
    <3>3. /\ SubSeq(run, 1, k - 1) \in Seq(STRING)
          /\ Len(SubSeq(run, 1, k - 1)) = IF 1 <= k - 1 THEN (k - 1) - 1 + 1 ELSE 0
      BY <3>1, <3>2, SubSeqProperties
    <3>4. Len(SubSeq(run, 1, k - 1)) = k - 1
      BY <3>1, <3>3
    <3> QED BY <3>3, <3>4
  <2>4. PICK value \in Seq(STRING) : value = SubSeq(run, k + 1, n)
    <3>1. \A i \in k + 1..n : run[i] \in STRING
      <4>1. \A i \in k + 1..n : i \in 1..n
        BY <2>1
      <4> QED BY <1>1, <4>1, ElementOfSeq
    <3>2. k + 1 \in Int /\ n \in Int
      BY <2>1
    <3> QED BY <3>1, <3>2, SubSeqProperties
  <2>5. key # <<>>
    <3>1. Len(key) # 0
      BY <2>1, <2>3
    <3> QED BY <3>1, EmptySeq
  <2>6. Append(key, "=") = SubSeq(run, 1, k)
    <3>1. 1 \in 1..n /\ k \in 1..n
      BY <1>1, <2>1
    <3>2. SubSeq(run, 1, k) = SubSeq(run, 1, k - 1) \o <<run[k]>>
      BY <1>1, <2>1, <3>1, SubSeqRecursiveSecond
    <3>3. "=" \in STRING
      BY <1>1, <2>1, <3>1, ElementOfSeq
    <3>4. Append(key, "=") = key \o <<"=">>
      BY <3>3, AppendIsConcat
    <3> QED BY <2>1, <2>3, <3>2, <3>4
  <2>7. SubSeq(run, 1, k) \o SubSeq(run, k + 1, n) = run
    <3>1. 1 \in 1..n + 1 /\ k \in 1 - 1..n /\ n \in k..n
      BY <1>1, <2>1
    <3>2. SubSeq(run, 1, k) \o SubSeq(run, k + 1, n) = SubSeq(run, 1, n)
      BY <1>1, <3>1, ConcatAdjacentSubSeq
    <3> QED BY <1>1, <3>2, SubSeqFull
  <2>8. /\ Arg(run).key = key /\ Arg(run).value = value /\ Arg(run).only = FALSE
    <3>1. Arg(run) = [key |-> key, value |-> value, only |-> FALSE]
      BY <1>1, <2>2, <2>3, <2>4, Zenon
    <3>2. Arg(run).only = FALSE
      <4>1. [key |-> key, value |-> value, only |-> FALSE].only = FALSE
        BY Zenon
      <4> QED BY <3>1, <4>1
    <3>3. Arg(run).key = key /\ Arg(run).value = value
      BY <3>1
    <3> QED BY <3>2, <3>3
  <2>9. Shown(Arg(run)) = Append(key, "=") \o value
    BY <2>8, Zenon DEF Shown
  <2> QED BY <2>4, <2>5, <2>6, <2>7, <2>8, <2>9
<1> QED BY <1>2, <1>3

\* The arguments of a text are its runs.
LEMMA ArgsOf ==
    ASSUME NEW s \in Seq(STRING)
    PROVE  /\ \A i \in DOMAIN Args(s) : Args(s)[i].key # <<>>
           /\ FlattenSeq([i \in DOMAIN Args(s) |-> Shown(Args(s)[i])]) = Text(s)
<1>1. PICK runs \in Seq(Seq(STRING) \ {<<>>}) : runs = Runs(s) /\ FlattenSeq(runs) = Text(s)
  BY RunsOf
<1>2. Args(s) = [i \in DOMAIN runs |-> Arg(runs[i])]
  BY <1>1 DEF Args
<1>3. \A i \in DOMAIN runs : runs[i] \in Seq(STRING) /\ runs[i] # <<>>
  <2>1. \A i \in 1..Len(runs) : runs[i] \in Seq(STRING) \ {<<>>}
    BY ElementOfSeq
  <2> QED BY <2>1, LenProperties
<1>4. \A i \in DOMAIN runs : Arg(runs[i]).key # <<>> /\ Shown(Arg(runs[i])) = runs[i]
  BY <1>3, ArgOf
<1>5. [i \in DOMAIN Args(s) |-> Shown(Args(s)[i])] = [i \in DOMAIN runs |-> runs[i]]
  BY <1>2, <1>4
<1>6. [i \in DOMAIN runs |-> runs[i]] = runs
  OBVIOUS
<1> QED BY <1>1, <1>2, <1>4, <1>5, <1>6

\* Of a path and arguments: that nothing of the URI is lost but separators.
Whole(r) ==
    LET uri  == r.uri
        n    == Len(r.path)
        args == [i \in DOMAIN r.args |-> Shown(r.args[i])]
    IN  /\ n > 0 /\ n <= Len(uri) /\ r.path = SubSeq(uri, 1, n)
        /\ \A i \in 1..n : uri[i] # "?"
        /\ n < Len(uri) => uri[n + 1] = "?"
        /\ \A i \in DOMAIN r.args : r.args[i].key # <<>>
        /\ FlattenSeq(args) = Text(SubSeq(uri, n + 2, Len(uri)))

\* process_uri takes the whole URI.
LEMMA UriTaken ==
    ASSUME NEW r, DOMAIN r = DOMAIN Fresh, r.uri \in Seq(STRING), process_uri(r).path # <<>>
    PROVE  Whole(process_uri(r))
<1>1. PICK uri \in Seq(STRING), n \in Nat : uri = r.uri /\ n = Len(uri) /\ DOMAIN uri = 1..n
  BY LenProperties
<1> DEFINE marks == {k \in DOMAIN uri : uri[k] = "?"}
           mark  == IF marks = {} THEN Len(uri) + 1 ELSE Min(marks)
<1>2. PICK m \in 1..n + 1 : /\ m = mark /\ \A i \in 1..m - 1 : uri[i] # "?"
                            /\ m <= n => uri[m] = "?"
  <2>1. marks \in SUBSET Nat /\ \A i \in 1..n : (i \in marks) = (uri[i] = "?")
    BY <1>1
  <2>2. marks \subseteq 1..n
    BY <1>1
  <2>3. CASE marks = {}
    <3>1. mark = n + 1 /\ n + 1 \in 1..n + 1 /\ ~(n + 1 <= n)
      BY <1>1, <2>3
    <3>2. \A i \in 1..(n + 1) - 1 : i \in 1..n
      OBVIOUS
    <3>3. \A i \in 1..n : uri[i] # "?"
      BY <2>1, <2>3
    <3> HIDE DEF marks, mark
    <3> QED BY <3>1, <3>2, <3>3
  <2>4. CASE marks # {}
    <3>1. mark = Min(marks)
      BY <2>4
    <3> HIDE DEF marks
    <3>2. Min(marks) \in marks /\ \A k \in marks : Min(marks) <= k
      BY <2>1, <2>4, MinOf
    <3> HIDE DEF mark
    <3>3. mark \in 1..n /\ \A k \in marks : mark <= k
      BY <2>2, <3>1, <3>2
    <3>4. mark \in 1..n + 1 /\ \A i \in 1..mark - 1 : i \in 1..n /\ ~(mark <= i)
      BY <3>3
    <3> QED BY <2>1, <3>1, <3>2, <3>3, <3>4
  <2> QED BY <2>3, <2>4
<1>3. process_uri(r) = [r EXCEPT !.path = SubSeq(uri, 1, m - 1),
                                 !.args = Args(SubSeq(uri, m + 1, Len(uri)))]
  BY <1>1, <1>2 DEF process_uri
<1> HIDE DEF mark
<1>4. PICK path, rest, args : /\ path = SubSeq(uri, 1, m - 1) /\ rest = SubSeq(uri, m + 1, n)
                              /\ args = Args(rest)
  OBVIOUS
<1>5. PICK q : q = process_uri(r) /\ q.uri = uri /\ q.path = path /\ q.args = args
  <2>1. process_uri(r) = [r EXCEPT !.path = path, !.args = args]
    BY <1>1, <1>3, <1>4
  <2>2. "path" \in DOMAIN r /\ "args" \in DOMAIN r /\ "uri" \in DOMAIN r
    BY DEF Fresh
  <2> QED BY <1>1, <2>1, <2>2
<1>6. path \in Seq(STRING) /\ Len(path) = m - 1 /\ rest \in Seq(STRING)
  <2>1. m \in Int /\ m - 1 \in Int /\ m + 1 \in Int /\ n \in Int /\ 1 \in Int
    OBVIOUS
  <2>2. \A i \in 1..m - 1 : i \in 1..n
    OBVIOUS
  <2>3. \A i \in m + 1..n : i \in 1..n
    OBVIOUS
  <2>4. \A i \in 1..n : uri[i] \in STRING
    BY <1>1, ElementOfSeq
  <2>5. /\ SubSeq(uri, 1, m - 1) \in Seq(STRING)
        /\ Len(SubSeq(uri, 1, m - 1)) = IF 1 <= m - 1 THEN (m - 1) - 1 + 1 ELSE 0
    BY <2>1, <2>2, <2>4, SubSeqProperties
  <2>6. SubSeq(uri, m + 1, n) \in Seq(STRING)
    BY <2>1, <2>3, <2>4, SubSeqProperties
  <2>7. (IF 1 <= m - 1 THEN (m - 1) - 1 + 1 ELSE 0) = m - 1
    OBVIOUS
  <2> QED BY <1>4, <2>5, <2>6, <2>7, Zenon
<1>7. PICK k \in Nat : k = Len(path) /\ k = m - 1 /\ k > 0
  <2>1. m - 1 \in Nat
    OBVIOUS
  <2>2. Len(path) # 0
    BY <1>5, <1>6, EmptySeq
  <2> QED BY <1>6, <2>1, <2>2
<1>8. k <= n /\ m = k + 1 /\ m + 1 = k + 2
  BY <1>7
<1>9. path = SubSeq(uri, 1, k) /\ rest = SubSeq(uri, k + 2, n)
  BY <1>4, <1>7, <1>8, Zenon
<1>10. (\A i \in 1..k : uri[i] # "?") /\ (k < n => uri[k + 1] = "?")
  BY <1>2, <1>7, <1>8
<1>11. /\ \A i \in DOMAIN args : args[i].key # <<>>
       /\ FlattenSeq([i \in DOMAIN args |-> Shown(args[i])]) = Text(rest)
  BY <1>4, <1>6, ArgsOf
<1>12. Whole(q)
  BY <1>1, <1>5, <1>7, <1>8, <1>9, <1>10, <1>11, Zenon DEF Whole
<1> QED BY <1>5, <1>12

\* After a separator, or at first, tokens that are no separators are one run.
LEMMA RunsOfRun ==
    ASSUME NEW S, NEW s \in Seq(S), s = <<>> \/ Last(s) \in Separators
    PROVE  \A u \in Seq(S \ Separators) : u # <<>> => Runs(s \o u) = Append(Runs(s), u)
<1> DEFINE T == {u \in Seq(S \ Separators) : u # <<>> => Runs(s \o u) = Append(Runs(s), u)}
<1>1. <<>> \in T
  BY EmptySeq
<1>2. ASSUME NEW u \in Seq(S \ Separators), NEW x \in S \ Separators, u \in T
      PROVE  Append(u, x) \in T
  <2>1. Append(u, x) \in Seq(S \ Separators)
    BY AppendProperties
  <2>2. x \in S /\ x \notin Separators /\ u \in Seq(S)
    <3>1. S \ Separators \subseteq S
      OBVIOUS
    <3> QED BY <3>1, SeqMonotonic
  <2> SUFFICES Runs(s \o Append(u, x)) = Append(Runs(s), Append(u, x))
    BY <2>1
  <2>3. PICK w \in Seq(S) : /\ w = s \o u /\ Len(w) = Len(s) + Len(u)
                            /\ \A i \in 1..Len(s) + Len(u) :
                                  w[i] = IF i <= Len(s) THEN s[i] ELSE u[i - Len(s)]
    <3>1. /\ s \o u \in Seq(S) /\ Len(s \o u) = Len(s) + Len(u)
          /\ \A i \in 1..Len(s) + Len(u) :
                (s \o u)[i] = IF i <= Len(s) THEN s[i] ELSE u[i - Len(s)]
      BY <2>2, ConcatProperties
    <3> QED BY <3>1, Zenon
  <2>4. s \o Append(u, x) = Append(w, x)
    <3>1. <<x>> \in Seq(S)
      BY <2>2, OneElement
    <3>2. Append(u, x) = u \o <<x>> /\ Append(w, x) = w \o <<x>>
      BY <2>2, AppendIsConcat
    <3> QED BY <2>2, <2>3, <3>1, <3>2, ConcatAssociative
  <2>5. CASE u = <<>>
    <3>1. w = s
      BY <2>3, <2>5, ConcatEmptySeq
    <3>2. Append(u, x) = <<x>>
      <4>1. Append(u, x) = u \o <<x>> /\ <<x>> \in Seq(S)
        BY <2>2, AppendIsConcat, OneElement
      <4> QED BY <2>5, <4>1, ConcatEmptySeq
    <3>3. Runs(Append(s, x)) = Append(Runs(s), <<x>>)
      BY <2>2, RunsAppend
    <3> QED BY <2>4, <3>1, <3>2, <3>3
  <2>6. CASE u # <<>>
    <3>1. Runs(w) = Append(Runs(s), u)
      BY <1>2, <2>3, <2>6
    <3>2. w # <<>> /\ Last(w) \notin Separators
      <4>1. PICK m \in Nat, n \in Nat : m = Len(s) /\ n = Len(u) /\ n # 0
        BY <2>2, <2>6, EmptySeq, LenProperties
      <4>2. m + n \in 1..m + n /\ ~(m + n <= m) /\ (m + n) - m = n /\ n \in 1..n
        BY <4>1
      <4>3. w[m + n] = u[n]
        BY <2>3, <4>1, <4>2
      <4>4. u[n] \in S \ Separators
        BY <4>1, <4>2, ElementOfSeq
      <4>5. Len(w) = m + n /\ m + n # 0
        BY <2>3, <4>1
      <4>6. w # <<>>
        BY <4>5, EmptySeq
      <4> QED BY <4>3, <4>4, <4>5, <4>6 DEF Last
    <3>3. Runs(Append(w, x)) = Append(Front(Runs(w)), Append(Last(Runs(w)), x))
      BY <2>2, <3>2, RunsAppend
    <3>4. Front(Runs(w)) = Runs(s) /\ Last(Runs(w)) = u
      <4>1. Runs(s) \in Seq(Seq(S) \ {<<>>})
        BY RunsOf
      <4>2. u \in Seq(S) \ {<<>>}
        BY <2>2, <2>6
      <4> QED BY <3>1, <4>1, <4>2, FrontAppend
    <3> QED BY <2>4, <3>3, <3>4
  <2> QED BY <2>5, <2>6
<1>3. \A u \in Seq(S \ Separators) : u \in T
  <2> HIDE DEF T
  <2> QED BY <1>1, <1>2, AllSeqs
<1> QED BY <1>3

-----------------------------------------------------------------------------
(* Forms *)

\* What a browser sends for a character, and what it sends.
Char  == STRING \ DOMAIN Escaped
Code  == (STRING \cup DOMAIN Escaped \cup {"+"}) \ (Separators \cup {"="})
Token == Code \cup Separators \cup {"="}

\* What a character is encoded as is no separator and no "=", and is decoded to it.
LEMMA EncodedOf ==
    ASSUME NEW t \in Char
    PROVE  Encoded(t) \in Code /\ Unescape(Space(Encoded(t))) = t
<1>1. DOMAIN Escaped = {"%61", "%3D", "%26", "%3F", "%2B", "%25", "%20"}
  BY DEF Escaped
<1>2. /\ Escaped["%3D"] = "=" /\ Escaped["%26"] = "&" /\ Escaped["%3F"] = "?"
      /\ Escaped["%2B"] = "+" /\ Escaped["%25"] = "%"
  BY DEF Escaped
<1>3. t \in STRING /\ t \notin DOMAIN Escaped
  BY DEF Char
<1>4. CASE t = " "
  <2>1. Encoded(t) = "+"
    BY <1>4 DEF Encoded
  <2>2. Space("+") = " " /\ Unescape(" ") = " "
    BY <1>1 DEF Space, Unescape
  <2> QED BY <1>4, <2>1, <2>2 DEF Code, Separators
<1>5. CASE t \in Separators \cup {"=", "+", "%"}
  <2>1. \E e \in DOMAIN Escaped : Escaped[e] = t
    BY <1>1, <1>2, <1>5 DEF Separators
  <2>2. PICK e \in DOMAIN Escaped : e = Encoded(t) /\ Escaped[e] = t
    <3>1. Encoded(t) = CHOOSE e \in DOMAIN Escaped : Escaped[e] = t
      BY <1>5 DEF Encoded, Separators
    <3> QED BY <2>1, <3>1
  <2>3. e \notin Separators /\ e # "=" /\ e # "+"
    BY <1>1 DEF Separators
  <2>4. Space(e) = e /\ Unescape(e) = t
    BY <2>2, <2>3 DEF Space, Unescape
  <2> QED BY <2>2, <2>3, <2>4 DEF Code
<1>6. CASE t # " " /\ t \notin Separators \cup {"=", "+", "%"}
  <2>1. Encoded(t) = t
    BY <1>6 DEF Encoded
  <2>2. Space(t) = t /\ Unescape(t) = t
    BY <1>3, <1>6 DEF Space, Unescape
  <2> QED BY <1>3, <1>6, <2>1, <2>2 DEF Code
<1> QED BY <1>4, <1>5, <1>6

LEMMA EncodeOf ==
    ASSUME NEW x \in Seq(Char)
    PROVE  /\ Encode(x) \in Seq(Code) /\ Len(Encode(x)) = Len(x)
           /\ decode_str(Encode(x)) = x
<1>1. PICK n \in Nat : n = Len(x) /\ DOMAIN x = 1..n
  BY LenProperties
<1>2. \A i \in 1..n : Encoded(x[i]) \in Code /\ Unescape(Space(Encoded(x[i]))) = x[i]
  <2>1. \A i \in 1..n : x[i] \in Char
    BY <1>1, ElementOfSeq
  <2> QED BY <2>1, EncodedOf
<1>3. Encode(x) = [i \in 1..n |-> Encoded(x[i])]
  BY <1>1 DEF Encode
<1>4. Encode(x) \in [1..n -> Code]
  BY <1>2, <1>3
<1>5. Encode(x) \in Seq(Code) /\ Len(Encode(x)) = n /\ DOMAIN Encode(x) = 1..n
  BY <1>4
<1>6. decode_str(Encode(x)) = [i \in 1..n |-> Unescape(Space(Encode(x)[i]))]
  BY <1>5 DEF decode_str
<1>7. decode_str(Encode(x)) = [i \in 1..n |-> x[i]]
  BY <1>2, <1>3, <1>6
<1>8. [i \in 1..n |-> x[i]] = x
  BY <1>1
<1> QED BY <1>1, <1>5, <1>7, <1>8

Field == (Seq(Char) \ {<<>>}) \X Seq(Char)

\* A field is one run, of which args_regex takes the name and the value.
LEMMA EncodedFieldOf ==
    ASSUME NEW p \in Field
    PROVE  /\ EncodedField(p) \in Seq(Code \cup {"="}) /\ EncodedField(p) # <<>>
           /\ Arg(EncodedField(p)) = [key |-> Encode(p[1]), value |-> Encode(p[2]), only |-> FALSE]
<1>1. p[1] \in Seq(Char) /\ p[1] # <<>> /\ p[2] \in Seq(Char)
  BY DEF Field
<1>2. PICK k \in Seq(Code), v \in Seq(Code) :
         k = Encode(p[1]) /\ v = Encode(p[2]) /\ Len(k) = Len(p[1])
  BY <1>1, EncodeOf
<1>3. PICK m \in Nat, n \in Nat : m = Len(k) /\ n = Len(v) /\ m # 0
  BY <1>1, <1>2, EmptySeq, LenProperties
<1>4. k \in Seq(Code \cup {"="}) /\ v \in Seq(Code \cup {"="})
  BY SeqMonotonic
<1>5. PICK a \in Seq(Code \cup {"="}) :
         /\ a = Append(k, "=") /\ Len(a) = m + 1 /\ a[m + 1] = "="
         /\ \A i \in 1..m : a[i] = k[i]
  <2>1. /\ Append(k, "=") \in Seq(Code \cup {"="}) /\ Len(Append(k, "=")) = Len(k) + 1
        /\ \A i \in 1..Len(k) : Append(k, "=")[i] = k[i]
        /\ Append(k, "=")[Len(k) + 1] = "="
    BY <1>4, AppendProperties
  <2> QED BY <1>3, <2>1
<1>6. PICK run \in Seq(Code \cup {"="}) :
         /\ run = EncodedField(p) /\ Len(run) = m + 1 + n
         /\ \A i \in 1..m + 1 + n : run[i] = IF i <= m + 1 THEN a[i] ELSE v[i - (m + 1)]
  <2>1. /\ a \o v \in Seq(Code \cup {"="}) /\ Len(a \o v) = Len(a) + Len(v)
        /\ \A i \in 1..Len(a) + Len(v) :
              (a \o v)[i] = IF i <= Len(a) THEN a[i] ELSE v[i - Len(a)]
    BY <1>4, ConcatProperties
  <2>2. a \o v = EncodedField(p)
    BY <1>2, <1>5 DEF EncodedField
  <2>3. /\ Len(a \o v) = m + 1 + n
        /\ \A i \in 1..m + 1 + n : (a \o v)[i] = IF i <= m + 1 THEN a[i] ELSE v[i - (m + 1)]
    BY <1>3, <1>5, <2>1
  <2> QED BY <2>1, <2>2, <2>3
<1>7. /\ \A i \in 1..m : run[i] = k[i] /\ k[i] # "="
      /\ run[m + 1] = "="
      /\ \A i \in 1..n : run[m + 1 + i] = v[i] /\ v[i] # "="
  <2>1. \A i \in 1..m : i \in 1..m + 1 + n /\ i <= m + 1 /\ k[i] \in Code
    BY <1>3, ElementOfSeq
  <2>2. m + 1 \in 1..m + 1 + n
    OBVIOUS
  <2>3. \A i \in 1..n : /\ m + 1 + i \in 1..m + 1 + n /\ ~(m + 1 + i <= m + 1)
                        /\ (m + 1 + i) - (m + 1) = i
    OBVIOUS
  <2>4. \A i \in 1..n : v[i] \in Code
    BY <1>3, ElementOfSeq
  <2>5. \A i \in 1..m : run[i] = k[i]
    BY <1>5, <1>6, <2>1
  <2>6. run[m + 1] = "="
    BY <1>5, <1>6, <2>2
  <2>7. \A i \in 1..n : run[m + 1 + i] = v[i]
    BY <1>6, <2>3
  <2> QED BY <2>1, <2>4, <2>5, <2>6, <2>7 DEF Code
<1> DEFINE eqs == {i \in 2..Len(run) : run[i] = "="}
<1>8. eqs = {m + 1}
  <2>1. m + 1 \in 2..Len(run)
    BY <1>3, <1>6
  <2>2. ASSUME NEW i \in 2..Len(run), run[i] = "=" PROVE i = m + 1
    <3>1. i \notin 1..m
      BY <1>7, <2>2
    <3>2. i > m + 1 => i - (m + 1) \in 1..n /\ m + 1 + (i - (m + 1)) = i
      BY <1>6
    <3>3. ~(i > m + 1)
      BY <1>7, <2>2, <3>2
    <3> QED BY <1>6, <3>1, <3>3
  <2> QED BY <1>7, <2>1, <2>2
<1>9. Max(eqs) = m + 1
  <2>1. eqs \in SUBSET (1..Len(run)) /\ eqs # {} /\ Len(run) \in Nat
    BY <1>6, <1>8
  <2>2. Max(eqs) \in eqs
    <3> HIDE DEF eqs
    <3> QED BY <2>1, MaxOf
  <2> QED BY <1>8, <2>2
<1>10. Arg(run) = [key |-> SubSeq(run, 1, (m + 1) - 1), value |-> SubSeq(run, m + 1 + 1, Len(run)),
                   only |-> FALSE]
  <2>1. eqs # {}
    BY <1>8
  <2> QED BY <1>9, <2>1 DEF Arg
<1>11. SubSeq(run, 1, (m + 1) - 1) = k
  <2>1. (m + 1) - 1 = m /\ m - 1 + 1 = m /\ 1 <= m /\ m \in Int
    BY <1>3
  <2>2. \A i \in 1..m : run[i] \in Code \cup {"="} /\ 1 + i - 1 = i
    <3>1. \A i \in 1..m : i \in 1..Len(run) /\ 1 + i - 1 = i
      BY <1>6
    <3> QED BY <3>1, ElementOfSeq
  <2>3. /\ SubSeq(run, 1, m) \in Seq(Code \cup {"="})
        /\ Len(SubSeq(run, 1, m)) = IF 1 <= m THEN m - 1 + 1 ELSE 0
        /\ \A i \in 1..m - 1 + 1 : SubSeq(run, 1, m)[i] = run[1 + i - 1]
    BY <2>1, <2>2, SubSeqProperties
  <2>4. Len(SubSeq(run, 1, m)) = m /\ \A i \in 1..m : SubSeq(run, 1, m)[i] = k[i]
    BY <1>7, <2>1, <2>2, <2>3
  <2>5. SubSeq(run, 1, m) = k
    BY <1>3, <1>4, <2>3, <2>4, SeqEqual
  <2> QED BY <2>1, <2>5
<1>12. SubSeq(run, m + 1 + 1, Len(run)) = v
  <2>1. /\ Len(SubSeq(run, m + 2, m + 1 + n)) = n
        /\ SubSeq(run, m + 2, m + 1 + n) \in Seq(Code \cup {"="})
        /\ \A i \in 1..n : SubSeq(run, m + 2, m + 1 + n)[i] = run[m + 1 + i]
    <3>1. \A i \in m + 2..m + 1 + n : run[i] \in Code \cup {"="}
      <4>1. \A i \in m + 2..m + 1 + n : i \in 1..Len(run)
        BY <1>6
      <4> QED BY <4>1, ElementOfSeq
    <3>2. m + 2 \in Int /\ m + 1 + n \in Int /\ (m + 1 + n) - (m + 2) + 1 = n
      OBVIOUS
    <3>3. /\ SubSeq(run, m + 2, m + 1 + n) \in Seq(Code \cup {"="})
          /\ Len(SubSeq(run, m + 2, m + 1 + n)) =
                IF m + 2 <= m + 1 + n THEN (m + 1 + n) - (m + 2) + 1 ELSE 0
          /\ \A i \in 1..(m + 1 + n) - (m + 2) + 1 :
                SubSeq(run, m + 2, m + 1 + n)[i] = run[m + 2 + i - 1]
      <4>1. PICK lo \in Int, hi \in Int : lo = m + 2 /\ hi = m + 1 + n
        BY <3>2
      <4>2. \A i \in lo..hi : run[i] \in Code \cup {"="}
        BY <3>1, <4>1, Zenon
      <4>3. /\ SubSeq(run, lo, hi) \in Seq(Code \cup {"="})
            /\ Len(SubSeq(run, lo, hi)) = IF lo <= hi THEN hi - lo + 1 ELSE 0
            /\ \A i \in 1..hi - lo + 1 : SubSeq(run, lo, hi)[i] = run[lo + i - 1]
        BY <4>2, SubSeqProperties
      <4> QED BY <4>1, <4>3, Zenon
    <3>4. (IF m + 2 <= m + 1 + n THEN n ELSE 0) = n
      OBVIOUS
    <3>5. \A i \in 1..n : m + 2 + i - 1 = m + 1 + i
      OBVIOUS
    <3> QED BY <3>2, <3>3, <3>4, <3>5
  <2>2. \A i \in 1..n : SubSeq(run, m + 2, m + 1 + n)[i] = v[i]
    BY <1>7, <2>1
  <2>3. SubSeq(run, m + 2, m + 1 + n) = v
    BY <1>3, <1>4, <2>1, <2>2, SeqEqual
  <2>4. m + 1 + 1 = m + 2
    OBVIOUS
  <2> QED BY <1>6, <2>3, <2>4
<1>13. run # <<>>
  <2>1. Len(run) # 0
    BY <1>6
  <2> QED BY <2>1, EmptySeq
<1>14. Arg(run) = [key |-> k, value |-> v, only |-> FALSE]
  BY <1>10, <1>11, <1>12, Zenon
<1> QED BY <1>2, <1>6, <1>13, <1>14

\* Concatenation under a name of its own, which keeps its law first-order.
Cat(a, b) == a \o b

LEMMA CatAssociative ==
    ASSUME NEW S, NEW a \in Seq(S), NEW b \in Seq(S), NEW c \in Seq(S)
    PROVE  Cat(Cat(a, b), c) = Cat(a, Cat(b, c))
BY ConcatAssociative DEF Cat

\* The runs of a form are its fields.
LEMMA FormOf ==
    \A f \in Seq(Field) :
       /\ EncodedForm(f) \in Seq(Token)
       /\ Runs(EncodedForm(f)) = [i \in 1..Len(f) |-> EncodedField(f[i])]
<1> DEFINE Bit(i, p) == IF i = 1 THEN EncodedField(p) ELSE <<"&">> \o EncodedField(p)
           Bits(f) == [i \in DOMAIN f |-> Bit(i, f[i])]
           T == {f \in Seq(Field) :
                   /\ EncodedForm(f) \in Seq(Token)
                   /\ Runs(EncodedForm(f)) = [i \in 1..Len(f) |-> EncodedField(f[i])]}
<1>1. \A f : EncodedForm(f) = FlattenSeq(Bits(f))
  BY DEF EncodedForm
<1>2. <<"&">> \in Seq(Token) /\ "&" \in Token /\ "&" \in Separators /\ Code \cup {"="} \subseteq Token
  <2>1. "&" \in Token /\ "&" \in Separators
    BY DEF Token, Separators
  <2> QED BY <2>1, OneElement DEF Token
<1>3. \A p \in Field, i \in Nat : EncodedField(p) \in Seq(Token) /\ Bit(i, p) \in Seq(Token)
  <2> SUFFICES ASSUME NEW p \in Field, NEW i \in Nat
               PROVE  EncodedField(p) \in Seq(Token) /\ Bit(i, p) \in Seq(Token)
    OBVIOUS
  <2>1. EncodedField(p) \in Seq(Token)
    BY <1>2, EncodedFieldOf, SeqMonotonic
  <2>2. <<"&">> \o EncodedField(p) \in Seq(Token)
    BY <1>2, <2>1, ConcatProperties
  <2> QED BY <2>1, <2>2
<1>4. <<>> \in T
  <2>1. Bits(<<>>) = <<>>
    OBVIOUS
  <2>2. EncodedForm(<<>>) = <<>>
    <3> HIDE DEF Bits
    <3> QED BY <1>1, <2>1, FlattenEmpty
  <2>3. [i \in 1..Len(<<>>) |-> EncodedField(<<>>[i])] = <<>>
    <3>1. Len(<<>>) = 0
      BY EmptySeq
    <3> QED BY <3>1
  <2> QED BY <2>2, <2>3, RunsEmpty, EmptySeq
<1>5. ASSUME NEW f \in Seq(Field), NEW p \in Field, f \in T PROVE Append(f, p) \in T
  <2>1. PICK n \in Nat : n = Len(f) /\ DOMAIN f = 1..n
    BY LenProperties
  <2>2. PICK more \in Seq(Field) :
           /\ more = Append(f, p) /\ Len(more) = n + 1 /\ DOMAIN more = 1..n + 1
           /\ more[n + 1] = p /\ \A i \in 1..n : more[i] = f[i]
    <3>1. /\ Append(f, p) \in Seq(Field) /\ Len(Append(f, p)) = n + 1
          /\ Append(f, p)[n + 1] = p /\ \A i \in 1..n : Append(f, p)[i] = f[i]
      BY <2>1, AppendProperties
    <3> QED BY <3>1, LenProperties
  <2>3. PICK body \in Seq(Token) :
           /\ body = EncodedForm(f) /\ Runs(body) = [i \in 1..n |-> EncodedField(f[i])]
    BY <1>5, <2>1
  <2>4. \A i \in 1..n : f[i] \in Field /\ i \in Nat
    BY <2>1, ElementOfSeq
  <2>5. PICK bits \in Seq(Seq(Token)) : bits = Bits(f) /\ Len(bits) = n /\ body = FlattenSeq(bits)
    <3>1. Bits(f) = [i \in 1..n |-> Bit(i, f[i])]
      BY <2>1
    <3> HIDE DEF Bit
    <3>2. Bits(f) \in [1..n -> Seq(Token)]
      BY <1>3, <2>4, <3>1
    <3>3. body = FlattenSeq(Bits(f))
      BY <1>1, <2>3
    <3> HIDE DEF Bits
    <3>4. Bits(f) \in Seq(Seq(Token)) /\ Len(Bits(f)) = n
      BY <3>2
    <3> QED BY <3>3, <3>4
  <2>6. PICK bit \in Seq(Token) : bit = Bit(n + 1, p)
    <3>1. n + 1 \in Nat
      OBVIOUS
    <3> HIDE DEF Bit
    <3> QED BY <1>3, <3>1
  <2>7. Bits(more) = Append(bits, bit)
    <3> HIDE DEF Bit
    <3>1. Bits(more) = [i \in 1..n + 1 |-> Bit(i, more[i])] /\ bits = [i \in 1..n |-> Bit(i, f[i])]
      BY <2>1, <2>2, <2>5
    <3> HIDE DEF Bits
    <3>2. n + 1 \in 1..n + 1 /\ \A i \in 1..n : i \in 1..n + 1
      OBVIOUS
    <3>3. /\ DOMAIN Bits(more) = 1..n + 1 /\ Bits(more)[n + 1] = bit
          /\ \A i \in 1..n : Bits(more)[i] = bits[i]
      BY <2>2, <2>6, <3>1, <3>2
    <3>4. Bits(more) = [i \in DOMAIN Bits(more) |-> Bits(more)[i]]
      BY <3>1
    <3> QED BY <2>5, <3>3, <3>4, OneMore
  <2>8. EncodedForm(more) = body \o bit
    <3>1. EncodedForm(more) = FlattenSeq(Append(bits, bit))
      <4> HIDE DEF Bits
      <4> QED BY <1>1, <2>7
    <3> QED BY <2>5, <3>1, FlattenAppend
  <2>9. PICK e \in Seq(Token) : e = EncodedField(p) /\ e \in Seq(Token \ Separators) /\ e # <<>>
    <3>1. Code \cup {"="} \subseteq Token \ Separators
      BY DEF Token, Code, Separators
    <3>2. EncodedField(p) \in Seq(Token \ Separators)
      BY <3>1, EncodedFieldOf, SeqMonotonic
    <3> QED BY <1>3, <3>2, EncodedFieldOf
  <2>10. PICK before \in Seq(Token) : /\ before = <<>> \/ Last(before) \in Separators
                                      /\ Runs(before) = Runs(body)
                                      /\ body \o bit = before \o e
    <3>1. CASE n = 0
      <4>1. bits = <<>>
        BY <2>5, <3>1, EmptySeq
      <4>2. body = <<>>
        BY <2>5, <4>1, FlattenEmpty
      <4>3. bit = e
        BY <2>6, <2>9, <3>1
      <4> QED BY <4>2, <4>3
    <3>2. CASE n # 0
      <4>1. n + 1 # 1
        BY <3>2
      <4>2. bit = <<"&">> \o e
        BY <2>6, <2>9, <4>1
      <4>3. PICK b \in Seq(Token) : b = Append(body, "&") /\ Last(b) = "&"
        <5>1. PICK t \in Token : t = "&"
          BY <1>2
        <5>2. Append(body, t) \in Seq(Token) /\ Last(Append(body, t)) = t
          BY AppendProperties, FrontAppend
        <5> QED BY <5>1, <5>2, Zenon
      <4>4. b = body \o <<"&">>
        BY <1>2, <4>3, AppendIsConcat
      <4>5. body \o bit = b \o e
        <5>1. PICK d \in Seq(Token) : d = <<"&">>
          BY <1>2
        <5>2. body \o (d \o e) = (body \o d) \o e
          <6>1. Cat(Cat(body, d), e) = Cat(body, Cat(d, e))
            BY CatAssociative
          <6> QED BY <6>1 DEF Cat
        <5> QED BY ONLY <4>2, <4>4, <5>1, <5>2
      <4>6. Runs(b) = Runs(body)
        BY <1>2, <4>3, RunsAppend
      <4> QED BY <1>2, <4>3, <4>5, <4>6
    <3> QED BY <3>1, <3>2
  <2>11. Runs(EncodedForm(more)) = Append(Runs(body), e)
    <3>1. Runs(before \o e) = Append(Runs(before), e)
      BY <2>9, <2>10, RunsOfRun
    <3> QED BY <2>8, <2>10, <3>1
  <2>12. Runs(EncodedForm(more)) = [i \in 1..n + 1 |-> EncodedField(more[i])]
    <3> DEFINE runs == [i \in 1..n + 1 |-> EncodedField(more[i])]
               old  == [i \in 1..n |-> EncodedField(f[i])]
    <3>1. old \in Seq(Seq(Token)) /\ Len(old) = n
      <4>1. old \in [1..n -> Seq(Token)]
        BY <1>3, <2>4
      <4> HIDE DEF old
      <4> QED BY <4>1
    <3>2. /\ DOMAIN runs = 1..n + 1 /\ runs = [i \in DOMAIN runs |-> runs[i]]
          /\ runs[n + 1] = e /\ \A i \in 1..n : runs[i] = old[i]
      <4>1. n + 1 \in 1..n + 1 /\ \A i \in 1..n : i \in 1..n + 1
        OBVIOUS
      <4>2. DOMAIN runs = 1..n + 1 /\ runs = [i \in DOMAIN runs |-> runs[i]]
        OBVIOUS
      <4>3. runs[n + 1] = e
        BY <2>2, <2>9, <4>1
      <4>4. \A i \in 1..n : runs[i] = old[i]
        BY <2>2, <4>1
      <4> QED BY <4>2, <4>3, <4>4
    <3> HIDE DEF runs, old
    <3>3. runs = Append(old, e)
      BY <3>1, <3>2, OneMore
    <3> QED BY <2>3, <2>11, <3>3 DEF runs, old
  <2>13. EncodedForm(more) \in Seq(Token)
    BY <2>8, ConcatProperties
  <2> QED BY <2>2, <2>12, <2>13
<1>6. \A f \in Seq(Field) : f \in T
  <2> HIDE DEF T
  <2> QED BY <1>4, <1>5, AllSeqs
<1> QED BY <1>6

\* A sequence put together of its elements is the sequence.
LEMMA Singles ==
    ASSUME NEW S
    PROVE  \A s \in Seq(S) : FlattenSeq([i \in DOMAIN s |-> <<s[i]>>]) = s
<1> DEFINE Ones(s) == [i \in DOMAIN s |-> <<s[i]>>]
           T == {s \in Seq(S) : FlattenSeq(Ones(s)) = s}
<1>1. <<>> \in T
  <2>1. Ones(<<>>) = <<>>
    OBVIOUS
  <2> HIDE DEF Ones
  <2> QED BY <2>1, FlattenEmpty, EmptySeq
<1>2. ASSUME NEW s \in Seq(S), NEW x \in S, s \in T PROVE Append(s, x) \in T
  <2>1. PICK n \in Nat : n = Len(s) /\ DOMAIN s = 1..n
    BY LenProperties
  <2>2. PICK more \in Seq(S) :
           /\ more = Append(s, x) /\ DOMAIN more = 1..n + 1
           /\ more[n + 1] = x /\ \A i \in 1..n : more[i] = s[i]
    <3>1. /\ Append(s, x) \in Seq(S) /\ Len(Append(s, x)) = n + 1
          /\ Append(s, x)[n + 1] = x /\ \A i \in 1..n : Append(s, x)[i] = s[i]
      BY <2>1, AppendProperties
    <3> QED BY <3>1, LenProperties
  <2>3. PICK ones \in Seq(Seq(S)) : ones = Ones(s) /\ Len(ones) = n
    <3>1. \A i \in 1..n : <<s[i]>> \in Seq(S)
      <4>1. \A i \in 1..n : s[i] \in S
        BY <2>1, ElementOfSeq
      <4> QED BY <4>1, OneElement
    <3>2. Ones(s) \in [1..n -> Seq(S)]
      BY <2>1, <3>1
    <3> HIDE DEF Ones
    <3> QED BY <3>2
  <2>4. Ones(more) = Append(ones, <<x>>)
    <3>1. Ones(more) = [i \in 1..n + 1 |-> <<more[i]>>] /\ ones = [i \in 1..n |-> <<s[i]>>]
      BY <2>1, <2>2, <2>3
    <3>2. n + 1 \in 1..n + 1 /\ \A i \in 1..n : i \in 1..n + 1
      OBVIOUS
    <3> HIDE DEF Ones
    <3>3. /\ DOMAIN Ones(more) = 1..n + 1 /\ Ones(more)[n + 1] = <<x>>
          /\ \A i \in 1..n : Ones(more)[i] = ones[i]
      BY <2>2, <3>1, <3>2
    <3>4. Ones(more) = [i \in DOMAIN Ones(more) |-> Ones(more)[i]]
      BY <3>1
    <3>5. <<x>> \in Seq(S)
      BY OneElement
    <3> QED BY <2>3, <3>3, <3>4, <3>5, OneMore
  <2>5. FlattenSeq(Ones(more)) = s \o <<x>>
    <3>1. FlattenSeq(ones) = s
      BY <1>2, <2>3
    <3>2. <<x>> \in Seq(S)
      BY OneElement
    <3> HIDE DEF Ones
    <3> QED BY <2>3, <2>4, <3>1, <3>2, FlattenAppend
  <2>6. more = s \o <<x>>
    BY <2>2, AppendIsConcat
  <2> QED BY <2>2, <2>5, <2>6
<1>3. \A s \in Seq(S) : s \in T
  <2> HIDE DEF T
  <2> QED BY <1>1, <1>2, AllSeqs
<1> QED BY <1>3

\* What the hosts read from an encoded form is the form.
LEMMA FieldsRead ==
    ASSUME NEW f \in FormsSent
    PROVE  FieldsOf[f] = EmplaceAll({}, f)
<1>1. f \in Seq(Field)
  BY FormsAssumption DEF FormType, Field, Char
<1>2. PICK n \in Nat : n = Len(f) /\ DOMAIN f = 1..n
  BY <1>1, LenProperties
<1>3. \A i \in 1..n : f[i] \in Field
  BY <1>1, <1>2, ElementOfSeq
<1>4. PICK body : body = EncodedForm(f) /\ Runs(body) = [i \in 1..n |-> EncodedField(f[i])]
  BY <1>1, <1>2, FormOf
<1>5. Args(body) = [i \in 1..n |-> Arg(EncodedField(f[i]))]
  BY <1>4 DEF Args
<1>6. PICK args : args = decode_uri_args(body)
  OBVIOUS
<1>7. /\ DOMAIN args = 1..n
      /\ \A i \in 1..n : args[i].key = f[i][1] /\ args[i].value = f[i][2] /\ args[i].only = FALSE
  <2>1. args = [i \in 1..n |-> [key |-> decode_str(Args(body)[i].key),
                                value |-> decode_str(Args(body)[i].value),
                                only |-> Args(body)[i].only]]
    BY <1>5, <1>6 DEF decode_uri_args
  <2>2. ASSUME NEW i \in 1..n
        PROVE  args[i].key = f[i][1] /\ args[i].value = f[i][2] /\ args[i].only = FALSE
    <3>1. PICK k, v : k = f[i][1] /\ v = f[i][2] /\ k \in Seq(Char) /\ v \in Seq(Char)
      BY <1>3 DEF Field
    <3>2. Args(body)[i] = [key |-> Encode(k), value |-> Encode(v), only |-> FALSE]
      BY <1>3, <1>5, <3>1, EncodedFieldOf
    <3>3. decode_str(Encode(k)) = k /\ decode_str(Encode(v)) = v
      BY <3>1, EncodeOf
    <3>4. PICK only : only = FALSE
      OBVIOUS
    <3>5. args[i] = [key |-> decode_str(Args(body)[i].key),
                     value |-> decode_str(Args(body)[i].value), only |-> Args(body)[i].only]
      BY <2>1
    <3>6. /\ Args(body)[i].key = Encode(k) /\ Args(body)[i].value = Encode(v)
          /\ Args(body)[i].only = only
      <4>1. [key |-> Encode(k), value |-> Encode(v), only |-> FALSE].only = FALSE
        BY Zenon
      <4>2. Args(body)[i].only = only
        BY <3>2, <3>4, <4>1, Zenon
      <4>3. Args(body)[i].key = Encode(k) /\ Args(body)[i].value = Encode(v)
        BY <3>2
      <4> QED BY <4>2, <4>3
    <3>7. args[i] = [key |-> k, value |-> v, only |-> only]
      BY <3>3, <3>5, <3>6, Zenon
    <3>8. args[i].key = k /\ args[i].value = v /\ args[i].only = only
      BY <3>7
    <3> QED BY <3>1, <3>4, <3>8, Zenon
  <2> QED BY <2>1, <2>2
<1>8. [i \in DOMAIN args |-> IF args[i].only THEN <<>> ELSE <<<<args[i].key, args[i].value>>>>]
         = [i \in DOMAIN f |-> <<f[i]>>]
  <2>1. \A i \in 1..n : <<args[i].key, args[i].value>> = f[i]
    BY <1>3, <1>7 DEF Field
  <2>2. \A i \in 1..n : (IF args[i].only THEN <<>> ELSE <<<<args[i].key, args[i].value>>>>) = <<f[i]>>
    BY <1>7, <2>1, Zenon
  <2> QED BY <1>2, <1>7, <2>2
<1>9. FlattenSeq([i \in DOMAIN f |-> <<f[i]>>]) = f
  BY <1>1, Singles
<1> QED BY <1>4, <1>6, <1>8, <1>9, Zenon DEF FieldsOf

-----------------------------------------------------------------------------
(* The theorems *)

\* No line has been read.
LEMMA InitInv == Init => IInv
<1> SUFFICES ASSUME Init PROVE IInv
  OBVIOUS
<1>1. /\ request.method = "unknown" /\ request.version = "unknown" /\ request.keep_alive = FALSE
      /\ request.port = 80 /\ request.content_length = 0
      /\ request.uri = <<>> /\ request.path = <<>> /\ DOMAIN request = DOMAIN Fresh
  BY DEF Init, Fresh, default_port
<1>2. start = <<>> /\ headers = <<>> /\ stage = "idle" /\ error = "none" /\ count = 0
  BY DEF Init
<1>3. /\ <<>> \in Seq(StartType) /\ <<>> \in Seq(HeaderType) /\ <<>> \in Seq(STRING)
      /\ Len(start) = 0 /\ Len(headers) = 0 /\ MaxHeaders \in Nat /\ MaxRequests \in Nat
  BY <1>2, RequestParserAssumption
<1>4. TypeOK /\ FieldsInv
  <2>a. request.keep_alive \in BOOLEAN
    BY <1>1, Zenon
  <2>b. request.port \in Nat /\ request.content_length \in Nat
    BY <1>1
  <2>1. request.keep_alive \in BOOLEAN /\ request.port \in Nat /\ request.content_length \in Nat
    BY <2>a, <2>b
  <2>2. request.uri \in Seq(STRING) /\ request.path \in Seq(STRING)
    BY <1>1, <1>3
  <2>3. Len(start) <= 1 /\ Len(headers) <= MaxHeaders + 1 /\ count \in 0..MaxRequests
    BY <1>2, <1>3
  <2>4. TypeOK
    BY <1>1, <1>2, <2>1, <2>2, <2>3 DEF TypeOK
  <2> QED BY <1>1, <1>2, <1>3, <2>4 DEF FieldsInv
<1>5. LinesInv /\ CauseInv
  BY <1>1, <1>2 DEF LinesInv, CauseInv
<1> QED BY <1>4, <1>5 DEF IInv

\* Every line preserves the invariant.
LEMMA StepInv == IInv /\ [Next]_vars => IInv'
<1> SUFFICES ASSUME IInv, [Next]_vars PROVE IInv'
  OBVIOUS
<1>1. CASE UNCHANGED vars
  <2>1. UNCHANGED <<request, stage, error, start, headers, count>>
    BY <1>1 DEF vars
  <2>2. TypeOK' /\ FieldsInv'
    BY <2>1 DEF IInv, TypeOK, FieldsInv
  <2>3. LinesInv' /\ CauseInv'
    BY <2>1 DEF IInv, LinesInv, CauseInv
  <2> QED BY <2>2, <2>3 DEF IInv
<1> QED BY <1>1, NewRequestStep, StartStep, HeaderStep, UriStep, FormStep DEF Next

\* Whatever lines come, the request object agrees with them.
THEOREM Invariant == Spec => []IInv
BY InitInv, StepInv, PTL DEF Spec

\* The fields of a request have their types, whatever the lines.
THEOREM TypeCorrect == Spec => []TypeOK
BY Invariant, PTL DEF IInv

\* A request is refused for its first bad line, and one without a bad line only for
\* its URI or a body it may not have: for any lines, and any number of them.
THEOREM RefusalSafe == Spec => []RefusedForCause
<1>1. IInv => RefusedForCause
  <2> SUFFICES ASSUME IInv, stage \notin {"idle", "start"} PROVE RefusedForCause
    BY DEF RefusedForCause
  <2>1. headers \in Seq(HeaderType) /\ Len(headers) \in Nat /\ DOMAIN headers = 1..Len(headers)
    BY DEF IInv, FieldsInv
  <2>2. \A i \in 1..Len(headers) - 1 :
           headers[i].kind = "header" /\ (headers[i].name \in Processors => headers[i].value_ok)
    BY <2>1 DEF IInv, LinesInv, Bad
  <2>3. (error = "incorrect_header_string") =
           (headers # <<>> /\ LET l == Last(headers) IN
               l.kind = "bad" \/ (l.kind = "header" /\ l.name \in Processors /\ ~l.value_ok))
    <3>1. (error = "incorrect_header_string") = (headers # <<>> /\ Bad(Last(headers)))
      <4>1. CASE stage = "failed"
        BY <4>1 DEF IInv, CauseInv
      <4>2. CASE stage # "failed"
        <5>1. error = "none" /\ stage \in {"headers", "uri", "done", "answered"}
          BY <4>2 DEF IInv, CauseInv, TypeOK
        <5>2. headers # <<>> => ~Bad(Last(headers))
          <6>1. CASE stage = "headers" /\ headers # <<>>
            <7>1. Len(headers) \in DOMAIN headers
              BY <2>1, <6>1
            <7> QED BY <6>1, <7>1 DEF IInv, LinesInv, Last
          <6>2. CASE stage # "headers"
            BY <5>1, <6>2 DEF IInv, LinesInv, Bad
          <6> QED BY <6>1, <6>2
        <5> QED BY <5>1, <5>2
      <4> QED BY <4>1, <4>2
    <3> QED BY <3>1 DEF Bad
  <2>4. headers # <<>> =>
           start[1].proper /\ start[1].protocol = "HTTP" /\ start[1].version = "1.1"
    BY DEF IInv, LinesInv
  <2>5. error = "content_length_must_be_0" =>
           /\ request.method # "POST"
           /\ \E i \in DOMAIN headers : headers[i].name = "Content-Length"
    BY DEF IInv, CauseInv
  <2>6. error = "std_exception" =>
           /\ request.method = "POST"
           /\ \E i \in DOMAIN headers :
                 headers[i].name = "Content-Length" /\ headers[i].number > BodyLimit
    <3>1. error = "std_exception" =>
             request.method = "POST" /\ request.content_length > BodyLimit /\ request.content_length > 0
      BY RequestParserAssumption DEF IInv, CauseInv, TypeOK
    <3> QED BY <3>1 DEF IInv, CauseInv
  <2>7. stage \in {"done", "answered"} => request.content_length <= BodyLimit
    BY DEF IInv, CauseInv
  <2> QED BY <2>2, <2>3, <2>4, <2>5, <2>6, <2>7 DEF RefusedForCause
<1> QED BY Invariant, <1>1, PTL

\* What a request says is said by its own lines and by nothing an earlier request of
\* the connection left behind: for any lines, in any order and number.
THEOREM OwnSafe == Spec => []ParsedIsOwn
<1>1. Init => OwnInv
  BY DEF Init, OwnInv
<1>2. IInv /\ OwnInv => ParsedIsOwn
  <2> SUFFICES ASSUME IInv, OwnInv, stage \in {"done", "answered"} PROVE ParsedIsOwn
    BY DEF ParsedIsOwn
  <2>1. /\ request.method = str_to_method(start[1].method) /\ request.uri = start[1].uri
        /\ OwnFields(request, headers)
        /\ Len(request.parsed_headers) + Len(request.unparsed_headers) = Len(headers) - 1
    BY DEF OwnInv
  <2>2. Ports(headers) = {i \in Named(headers, "Host") : headers[i].with_port}
    BY DEF Ports
  <2> QED BY <2>1, <2>2, Zenon DEF ParsedIsOwn, OwnFields
<1> QED BY Invariant, OwnStep, <1>1, <1>2, PTL DEF Spec

\* Nothing of a URI is lost but separators: for any URI.
THEOREM ArgsSafe == Spec => []ArgsComplete
<1>1. Init => ArgsComplete
  BY DEF Init, ArgsComplete
<1>2. IInv /\ ArgsComplete /\ [Next]_vars => ArgsComplete'
  <2> SUFFICES ASSUME IInv, ArgsComplete, [Next]_vars, stage' = "done" PROVE ArgsComplete'
    BY DEF ArgsComplete
  <2>1. CASE UNCHANGED vars
    BY <2>1 DEF vars, ArgsComplete
  <2>2. CASE ProcessUri
    <3>1. /\ request' = process_uri(request) /\ process_uri(request).path # <<>>
          /\ request.uri \in Seq(STRING) /\ DOMAIN request = DOMAIN Fresh
      BY <2>2 DEF ProcessUri, Throw, IInv, FieldsInv, TypeOK
    <3>2. PICK q : q = process_uri(request) /\ Whole(q)
      BY <3>1, UriTaken
    <3>3. request' = q
      BY <3>1, <3>2
    <3> QED BY <3>2, <3>3, Zenon DEF ArgsComplete, Whole
  <2>3. stage' # "done" \/ UNCHANGED vars \/ ProcessUri
    BY DEF Next, process_stream, process_start_string, process_header_string, ReadForm, Throw,
           IInv, LinesInv
  <2> QED BY <2>1, <2>2, <2>3
<1> QED BY Invariant, <1>1, <1>2, PTL DEF Spec

\* What a browser encodes, the hosts decode: for any form with named fields.
THEOREM FormSafe == Spec => []FormRoundTrip
<1>1. Init => FormRoundTrip
  BY DEF Init, FormRoundTrip
<1>2. FormRoundTrip /\ [Next]_vars => FormRoundTrip'
  <2> SUFFICES ASSUME FormRoundTrip, [Next]_vars, stage' = "answered" PROVE FormRoundTrip'
    BY DEF FormRoundTrip
  <2>1. CASE UNCHANGED vars
    BY <2>1 DEF vars, FormRoundTrip
  <2>2. CASE ReadForm
    BY <2>2, FieldsRead DEF ReadForm, FormRoundTrip
  <2>3. UNCHANGED vars \/ ReadForm
    BY DEF Next, process_stream, process_start_string, process_header_string, ProcessUri, Throw
  <2> QED BY <2>1, <2>2, <2>3
<1> QED BY <1>1, <1>2, PTL DEF Spec
=============================================================================
