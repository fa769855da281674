--------------------------- MODULE RequestParser ---------------------------
(***************************************************************************)
(* http::request: what the lines of a request make of the object that all  *)
(* requests of a connection share, and http::decode_uri_args, with which   *)
(* the hosts read a form.  Connection frames the byte stream; here it has  *)
(* been cut into lines, and a line is what the regular expressions of the  *)
(* parser tell of it.  Text that is taken apart or decoded (the URI and    *)
(* the form) is a sequence of tokens: characters that stand for themselves *)
(* and escapes "%XX".                                                      *)
(*                                                                         *)
(* process_stream is one handler; a step here is one line of its loop.     *)
(***************************************************************************)
EXTENDS Integers, SequencesExt

CONSTANTS
    StartLines,  \* start lines a client may send
    HeaderLines, \* header lines, the blank one among them
    FormsSent,   \* forms, as sequences of a key and a value
    BodyLimit,   \* the largest body std::string::resize can provide
    MaxHeaders,  \* bound: header lines of a request
    MaxRequests  \* bound: requests on the connection

\* proper: the line matches the regular expression of its kind.
StartType  == [proper : BOOLEAN, method : STRING, protocol : STRING, version : STRING,
               uri : Seq(STRING)]
\* number: the length ("-1" is 2^64 - 1 to lexical_cast), or the port if the host
\* comes with_port; text: the host or the connection; value_ok: the number is one
\* that lexical_cast takes, the host matches.
HeaderType == [kind : {"header", "blank", "bad"}, name : STRING, value_ok : BOOLEAN,
               number : Nat, with_port : BOOLEAN, text : STRING, cookies : Seq(STRING \X STRING)]

ASSUME RequestParserAssumption ==
    /\ StartLines \subseteq StartType /\ HeaderLines \subseteq HeaderType
    /\ {BodyLimit, MaxHeaders, MaxRequests} \subseteq Nat

VARIABLES
    request, \* the fields of http::request
    stage,   \* what process_stream reads next, or how it ended
    error,   \* the exception it ended with
    start,   \* history: the start line of this request, ...
    headers, \* ... and its header lines
    count,   \* requests so far
    form,    \* history: the form the body holds
    fields   \* what the host reads from it: pairs of key and value

vars == <<request, stage, error, start, headers, count, form, fields>>

-----------------------------------------------------------------------------
(* http.cpp *)

default_port == 80
\* Mutant of str_to_method: what is not known is passed on.
str_to_method_raw(s) == s

str_to_method(s) == IF s \in {"GET", "HEAD", "POST", "DELETE"} THEN s ELSE "unknown"
str_to_version(s) == IF s = "1.1" THEN "v_1_1" ELSE "unknown"

-----------------------------------------------------------------------------
(* http/utils: forms and arguments *)

\* "%XX": the character with this code.
Escaped ==
    [e \in {"%61", "%3D", "%26", "%3F", "%2B", "%25", "%20"} |->
        CASE e = "%61" -> "a" [] e = "%3D" -> "=" [] e = "%26" -> "&" [] e = "%3F" -> "?"
          [] e = "%2B" -> "+" [] e = "%25" -> "%" [] e = "%20" -> " "]
Unescape(t) == IF t \in DOMAIN Escaped THEN Escaped[t] ELSE t
Space(t)    == IF t = "+" THEN " " ELSE t

\* Mutant of decode_str: the two steps swapped.
decode_str_swapped(s) == [i \in DOMAIN s |-> Space(Unescape(s[i]))]

\* Step 1: '+' is a space; step 2: escapes.
decode_str(s) == [i \in DOMAIN s |-> Unescape(Space(s[i]))]

\* The maximal runs without a separator, in order: a token ends a run, lengthens it or
\* begins one.
Separators == {"&", "?"}
Runs(s) ==
    LET runs[i \in 0..Len(s)] ==
            IF i = 0 THEN <<>>
            ELSE LET old == runs[i - 1] IN
                 IF s[i] \in Separators THEN old
                 ELSE IF i > 1 /\ s[i - 1] \notin Separators
                      THEN Append(Front(old), Append(Last(old), s[i]))
                      ELSE Append(old, <<s[i]>>)
    IN  runs[Len(s)]

\* Mutant of Arg: a key need not be there.
Arg_no_key(run) ==
    LET eqs == {k \in DOMAIN run : run[k] = "="} IN
    IF eqs = {} THEN [key |-> run, value |-> <<>>, only |-> TRUE]
    ELSE [key |-> SubSeq(run, 1, Max(eqs) - 1), value |-> SubSeq(run, Max(eqs) + 1, Len(run)),
          only |-> Max(eqs) = 1]

\* args_regex on one run: the key is greedy, and has at least one character.
Arg(run) ==
    LET eqs == {k \in 2..Len(run) : run[k] = "="} IN
    IF eqs = {} THEN [key |-> run, value |-> <<>>, only |-> TRUE]
    ELSE [key |-> SubSeq(run, 1, Max(eqs) - 1), value |-> SubSeq(run, Max(eqs) + 1, Len(run)),
          only |-> FALSE]

Args(s) == LET runs == Runs(s) IN [i \in DOMAIN runs |-> Arg(runs[i])]

\* The arguments are taken apart first and decoded afterwards.
decode_uri_args(s) ==
    LET args == Args(s)
    IN  [i \in DOMAIN args |-> [key |-> decode_str(args[i].key),
                               value |-> decode_str(args[i].value), only |-> args[i].only]]

\* unordered_map::emplace: what is there stays.
Emplace(pairs, k, v) == IF \E p \in pairs : p[1] = k THEN pairs ELSE pairs \cup {<<k, v>>}
EmplaceAll(pairs, new) ==
    LET all[i \in 0..Len(new)] ==
            IF i = 0 THEN pairs ELSE Emplace(all[i - 1], new[i][1], new[i][2])
    IN  all[Len(new)]

-----------------------------------------------------------------------------
(* http::request *)

Fresh == [method |-> "unknown", version |-> "unknown", uri |-> <<>>, path |-> <<>>,
          args |-> <<>>, host |-> "", port |-> default_port, content_length |-> 0,
          keep_alive |-> FALSE, cookies |-> {}, parsed_headers |-> <<>>,
          unparsed_headers |-> <<>>]

\* Mutant of reset: the cookies of the last request stay.
reset_keeps_cookies(r) == [Fresh EXCEPT !.cookies = r.cookies]

\* Everything but the client's address.
reset(r) == Fresh

Throw(e) == /\ error' = e /\ stage' = "failed"

\* process_stream: a new request on the connection.
process_stream ==
    /\ stage \in {"idle", "done", "answered"} /\ count < MaxRequests
    /\ stage = "idle" \/ request.keep_alive
    /\ request' = reset(request)
    /\ stage' = "start" /\ count' = count + 1
    /\ start' = <<>> /\ headers' = <<>> /\ form' = <<>> /\ fields' = {}
    /\ UNCHANGED error

process_start_string(line) ==
    /\ stage = "start"
    /\ start' = <<line>>
    /\ LET method  == str_to_method(line.method)
           version == str_to_version(line.version)
           named   == [request EXCEPT !.method = method]
       IN
       \/ ~line.proper /\ Throw("incorrect_start_string") /\ UNCHANGED request
       \/ /\ line.proper /\ line.protocol # "HTTP"
          /\ Throw("incorrect_protocol") /\ request' = named
       \/ /\ line.proper /\ line.protocol = "HTTP" /\ version # "v_1_1"
          /\ Throw("unsupported_protocol_version")
          /\ request' = [named EXCEPT !.version = version]
       \/ /\ line.proper /\ line.protocol = "HTTP" /\ version = "v_1_1"
          /\ request' = [named EXCEPT !.version = version, !.uri = line.uri]
          /\ stage' = "headers" /\ UNCHANGED error
    /\ UNCHANGED <<headers, count, form, fields>>

Processors == {"Content-Length", "Connection", "Host", "Cookie"}

\* process_header_fn_map.  Of two lines the later one wins, but a host without a
\* port leaves the port as it is, and the first cookie of a name stays.
process_header(r, line) ==
    CASE line.name = "Content-Length" -> [r EXCEPT !.content_length = line.number]
      [] line.name = "Connection" -> [r EXCEPT !.keep_alive = (line.text = "keep-alive")]
      [] line.name = "Host" -> [r EXCEPT !.host = line.text,
                                         !.port = IF line.with_port THEN line.number ELSE @]
      [] line.name = "Cookie" -> [r EXCEPT !.cookies = EmplaceAll(@, line.cookies)]

\* Mutant of Bad: the exceptions of the processors are swallowed.
Bad_line_only(line) == line.kind = "bad"

\* incorrect_header_string: no header, or its processor throws.
Bad(line) ==
    \/ line.kind = "bad"
    \/ line.kind = "header" /\ line.name \in Processors /\ ~line.value_ok

\* Until the first line that is blank.
process_header_string(line) ==
    /\ stage = "headers"
    /\ line.kind # "blank" => Len(headers) < MaxHeaders
    /\ headers' = Append(headers, line)
    /\ \/ line.kind = "blank" /\ stage' = "uri" /\ UNCHANGED <<request, error>>
       \/ Bad(line) /\ Throw("incorrect_header_string") /\ UNCHANGED request
       \/ /\ line.kind = "header" /\ ~Bad(line)
          /\ request' = IF line.name \in Processors
                        THEN [process_header(request, line)
                                 EXCEPT !.parsed_headers = Append(@, line.name)]
                        ELSE [request EXCEPT !.unparsed_headers = Append(@, line.name)]
          /\ UNCHANGED <<stage, error>>
    /\ UNCHANGED <<start, count, form, fields>>

\* base_regex: a path of at least one character, and what follows the first "?".
process_uri(r) ==
    LET marks == {k \in DOMAIN r.uri : r.uri[k] = "?"}
        mark  == IF marks = {} THEN Len(r.uri) + 1 ELSE Min(marks)
    IN  [r EXCEPT !.path = SubSeq(r.uri, 1, mark - 1),
                  !.args = Args(SubSeq(r.uri, mark + 1, Len(r.uri)))]

\* The end of process_stream: the URI, and whether a body may follow.  Room is made
\* for all of it: resize throws length_error or bad_alloc.
ProcessUri ==
    /\ stage = "uri"
    /\ \/ process_uri(request).path = <<>> /\ Throw("uri_parse_error") /\ UNCHANGED request
       \/ /\ process_uri(request).path # <<>>
          /\ request' = process_uri(request)
          /\ \/ /\ request.content_length > 0 /\ request.method # "POST"
                /\ Throw("content_length_must_be_0")
             \/ /\ request.content_length > BodyLimit /\ request.method = "POST"
                /\ Throw("std_exception")
             \/ /\ request.content_length = 0
                   \/ (request.method = "POST" /\ request.content_length <= BodyLimit)
                /\ stage' = "done" /\ UNCHANGED error
    /\ UNCHANGED <<start, headers, count, form, fields>>

\* The browser (external): a form as the body of a request.
Encoded(t) ==
    IF t = " " THEN "+"
    ELSE IF t \in Separators \cup {"=", "+", "%"} THEN CHOOSE e \in DOMAIN Escaped : Escaped[e] = t
    ELSE t
Encode(s) == [i \in DOMAIN s |-> Encoded(s[i])]
EncodedField(p) == Append(Encode(p[1]), "=") \o Encode(p[2])
EncodedForm(f) ==
    FlattenSeq([i \in DOMAIN f |-> IF i = 1 THEN EncodedField(f[i]) ELSE <<"&">> \o EncodedField(f[i])])

\* A form: fields with a name, of characters that stand for themselves.
FormType == LET Char == STRING \ DOMAIN Escaped IN Seq((Seq(Char) \ {<<>>}) \X Seq(Char))

ASSUME FormsAssumption == FormsSent \subseteq FormType

\* login and registration: what they read from the body that holds a form; a key
\* without a value is passed over.
FieldsOf ==
    [f \in FormsSent |->
        LET args == decode_uri_args(EncodedForm(f))
        IN  EmplaceAll({}, FlattenSeq([i \in DOMAIN args |->
                IF args[i].only THEN <<>> ELSE <<<<args[i].key, args[i].value>>>>]))]

ReadForm ==
    /\ stage = "done" /\ request.method = "POST" /\ request.content_length > 0
    /\ \E f \in FormsSent : form' = f /\ fields' = FieldsOf[f]
    /\ stage' = "answered"
    /\ UNCHANGED <<request, error, start, headers, count>>

Init ==
    /\ request = Fresh /\ stage = "idle" /\ error = "none"
    /\ start = <<>> /\ headers = <<>> /\ count = 0 /\ form = <<>> /\ fields = {}

Next ==
    \/ process_stream
    \/ \E l \in StartLines : process_start_string(l)
    \/ \E l \in HeaderLines : process_header_string(l)
    \/ ProcessUri
    \/ ReadForm

Spec == Init /\ [][Next]_vars

-----------------------------------------------------------------------------
(* Properties *)

Errors == {"incorrect_start_string", "incorrect_protocol", "unsupported_protocol_version",
           "incorrect_header_string", "uri_parse_error", "content_length_must_be_0",
           "std_exception"}

TypeOK ==
    /\ stage \in {"idle", "start", "headers", "uri", "done", "answered", "failed"}
    /\ error \in Errors \cup {"none"}
    /\ request.method \in {"unknown", "GET", "HEAD", "POST", "DELETE"}
    /\ request.version \in {"unknown", "v_1_1"}
    /\ request.port \in Nat /\ request.content_length \in Nat
    /\ request.uri \in Seq(STRING) /\ request.path \in Seq(STRING)
    /\ request.keep_alive \in BOOLEAN
    /\ Len(start) <= 1 /\ Len(headers) <= MaxHeaders + 1
    /\ count \in 0..MaxRequests

\* The header lines of a name, and the last of some lines.
Named(lines, name) == {i \in DOMAIN lines : lines[i].kind = "header" /\ lines[i].name = name}
NoHeader == [number |-> 0, text |-> ""]
LastOf(lines, places) == IF places = {} THEN NoHeader ELSE lines[Max(places)]

\* The cookies that came first under their names: each is sent in a line, at a place.
Sent(lines) == UNION {{<<i, j>> : j \in DOMAIN lines[i].cookies} : i \in Named(lines, "Cookie")}
Cookie(lines, at) == lines[at[1]].cookies[at[2]]
Before(a, b) == a[1] < b[1] \/ (a[1] = b[1] /\ a[2] < b[2])
FirstCookies(lines) ==
    LET sent == Sent(lines)
        IsFirst(c) == \A a \in sent : Before(a, c) => Cookie(lines, a)[1] # Cookie(lines, c)[1]
    IN  {Cookie(lines, b) : b \in {c \in sent : IsFirst(c)}}

\* What a request says is said by its own lines, and by nothing an earlier request
\* of the connection left behind; a header that comes again overrides the earlier
\* one, except that a cookie keeps its first value and a port outlives its host.
ParsedIsOwn ==
    stage \in {"done", "answered"} =>
        LET hosts == Named(headers, "Host")
            ports == {i \in hosts : headers[i].with_port}
        IN  /\ request.method = str_to_method(start[1].method) /\ request.uri = start[1].uri
            /\ request.content_length = LastOf(headers, Named(headers, "Content-Length")).number
            /\ request.keep_alive =
                  (LastOf(headers, Named(headers, "Connection")).text = "keep-alive")
            /\ request.host = LastOf(headers, hosts).text
            /\ request.port = IF ports = {} THEN default_port ELSE LastOf(headers, ports).number
            /\ request.cookies = FirstCookies(headers)
            /\ Len(request.parsed_headers) + Len(request.unparsed_headers) = Len(headers) - 1

\* A request is refused for its first bad line, whatever else is wrong with it;
\* one without a bad line is refused only for its URI, a body it may not have, or one
\* that there is no room for; and no body is waited for without room.
RefusedForCause ==
    stage \notin {"idle", "start"} =>
        /\ \A i \in 1..Len(headers) - 1 :
              headers[i].kind = "header" /\ (headers[i].name \in Processors => headers[i].value_ok)
        /\ (error = "incorrect_header_string") =
              (headers # <<>> /\ LET l == Last(headers) IN
                   l.kind = "bad" \/ (l.kind = "header" /\ l.name \in Processors /\ ~l.value_ok))
        /\ headers # <<>> =>
              start[1].proper /\ start[1].protocol = "HTTP" /\ start[1].version = "1.1"
        /\ error = "content_length_must_be_0" =>
              /\ request.method # "POST"
              /\ \E i \in DOMAIN headers : headers[i].name = "Content-Length"
        /\ error = "std_exception" =>
              /\ request.method = "POST"
              /\ \E i \in DOMAIN headers :
                    headers[i].name = "Content-Length" /\ headers[i].number > BodyLimit
        /\ stage \in {"done", "answered"} => request.content_length <= BodyLimit

\* The tokens of a text that are no separators.
Text(s) == FlattenSeq([i \in DOMAIN s |-> IF s[i] \in Separators THEN <<>> ELSE <<s[i]>>])

\* Nothing of a URI is lost but separators: it is the path, up to the first "?", and
\* of every run after it a key with its value or a key alone; no key is empty.
Shown(a) == IF a.only THEN a.key ELSE Append(a.key, "=") \o a.value
ArgsComplete ==
    stage = "done" =>
        LET uri  == request.uri
            n    == Len(request.path)
            args == [i \in DOMAIN request.args |-> Shown(request.args[i])]
        IN  /\ n > 0 /\ n <= Len(uri) /\ request.path = SubSeq(uri, 1, n)
            /\ \A i \in 1..n : uri[i] # "?"
            /\ n < Len(uri) => uri[n + 1] = "?"
            /\ \A i \in DOMAIN request.args : request.args[i].key # <<>>
            /\ FlattenSeq(args) = Text(SubSeq(uri, n + 2, Len(uri)))

\* What a browser encodes, the hosts decode: every key with its first value, also
\* where keys and values hold the characters that structure the form.
FormRoundTrip == stage = "answered" => fields = EmplaceAll({}, form)
=============================================================================
