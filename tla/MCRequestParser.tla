-------------------------- MODULE MCRequestParser --------------------------
(* A small instance of RequestParser for TLC. *)
EXTENDS RequestParser

Line(method, protocol, version, uri) ==
    [proper |-> TRUE, method |-> method, protocol |-> protocol, version |-> version, uri |-> uri]

\* A path alone; keys with and without values, and "=" in each place; no path.
SomeStarts ==
    {Line("GET", "HTTP", "1.1", <<"a">>),
     Line("POST", "HTTP", "1.1", <<"a", "?", "a", "=", "a", "=", "%3D", "&", "+">>),
     Line("PUT", "HTTP", "1.1", <<"a", "&", "?", "&", "=", "a", "?", "=", "=", "&", "&", "%">>),
     Line("GET", "HTTP", "1.1", <<"?", "a">>),
     Line("GET", "HTTP", "1.0", <<"a">>), Line("GET", "FTP", "1.0", <<"a">>),
     [Line("GET", "HTTP", "1.1", <<"a">>) EXCEPT !.proper = FALSE]}

Header(name, number, text) ==
    [kind |-> "header", name |-> name, value_ok |-> TRUE, number |-> number, text |-> text,
     with_port |-> FALSE, cookies |-> <<>>]
Host(text, port) == [Header("Host", port, text) EXCEPT !.with_port = TRUE]
Cookies(s) == [Header("Cookie", 0, "") EXCEPT !.cookies = s]
Wrong(line) == [line EXCEPT !.value_ok = FALSE]

SomeHeaders ==
    {Header("Content-Length", 0, ""), Header("Content-Length", 2, ""),
     Header("Connection", 0, "keep-alive"), Header("Connection", 0, "close"),
     Header("Content-Length", 9, ""),
     Header("Host", 0, "x"), Host("x", 0), Host("y", 8080), Wrong(Header("Host", 0, "")),
     Cookies(<<<<"sid", "1">>>>), Cookies(<<<<"a", "1">>, <<"sid", "2">>>>),
     Header("Accept", 0, ""), [Header("", 0, "") EXCEPT !.kind = "bad"],
     [Header("", 0, "") EXCEPT !.kind = "blank"]}

SomeTexts == {<<"a">>, <<"=", "&">>, <<"+", " ">>, <<"?", "%">>}
SomePairs == SomeTexts \X (SomeTexts \cup {<<>>})
SomeForms == {<<p>> : p \in SomePairs}
             \cup {<<p, q>> : p \in SomeTexts \X {<<"a">>, <<"%", "+">>}, q \in SomePairs}
=============================================================================
