----------------------------- MODULE HttpFormat -----------------------------
(***************************************************************************)
(* brynet::net::HttpRequest and HttpResponse: what getResult puts on the   *)
(* wire.  The wire is a sequence of symbols, records of a text c and a     *)
(* number n.  A symbol is a character where the parser looks at single     *)
(* characters (separators, digits, URLs) and a piece of a word where it    *)
(* matches one: names of headers and methods have two pieces, so that they *)
(* can be cut by the end of a read.                                        *)
(***************************************************************************)
EXTENDS Integers, Sequences, SequencesExt

Ch(c)       == [c |-> c, n |-> 0]
Digit(n)    == [c |-> "digit", n |-> n]
Text(words) == [i \in 1..Len(words) |-> Ch(words[i])]

CRLF == Text(<<"CR", "LF">>)

\* std::to_string of a length below 100.
to_string(n) == IF n < 10 THEN <<Digit(n)>> ELSE <<Digit(n \div 10), Digit(n % 10)>>

\* Names of headers and values the parser knows.
Connection == Text(<<"Con", "nection">>)
ContentLength == Text(<<"Con", "tent-Length">>)
TransferEncoding == Text(<<"Trans", "fer-Encoding">>)
Upgrade == Text(<<"Up", "grade">>)
SecWebSocketKey == Text(<<"Sec-", "WebSocket-Key">>)
Host == Text(<<"Ho", "st">>)
KeepAlive == Text(<<"keep-", "alive">>)
Close == Text(<<"cl", "ose">>)
Chunked == Text(<<"chun", "ked">>)

addHeadValue(m, name, value) ==
    [m EXCEPT !.heads = {h \in @ : h.name # name} \cup {[name |-> name, value |-> value]}]

setBody(m, body) ==
    addHeadValue([m EXCEPT !.body = body], ContentLength, to_string(Len(body)))

\* The map of headers has no order of its own; SetToSeq stands for its order.
HeaderLines(heads) ==
    FlattenSeq([i \in 1..Len(SetToSeq(heads)) |->
                   LET h == SetToSeq(heads)[i] IN
                   h.name \o Text(<<":", " ">>) \o h.value \o CRLF])

\* method is the sequence of the pieces of its name.  HEAD comes from other
\* clients: setMethod asserts that this one does not use it.
HttpRequest(method, url, query) ==
    [method |-> Text(method), url |-> Text(url), query |-> Text(query), heads |-> {}, body |-> <<>>]

getRequest(m) ==
    m.method \o Text(<<" ">>) \o m.url
    \o (IF m.query = <<>> THEN <<>> ELSE Text(<<"?">>) \o m.query)
    \o Text(<<" ", "H", "TTP/">>) \o <<Digit(1), Ch("."), Digit(1)>> \o CRLF
    \o HeaderLines(m.heads) \o CRLF \o m.body

HttpResponse(status) == [status |-> status, heads |-> {}, body |-> <<>>]

\* The case of OK falls through into the default: "200 OKUNKNOWN"; the other
\* status, NONE, is written "0UNKNOWN", which is no status line.
getResponse(m) ==
    Text(<<"H", "TTP/">>) \o <<Digit(1), Ch("."), Digit(1), Ch(" ")>>
    \o (IF m.status = 200
        THEN <<Digit(2), Digit(0), Digit(0)>> \o Text(<<" ", "OK">>)
        ELSE <<Digit(0)>>)
    \o Text(<<"UNKNOWN">>) \o CRLF
    \o HeaderLines(m.heads) \o CRLF \o m.body
=============================================================================
