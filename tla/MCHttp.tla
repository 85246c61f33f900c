------------------------------- MODULE MCHttp -------------------------------
(***************************************************************************)
(* Streams for HttpService.                                                *)
(***************************************************************************)
EXTENDS HttpService

Part(kind, m, sym) == [kind |-> kind, m |-> m, sym |-> sym]
Stream(parts, ws) ==
    LET sym(i) == FlattenSeq([j \in 1..i |-> parts[j].sym]) IN
    [sym   |-> sym(Len(parts)),
     parts |-> [i \in 1..Len(parts) |-> [kind |-> parts[i].kind, m |-> parts[i].m, end |-> Len(sym(i))]],
     ws    |-> ws]
Plain(parts) == Stream(parts, <<>>)

\* A request and what the user is to see of its URL.
Expect(r, path, query) ==
    [x \in DOMAIN r \cup {"path"} |-> IF x = "path" THEN Text(path) ELSE IF x = "query" THEN Text(query) ELSE r[x]]
With(r, name, value) == addHeadValue(r, name, value)
Request(kind, r, path, query) == Part(kind, Expect(r, path, query), getRequest(r))

Get    == With(HttpRequest(<<"G", "ET">>, <<"/", "a">>, <<"b", "?">>), Host, Text(<<"a">>))
Post   == setBody(With(HttpRequest(<<"P", "OST">>, <<"/">>, <<>>), Connection, KeepAlive), Text(<<"x", "CR", "y">>))
Put    == setBody(HttpRequest(<<"P", "UT">>, <<"a", ":", "/", "/", "b", "/", "a", "#", "b">>, <<>>), <<>>)
HeadRequest == With(HttpRequest(<<"H", "EAD">>, <<"*">>, <<>>), Host, <<>>)
Closing == With(With(HttpRequest(<<"D", "ELETE">>, <<"/">>, <<>>), Connection, Close), Host, Text(<<"a">>))
Connect == HttpRequest(<<"C", "ONNECT">>, <<"a">>, <<>>)
Long   == setBody(HttpRequest(<<"G", "ET">>, [i \in 1..HTTP_MAX_HEADER_SIZE |-> "/"], <<>>), <<>>)
Long10 == setBody(HttpRequest(<<"P", "OST">>, <<"/">>, <<>>), [i \in 1..10 |-> Ch("x")])

\* A request with a chunked body, sent by another implementation.
ChunkedRequest ==
    LET r == With(HttpRequest(<<"P", "OST">>, <<"/">>, <<>>), TransferEncoding, Chunked) IN
    Part("message", Expect([r EXCEPT !.body = Text(<<"x", "y", "x">>)], <<"/">>, <<>>),
         getRequest(r) \o <<Digit(2)>> \o CRLF \o Text(<<"x", "y">>) \o CRLF
                       \o <<Digit(1), Ch(";"), Ch("x")>> \o CRLF \o Text(<<"x">>) \o CRLF
                       \o <<Digit(0)>> \o CRLF \o CRLF)

\* HTTP/1.0 in a bare request line, lines ended by LF, a header over two lines.
Folded ==
    LET m == [method |-> <<>>, url |-> <<>>, path |-> Text(<<"/">>), query |-> <<>>, body |-> <<>>,
              heads |-> {[name |-> Connection, value |-> Text(<<"x", ",", " ", "keep-", "alive", " ", "b">>)]}] IN
    Part("message", m, Text(<<"G", "ET", " ", "/", "LF">>) \o Connection
                       \o Text(<<":", "x", ",", " ", "keep-", "alive", "LF", " ", "b", "LF", "LF">>))

OkResponse   == setBody(HttpResponse(200), Text(<<"x">>))
NoneResponse == setBody(HttpResponse(0), Text(<<"x">>))
Endless      == addHeadValue(HttpResponse(200), Host, Text(<<"a">>))
Response(kind, m) == Part(kind, m, getResponse(m))

UpgradeRequest ==
    With(With(With(HttpRequest(<<"G", "ET">>, <<"/">>, <<>>), Connection, KeepAlive \o Text(<<",", " ">>) \o Upgrade),
              Upgrade, Text(<<"x">>)), SecWebSocketKey, Text(<<"x">>))
Frame(payload, opcode, fin, key) == Part("frame", <<>>, wsFrameBuild(payload, opcode, fin, key))
Message(opcode, payload, at) == [opcode |-> opcode, payload |-> payload, at |-> at]

\* A text in three frames with a ping among them, then one frame of each form.
WsFragments ==
    Stream(<<Request("upgrade", UpgradeRequest, <<"/">>, <<>>),
                 Frame(<<1, 0>>, TEXT_FRAME, FALSE, <<1, 0, 0, 1>>),
                 Frame(<<>>, PING_FRAME, TRUE, <<>>),
                 Frame(<<>>, CONTINUATION_FRAME, FALSE, <<1, 1, 1, 1>>),
                 Frame(<<1>>, CONTINUATION_FRAME, TRUE, <<>>),
                 Frame(<<0, 255, 97, 128, 1>>, BINARY_FRAME, TRUE, <<55, 250, 33, 61>>)>>,
           <<Message(PING_FRAME, <<>>, 3), Message(TEXT_FRAME, <<1, 0, 1>>, 5),
              Message(BINARY_FRAME, <<0, 255, 97, 128, 1>>, 6)>>)

\* A payload as long as the code can build and not take apart.
WsTooLong ==
    Stream(<<Request("upgrade", UpgradeRequest, <<"/">>, <<>>),
                 Frame(<<1>>, TEXT_FRAME, TRUE, <<>>),
                 Part("unserved", <<>>, wsFrameBuild([i \in 1..Base^3 |-> 1], TEXT_FRAME, TRUE, <<>>)),
                 Frame(<<1>>, TEXT_FRAME, TRUE, <<>>)>>,
           <<Message(TEXT_FRAME, <<1>>, 2), Message(TEXT_FRAME, <<1>>, 4)>>)

MCStreams ==
    {Plain(<<Request("message", Get, <<"/", "a">>, <<"b", "?">>), Request("message", Post, <<>>, <<>>)>>),
     Plain(<<Request("message", Put, <<"/", "a">>, <<>>), Request("message", HeadRequest, <<>>, <<>>)>>),
     Plain(<<Request("message", HeadRequest, <<"*">>, <<>>), Request("message", Long10, <<>>, <<>>)>>),
     Plain(<<Request("message", Post, <<"/">>, <<>>), Request("close", Closing, <<>>, <<>>)>>),
     Plain(<<Request("close", Closing, <<"/">>, <<>>), Request("message", Get, <<>>, <<>>)>>),
     Plain(<<Request("unserved", Connect, <<>>, <<>>), Request("message", Get, <<>>, <<>>)>>),
     Plain(<<Request("unserved", Long, <<>>, <<>>)>>),
     Plain(<<ChunkedRequest, Folded>>), Plain(<<Folded, ChunkedRequest>>),
     Plain(<<Response("message", OkResponse), Response("message", OkResponse)>>),
     Plain(<<Response("unserved", NoneResponse)>>),
     Plain(<<Response("unserved", Endless)>>),
     WsFragments, WsTooLong}

\* Nothing is claimed once a read was pipelined: the search stops there.
Separate == ~pipelined

\* With the constants of the code every length at a boundary is read back.
WS == INSTANCE WebSocketFormat WITH Base <- 256, Small <- 125

ASSUME LengthsReadBack ==
    \A n \in {0, 1, 125, 126, 127, 255, 256, 65535, 65536, 65537, 16777216, 2147483647} :
        LET code   == WS!EncodeLength(n)
            length == WS!DecodeLength(<<WS!Byte(0)>> \o [i \in 1..Len(code) |-> WS!Byte(code[i])])
        IN length.ok = "ok" /\ length.len = n /\ length.pos = 1 + Len(code)
=============================================================================
