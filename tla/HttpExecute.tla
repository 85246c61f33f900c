----------------------------- MODULE HttpExecute ----------------------------
(***************************************************************************)
(* http_parser_execute of http_parser.c (a strict build), one operator per *)
(* group of states: from the parser and the next symbol to the parser      *)
(* after it.  Words the parser matches letter by letter (HTTP/, methods,   *)
(* names and values of headers) are matched piece by piece.                *)
(***************************************************************************)
EXTENDS HttpParser

CONSTANT HTTP_MAX_HEADER_SIZE

\* goto error: the symbol is not consumed, and no later one will be.
Fail(p, e) == [p EXCEPT !.http_errno = e]
To(p, s)   == [p EXCEPT !.state = s]

STRICT_CHECK(p, ok, q) == IF ok THEN q ELSE Fail(p, "HPE_STRICT")

http_message_needs_eof(p) ==
    /\ p.type # "HTTP_REQUEST"
    /\ p.status_code \div 100 # 1 /\ p.status_code \notin {204, 304}
    /\ "F_SKIPBODY" \notin p.flags
    /\ "F_CHUNKED" \notin p.flags /\ p.content_length = NoLength

http_should_keep_alive(p) ==
    /\ IF p.http_major > 0 /\ p.http_minor > 0 THEN "F_CONNECTION_CLOSE" \notin p.flags
                                               ELSE "F_CONNECTION_KEEP_ALIVE" \in p.flags
    /\ ~http_message_needs_eof(p)

\* NEW_MESSAGE and message_complete
Complete(p) ==
    sMessageEnd(To(p, IF ~http_should_keep_alive(p) THEN "s_dead"
                      ELSE IF p.type = "HTTP_REQUEST" THEN "s_start_req" ELSE "s_start_res"))

-----------------------------------------------------------------------------
(* The beginning of a message.                                             *)

IsEol(ch) == ch.c \in {"CR", "LF"}

Fresh(p) == [p EXCEPT !.flags = {}, !.content_length = NoLength]

\* A method is known by its first letter until the rest tells it apart.
FirstLetters == [G |-> "GET", P |-> "POST", H |-> "HEAD", C |-> "CONNECT", D |-> "DELETE"]
MethodRest ==
    [GET |-> [ET |-> "GET"], POST |-> [OST |-> "POST", UT |-> "PUT"], HEAD |-> [EAD |-> "HEAD"],
     CONNECT |-> [ONNECT |-> "CONNECT", OPY |-> "COPY"], DELETE |-> [ELETE |-> "DELETE"]]

StartReq(p, ch) ==
    IF IsEol(ch) THEN p
    ELSE IF ch.c \notin DOMAIN FirstLetters THEN Fail(Fresh(p), "HPE_INVALID_METHOD")
    ELSE sMessageBegin([Fresh(p) EXCEPT !.method = FirstLetters[ch.c], !.index = 1,
                                        !.state = "s_req_method"])

\* index is 1 after the first letter and 2 at the end of the name.
ReqMethod(p, ch) ==
    IF p.index = 2
    THEN IF ch.c = " " THEN To(p, "s_req_spaces_before_url") ELSE Fail(p, "HPE_INVALID_METHOD")
    ELSE IF ch.c \in DOMAIN MethodRest[p.method]
         THEN [p EXCEPT !.method = MethodRest[@][ch.c], !.index = 2]
         ELSE Fail(p, "HPE_INVALID_METHOD")

Start(p, ch) ==
    CASE p.state = "s_dead" -> IF IsEol(ch) THEN p ELSE Fail(p, "HPE_CLOSED_CONNECTION")
      [] p.state = "s_start_req_or_res" ->
            IF IsEol(ch) THEN p
            ELSE IF ch.c = "H" THEN sMessageBegin(To(Fresh(p), "s_res_or_resp_H"))
            ELSE StartReq([p EXCEPT !.type = "HTTP_REQUEST", !.state = "s_start_req"], ch)
      [] p.state = "s_res_or_resp_H" ->
            IF ch.c = "TTP/" THEN [p EXCEPT !.type = "HTTP_RESPONSE", !.state = "s_res_first_http_major"]
            ELSE IF ch.c = "EAD"
            THEN [p EXCEPT !.type = "HTTP_REQUEST", !.method = "HEAD", !.index = 2, !.state = "s_req_method"]
            ELSE Fail(p, "HPE_INVALID_CONSTANT")
      [] p.state = "s_start_res" ->
            IF ch.c = "H" THEN sMessageBegin(To(Fresh(p), "s_res_H"))
            ELSE IF IsEol(ch) THEN sMessageBegin(Fresh(p))
            ELSE Fail(Fresh(p), "HPE_INVALID_CONSTANT")
      [] p.state = "s_start_req" -> StartReq(p, ch)
      [] p.state = "s_req_method" -> ReqMethod(p, ch)

-----------------------------------------------------------------------------
(* The URL, the version and the status line.                               *)

UrlChar(p, ch) ==
    LET s == parse_url_char(p.state, ch) IN
    IF s = "s_dead" THEN Fail(p, "HPE_INVALID_URL") ELSE sUrlHandle(To(p, s), ch)

ReqUrl(p, ch) ==
    CASE p.state = "s_req_spaces_before_url" ->
            IF ch.c = " " THEN p
            ELSE UrlChar(IF p.method = "CONNECT" THEN To(p, "s_req_server_start") ELSE p, ch)
      [] p.state \in {"s_req_schema", "s_req_schema_slash", "s_req_schema_slash_slash",
                      "s_req_server_start"} -> UrlChar(p, ch)
      [] OTHER ->
            CASE ch.c = " " -> To(p, "s_req_http_start")
              [] ch.c = "CR" -> [p EXCEPT !.http_major = 0, !.http_minor = 9, !.state = "s_req_line_almost_done"]
              [] ch.c = "LF" -> [p EXCEPT !.http_major = 0, !.http_minor = 9, !.state = "s_header_field_start"]
              [] OTHER -> UrlChar(p, ch)

\* A digit more of a number of at most three; e when there is none.
More(p, n, ch, q, e) == IF IS_NUM(ch) /\ n * 10 + ch.n <= 999 THEN q ELSE Fail(p, e)

ReqVersion(p, ch) ==
    CASE p.state = "s_req_http_start" ->
            IF ch.c = "H" THEN To(p, "s_req_http_H")
            ELSE IF ch.c = " " THEN p ELSE Fail(p, "HPE_INVALID_CONSTANT")
      [] p.state = "s_req_http_H" -> STRICT_CHECK(p, ch.c = "TTP/", To(p, "s_req_first_http_major"))
      [] p.state = "s_req_first_http_major" ->
            IF IS_NUM(ch) /\ ch.n # 0 THEN [p EXCEPT !.http_major = ch.n, !.state = "s_req_http_major"]
                                      ELSE Fail(p, "HPE_INVALID_VERSION")
      [] p.state = "s_req_http_major" ->
            IF ch.c = "." THEN To(p, "s_req_first_http_minor")
            ELSE More(p, p.http_major, ch, [p EXCEPT !.http_major = @ * 10 + ch.n], "HPE_INVALID_VERSION")
      [] p.state = "s_req_first_http_minor" ->
            IF IS_NUM(ch) THEN [p EXCEPT !.http_minor = ch.n, !.state = "s_req_http_minor"]
                          ELSE Fail(p, "HPE_INVALID_VERSION")
      [] p.state = "s_req_http_minor" ->
            IF ch.c = "CR" THEN To(p, "s_req_line_almost_done")
            ELSE IF ch.c = "LF" THEN To(p, "s_header_field_start")
            ELSE More(p, p.http_minor, ch, [p EXCEPT !.http_minor = @ * 10 + ch.n], "HPE_INVALID_VERSION")
      [] p.state = "s_req_line_almost_done" ->
            IF ch.c = "LF" THEN To(p, "s_header_field_start") ELSE Fail(p, "HPE_LF_EXPECTED")

ResVersion(p, ch) ==
    CASE p.state = "s_res_H" -> STRICT_CHECK(p, ch.c = "TTP/", To(p, "s_res_first_http_major"))
      [] p.state = "s_res_first_http_major" ->
            IF IS_NUM(ch) THEN [p EXCEPT !.http_major = ch.n, !.state = "s_res_http_major"]
                          ELSE Fail(p, "HPE_INVALID_VERSION")
      [] p.state = "s_res_http_major" ->
            IF ch.c = "." THEN To(p, "s_res_first_http_minor")
            ELSE More(p, p.http_major, ch, [p EXCEPT !.http_major = @ * 10 + ch.n], "HPE_INVALID_VERSION")
      [] p.state = "s_res_first_http_minor" ->
            IF IS_NUM(ch) THEN [p EXCEPT !.http_minor = ch.n, !.state = "s_res_http_minor"]
                          ELSE Fail(p, "HPE_INVALID_VERSION")
      [] p.state = "s_res_http_minor" ->
            IF ch.c = " " THEN To(p, "s_res_first_status_code")
            ELSE More(p, p.http_minor, ch, [p EXCEPT !.http_minor = @ * 10 + ch.n], "HPE_INVALID_VERSION")

EndOfStatusLine(p, ch) == To(p, IF ch.c = "CR" THEN "s_res_line_almost_done" ELSE "s_header_field_start")

ResStatus(p, ch) ==
    CASE p.state = "s_res_first_status_code" ->
            IF IS_NUM(ch) THEN [p EXCEPT !.status_code = ch.n, !.state = "s_res_status_code"]
            ELSE IF ch.c = " " THEN p ELSE Fail(p, "HPE_INVALID_STATUS")
      [] p.state = "s_res_status_code" ->
            IF ch.c = " " THEN To(p, "s_res_status_start")
            ELSE IF IsEol(ch) THEN EndOfStatusLine(p, ch)
            ELSE More(p, p.status_code, ch, [p EXCEPT !.status_code = @ * 10 + ch.n], "HPE_INVALID_STATUS")
      [] p.state \in {"s_res_status_start", "s_res_status"} ->
            IF IsEol(ch) THEN EndOfStatusLine(p, ch) ELSE sStatusHandle(To(p, "s_res_status"), ch)
      [] p.state = "s_res_line_almost_done" ->
            STRICT_CHECK(p, ch.c = "LF", To(p, "s_header_field_start"))

-----------------------------------------------------------------------------
(* The end of a message and the body.                                      *)

MessageDone(p) == [Complete(p) EXCEPT !.exit = p.upgrade]

HeadersDone(p) ==
    LET q       == [p EXCEPT !.nread = 0]
        hasBody == "F_CHUNKED" \in p.flags \/ p.content_length \notin {0, NoLength} IN
    CASE p.upgrade /\ (p.method = "CONNECT" \/ ~hasBody) -> [Complete(q) EXCEPT !.exit = TRUE]
      [] "F_CHUNKED" \in p.flags -> To(q, "s_chunk_size_start")
      [] p.content_length = 0 -> Complete(q)
      [] p.content_length # NoLength -> To(q, "s_body_identity")
      [] http_message_needs_eof(p) -> To(q, "s_body_identity_eof")
      [] OTHER -> Complete(q)

HeadersComplete(p) == IF p.result # 0 THEN Fail(p, "HPE_CB_headers_complete") ELSE HeadersDone(p)

HeadersAlmostDone(p, ch) ==
    IF ch.c # "LF" THEN Fail(p, "HPE_STRICT")
    ELSE IF "F_TRAILING" \in p.flags THEN MessageDone(p)
    ELSE HeadersComplete(sHeadComplete(
            [p EXCEPT !.state = "s_headers_done",
                      !.upgrade = {"F_UPGRADE", "F_CONNECTION_UPGRADE"} \subseteq p.flags
                                      \/ p.method = "CONNECT"]))

\* The last symbol of a chunk or of the body is forgotten to be counted.
BodyRead_OffByOne(p, ch) ==
    LET q == sBodyHandle([p EXCEPT !.content_length = @ - 1], ch) IN
    CASE p.state = "s_body_identity_eof" -> sBodyHandle(p, ch)
      [] p.content_length > 0 -> q
      [] p.state = "s_body_identity" -> MessageDone(q)
      [] p.state = "s_chunk_data" -> To(q, "s_chunk_data_almost_done")

BodyRead(p, ch) ==
    LET q == sBodyHandle([p EXCEPT !.content_length = @ - 1], ch) IN
    CASE p.state = "s_body_identity_eof" -> sBodyHandle(p, ch)
      [] p.content_length > 1 -> q
      [] p.state = "s_body_identity" -> MessageDone(q)
      [] p.state = "s_chunk_data" -> To(q, "s_chunk_data_almost_done")

unhex(ch) == IF IS_NUM(ch) THEN ch.n ELSE IF ch.c = "a" THEN 10 ELSE IF ch.c = "b" THEN 11 ELSE -1

ChunkFrame(p, ch) ==
    CASE p.state = "s_chunk_size_start" ->
            IF unhex(ch) = -1 THEN Fail(p, "HPE_INVALID_CHUNK_SIZE")
            ELSE [p EXCEPT !.content_length = unhex(ch), !.state = "s_chunk_size"]
      [] p.state = "s_chunk_size" ->
            IF ch.c = "CR" THEN To(p, "s_chunk_size_almost_done")
            ELSE IF ch.c \in {";", " "} THEN To(p, "s_chunk_parameters")
            ELSE IF unhex(ch) = -1 THEN Fail(p, "HPE_INVALID_CHUNK_SIZE")
            ELSE [p EXCEPT !.content_length = @ * 16 + unhex(ch)]
      [] p.state = "s_chunk_parameters" -> IF ch.c = "CR" THEN To(p, "s_chunk_size_almost_done") ELSE p
      [] p.state = "s_chunk_size_almost_done" ->
            STRICT_CHECK(p, ch.c = "LF",
                IF p.content_length = 0
                THEN [p EXCEPT !.nread = 0, !.flags = @ \cup {"F_TRAILING"}, !.state = "s_header_field_start"]
                ELSE [p EXCEPT !.nread = 0, !.state = "s_chunk_data"])
      [] p.state = "s_chunk_data_almost_done" -> STRICT_CHECK(p, ch.c = "CR", To(p, "s_chunk_data_done"))
      [] p.state = "s_chunk_data_done" ->
            STRICT_CHECK(p, ch.c = "LF", [p EXCEPT !.nread = 0, !.state = "s_chunk_size_start"])

-----------------------------------------------------------------------------
(* The headers.                                                            *)

TOKEN(ch) == ch.c \notin {"CR", "LF", " ", ":", "/", "?", "@", ","}

\* What the first piece of a name may become, and what the second makes of it.
FirstPiece  == [Con |-> "h_CON", Proxy |-> "h_matching_proxy_connection",
                Trans |-> "h_matching_transfer_encoding", Up |-> "h_matching_upgrade"]
SecondPiece == {<<"h_CON", "nection", "h_connection">>,
                <<"h_CON", "tent-Length", "h_content_length">>,
                <<"h_matching_proxy_connection", "-Connection", "h_connection">>,
                <<"h_matching_transfer_encoding", "fer-Encoding", "h_transfer_encoding">>,
                <<"h_matching_upgrade", "grade", "h_upgrade">>}

HeaderFieldStart(p, ch) ==
    IF ch.c = "CR" THEN To(p, "s_headers_almost_done")
    ELSE IF ch.c = "LF" THEN HeadersAlmostDone(p, ch)
    ELSE IF ~TOKEN(ch) THEN Fail(p, "HPE_INVALID_HEADER_TOKEN")
    ELSE sHeadField([p EXCEPT !.state = "s_header_field",
                              !.header_state = IF ch.c \in DOMAIN FirstPiece THEN FirstPiece[ch.c]
                                                                             ELSE "h_general"], ch)

\* header_state after a piece, by a table of <<state, piece, next state>>.
Matched(table, state, ch, otherwise) ==
    LET next == {row \in table : row[1] = state /\ row[2] = ch.c} IN
    IF next = {} THEN otherwise ELSE (CHOOSE row \in next : TRUE)[3]

\* A run of a name or of a value cut by the end of the buffer is counted once more.
COUNT_HEADER_SIZE(p, n) ==
    IF p.nread + n > HTTP_MAX_HEADER_SIZE THEN Fail(p, "HPE_HEADER_OVERFLOW")
    ELSE [p EXCEPT !.nread = @ + n]

HeaderField(p, ch, last) ==
    IF TOKEN(ch)
    THEN COUNT_HEADER_SIZE(
            sHeadField([p EXCEPT !.header_state = Matched(SecondPiece, @, ch, "h_general")], ch),
            IF last THEN 1 ELSE 0)
    ELSE IF ch.c = ":" THEN To(p, "s_header_value_discard_ws")
    ELSE Fail(p, "HPE_INVALID_HEADER_TOKEN")

\* The first piece of a value, and the ones that end the words looked for.
ValueStart == {<<"h_connection", "keep-", "h_matching_connection_keep_alive">>,
               <<"h_connection", "cl", "h_matching_connection_close">>,
               <<"h_connection", "Up", "h_matching_connection_upgrade">>,
               <<"h_transfer_encoding", "chun", "h_matching_transfer_encoding_chunked">>}
ValueEnd == {<<"h_matching_connection_keep_alive", "alive", "h_connection_keep_alive">>,
             <<"h_matching_connection_close", "ose", "h_connection_close">>,
             <<"h_matching_connection_upgrade", "grade", "h_connection_upgrade">>,
             <<"h_matching_transfer_encoding_chunked", "ked", "h_transfer_encoding_chunked">>}
Found == [h_connection_keep_alive |-> "F_CONNECTION_KEEP_ALIVE", h_connection_close |-> "F_CONNECTION_CLOSE",
          h_connection_upgrade |-> "F_CONNECTION_UPGRADE", h_transfer_encoding_chunked |-> "F_CHUNKED"]

HeaderValueStart(p, ch) ==
    LET q == sHeadValue(To(p, "s_header_value"), <<ch>>) IN
    CASE p.header_state = "h_upgrade" -> [q EXCEPT !.flags = @ \cup {"F_UPGRADE"}, !.header_state = "h_general"]
      [] p.header_state = "h_content_length" ->
            IF IS_NUM(ch) THEN [q EXCEPT !.content_length = ch.n] ELSE Fail(p, "HPE_INVALID_CONTENT_LENGTH")
      [] p.header_state = "h_connection" ->
            [q EXCEPT !.header_state = Matched(ValueStart, @, ch, "h_matching_connection_token")]
      [] p.header_state = "h_matching_connection_token_start" -> q
      [] OTHER -> [q EXCEPT !.header_state = Matched(ValueStart, @, ch, "h_general")]

\* header_state inside a value; the flag of a word of Connection is set at its comma.
ValueState(state, ch) ==
    CASE state = "h_matching_connection_token_start" ->
            IF ch.c = " " THEN state
            ELSE Matched(ValueStart, "h_connection", ch,
                         IF TOKEN(ch) THEN "h_matching_connection_token" ELSE "h_general")
      [] state = "h_matching_transfer_encoding_chunked" -> Matched(ValueEnd, state, ch, "h_general")
      [] state \in {"h_matching_connection_keep_alive", "h_matching_connection_close",
                    "h_matching_connection_upgrade"} ->
            Matched(ValueEnd, state, ch, "h_matching_connection_token")
      [] state \in {"h_connection_keep_alive", "h_connection_close", "h_connection_upgrade"} ->
            IF ch.c = "," THEN "h_matching_connection_token_start"
            ELSE IF ch.c = " " THEN state ELSE "h_matching_connection_token"
      [] state = "h_matching_connection_token" ->
            IF ch.c = "," THEN "h_matching_connection_token_start" ELSE state
      [] state = "h_transfer_encoding_chunked" -> IF ch.c = " " THEN state ELSE "h_general"
      [] state = "h_content_length" -> state
      [] OTHER -> "h_general"

FlagFound(p) == IF p.header_state \in DOMAIN Found THEN {Found[p.header_state]} ELSE {}

HeaderValue(p, ch, last) ==
    LET q == [sHeadValue(p, <<ch>>) EXCEPT !.header_state = ValueState(@, ch)]
        r == IF p.header_state = "h_content_length" /\ ch.c # " "
             THEN IF IS_NUM(ch) THEN [q EXCEPT !.content_length = @ * 10 + ch.n]
                                ELSE Fail(p, "HPE_INVALID_CONTENT_LENGTH")
             ELSE IF ch.c = "," /\ p.header_state # "h_transfer_encoding_chunked"
             THEN [q EXCEPT !.flags = @ \cup FlagFound(p)]
             ELSE q IN
    CASE ch.c = "CR" -> To(sHeadValue(p, <<>>), "s_header_almost_done")
      [] ch.c = "LF" -> To(sHeadValue(p, <<>>), "s_header_value_lws")
      [] r.http_errno # "HPE_OK" -> r
      [] OTHER -> COUNT_HEADER_SIZE(r, IF last THEN 1 ELSE 0)

HeaderValueEdges(p, ch) ==
    CASE p.state = "s_header_value_discard_ws" ->
            IF ch.c = " " THEN p
            ELSE IF ch.c = "CR" THEN To(p, "s_header_value_discard_ws_almost_done")
            ELSE IF ch.c = "LF" THEN To(p, "s_header_value_discard_lws")
            ELSE HeaderValueStart(p, ch)
      [] p.state = "s_header_almost_done" -> STRICT_CHECK(p, ch.c = "LF", To(p, "s_header_value_lws"))
      [] p.state = "s_header_value_lws" ->
            IF ch.c = " " THEN HeaderValueStart(p, ch)
            ELSE HeaderFieldStart([p EXCEPT !.flags = @ \cup FlagFound(p), !.state = "s_header_field_start"], ch)
      [] p.state = "s_header_value_discard_ws_almost_done" ->
            STRICT_CHECK(p, ch.c = "LF", To(p, "s_header_value_discard_lws"))
      [] p.state = "s_header_value_discard_lws" ->
            IF ch.c = " " THEN To(p, "s_header_value_discard_ws")
            ELSE HeaderFieldStart([sHeadValue(p, <<>>) EXCEPT !.flags = @ \cup FlagFound(p),
                                                              !.state = "s_header_field_start"], ch)

-----------------------------------------------------------------------------
(* The loop over the buffer.                                               *)

PARSING_HEADER(s) == s \notin {"s_chunk_data", "s_chunk_data_almost_done", "s_chunk_data_done",
                               "s_body_identity", "s_body_identity_eof"}

Dispatch(p, ch, last) ==
    LET s == p.state IN
    CASE s \in {"s_dead", "s_start_req_or_res", "s_res_or_resp_H", "s_start_res", "s_start_req",
                "s_req_method"} -> Start(p, ch)
      [] s \in {"s_res_H", "s_res_first_http_major", "s_res_http_major", "s_res_first_http_minor",
                "s_res_http_minor"} -> ResVersion(p, ch)
      [] s \in {"s_res_first_status_code", "s_res_status_code", "s_res_status_start", "s_res_status",
                "s_res_line_almost_done"} -> ResStatus(p, ch)
      [] s \in {"s_req_http_start", "s_req_http_H", "s_req_first_http_major", "s_req_http_major",
                "s_req_first_http_minor", "s_req_http_minor", "s_req_line_almost_done"} -> ReqVersion(p, ch)
      [] s = "s_header_field_start" -> HeaderFieldStart(p, ch)
      [] s = "s_header_field" -> HeaderField(p, ch, last)
      [] s = "s_header_value" -> HeaderValue(p, ch, last)
      [] s \in {"s_header_value_discard_ws", "s_header_almost_done", "s_header_value_lws",
                "s_header_value_discard_ws_almost_done", "s_header_value_discard_lws"} -> HeaderValueEdges(p, ch)
      [] s = "s_headers_almost_done" -> HeadersAlmostDone(p, ch)
      [] s \in {"s_body_identity", "s_body_identity_eof", "s_chunk_data"} -> BodyRead(p, ch)
      [] s \in {"s_chunk_size_start", "s_chunk_size", "s_chunk_parameters", "s_chunk_size_almost_done",
                "s_chunk_data_almost_done", "s_chunk_data_done"} -> ChunkFrame(p, ch)
      [] OTHER -> ReqUrl(p, ch)

\* One symbol: counted, and consumed unless it is refused.
Counted(p)  == IF PARSING_HEADER(p.state) THEN COUNT_HEADER_SIZE(p, 1) ELSE p
Consumed(p) == IF p.http_errno = "HPE_OK" THEN [p EXCEPT !.parsed = @ + 1] ELSE p
Execute(p, ch, last) == IF p.http_errno = "HPE_OK" THEN Dispatch(p, ch, last) ELSE p
Step(p, ch, last) == Consumed(Execute(Counted(p), ch, last))

\* Nothing is done after an error; p.parsed is the number of symbols consumed.
http_parser_execute(p, data) ==
    LET run[i \in 0..Len(data)] ==
            IF i = 0 THEN [p EXCEPT !.parsed = 0, !.exit = FALSE]
            ELSE LET q == run[i - 1] IN
                 IF q.http_errno # "HPE_OK" \/ q.exit THEN q ELSE Step(q, data[i], i = Len(data))
    IN run[Len(data)]
=============================================================================
